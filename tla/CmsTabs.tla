------------------------------ MODULE CmsTabs ------------------------------
(* The tabs of the blog's administration page (2019104279,                  *)
(* static/js/cms.js), one for each item of the menu that was clicked.  A    *)
(* tab is a title in one list and a frame in another; they belong together  *)
(* by their place in the lists, and carry the millisecond in which the tab  *)
(* was first made.  layui's element module (lay/modules/element.js, in one  *)
(* line) adds, selects and deletes them, and puts a mark among the titles   *)
(* when they are too wide for their list.                                   *)
EXTENDS Integers, Sequences, SequencesExt

CONSTANTS
    MaxRows,        \* bound: rows of the menu
    MaxClicks       \* bound: clicks of the user

ASSUME CmsTabsAssumption == MaxRows \in Nat /\ MaxClicks \in Nat

VARIABLES
    titles, frames,
    bar,        \* where the mark stands among the titles, 0 if there is none
    this,       \* the number of the selected title, 0 if none, or OnBar
    shown,      \* the place of the frame that is shown, 0 if none
    now,        \* the time, in clicks
    astray      \* history: what closing a tab at the mark has put in disorder

tabVars == <<titles, frames, bar, this, shown, now, astray>>

OnBar == -1         \* the mark is selected, which is no tab

(* What the items of the menu are numbered with.                            *)
Ids == 0 .. MaxRows

-----------------------------------------------------------------------------
place(list, tabindex) == {i \in DOMAIN list : list[i].tabindex = tabindex}

(* A list without what carries the number.                                  *)
without(list, tabindex) ==
    LET kept[n \in 0 .. Len(list)] ==
            IF n = 0 THEN <<>>
            ELSE IF list[n].tabindex = tabindex THEN kept[n - 1]
            ELSE Append(kept[n - 1], list[n])
    IN  kept[Len(list)]

(* Seeded fault: every tab has a close button.                              *)
hideFirst_Not(list) == list

(* The close button of the first title is hidden.                           *)
hideFirst(list) == [list EXCEPT ![1].closable = FALSE]

(* The list of titles holds the mark too: where the nth title stands in it, *)
(* and which title, or the mark, stands at a place.                         *)
behind(n) == bar # 0 /\ n >= bar
index(n) == IF behind(n) THEN n + 1 ELSE n
child(p) == IF p = bar THEN OnBar ELSE IF behind(p) THEN p - 1 ELSE p
children == Len(titles) + (IF bar = 0 THEN 0 ELSE 1)

(* Where i is once p is gone.                                               *)
moved(i, p) == IF i = p THEN 0 ELSE IF i > p THEN i - 1 ELSE i

(* tabAuto: the mark is appended when the titles overflow and there is none *)
(* yet, and removed when they do not; n titles are in the list.             *)
tabAuto(overflow, n, mark) ==
    IF ~overflow THEN 0 ELSE IF mark # 0 THEN mark ELSE n + 1

(* tabClick: the title is selected, and the frame shown that has the place  *)
(* given, if there is one.                                                  *)
tabClick(n, p, list, before) ==
    /\ this' = n
    /\ shown' = IF p \in DOMAIN list THEN p ELSE before
    /\ astray' = IF astray = "lists" THEN astray ELSE "no"

(* addTab: the tab of an item that has one is removed and made again, under *)
(* its old number, at the end and behind the mark; the new tab is selected. *)
addTab(id) ==
    LET old == {i \in DOMAIN frames : frames[i].id = id}
        gone == CHOOSE i \in old : TRUE
        tabindex == IF old = {} THEN now ELSE frames[gone].tabindex
        titles2 == Append(without(titles, tabindex),
                          [tabindex |-> tabindex, closable |-> TRUE])
        frames2 == Append(without(frames, tabindex), [tabindex |-> tabindex, id |-> id])
        mark == IF \E i \in place(titles, tabindex) : i < bar THEN bar - 1 ELSE bar
        n == CHOOSE i \in place(titles2, tabindex) : TRUE
    IN  /\ titles' = hideFirst(titles2)
        /\ frames' = frames2
        /\ \E overflow \in BOOLEAN : bar' = tabAuto(overflow, Len(titles2), mark)
        /\ tabClick(n, n, frames2, IF old = {} THEN shown ELSE moved(shown, gone))

clickMenu(id) ==
    /\ now < MaxClicks
    /\ addTab(id)
    /\ now' = now + 1

(* A click on a title: its place is counted among the titles alone.         *)
clickTitle ==
    /\ now < MaxClicks
    /\ \E n \in DOMAIN titles : tabClick(n, n, frames, shown)
    /\ now' = now + 1
    /\ UNCHANGED <<titles, frames, bar>>

(* tabDelete, a click on a close button: the place of the title is counted  *)
(* with the mark.  Of the selected title the next child of the list is      *)
(* selected first, or the one before, be it the mark; then the title goes,  *)
(* and the frame that has its place.                                        *)
tabDelete ==
    /\ now < MaxClicks
    /\ \E n \in {i \in DOMAIN titles : titles[i].closable} :
        LET p == index(n)
            next == IF p < children THEN p + 1 ELSE p - 1
            shown2 == IF this = n /\ next \in DOMAIN frames THEN next ELSE shown
        IN  /\ titles' = RemoveAt(titles, n)
            /\ bar' = IF n < bar THEN bar - 1 ELSE bar
            /\ this' = moved(IF this = n THEN child(next) ELSE this, n)
            /\ IF p \in DOMAIN frames
               THEN frames' = RemoveAt(frames, p) /\ shown' = moved(shown2, p)
               ELSE frames' = frames /\ shown' = shown2
            /\ astray' = IF behind(n) THEN "lists"
                         ELSE IF this = n /\ next = bar /\ astray = "no" THEN "selection"
                         ELSE astray
    /\ now' = now + 1

(* The window is resized, or 50 milliseconds have passed since a tab was    *)
(* closed: the titles are measured again.                                   *)
resize ==
    /\ titles # <<>>
    /\ \E overflow \in BOOLEAN : bar' = tabAuto(overflow, Len(titles), bar)
    /\ this' = IF bar' = 0 /\ this = OnBar THEN 0 ELSE this
    /\ UNCHANGED <<titles, frames, shown, now, astray>>

(* The page starts without a tab.                                           *)
CmsTabsInit ==
    /\ titles = <<>> /\ frames = <<>>
    /\ bar = 0 /\ this = 0 /\ shown = 0
    /\ now = 0 /\ astray = "no"

(* A step under a menu of these items.                                      *)
CmsTabsNext(items) ==
    \/ \E id \in items : clickMenu(id)
    \/ clickTitle
    \/ tabDelete
    \/ resize

(* The tabs under any menu.                                                 *)
CmsTabsSpec ==
    CmsTabsInit /\ [][\E items \in SUBSET Ids : CmsTabsNext(items)]_tabVars

-----------------------------------------------------------------------------
Title == [tabindex : Nat, closable : BOOLEAN]
Frame == [tabindex : Nat, id : Ids]

CmsTabsTypeOK ==
    /\ titles \in Seq(Title) /\ frames \in Seq(Frame)
    /\ bar \in 0 .. Len(titles) + 1
    /\ this \in OnBar .. Len(titles) /\ shown \in 0 .. Len(frames)
    /\ now \in 0 .. MaxClicks
    /\ astray \in {"no", "selection", "lists"}

(* From the first click on there is a page to look at: a tab is selected    *)
(* and the frame that is shown is the one of that tab and of its item.  No  *)
(* order of opening, opening again, selecting, closing and resizing leaves  *)
(* the tabs without one, or two frames for an item.  The mark of an         *)
(* overflowing list makes two exceptions: closing the selected tab right    *)
(* before it selects the mark, until a tab is selected again, and closing a *)
(* tab behind it takes away the frame of the tab after it, or none.         *)
SelectedTabIsShown ==
    /\ titles = <<>> => now = 0
    /\ \A i, j \in DOMAIN frames : frames[i].id = frames[j].id => i = j
    /\ astray # "lists" =>
          /\ Len(titles) = Len(frames)
          /\ \A i \in DOMAIN titles : titles[i].tabindex = frames[i].tabindex
    /\ astray = "no" /\ titles # <<>> => this \in DOMAIN titles /\ shown = this

=============================================================================
