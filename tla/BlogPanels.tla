----------------------------- MODULE BlogPanels -----------------------------
(* The share bar and the category panel of the blog (2019104279,            *)
(* static/js/global.js).  A panel is shown at once and hidden at the end of *)
(* its animation: hiding binds a handler for animationend, showing unbinds  *)
(* what is bound and starts another animation.  Clicks come at any moment   *)
(* of an animation.                                                         *)
EXTENDS Integers

VARIABLES
    share,      \* .blog-share: its classes, whether a handler is bound, and
                \* whether an animation is running
    category,   \* .article-category, likewise; visible is layui-show here
    toggle      \* .category-toggle is visible

panelVars == <<share, category, toggle>>

(* The class that names the animation.                                      *)
Animation == {"none", "In", "Out"}

BlogPanelsInit ==
    /\ share = [visible |-> FALSE, class |-> "none", bound |-> FALSE,
                running |-> FALSE]
    /\ category = share
    /\ toggle = TRUE

(* The browser starts an animation when the class of a visible panel        *)
(* changes or a panel with a class becomes visible, and drops the running   *)
(* one without an animationend when the panel becomes invisible.            *)
styled(old, new) ==
    [new EXCEPT !.running = new.visible /\ new.class # "none"
        /\ (new.class # old.class \/ ~old.visible \/ old.running)]

(* Seeded fault: the handlers of the last time stay bound.                  *)
in_KeepsHandlers(p) == styled(p, [p EXCEPT !.class = "In", !.visible = TRUE])

(* shareIn and categroyIn.                                                  *)
in(p) == styled(p, [p EXCEPT !.bound = FALSE, !.class = "In", !.visible = TRUE])

(* shareOut and categoryOut; handlers that are bound twice do the same.     *)
out(p) == styled(p, [p EXCEPT !.bound = TRUE, !.class = "Out"])

(* animationend, and the handlers that are bound.                           *)
ended(p) == styled([p EXCEPT !.running = FALSE],
                   [p EXCEPT !.running = FALSE, !.visible = @ /\ ~p.bound])

(* The button of the bar: by the class layui-hide, in or out.               *)
clickShare ==
    /\ share' = IF share.visible THEN out(share) ELSE in(share)
    /\ UNCHANGED <<category, toggle>>

(* A click on the page, the category panel included, hides both.            *)
clickBody ==
    /\ share' = out(share)
    /\ category' = out(category)
    /\ UNCHANGED toggle

clickToggle ==
    /\ toggle
    /\ toggle' = FALSE
    /\ category' = in(category)
    /\ UNCHANGED share

shareEnds ==
    /\ share.running
    /\ share' = ended(share)
    /\ UNCHANGED <<category, toggle>>

categoryEnds ==
    /\ category.running
    /\ category' = ended(category)
    /\ toggle' = (toggle \/ category.bound)
    /\ UNCHANGED share

BlogPanelsNext ==
    clickShare \/ clickBody \/ clickToggle \/ shareEnds \/ categoryEnds

-----------------------------------------------------------------------------
Panel == [visible : BOOLEAN, class : Animation, bound : BOOLEAN, running : BOOLEAN]

BlogPanelsTypeOK == share \in Panel /\ category \in Panel /\ toggle \in BOOLEAN

(* A panel that was opened last stays open, whatever handler an earlier     *)
(* click left behind; one that was closed last is, once its animation is    *)
(* over, gone; and the category panel can be opened whenever it is not      *)
(* visible.                                                                 *)
PanelsObeyLastClick ==
    /\ \A p \in {share, category} :
          /\ p.class = "In" => p.visible
          /\ p.class = "Out" /\ ~p.running => ~p.visible
    /\ toggle = ~category.visible

=============================================================================
