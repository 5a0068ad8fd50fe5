------------------------------ MODULE NavPanel ------------------------------
(***************************************************************************)
(* The frame of the list as a panel: searchFrameButtons and                *)
(* toggleSearchFrame of doc/js/app.js, the Escape key of                   *)
(* doc/js/full_list.js, over the loading of NavHandshake.                  *)
(*                                                                         *)
(* A wide window shows the list beside the page; a narrow one hides it     *)
(* behind the one link of #search.  jQuery slides the frame in a queue of  *)
(* animations, and the code decides by what is displayed in the middle of  *)
(* them.                                                                   *)
(***************************************************************************)
EXTENDS NavHandshake, Sequences, FiniteSets, FiniteSetsExt

CONSTANT MaxSlides      \* bound: slides running and waiting

ASSUME SlidesAssumption == MaxSlides \in Nat

VARIABLES
    wide,       \* the layout the style sheet chooses
    display,    \* the style of #nav: "css" when it has none, "shown" or "none"
    relinked,   \* the frame's src is the link of #search, not the one of the page
    mark,       \* the classes "active" and "inactive" that the link has
    slides,     \* the fx queue of #nav, "up" and "down", the first one running
    escapes,    \* navEscape messages on their way to the page
    cut         \* history: the last wide window came in the middle of slides

panelVars == <<wide, display, relinked, mark, slides, escapes, cut>>
allVars   == <<navVars, panelVars>>

Displayed(style, isWide) == IF style = "css" THEN isWide ELSE style = "shown"

Shown == Displayed(display, wide)
-----------------------------------------------------------------------------
(* jQuery. *)

\* A slide that finds the element as it would leave it is over at once.
Pending(queue, shown) ==
    LET moves == {i \in DOMAIN queue : (queue[i] = "up") = shown}
    IN  IF moves = {} THEN <<>> ELSE SubSeq(queue, Min(moves), Len(queue))

\* The queue goes on from this style; a slide down shows the element as it starts.
Dequeue(queue, style, isWide) ==
    LET left == Pending(queue, Displayed(style, isWide))
    IN  /\ slides' = left
        /\ display' = IF left # <<>> /\ Head(left) = "down" THEN "shown" ELSE style

Slide(way) ==
    /\ Len(slides) < MaxSlides
    /\ IF slides = <<>>
       THEN Dequeue(<<way>>, display, wide)
       ELSE slides' = Append(slides, way) /\ UNCHANGED display

\* A slide up hides the element as it ends.
SlideEnds ==
    /\ slides # <<>>
    /\ Dequeue(Tail(slides), IF Head(slides) = "up" THEN "none" ELSE display, wide)
    /\ UNCHANGED <<navVars, wide, relinked, mark, escapes, cut>>
-----------------------------------------------------------------------------
(* The page. *)

\* Mutant: the link keeps the class inactive, which every link gets first.
TapBothClasses ==
    /\ page = "ready" /\ ~ wide
    /\ IF relinked /\ Shown
       THEN Slide("up") /\ mark' = {} /\ UNCHANGED <<navVars, relinked>>
       ELSE /\ Slide("down")
            /\ mark' = {"active", "inactive"}
            /\ relinked' = TRUE
            /\ IF relinked THEN UNCHANGED navVars ELSE Reload
    /\ UNCHANGED <<wide, escapes, cut>>

\* toggleSearchFrame, by the link, which a wide window does not show.  The first time
\* it also loads the list again.
Tap ==
    /\ page = "ready" /\ ~ wide
    /\ IF relinked /\ Shown
       THEN Slide("up") /\ mark' = {} /\ UNCHANGED <<navVars, relinked>>
       ELSE /\ Slide("down")
            /\ mark' = {"active"}
            /\ relinked' = TRUE
            /\ IF relinked THEN UNCHANGED navVars ELSE Reload
    /\ UNCHANGED <<wide, escapes, cut>>

\* escapeShortcut, in the frame.
EscapeKey ==
    /\ stage = "ready" /\ Shown
    /\ escapes = 0
    /\ escapes' = 1
    /\ UNCHANGED <<navVars, wide, display, relinked, mark, slides, cut>>

\* Mutant: the link keeps its class.
HearEscapeOnly ==
    /\ escapes > 0
    /\ escapes' = escapes - 1
    /\ IF page = "ready"
       THEN Slide("up") /\ UNCHANGED mark
       ELSE UNCHANGED <<display, mark, slides>>
    /\ UNCHANGED <<navVars, wide, relinked, cut>>

HearEscape ==
    /\ escapes > 0
    /\ escapes' = escapes - 1
    /\ IF page = "ready"
       THEN Slide("up") /\ mark' = {}
       ELSE UNCHANGED <<display, mark, slides>>
    /\ UNCHANGED <<navVars, wide, relinked, cut>>

\* A wide window takes the style and the class away, but not the slides.
Resize(toWide) ==
    /\ wide' = toWide
    /\ IF toWide /\ page = "ready"
       THEN display' = "css" /\ mark' = {} /\ cut' = (slides # <<>>)
       ELSE UNCHANGED <<display, mark, cut>>
    /\ UNCHANGED <<navVars, relinked, slides, escapes>>
-----------------------------------------------------------------------------
PanelInit ==
    /\ NavInit
    /\ wide \in BOOLEAN
    /\ display = "css" /\ relinked = FALSE /\ mark = {}
    /\ slides = <<>> /\ escapes = 0 /\ cut = FALSE

PanelNext ==
    \/ NavNext /\ UNCHANGED panelVars
    \/ Tap
    \/ EscapeKey
    \/ HearEscape
    \/ SlideEnds
    \/ \E toWide \in BOOLEAN : Resize(toWide)

PanelSpec == PanelInit /\ [][PanelNext]_allVars

\* A browser goes on loading and delivering, whatever the reader does.
PanelFairSpec == PanelSpec /\ WF_navVars(Browser /\ UNCHANGED panelVars)
-----------------------------------------------------------------------------
PanelTypeOK ==
    /\ NavTypeOK
    /\ {wide, relinked, cut} \subseteq BOOLEAN
    /\ display \in {"css", "shown", "none"} /\ mark \in {{}, {"active"}}
    /\ slides \in Seq({"up", "down"}) /\ Len(slides) <= MaxSlides
    /\ escapes \in 0..1

\* Taps, Escape and resizes may come in the middle of slides; once they are over, in a
\* narrow window, the link is marked active exactly while the list is open.  Only a
\* window that was wide for a moment, in the middle of a slide, may leave them apart:
\* the slides that wait go on.
ActiveIsShown ==
    ~ wide /\ slides = <<>> /\ ~ cut => (Shown <=> mark = {"active"})
=============================================================================
