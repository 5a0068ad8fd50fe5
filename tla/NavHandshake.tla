---------------------------- MODULE NavHandshake ----------------------------
(***************************************************************************)
(* A page of the API documentation asks the list in its frame to open at   *)
(* the page: navExpander of doc/js/app.js, navReady and windowEvents of    *)
(* doc/js/full_list.js.                                                    *)
(*                                                                         *)
(* Page and frame load side by side and talk by messages.  The frame tells *)
(* the page that it is ready; half a second after the page is ready, the   *)
(* page stops waiting to be told.  Readers may put another document in the *)
(* frame.                                                                  *)
(***************************************************************************)
EXTENDS Naturals

CONSTANTS
    MaxLoads,       \* bound: documents put in the frame after the first
    Timer, Early,   \* the timer asked; it asked before there were rows
    Nobody          \* nobody asked yet

ASSUME LoadsAssumption == MaxLoads \in Nat /\ {Timer, Early, Nobody} \cap Nat = {}

VARIABLES
    page,       \* the page: "loading", or "ready" with its listeners
    timer,      \* of navExpander: "unset", "armed" or "spent"
    done,       \* of navExpander
    doc,        \* which document is in the frame
    listed,     \* it is a list that has a row for the page
    stage,      \* how far it has come
    toPage,     \* documents whose navReady is on its way
    toFrame,    \* documents an expand is on its way to
    opened,     \* the list in the frame is open at the page
    answers,    \* history: expands posted
    answering   \* history: the document whose navReady the last answers, or Timer or Early

pageVars  == <<page, timer, done>>
frameVars == <<doc, listed, stage, opened>>
navVars   == <<pageVars, frameVars, toPage, toFrame, answers, answering>>

Doc   == 0..MaxLoads
Stage == {"blank", "script", "parsed", "ready"}

HasRows == stage \in {"parsed", "ready"}

After == [blank |-> "script", script |-> "parsed", parsed |-> "ready"]
-----------------------------------------------------------------------------
(* The page. *)

PageReady ==
    /\ page = "loading"
    /\ page' = "ready"
    /\ timer' = "armed"
    /\ UNCHANGED <<done, frameVars, toPage, toFrame, answers, answering>>

\* Mutant: whoever calls postMessage, it posts.
PostExpandAgain(by) ==
    /\ timer' = "spent"
    /\ done' = TRUE
    /\ toFrame' = toFrame \cup {doc}
    /\ answers' = answers + 1
    /\ answering' = by

\* postMessage(): to the document that is in the frame now.
PostExpand(by) ==
    /\ timer' = "spent"
    /\ IF done
       THEN UNCHANGED <<done, toFrame, answers, answering>>
       ELSE /\ done' = TRUE
            /\ toFrame' = toFrame \cup {doc}
            /\ answers' = answers + 1
            /\ answering' = by

\* Mutant: after half a second the page gives up.
TimerFiresIdle ==
    /\ timer = "armed"
    /\ timer' = "spent"
    /\ UNCHANGED <<page, done, toFrame, answers, answering, frameVars, toPage>>

TimerFires ==
    /\ timer = "armed"
    /\ PostExpand(IF HasRows THEN Timer ELSE Early)
    /\ UNCHANGED <<page, frameVars, toPage>>

\* A navReady that comes before the listener is lost.
HearNavReady(d) ==
    /\ d \in toPage
    /\ toPage' = toPage \ {d}
    /\ IF page = "ready"
       THEN PostExpand(d) /\ UNCHANGED page
       ELSE UNCHANGED <<pageVars, toFrame, answers, answering>>
    /\ UNCHANGED frameVars
-----------------------------------------------------------------------------
(* The frame. *)

\* Mutant: the script says navReady as soon as it runs.
FrameLoadsEager ==
    /\ stage # "ready"
    /\ stage' = After[stage]
    /\ toPage' = IF stage' = "script" THEN toPage \cup {doc} ELSE toPage
    /\ UNCHANGED <<pageVars, doc, listed, opened, toFrame, answers, answering>>

\* The script listens before the rows are parsed, and says navReady after it.  A
\* message to the blank document may or may not survive it.
FrameLoads ==
    /\ stage # "ready"
    /\ stage' = After[stage]
    /\ toPage' = IF stage' = "ready" THEN toPage \cup {doc} ELSE toPage
    /\ toFrame' \in {toFrame} \cup (IF stage = "blank" THEN {{}} ELSE {})
    /\ UNCHANGED <<pageVars, doc, listed, opened, answers, answering>>

\* windowEvents and expandTo: a list without the row, or not yet with it, stays as it
\* is.
HearExpand(d) ==
    /\ d \in toFrame
    /\ toFrame' = toFrame \ {d}
    /\ opened' = (opened \/ (HasRows /\ listed))
    /\ UNCHANGED <<pageVars, doc, listed, stage, toPage, answers, answering>>

\* Another document, or the same one again; what was on its way to the old is lost.
Reload ==
    /\ doc < MaxLoads
    /\ doc' = doc + 1
    /\ listed' \in BOOLEAN
    /\ stage' = "blank"
    /\ opened' = FALSE
    /\ toFrame' = {}
    /\ UNCHANGED <<pageVars, toPage, answers, answering>>
-----------------------------------------------------------------------------
\* A page is listed or not: the list of classes has no row for the README or for the
\* index, and the list of methods none for any page.
NavInit ==
    /\ page = "loading" /\ timer = "unset" /\ done = FALSE
    /\ doc = 0 /\ listed \in BOOLEAN /\ stage = "blank" /\ opened = FALSE
    /\ toPage = {} /\ toFrame = {}
    /\ answers = 0 /\ answering = Nobody

Browser ==
    \/ PageReady
    \/ TimerFires
    \/ FrameLoads
    \/ \E d \in Doc : HearNavReady(d) \/ HearExpand(d)

NavNext == Browser \/ Reload

NavSpec == NavInit /\ [][NavNext]_navVars

\* A browser goes on loading and delivering; it need not fire the timer in time.
NavFairSpec == NavSpec /\ WF_navVars(Browser)
-----------------------------------------------------------------------------
NavTypeOK ==
    /\ page \in {"loading", "ready"} /\ timer \in {"unset", "armed", "spent"}
    /\ timer = "unset" <=> page = "loading"
    /\ doc \in Doc /\ stage \in Stage
    /\ {done, listed, opened} \subseteq BOOLEAN
    /\ toPage \subseteq Doc /\ toFrame \subseteq {doc}
    /\ answers \in Nat /\ answering \in Doc \cup {Nobody, Timer, Early}

\* Timer and navReady race, and several documents may say navReady; the page asks at
\* most once.
AsksOnce == answers <= 1

\* Asked because it said it was ready, a list with a row for the page opens: the
\* request never overtakes the rows, unless another document has taken its place.
AnswerFindsList ==
    answering = doc /\ toFrame = {} /\ listed => opened

\* In the end a list with a row for the page is open at it, also when navReady came
\* before the page could hear it; unless the timer ran out before there were rows or a
\* reader put another document in the frame.
ListOpensAtPage == listed => <>(opened \/ answering = Early \/ doc # 0)
=============================================================================
