----------------------------- MODULE Summaries ------------------------------
(***************************************************************************)
(* The summaries of a page of the documentation, which collapse and        *)
(* expand: summaryToggle and constantSummaryToggle of doc/js/app.js.       *)
(*                                                                         *)
(* A page has summaries of methods and of constants, each with a toggle;   *)
(* those of a kind go together.  Tabs share, in localStorage, what the     *)
(* last click did.                                                         *)
(***************************************************************************)
EXTENDS Naturals

CONSTANTS
    Tab,
    Page,
    Toggles,    \* Toggles[p]: the toggles of page p, each with its kind
    NoPage

ASSUME ToggleAssumption == NoPage \notin Page /\ NoPage \in DOMAIN Toggles /\ Toggles[NoPage] = {}

VARIABLES
    open,               \* open[t]: the page in a tab
    label,              \* label[t][g]: the text of toggle g
    full,               \* full[t]: the toggles whose summary is displayed whole
    compact,            \* compact[t][g]: the compact copy, "absent", "hidden" or "shown"
    summaryCollapsed,   \* localStorage
    lastClick           \* history: what the last click anywhere did

tabVars == <<open, label, full, compact>>
sumVars == <<tabVars, summaryCollapsed, lastClick>>

Kind(g) == g[1]

Flip(text) == IF text = "collapse" THEN "expand" ELSE "collapse"

Turn(copy) == IF copy = "shown" THEN "hidden" ELSE "shown"
-----------------------------------------------------------------------------
\* Mutant: only the summary of the toggle itself goes.
GoAlone(t, g) == {g}

\* The toggles that go with g.
GoTogether(t, g) == {h \in Toggles[open[t]] : Kind(h) = Kind(g)}

\* Mutant: the copy made first is never hidden again.
TurnOnlyFull(t, turned) ==
    /\ label' = [label EXCEPT ![t] = [h \in DOMAIN @ |-> IF h \in turned THEN Flip(@[h]) ELSE @[h]]]
    /\ full' = [full EXCEPT ![t] = (@ \ turned) \cup (turned \ @)]
    /\ compact' = [compact EXCEPT ![t] = [h \in DOMAIN @ |-> IF h \in turned THEN "shown" ELSE @[h]]]

\* The compact copy is made by the first click, and shown.
TurnSummaries(t, turned) ==
    /\ label' = [label EXCEPT ![t] = [h \in DOMAIN @ |-> IF h \in turned THEN Flip(@[h]) ELSE @[h]]]
    /\ full' = [full EXCEPT ![t] = (@ \ turned) \cup (turned \ @)]
    /\ compact' = [compact EXCEPT ![t] = [h \in DOMAIN @ |-> IF h \in turned THEN Turn(@[h]) ELSE @[h]]]

\* Mutant: the text is stored after it has been turned.
ClickStoringNew(t, g) ==
    /\ g \in Toggles[open[t]]
    /\ summaryCollapsed' = Flip(label[t][g])
    /\ lastClick' = label[t][g]
    /\ TurnSummaries(t, GoTogether(t, g))
    /\ UNCHANGED open

Click(t, g) ==
    /\ g \in Toggles[open[t]]
    /\ summaryCollapsed' = label[t][g]
    /\ lastClick' = label[t][g]
    /\ TurnSummaries(t, GoTogether(t, g))
    /\ UNCHANGED open

\* Loading a page: the summaries as they were written, then a click on the first
\* toggle of each kind if the last click collapsed.
Load(t, p) ==
    LET collapse == summaryCollapsed = "collapse"
    IN  /\ open' = [open EXCEPT ![t] = p]
        /\ label' = [label EXCEPT ![t] =
                [g \in Toggles[p] |-> IF collapse THEN "expand" ELSE "collapse"]]
        /\ full' = [full EXCEPT ![t] = IF collapse THEN {} ELSE Toggles[p]]
        /\ compact' = [compact EXCEPT ![t] =
                [g \in Toggles[p] |-> IF collapse THEN "shown" ELSE "absent"]]
        /\ summaryCollapsed' = IF collapse THEN "collapse" ELSE "expand"
        /\ UNCHANGED lastClick
-----------------------------------------------------------------------------
SumInit ==
    /\ open = [t \in Tab |-> NoPage]
    /\ label = [t \in Tab |-> <<>>]
    /\ full = [t \in Tab |-> {}]
    /\ compact = [t \in Tab |-> <<>>]
    /\ summaryCollapsed = "unset"
    /\ lastClick = "expand"

SumNext ==
    \E t \in Tab :
        \/ \E p \in Page : Load(t, p)
        \/ \E g \in Toggles[open[t]] : Click(t, g)

SumSpec == SumInit /\ [][SumNext]_sumVars
-----------------------------------------------------------------------------
\* A toggle offers what is not done: it says "expand" exactly when its summary is
\* compact, and one of summary and copy is displayed, never both.
LabelTellsSummary ==
    \A t \in Tab : \A g \in Toggles[open[t]] :
        /\ label[t][g] = "collapse" <=> g \in full[t]
        /\ g \in full[t] <=> compact[t][g] # "shown"

\* Toggles of a kind never get out of step on a page.
KindsAgree ==
    \A t \in Tab : \A g, h \in Toggles[open[t]] : Kind(g) = Kind(h) => label[t][g] = label[t][h]

\* A page that is loaded shows all its summaries, of either kind, as the last click in
\* any tab, on either kind, left its own.
LoadFollowsLastClick ==
    [][\A t \in Tab, p \in Page :
        Load(t, p) => \A g \in Toggles[p] : label'[t][g] = Flip(lastClick)]_sumVars
=============================================================================
