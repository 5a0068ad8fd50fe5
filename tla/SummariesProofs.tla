--------------------------- MODULE SummariesProofs ---------------------------
(***************************************************************************)
(* Proofs, for every set of tabs and of pages, about Summaries.            *)
(***************************************************************************)
EXTENDS Summaries, TLAPS

\* Each tab has a label and a copy for every toggle of its page.
TogglesHeld ==
    /\ DOMAIN open = Tab /\ DOMAIN label = Tab /\ DOMAIN full = Tab /\ DOMAIN compact = Tab
    /\ \A t \in Tab :
        /\ DOMAIN label[t] = Toggles[open[t]]
        /\ DOMAIN compact[t] = Toggles[open[t]]
        /\ \A g \in Toggles[open[t]] : label[t][g] \in {"collapse", "expand"}

\* localStorage is unset only until the first load, which stores what no click did.
StoredIsLast ==
    /\ lastClick \in {"collapse", "expand"}
    /\ summaryCollapsed = "collapse" <=> lastClick = "collapse"

SInv ==
    /\ TogglesHeld
    /\ LabelTellsSummary
    /\ KindsAgree
    /\ StoredIsLast

-----------------------------------------------------------------------------
\* No tab has a page at first.
LEMMA SumInitSInv == SumInit => SInv
BY ToggleAssumption DEF SumInit, SInv, TogglesHeld, LabelTellsSummary, KindsAgree, StoredIsLast

\* A page that is loaded is as constantSummaryToggle and summaryToggle leave it.
LEMMA LoadSInv ==
    ASSUME SInv, NEW t \in Tab, NEW p \in Page, Load(t, p)
    PROVE  SInv'
<1> DEFINE others == Tab \ {t}
<1>1. /\ open'[t] = p /\ \A u \in others : open'[u] = open[u]
      /\ \A u \in others : label'[u] = label[u] /\ full'[u] = full[u] /\ compact'[u] = compact[u]
      /\ DOMAIN open' = Tab /\ DOMAIN label' = Tab /\ DOMAIN full' = Tab /\ DOMAIN compact' = Tab
  BY DEF Load, SInv, TogglesHeld
<1>2. CASE summaryCollapsed = "collapse"
  <2>1. /\ label'[t] = [g \in Toggles[p] |-> "expand"]
        /\ full'[t] = {}
        /\ compact'[t] = [g \in Toggles[p] |-> "shown"]
        /\ summaryCollapsed' = "collapse" /\ lastClick' = lastClick
    BY <1>2 DEF Load, SInv, TogglesHeld
  <2>2. TogglesHeld'
    BY <1>1, <2>1 DEF SInv, TogglesHeld
  <2>3. LabelTellsSummary'
    BY <1>1, <2>1 DEF SInv, LabelTellsSummary
  <2>4. KindsAgree'
    BY <1>1, <2>1 DEF SInv, KindsAgree
  <2>5. StoredIsLast'
    BY <1>2, <2>1 DEF SInv, StoredIsLast
  <2> QED
    BY <2>2, <2>3, <2>4, <2>5 DEF SInv
<1>3. CASE summaryCollapsed # "collapse"
  <2>1. /\ label'[t] = [g \in Toggles[p] |-> "collapse"]
        /\ full'[t] = Toggles[p]
        /\ compact'[t] = [g \in Toggles[p] |-> "absent"]
        /\ summaryCollapsed' = "expand" /\ lastClick' = lastClick
    BY <1>3 DEF Load, SInv, TogglesHeld
  <2>2. TogglesHeld'
    BY <1>1, <2>1 DEF SInv, TogglesHeld
  <2>3. LabelTellsSummary'
    BY <1>1, <2>1 DEF SInv, LabelTellsSummary
  <2>4. KindsAgree'
    BY <1>1, <2>1 DEF SInv, KindsAgree
  <2>5. StoredIsLast'
    BY <1>3, <2>1 DEF SInv, StoredIsLast
  <2> QED
    BY <2>2, <2>3, <2>4, <2>5 DEF SInv
<1> QED
  BY <1>2, <1>3

\* A click turns a kind of the page as a whole: label, summary and copy change together.
LEMMA ClickSInv ==
    ASSUME SInv, NEW t \in Tab, NEW g \in Toggles[open[t]], Click(t, g)
    PROVE  SInv'
<1> DEFINE others == Tab \ {t}
           turned == GoTogether(t, g)
<1>1. /\ open' = open
      /\ \A u \in others : label'[u] = label[u] /\ full'[u] = full[u] /\ compact'[u] = compact[u]
      /\ DOMAIN label' = Tab /\ DOMAIN full' = Tab /\ DOMAIN compact' = Tab
  BY DEF Click, TurnSummaries, SInv, TogglesHeld
<1>2. /\ DOMAIN label'[t] = Toggles[open[t]] /\ DOMAIN compact'[t] = Toggles[open[t]]
      /\ \A h \in Toggles[open[t]] :
            /\ label'[t][h] = IF h \in turned THEN Flip(label[t][h]) ELSE label[t][h]
            /\ compact'[t][h] = IF h \in turned THEN Turn(compact[t][h]) ELSE compact[t][h]
            /\ h \in full'[t] <=> IF h \in turned THEN h \notin full[t] ELSE h \in full[t]
  BY DEF Click, TurnSummaries, SInv, TogglesHeld
<1>3. \A h \in Toggles[open[t]] : h \in turned <=> Kind(h) = Kind(g)
  BY DEF GoTogether
<1>4. TogglesHeld'
  BY <1>1, <1>2 DEF SInv, TogglesHeld, Flip
<1>5. LabelTellsSummary'
  BY <1>1, <1>2 DEF SInv, TogglesHeld, LabelTellsSummary, Flip, Turn
<1>6. KindsAgree'
  BY <1>1, <1>2, <1>3 DEF SInv, KindsAgree
<1>7. StoredIsLast'
  BY DEF Click, SInv, TogglesHeld, StoredIsLast
<1> QED
  BY <1>4, <1>5, <1>6, <1>7 DEF SInv

\* What a tab displays, and what the tabs share, stay in step.
THEOREM SummariesInvariance == SumSpec => []SInv
<1>1. ASSUME SInv, [SumNext]_sumVars PROVE SInv'
  <2>1. CASE UNCHANGED sumVars
    BY <1>1, <2>1 DEF sumVars, tabVars, SInv, TogglesHeld, LabelTellsSummary, KindsAgree,
                      StoredIsLast
  <2> QED
    BY <1>1, <2>1, LoadSInv, ClickSInv DEF SumNext
<1> QED
  BY <1>1, SumInitSInv, PTL DEF SumSpec

\* In every tab and for every toggle, the label says what is displayed, and one of
\* summary and copy is.
THEOREM LabelsTellSummaries == SumSpec => []LabelTellsSummary
<1>1. SInv => LabelTellsSummary
  BY DEF SInv
<1> QED
  BY <1>1, SummariesInvariance, PTL

\* Toggles of a kind never get out of step on a page.
THEOREM KindsStayInStep == SumSpec => []KindsAgree
<1>1. SInv => KindsAgree
  BY DEF SInv
<1> QED
  BY <1>1, SummariesInvariance, PTL

\* A page loaded in any tab follows the last click in any other.
THEOREM LoadsFollowLastClick == SumSpec => LoadFollowsLastClick
<1> DEFINE Follows ==
        \A t \in Tab, p \in Page :
            Load(t, p) => \A g \in Toggles[p] : label'[t][g] = Flip(lastClick)
<1>1. SInv => Follows
  <2> SUFFICES ASSUME SInv, NEW t \in Tab, NEW p \in Page, Load(t, p), NEW g \in Toggles[p]
               PROVE  label'[t][g] = Flip(lastClick)
    OBVIOUS
  <2>1. label'[t][g] = IF summaryCollapsed = "collapse" THEN "expand" ELSE "collapse"
    BY DEF Load, SInv, TogglesHeld
  <2> QED
    BY <2>1 DEF SInv, StoredIsLast, Flip
<1> HIDE DEF Follows
<1>2. SInv /\ [SumNext]_sumVars => [Follows]_sumVars
  BY <1>1
<1>3. SumSpec => [][Follows]_sumVars
  BY <1>2, SummariesInvariance, PTL DEF SumSpec
<1> QED
  BY <1>3 DEF LoadFollowsLastClick, Follows
=============================================================================
