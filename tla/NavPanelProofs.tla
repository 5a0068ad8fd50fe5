--------------------------- MODULE NavPanelProofs ----------------------------
(***************************************************************************)
(* Proofs, for any number of documents and of slides, about NavHandshake   *)
(* and NavPanel.                                                           *)
(***************************************************************************)
EXTENDS NavPanel, SequenceTheorems, WellFoundedInduction, TLAPS

(* Page and frame. *)

\* A document says navReady when it has come, once; a later one may be in the frame
\* when the page hears it.
OnlyReadySay ==
    \A d \in toPage : d <= doc /\ (d = doc => stage = "ready")

\* Who has been answered was in the frame; while it still is, the answer is on its way
\* or the list, if it has a row for the page, is open.
AnswerArrives ==
    /\ answering \in Doc => answering <= doc
    /\ answering = doc => stage = "ready" /\ ((listed => opened) \/ toFrame = {doc})

NInv ==
    /\ NavTypeOK
    /\ answers = IF done THEN 1 ELSE 0
    /\ OnlyReadySay
    /\ AnswerArrives

-----------------------------------------------------------------------------
\* Who asked when no document did is no document.
LEMMA NotDocuments ==
    /\ Timer \notin Nat /\ Early \notin Nat /\ Nobody \notin Nat
    /\ \A d \in Doc : d \in Nat /\ d <= MaxLoads
    /\ \A d \in Nat : d <= MaxLoads => d \in Doc
    /\ 0 \in Doc /\ MaxLoads \in Nat
BY LoadsAssumption DEF Doc

\* Nothing is in the frame yet.
LEMMA NavInitNInv == NavInit => NInv
<1> SUFFICES ASSUME NavInit PROVE NInv
  OBVIOUS
<1>1. NavTypeOK
  <2>1. {done, listed, opened} \subseteq BOOLEAN
    BY DEF NavInit
  <2> QED
    BY <2>1, NotDocuments DEF NavInit, NavTypeOK, Stage
<1>2. answers = IF done THEN 1 ELSE 0
  BY DEF NavInit
<1>3. OnlyReadySay /\ AnswerArrives
  BY NotDocuments DEF NavInit, OnlyReadySay, AnswerArrives
<1> QED
  BY <1>1, <1>2, <1>3 DEF NInv

\* The page asks who is in the frame now: the timer for no one in particular, navReady
\* for a document that has come.
LEMMA PostExpandNInv ==
    ASSUME NInv, NEW by, PostExpand(by), page = "ready", page' = page, UNCHANGED frameVars,
           toPage' \subseteq toPage,
           by \in {Timer, Early} \/ (by \in Doc /\ by <= doc /\ (by = doc => stage = "ready"))
    PROVE  NInv'
<1> USE DEF PostExpand, frameVars
<1>1. NavTypeOK'
  <2>1. {done', listed', opened'} \subseteq BOOLEAN
    BY DEF NInv, NavTypeOK
  <2>2. answers' \in Nat /\ answering' \in Doc \cup {Nobody, Timer, Early}
    BY DEF NInv, NavTypeOK
  <2>3. toFrame' \subseteq {doc'} /\ toPage' \subseteq Doc
    BY DEF NInv, NavTypeOK
  <2> QED
    BY <2>1, <2>2, <2>3 DEF NInv, NavTypeOK
<1>2. answers' = IF done' THEN 1 ELSE 0
  BY DEF NInv
<1>3. OnlyReadySay'
  BY DEF NInv, OnlyReadySay
<1>4. AnswerArrives'
  BY NotDocuments DEF NInv, NavTypeOK, AnswerArrives
<1> QED
  BY <1>1, <1>2, <1>3, <1>4 DEF NInv

\* Page and frame load, speak and are spoken to.
LEMMA BrowserNInv == ASSUME NInv, Browser PROVE NInv'
<1> USE DEF frameVars, pageVars, Stage
<1>1. CASE PageReady
  BY <1>1 DEF PageReady, NInv, NavTypeOK, OnlyReadySay, AnswerArrives
<1>2. CASE TimerFires
  <2>1. page = "ready" /\ UNCHANGED <<page, toPage>>
    BY <1>2 DEF TimerFires, NInv, NavTypeOK
  <2>2. PICK by \in {Timer, Early} : PostExpand(by)
    BY <1>2 DEF TimerFires
  <2> QED
    BY <1>2, <2>1, <2>2, PostExpandNInv DEF TimerFires
<1>3. CASE FrameLoads
  <2>1. /\ stage' \in Stage /\ (stage' = "ready" => toPage' = toPage \cup {doc})
        /\ (stage' # "ready" => toPage' = toPage) /\ toFrame' \subseteq toFrame
        /\ (stage # "blank" => toFrame' = toFrame)
    BY <1>3 DEF FrameLoads, After, NInv, NavTypeOK
  <2>2. NavTypeOK'
    BY <1>3, <2>1 DEF FrameLoads, NInv, NavTypeOK
  <2>3. OnlyReadySay'
    BY <1>3, <2>1, NotDocuments DEF FrameLoads, NInv, NavTypeOK, OnlyReadySay
  <2>4. AnswerArrives'
    BY <1>3, <2>1 DEF FrameLoads, NInv, NavTypeOK, AnswerArrives
  <2> QED
    BY <1>3, <2>2, <2>3, <2>4 DEF FrameLoads, NInv
<1>4. ASSUME NEW d \in Doc, HearNavReady(d) PROVE NInv'
  <2>1. d \in Doc /\ d <= doc /\ (d = doc => stage = "ready") /\ toPage' \subseteq toPage
    BY <1>4 DEF HearNavReady, NInv, NavTypeOK, OnlyReadySay
  <2>2. CASE page = "ready"
    BY <1>4, <2>1, <2>2, PostExpandNInv DEF HearNavReady
  <2>3. CASE page # "ready"
    BY <1>4, <2>1, <2>3 DEF HearNavReady, NInv, NavTypeOK, OnlyReadySay, AnswerArrives
  <2> QED
    BY <2>2, <2>3
<1>5. ASSUME NEW d \in Doc, HearExpand(d) PROVE NInv'
  <2>1. d = doc /\ toFrame' = {} /\ (HasRows /\ listed => opened')
    BY <1>5 DEF HearExpand, NInv, NavTypeOK
  <2>2. NavTypeOK'
    BY <1>5, <2>1 DEF HearExpand, HasRows, NInv, NavTypeOK
  <2>3. AnswerArrives'
    BY <1>5, <2>1 DEF HearExpand, HasRows, NInv, AnswerArrives
  <2> QED
    BY <1>5, <2>2, <2>3 DEF HearExpand, NInv, OnlyReadySay
<1> QED
  BY <1>1, <1>2, <1>3, <1>4, <1>5 DEF Browser

\* What was answered, and all that was said, is of a document that has gone.
LEMMA ReloadNInv == ASSUME NInv, Reload PROVE NInv'
<1> USE DEF Reload, pageVars, Stage
<1>1. NavTypeOK'
  <2>1. doc' \in Doc
    BY NotDocuments DEF NInv, NavTypeOK
  <2>2. {done', listed', opened'} \subseteq BOOLEAN
    BY DEF NInv, NavTypeOK
  <2> QED
    BY <2>1, <2>2 DEF NInv, NavTypeOK
<1>2. OnlyReadySay'
  BY NotDocuments DEF NInv, NavTypeOK, OnlyReadySay
<1>3. AnswerArrives'
  <2>1. doc + 1 \in Nat /\ (answering \in Doc => answering < doc + 1)
    BY NotDocuments DEF NInv, NavTypeOK, AnswerArrives
  <2>2. answering # doc + 1
    BY <2>1, NotDocuments DEF NInv, NavTypeOK
  <2>3. answering \in Doc => answering <= doc + 1
    BY <2>1, NotDocuments DEF NInv, NavTypeOK
  <2> QED
    BY <2>2, <2>3 DEF AnswerArrives
<1> QED
  BY <1>1, <1>2, <1>3 DEF NInv

\* The frame and the page, whatever readers put in the frame.
THEOREM NavInvariance == NavSpec => []NInv
<1>1. ASSUME NInv, [NavNext]_navVars PROVE NInv'
  <2>1. CASE UNCHANGED navVars
    BY <1>1, <2>1 DEF navVars, pageVars, frameVars, NInv, NavTypeOK, OnlyReadySay, AnswerArrives
  <2> QED
    BY <1>1, <2>1, BrowserNInv, ReloadNInv DEF NavNext
<1> QED
  BY <1>1, NavInitNInv, PTL DEF NavSpec

\* Timer and navReady race for postMessage, and any number of documents may say
\* navReady: the page asks once.
THEOREM PageAsksOnce == NavSpec => []AsksOnce
<1>1. NInv => AsksOnce
  BY DEF NInv, AsksOnce
<1> QED
  BY <1>1, NavInvariance, PTL

\* A list that was asked because it said it was ready, and has a row for the page, is
\* open once it has heard.
THEOREM AnswersFindLists == NavSpec => []AnswerFindsList
<1>1. NInv => AnswerFindsList
  BY DEF NInv, NavTypeOK, AnswerArrives, AnswerFindsList
<1> QED
  BY <1>1, NavInvariance, PTL
-----------------------------------------------------------------------------
(* The panel. *)

Way == {"up", "down"}

\* Types of the variables that NavHandshake does not have.
PanelTypes ==
    /\ wide \in BOOLEAN /\ relinked \in BOOLEAN /\ cut \in BOOLEAN
    /\ display \in {"css", "shown", "none"} /\ mark \in {{}, {"active"}}
    /\ slides \in Seq(Way) /\ Len(slides) <= MaxSlides
    /\ escapes \in 0..1

\* Nothing slides before the page listens.
StillAtFirst ==
    page # "ready" => display = "css" /\ mark = {} /\ slides = <<>>

\* Once the slides that run and wait are over, the list will be shown.
WillBeShown == IF slides = <<>> THEN Shown ELSE slides[Len(slides)] = "down"

\* In a wide window the link has no class and the list can only be put away, by Escape.
WideOnlyCloses ==
    wide /\ ~ cut => /\ mark = {} /\ display # "shown"
                     /\ \A i \in 1..Len(slides) : slides[i] = "up"

\* In a narrow one the class follows what the slides lead to, not what is displayed in
\* the middle of them; the one that runs down has already shown the list.
MarkedAsSliding ==
    ~ wide /\ ~ cut => /\ WillBeShown <=> mark = {"active"}
                       /\ slides # <<>> /\ slides[1] = "down" => display = "shown"

PInv ==
    /\ PanelTypes
    /\ StillAtFirst
    /\ WideOnlyCloses
    /\ MarkedAsSliding

-----------------------------------------------------------------------------
(* The fx queue. *)

\* FiniteSetsExt's Min of places in a queue is one of them.
LEMMA MinIsMember ==
    ASSUME NEW n \in Nat, NEW S \in SUBSET (1..n), S # {}
    PROVE  Min(S) \in S
<1> DEFINE less == {ss \in Nat \X Nat : ss[1] < ss[2]}
<1>1. IsWellFoundedOn(less, Nat)
  BY NatLessThanWellFounded DEF OpToRel
<1>2. \A x, y \in Nat : <<y, x>> \in less <=> y < x
  OBVIOUS
<1> HIDE DEF less
<1>3. S \subseteq Nat
  OBVIOUS
<1>4. \E x \in S : \A y \in S : ~ (<<y, x>> \in less)
  BY <1>1, <1>3, WFMin, Zenon
<1>5. PICK x \in S : \A y \in S : ~ (<<y, x>> \in less)
  BY <1>4
<1>6. ASSUME NEW y \in S PROVE x <= y
  <2>1. x \in Nat /\ y \in Nat
    BY <1>3, <1>5
  <2>2. ~ (y < x)
    BY <1>2, <1>5, <2>1
  <2> QED
    BY <2>1, <2>2
<1> QED
  BY <1>6 DEF Min

\* What is left of a queue ends as the queue does; if nothing is, every slide finds the
\* element as it would leave it.
EndsAs(left, queue, shown) ==
    /\ left \in Seq(Way) /\ Len(left) <= Len(queue)
    /\ left # <<>> => left[Len(left)] = queue[Len(queue)]
    /\ left = <<>> => \A i \in 1..Len(queue) : queue[i] = "down" <=> shown
    /\ (\A i \in 1..Len(queue) : queue[i] = "up") => \A i \in 1..Len(left) : left[i] = "up"

\* Pending leaves the queue from its first slide that moves.
LEMMA PendingEnds ==
    ASSUME NEW queue \in Seq(Way), NEW shown \in BOOLEAN
    PROVE  EndsAs(Pending(queue, shown), queue, shown)
<1> DEFINE moves == {i \in DOMAIN queue : (queue[i] = "up") = shown}
           left == Pending(queue, shown)
<1>1. DOMAIN queue = 1..Len(queue) /\ Len(queue) \in Nat
  OBVIOUS
<1>2. CASE moves = {}
  <2>1. left = <<>>
    BY <1>2 DEF Pending
  <2>2. \A i \in 1..Len(queue) : queue[i] \in Way
    BY ElementOfSeq
  <2>3. \A i \in 1..Len(queue) : (queue[i] = "up") # shown
    BY <1>1, <1>2
  <2>4. \A i \in 1..Len(queue) : queue[i] = "down" <=> shown
    BY <2>2, <2>3 DEF Way
  <2> QED
    BY <2>1, <2>4 DEF EndsAs
<1>3. CASE moves # {}
  <2> DEFINE m == Min(moves)
             n == Len(queue)
  <2>0. moves \in SUBSET (1..n)
    BY <1>1
  <2>1. m \in 1..n /\ m \in Int /\ n \in Int
    <3> HIDE DEF moves
    <3>1. m \in moves
      BY <1>1, <1>3, <2>0, MinIsMember
    <3>2. n \in Nat
      BY <1>1
    <3> HIDE DEF m, n
    <3>3. m \in 1..n
      BY <2>0, <3>1
    <3> QED
      BY <3>2, <3>3
  <2>2. left = SubSeq(queue, m, n)
    BY <1>3 DEF Pending
  <2> HIDE DEF m, left, moves
  <2>3. \A i \in m..n : queue[i] \in Way
    BY <2>1, ElementOfSeq
  <2>4. /\ left \in Seq(Way) /\ Len(left) = n - m + 1
        /\ \A i \in 1..(n - m + 1) : left[i] = queue[m + i - 1]
    BY <2>1, <2>2, <2>3, SubSeqProperties
  <2>5. Len(left) <= n /\ Len(left) \in 1..(n - m + 1) /\ left # <<>>
    BY <2>1, <2>4
  <2>6. left[Len(left)] = queue[n]
    <3>1. m + Len(left) - 1 = n
      BY <2>1, <2>4
    <3> QED
      BY <2>4, <2>5, <3>1
  <2>7. ASSUME \A i \in 1..n : queue[i] = "up", NEW i \in 1..Len(left)
        PROVE  left[i] = "up"
    <3>1. i \in 1..(n - m + 1) /\ m + i - 1 \in 1..n
      BY <2>1, <2>4
    <3> QED
      BY <2>4, <2>7, <3>1
  <2> QED
    BY <2>4, <2>5, <2>6, <2>7 DEF left, EndsAs
<1> QED
  BY <1>2, <1>3

\* The queue goes on from a style: what the queue ends with, what the style sheet then
\* displays, and that only a slide down changes the style as it starts.
LEMMA DequeueEnds ==
    ASSUME NEW queue \in Seq(Way), NEW style \in {"css", "shown", "none"}, NEW isWide \in BOOLEAN,
           Dequeue(queue, style, isWide)
    PROVE  /\ slides' \in Seq(Way) /\ Len(slides') <= Len(queue)
           /\ display' \in {"css", "shown", "none"}
           /\ slides' # <<>> =>
                /\ slides'[Len(slides')] = queue[Len(queue)]
                /\ slides'[1] = "down" => display' = "shown"
           /\ slides' = <<>> =>
                /\ display' = style
                /\ \A i \in 1..Len(queue) : queue[i] = "down" <=> Displayed(style, isWide)
           /\ (\A i \in 1..Len(queue) : queue[i] = "up") =>
                /\ display' = style
                /\ \A i \in 1..Len(slides') : slides'[i] = "up"
<1> DEFINE shown == Displayed(style, isWide)
           left == Pending(queue, shown)
<1>1. shown \in BOOLEAN
  BY DEF Displayed
<1> HIDE DEF shown
<1>2. slides' = left /\ display' = IF left # <<>> /\ Head(left) = "down" THEN "shown" ELSE style
  BY DEF Dequeue, shown
<1>3. EndsAs(left, queue, shown)
  BY <1>1, PendingEnds
<1> HIDE DEF left
<1>4. left # <<>> => Head(left) = left[1] /\ 1 \in 1..Len(left)
  BY <1>3 DEF EndsAs
<1> QED
  BY <1>2, <1>3, <1>4 DEF EndsAs, shown

\* A slide that is asked for comes last, whatever runs.
LEMMA SlideEndsLast ==
    ASSUME PanelTypes, NEW way \in Way, Slide(way)
    PROVE  /\ slides' \in Seq(Way) /\ Len(slides') <= MaxSlides
           /\ display' \in {"css", "shown", "none"}
           /\ slides' = <<>> => display' = display /\ (way = "down" <=> Shown)
           /\ slides' # <<>> => slides'[Len(slides')] = way
           /\ slides' # <<>> /\ slides'[1] = "down" =>
                \/ display' = "shown"
                \/ slides # <<>> /\ slides[1] = "down" /\ display' = display
           /\ way = "up" /\ (\A i \in 1..Len(slides) : slides[i] = "up") =>
                display' = display /\ \A i \in 1..Len(slides') : slides'[i] = "up"
<1>1. CASE slides = <<>>
  <2> DEFINE queue == <<way>>
  <2>1. queue \in Seq(Way) /\ Len(queue) = 1 /\ \A i \in 1..Len(queue) : queue[i] = way
    OBVIOUS
  <2>2. Dequeue(queue, display, wide)
    BY <1>1 DEF Slide
  <2> HIDE DEF queue
  <2>3. Len(queue) <= MaxSlides
    BY <1>1, <2>1, SlidesAssumption DEF Slide, PanelTypes
  <2> QED
    BY <1>1, <2>1, <2>2, <2>3, DequeueEnds, SlidesAssumption DEF PanelTypes, Shown
<1>2. CASE slides # <<>>
  <2>1. slides' = Append(slides, way) /\ display' = display /\ Len(slides) < MaxSlides
    BY <1>2 DEF Slide
  <2>2. slides \in Seq(Way)
    BY DEF PanelTypes
  <2>3. /\ slides' \in Seq(Way) /\ slides' # <<>> /\ Len(slides') = Len(slides) + 1
        /\ \A i \in 1..Len(slides) : slides'[i] = slides[i]
        /\ slides'[Len(slides) + 1] = way
    BY <2>1, <2>2, AppendProperties
  <2>4. Len(slides) \in Nat /\ 1 \in 1..Len(slides)
    BY <1>2, <2>2
  <2> QED
    BY <1>2, <2>1, <2>3, <2>4, SlidesAssumption DEF PanelTypes
<1> QED
  BY <1>1, <1>2
-----------------------------------------------------------------------------
LEMMA PanelInitPInv == PanelInit => PInv
<1> SUFFICES ASSUME PanelInit PROVE PInv
  OBVIOUS
<1>1. slides = <<>> /\ Len(slides) = 0 /\ display = "css" /\ mark = {} /\ cut = FALSE
      /\ wide \in BOOLEAN /\ relinked = FALSE /\ escapes = 0
  BY DEF PanelInit
<1>2. PanelTypes
  <2>1. <<>> \in Seq(Way)
    OBVIOUS
  <2>2. Len(slides) <= MaxSlides /\ escapes \in 0..1
    BY <1>1, SlidesAssumption
  <2> QED
    BY <1>1, <2>1, <2>2 DEF PanelTypes
<1> QED
  BY <1>1, <1>2
  DEF PInv, StillAtFirst, WideOnlyCloses, MarkedAsSliding, WillBeShown, Shown, Displayed

\* The link of #search, in the middle of anything.
LEMMA TapPInv == ASSUME PInv, Tap PROVE PInv'
<1>1. PICK way \in Way :
        /\ Slide(way) /\ mark' = IF way = "down" THEN {"active"} ELSE {}
        /\ relinked' \in BOOLEAN
  BY DEF Tap, Way, PInv, PanelTypes
<1>2. page' = page /\ page = "ready" /\ wide = FALSE /\ UNCHANGED <<wide, escapes, cut>>
  BY DEF Tap, Reload, navVars, pageVars, PInv, PanelTypes
<1>3. PanelTypes
  BY DEF PInv
<1>4. PanelTypes'
  BY <1>1, <1>2, <1>3, SlideEndsLast DEF PanelTypes
<1>5. StillAtFirst' /\ WideOnlyCloses'
  BY <1>2 DEF StillAtFirst, WideOnlyCloses
<1>6. MarkedAsSliding'
  <2> SUFFICES ASSUME ~ cut PROVE MarkedAsSliding'
    BY <1>2 DEF MarkedAsSliding
  <2>1. slides' # <<>> /\ slides'[1] = "down" => display' = "shown"
    BY <1>1, <1>2, <1>3, SlideEndsLast DEF PInv, MarkedAsSliding
  <2>2. WillBeShown' <=> way = "down"
    BY <1>1, <1>2, <1>3, SlideEndsLast DEF WillBeShown, Shown, Displayed
  <2>3. mark' = {"active"} <=> way = "down"
    BY <1>1 DEF Way
  <2> QED
    BY <2>1, <2>2, <2>3 DEF MarkedAsSliding
<1> QED
  BY <1>4, <1>5, <1>6 DEF PInv

\* Escape, heard in a narrow window or in a wide one.
LEMMA HearEscapePInv == ASSUME PInv, HearEscape PROVE PInv'
<1>1. PanelTypes /\ UNCHANGED <<page, wide, relinked, cut>> /\ escapes' \in 0..1
  BY DEF HearEscape, PInv, PanelTypes, navVars, pageVars
<1>2. CASE page = "ready"
  <2>1. Slide("up") /\ "up" \in Way /\ mark' = {}
    BY <1>2 DEF HearEscape, Way
  <2>2. PanelTypes'
    BY <1>1, <2>1, SlideEndsLast DEF PanelTypes
  <2>3. StillAtFirst'
    BY <1>1, <1>2 DEF StillAtFirst
  <2>4. WideOnlyCloses'
    BY <1>1, <2>1, SlideEndsLast DEF PInv, WideOnlyCloses
  <2>5. MarkedAsSliding'
    <3> SUFFICES ASSUME ~ cut, ~ wide PROVE MarkedAsSliding'
      BY <1>1 DEF MarkedAsSliding
    <3>1. slides' # <<>> /\ slides'[1] = "down" => display' = "shown"
      BY <1>1, <2>1, SlideEndsLast DEF PInv, MarkedAsSliding
    <3>2. ~ WillBeShown'
      BY <1>1, <2>1, SlideEndsLast DEF WillBeShown, Shown, Displayed
    <3> QED
      BY <2>1, <3>1, <3>2 DEF MarkedAsSliding
  <2> QED
    BY <2>2, <2>3, <2>4, <2>5 DEF PInv
<1>3. CASE page # "ready"
  <2>1. UNCHANGED <<display, mark, slides>>
    BY <1>3 DEF HearEscape
  <2> QED
    BY <1>1, <2>1
    DEF PInv, PanelTypes, StillAtFirst, WideOnlyCloses, MarkedAsSliding, WillBeShown, Shown
<1> QED
  BY <1>2, <1>3

\* The slide that runs is over; the queue goes on from what it leaves.
LEMMA SlideEndsPInv == ASSUME PInv, SlideEnds PROVE PInv'
<1> DEFINE style == IF Head(slides) = "up" THEN "none" ELSE display
           rest  == Tail(slides)
<1>1. /\ PanelTypes /\ slides # <<>> /\ Dequeue(rest, style, wide)
      /\ UNCHANGED <<page, wide, relinked, mark, escapes, cut>>
  BY DEF SlideEnds, PInv, navVars, pageVars
<1>2. /\ slides \in Seq(Way) /\ Head(slides) = slides[1] /\ 1 \in 1..Len(slides)
      /\ Len(slides) \in Nat /\ slides[1] \in Way
  BY <1>1, ElementOfSeq DEF PanelTypes
<1>3. /\ rest \in Seq(Way) /\ Len(rest) = Len(slides) - 1
      /\ \A i \in 1..Len(rest) : rest[i] = slides[i + 1]
  BY <1>1, <1>2, HeadTailProperties
<1>4. style \in {"css", "shown", "none"} /\ wide \in BOOLEAN
  BY <1>1 DEF PanelTypes
<1>5. style = IF slides[1] = "up" THEN "none" ELSE display
  BY <1>2
<1> HIDE DEF style, rest
<1>6. /\ slides' \in Seq(Way) /\ Len(slides') <= Len(rest)
      /\ display' \in {"css", "shown", "none"}
      /\ slides' # <<>> =>
            /\ slides'[Len(slides')] = rest[Len(rest)]
            /\ slides'[1] = "down" => display' = "shown"
      /\ slides' = <<>> =>
            /\ display' = style
            /\ \A i \in 1..Len(rest) : rest[i] = "down" <=> Displayed(style, wide)
      /\ (\A i \in 1..Len(rest) : rest[i] = "up") =>
            /\ display' = style
            /\ \A i \in 1..Len(slides') : slides'[i] = "up"
  BY <1>1, <1>3, <1>4, DequeueEnds
<1>7. PanelTypes'
  BY <1>1, <1>2, <1>3, <1>6, SlidesAssumption DEF PanelTypes
<1>8. StillAtFirst'
  BY <1>1 DEF PInv, StillAtFirst
<1>9. WideOnlyCloses'
  <2> SUFFICES ASSUME wide, ~ cut PROVE WideOnlyCloses'
    BY <1>1 DEF WideOnlyCloses
  <2>1. mark = {} /\ \A i \in 1..Len(slides) : slides[i] = "up"
    BY DEF PInv, WideOnlyCloses
  <2>2. \A i \in 1..Len(rest) : rest[i] = "up"
    BY <1>2, <1>3, <2>1
  <2>3. style = "none"
    BY <1>2, <1>5, <2>1
  <2> QED
    BY <1>1, <1>6, <2>1, <2>2, <2>3 DEF WideOnlyCloses
<1>10. MarkedAsSliding'
  <2> SUFFICES ASSUME wide = FALSE, ~ cut PROVE MarkedAsSliding'
    BY <1>1, <1>4 DEF MarkedAsSliding
  <2>1. (slides[Len(slides)] = "down" <=> mark = {"active"}) /\ (slides[1] = "down" => display = "shown")
    BY <1>1 DEF PInv, MarkedAsSliding, WillBeShown
  <2>2. CASE Len(rest) = 0
    <3>1. Len(slides) = 1 /\ slides' = <<>>
      BY <1>2, <1>3, <1>6, <2>2
    <3>2. Shown' <=> slides[1] = "down"
      BY <1>1, <1>2, <1>5, <1>6, <2>1, <3>1 DEF Shown, Displayed, Way
    <3> QED
      BY <1>1, <2>1, <3>1, <3>2 DEF MarkedAsSliding, WillBeShown
  <2>3. CASE Len(rest) # 0
    <3>1. Len(rest) \in 1..Len(rest) /\ rest[Len(rest)] = slides[Len(slides)]
      BY <1>2, <1>3, <2>3
    <3>2. slides' = <<>> => (Shown' <=> rest[Len(rest)] = "down")
      BY <1>1, <1>6, <3>1 DEF Shown
    <3> QED
      BY <1>1, <1>6, <2>1, <3>1, <3>2 DEF MarkedAsSliding, WillBeShown
  <2> QED
    BY <1>2, <1>3, <2>2, <2>3
<1> QED
  BY <1>7, <1>8, <1>9, <1>10 DEF PInv

\* A window that becomes wide takes style and class away together; what slides then
\* goes on, and that cut remembers.
LEMMA ResizePInv == ASSUME PInv, NEW toWide \in BOOLEAN, Resize(toWide) PROVE PInv'
<1>1. /\ wide' = toWide /\ UNCHANGED <<page, relinked, slides, escapes>>
      /\ slides \in Seq(Way) /\ wide \in BOOLEAN
  BY DEF Resize, PInv, PanelTypes, navVars, pageVars
<1>2. CASE toWide /\ page = "ready"
  <2>1. display' = "css" /\ mark' = {} /\ cut' \in BOOLEAN
    BY <1>2 DEF Resize
  <2>2. ~ cut' => slides = <<>> /\ Len(slides) = 0
    <3>1. cut' = (slides # <<>>)
      BY <1>2, Zenon DEF Resize
    <3>2. ~ cut' => slides = <<>>
      BY <3>1, Zenon
    <3> QED
      BY <3>2
  <2>3. PanelTypes'
    BY <1>1, <2>1 DEF PInv, PanelTypes
  <2> QED
    BY <1>1, <1>2, <2>1, <2>2, <2>3 DEF PInv, StillAtFirst, WideOnlyCloses, MarkedAsSliding
<1>3. CASE ~ (toWide /\ page = "ready")
  <2>1. UNCHANGED <<display, mark, cut>>
    BY <1>3 DEF Resize
  <2>2. PanelTypes' /\ StillAtFirst'
    BY <1>1, <2>1 DEF PInv, PanelTypes, StillAtFirst
  <2>3. WideOnlyCloses'
    <3>1. CASE toWide
      <4>1. page # "ready"
        BY <1>3, <3>1
      <4>2. slides = <<>> /\ Len(slides) = 0 /\ display = "css" /\ mark = {}
        BY <4>1 DEF PInv, StillAtFirst
      <4> QED
        BY <1>1, <2>1, <4>1, <4>2 DEF WideOnlyCloses
    <3>2. CASE ~ toWide
      BY <1>1, <3>2 DEF WideOnlyCloses
    <3> QED
      BY <3>1, <3>2
  <2>4. MarkedAsSliding'
    <3> SUFFICES ASSUME ~ toWide, ~ cut PROVE MarkedAsSliding'
      BY <1>1, <2>1 DEF MarkedAsSliding
    <3>1. CASE wide
      <4>1. mark = {} /\ display # "shown" /\ \A i \in 1..Len(slides) : slides[i] = "up"
        BY <3>1 DEF PInv, WideOnlyCloses
      <4>2. slides # <<>> => 1 \in 1..Len(slides) /\ Len(slides) \in 1..Len(slides)
        BY <1>1
      <4>3. ~ WillBeShown' /\ ~ (slides' # <<>> /\ slides'[1] = "down")
        BY <1>1, <2>1, <4>1, <4>2 DEF WillBeShown, Shown, Displayed
      <4> QED
        BY <2>1, <4>1, <4>3 DEF MarkedAsSliding
    <3>2. CASE ~ wide
      BY <1>1, <2>1, <3>2 DEF PInv, MarkedAsSliding, WillBeShown, Shown, Displayed
    <3> QED
      BY <3>1, <3>2
  <2> QED
    BY <2>2, <2>3, <2>4 DEF PInv
<1> QED
  BY <1>2, <1>3

\* Page and frame go on loading: the page listens from then on.
LEMMA NavPInv == ASSUME PInv, NavNext, UNCHANGED panelVars PROVE PInv'
<1>1. page' # "ready" => page # "ready"
  BY DEF NavNext, Browser, PageReady, TimerFires, FrameLoads, HearNavReady, HearExpand, Reload,
         pageVars
<1> QED
  BY <1>1
  DEF panelVars, PInv, PanelTypes, StillAtFirst, WideOnlyCloses, MarkedAsSliding, WillBeShown,
      Shown
-----------------------------------------------------------------------------
\* Whatever readers do with the panel, page and frame do what NavHandshake says of them.
THEOREM PanelKeepsHandshake == PanelSpec => NavSpec
<1>1. PanelInit => NavInit
  BY DEF PanelInit
<1>2. [PanelNext]_allVars => [NavNext]_navVars
  <2>1. Tap => [NavNext]_navVars
    BY DEF Tap, NavNext
  <2>2. EscapeKey \/ HearEscape \/ SlideEnds => UNCHANGED navVars
    BY DEF EscapeKey, HearEscape, SlideEnds
  <2>3. ASSUME NEW toWide \in BOOLEAN, Resize(toWide) PROVE UNCHANGED navVars
    BY <2>3 DEF Resize
  <2> QED
    BY <2>1, <2>2, <2>3 DEF PanelNext, allVars
<1> QED
  BY <1>1, <1>2, PTL DEF PanelSpec, NavSpec

\* Style, class and slides stay in step, for any number of slides.
THEOREM PanelInvariance == PanelSpec => []PInv
<1>1. ASSUME PInv, [PanelNext]_allVars PROVE PInv'
  <2>1. CASE EscapeKey
    BY <1>1, <2>1
    DEF EscapeKey, navVars, pageVars, PInv, PanelTypes, StillAtFirst, WideOnlyCloses,
        MarkedAsSliding, WillBeShown, Shown
  <2>2. CASE UNCHANGED allVars
    BY <1>1, <2>2
    DEF allVars, navVars, pageVars, panelVars, PInv, PanelTypes, StillAtFirst, WideOnlyCloses,
        MarkedAsSliding, WillBeShown, Shown
  <2> QED
    BY <1>1, <2>1, <2>2, TapPInv, HearEscapePInv, SlideEndsPInv, ResizePInv, NavPInv
    DEF PanelNext
<1> QED
  BY <1>1, PanelInitPInv, PTL DEF PanelSpec

\* The variables of page, frame and panel keep their types.
THEOREM PanelTyped == PanelSpec => []PanelTypeOK
<1>1. NInv /\ PInv => PanelTypeOK
  <2> SUFFICES ASSUME NInv, PInv PROVE PanelTypeOK
    OBVIOUS
  <2>1. {wide, relinked, cut} \subseteq BOOLEAN
    BY DEF PInv, PanelTypes
  <2> QED
    BY <2>1 DEF NInv, PInv, PanelTypes, PanelTypeOK, Way
<1>2. PanelSpec => []NInv
  BY PanelKeepsHandshake, NavInvariance, PTL
<1> QED
  BY <1>1, <1>2, PanelInvariance, PTL

\* When nothing slides any more, the link is active exactly while the list is open.
THEOREM ActiveWhileShown == PanelSpec => []ActiveIsShown
<1>1. PInv => ActiveIsShown
  BY DEF PInv, MarkedAsSliding, WillBeShown, ActiveIsShown
<1> QED
  BY <1>1, PanelInvariance, PTL
=============================================================================
