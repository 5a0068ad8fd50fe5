--------------------------- MODULE FullListProofs ----------------------------
(***************************************************************************)
(* Proofs, for every list, every set of queries and every size of chunk,   *)
(* about FullList.                                                         *)
(***************************************************************************)
EXTENDS FullList, FiniteSetTheorems, TLAPS

Results(q) == {r \in Row : Matches(q, r)}

\* A search that is under way is the last one asked for, has only the callback that
\* searchTimeout names, and is right about the rows before it.
SearchInHand ==
    /\ pending \subseteq {searchTimeout}
    /\ \A t \in pending :
        /\ t.query = asked
        /\ \A r \in Row : r < t.offset => (r \in found <=> r \in Results(asked))

\* The class of a row that is the k-th of the visible ones.
StripeAmong(visible, r) ==
    IF Cardinality({v \in visible : v < r}) % 2 = 0 THEN "odd" ELSE "even"

\* The stripes fit what is visible.
Striped ==
    LET visible == Visible(inList, collapsed)
    IN  pending = {} => \A r \in visible : stripe[r] = StripeAmong(visible, r)

FInv ==
    /\ TypeOK
    /\ SearchInHand
    /\ ResultsFitQuery
    /\ ClearedIsClean
    /\ Striped

-----------------------------------------------------------------------------
(* Rows and stripes. *)

\* No set of rows has more than N; those above a row can be counted.
LEMMA RowsCounted ==
    ASSUME NEW S \in SUBSET Row
    PROVE  IsFiniteSet(S) /\ Cardinality(S) \in 0..N
<1>1. N \in Nat
  BY RowAssumption
<1>2. IsFiniteSet(Row) /\ Cardinality(Row) = N
  BY <1>1, FS_Interval, 1 \in Int DEF Row
<1>3. IsFiniteSet(S) /\ Cardinality(S) <= N
  BY <1>2, FS_Subset
<1> QED
  BY <1>1, <1>3, FS_CardinalityType

\* highlight() gives every row one of the two classes, and the visible ones in turn.
LEMMA HighlightedStripes ==
    ASSUME NEW visible \in SUBSET Row, stripe \in [Row -> {"odd", "even"}]
    PROVE  /\ Highlighted(visible) \in [Row -> {"odd", "even"}]
           /\ \A r \in visible : Highlighted(visible)[r] = StripeAmong(visible, r)
BY DEF Highlighted, StripeAmong

\* The next visible row has one more above it, so the other class.
LEMMA NeighboursDiffer ==
    ASSUME NEW visible \in SUBSET Row, NEW r \in visible, NEW s \in visible, r < s,
           ~ \E v \in visible : r < v /\ v < s
    PROVE  StripeAmong(visible, r) # StripeAmong(visible, s)
<1> DEFINE above(t) == {v \in visible : v < t}
<1>1. Row \subseteq Nat
  BY RowAssumption DEF Row
<1>2. above(s) = above(r) \cup {r} /\ r \notin above(r)
  <2>1. r \in Nat /\ s \in Nat /\ visible \subseteq Nat
    BY <1>1
  <2>2. ASSUME NEW v \in visible PROVE v < s <=> v < r \/ v = r
    <3>1. v \in Nat /\ ~ (r < v /\ v < s)
      BY <2>1
    <3> QED
      BY <2>1, <3>1
  <2> QED
    BY <2>1, <2>2
<1>3. IsFiniteSet(above(r)) /\ Cardinality(above(r)) \in 0..N
  BY RowsCounted
<1>4. Cardinality(above(s)) = Cardinality(above(r)) + 1
  BY <1>2, <1>3, FS_AddElement
<1>5. Cardinality(above(r)) \in Nat
  BY <1>3, RowAssumption
<1> DEFINE n == Cardinality(above(r))
<1>6. StripeAmong(visible, r) = IF n % 2 = 0 THEN "odd" ELSE "even"
  BY DEF StripeAmong
<1>7. StripeAmong(visible, s) = IF (n + 1) % 2 = 0 THEN "odd" ELSE "even"
  BY <1>4 DEF StripeAmong
<1> HIDE DEF n
<1>8. n \in Nat
  BY <1>5 DEF n
<1>9. n % 2 = 0 <=> (n + 1) % 2 # 0
  BY <1>8
<1> QED
  BY <1>6, <1>7, <1>9

\* What is visible are rows.
LEMMA VisibleRows ==
    ASSUME NEW search, NEW closed
    PROVE  Visible(search, closed) \in SUBSET Row
BY DEF Visible

-----------------------------------------------------------------------------
(* Search. *)

\* A chunk: what it leaves, when it is the last and when it is not.
LEMMA PartialSearchFInv ==
    ASSUME TypeOK, NEW q \in Query, NEW offset \in Nat \ {0}, PartialSearch(q, offset, {}),
           offset \in Row \/ offset = 1,
           asked' = q, inList' = TRUE, keys' \in 0..MaxKeys, UNCHANGED treeVars,
           \A r \in Row : r < offset => (r \in found <=> r \in Results(q))
    PROVE  FInv'
<1>0. N \in Nat /\ Row \subseteq Nat /\ CHUNK \in Nat \ {0}
  BY RowAssumption, ChunkAssumption DEF Row
<1>1. /\ found' \subseteq Row
      /\ \A r \in Row : r < offset + CHUNK => (r \in found' <=> r \in Results(q))
  <2> DEFINE chunk == {r \in Row : offset <= r /\ r < offset + CHUNK}
  <2>1. found' = (found \ chunk) \cup {r \in chunk : Matches(q, r)}
    BY DEF PartialSearch
  <2>2. found \subseteq Row
    BY DEF TypeOK
  <2>3. ASSUME NEW r \in Row, r < offset + CHUNK PROVE r \in found' <=> r \in Results(q)
    <3>1. CASE r < offset
      BY <1>0, <2>1, <3>1 DEF Results
    <3>2. CASE offset <= r
      BY <1>0, <2>1, <2>3, <3>2 DEF Results
    <3> QED
      BY <1>0, <3>1, <3>2
  <2> QED
    BY <2>1, <2>2, <2>3
<1>2. {found', collapsed', aria', clicked'} \subseteq SUBSET Row /\ chosen' \in Row \cup {NoRow}
  BY <1>1 DEF TypeOK, treeVars
<1>3. CASE offset + CHUNK > N
  <2>1. pending' = {} /\ SearchDone
    BY <1>3 DEF PartialSearch
  <2>2. found' = Results(q)
    <3>1. ASSUME NEW r \in Row PROVE r < offset + CHUNK
      BY <1>0, <1>3 DEF Row
    <3>2. Results(q) \subseteq Row
      BY DEF Results
    <3> QED
      BY <1>1, <3>1, <3>2
  <2>3. stripe' = Highlighted(Visible(TRUE, collapsed)) /\ collapsed' = collapsed
        /\ announced' = Cardinality(Visible(TRUE, collapsed))
        /\ searchTimeout' = NoTimer /\ inContent' = FALSE
    BY <2>1 DEF SearchDone, treeVars
  <2>4. announced' \in 0..N
    BY <2>3, VisibleRows, RowsCounted
  <2>5. stripe' \in [Row -> {"odd", "even"}]
    BY <2>3, VisibleRows, HighlightedStripes DEF TypeOK
  <2>6. TypeOK'
    <3>1. {inList', inContent'} \subseteq BOOLEAN
      BY <2>3
    <3>2. announced' \in 0..(N + 1)
      BY <1>0, <2>4
    <3> QED
      BY <1>2, <2>1, <2>3, <2>5, <3>1, <3>2 DEF TypeOK
  <2>7. Striped'
    BY <2>3, VisibleRows, HighlightedStripes DEF Striped, TypeOK
  <2>8. SearchInHand' /\ ClearedIsClean'
    BY <2>1 DEF SearchInHand, ClearedIsClean
  <2>9. ResultsFitQuery'
    BY <2>2 DEF ResultsFitQuery, Results, Matches, MatchString
  <2> QED
    BY <2>6, <2>7, <2>8, <2>9 DEF FInv
<1>4. CASE ~ (offset + CHUNK > N)
  <2> DEFINE next == [query |-> q, offset |-> offset + CHUNK]
  <2>1. /\ pending' = {next} /\ searchTimeout' = next /\ announced' = N + 1
        /\ inContent' = TRUE /\ stripe' = stripe
    BY <1>4 DEF PartialSearch, Resume
  <2>2. offset + CHUNK \in Row
    BY <1>0, <1>4 DEF Row
  <2>3. next \in Timer /\ next.query = q /\ next.offset = offset + CHUNK
    BY <2>2 DEF Timer
  <2> HIDE DEF next
  <2>4. TypeOK'
    <3>1. {inList', inContent'} \subseteq BOOLEAN /\ announced' \in 0..(N + 1)
      BY <1>0, <2>1
    <3> QED
      BY <1>2, <2>1, <2>3, <3>1 DEF TypeOK
  <2>5. SearchInHand'
    BY <1>1, <2>1, <2>3 DEF SearchInHand, Results, Matches, MatchString
  <2>6. pending' # {}
    BY <2>1
  <2>7. ResultsFitQuery' /\ ClearedIsClean' /\ Striped'
    BY <2>6 DEF ResultsFitQuery, ClearedIsClean, Striped
  <2> QED
    BY <2>4, <2>5, <2>7 DEF FInv
<1> QED
  BY <1>3, <1>4

\* A keystroke clears the callback of the search before.
LEMMA UnclearedIsNone == ASSUME FInv PROVE Uncleared = {}
BY DEF FInv, SearchInHand, Uncleared

\* Typing in the middle of a search starts over from the first row.
LEMMA PerformSearchFInv == ASSUME FInv, NEW q \in Query, PerformSearch(q) PROVE FInv'
<1>1. PartialSearch(q, 1, {}) /\ asked' = q /\ inList' = TRUE /\ UNCHANGED treeVars
  BY UnclearedIsNone DEF PerformSearch
<1>2. keys' \in 0..MaxKeys
  BY ChunkAssumption DEF PerformSearch, FInv, TypeOK
<1>3. TypeOK
  BY DEF FInv
<1>4. \A r \in Row : ~ (r < 1)
  BY RowAssumption DEF Row
<1> QED
  BY <1>1, <1>2, <1>3, <1>4, PartialSearchFInv

\* The callback goes on where the search in hand stopped.
LEMMA RunTimerFInv == ASSUME FInv, NEW t \in pending, RunTimer(t) PROVE FInv'
<1>1. /\ pending = {t} /\ t \in Timer /\ t.query = asked /\ inList = TRUE
      /\ \A r \in Row : r < t.offset => (r \in found <=> r \in Results(asked))
  BY DEF FInv, TypeOK, SearchInHand, ClearedIsClean
<1>2. t.query \in Query /\ t.offset \in Row /\ t.offset \in Nat \ {0}
  BY <1>1, RowAssumption DEF Timer, Row
<1>3. /\ PartialSearch(t.query, t.offset, {})
      /\ asked' = t.query /\ inList' = TRUE /\ keys' = keys /\ UNCHANGED treeVars
  BY <1>1 DEF RunTimer
<1>4. TypeOK /\ keys' \in 0..MaxKeys
  BY <1>3 DEF FInv, TypeOK
<1>5. \A r \in Row : r < t.offset => (r \in found <=> r \in Results(t.query))
  BY <1>1
<1> QED
  BY <1>2, <1>3, <1>4, <1>5, PartialSearchFInv

\* An emptied input clears the callback with all the rest.
LEMMA ClearSearchFInv == ASSUME FInv, ClearSearch PROVE FInv'
<1>1. /\ pending' = {} /\ searchTimeout' = NoTimer /\ found' = {} /\ inList' = FALSE
      /\ inContent' = FALSE /\ collapsed' \subseteq collapsed
      /\ stripe' = Highlighted(Visible(FALSE, collapsed'))
      /\ UNCHANGED <<announced, aria, clicked, chosen, asked>>
  BY UnclearedIsNone DEF ClearSearch
<1>2. keys' \in 0..MaxKeys
  BY ChunkAssumption DEF ClearSearch, FInv, TypeOK
<1>3. stripe \in [Row -> {"odd", "even"}]
  BY DEF FInv, TypeOK
<1>4. /\ stripe' \in [Row -> {"odd", "even"}]
      /\ \A r \in Visible(FALSE, collapsed') :
            stripe'[r] = StripeAmong(Visible(FALSE, collapsed'), r)
  BY <1>1, <1>3, VisibleRows, HighlightedStripes
<1>5. TypeOK'
  <2>1. {inList', inContent'} \subseteq BOOLEAN
    BY <1>1
  <2> QED
    BY <1>1, <1>2, <1>4, <2>1 DEF FInv, TypeOK
<1>6. Striped'
  BY <1>1, <1>4 DEF Striped
<1> QED
  BY <1>1, <1>5, <1>6 DEF FInv, SearchInHand, ResultsFitQuery, ClearedIsClean
-----------------------------------------------------------------------------
(* The tree. *)

\* The rows a row is nested in, and those with a toggle, are rows of the list.
LEMMA BranchRows == Branch \subseteq Row
BY ParentAssumption, RowAssumption DEF Branch, Row

\* What folds and unfolds rows leaves the search alone and stripes what is visible now.
LEMMA RestripeFInv ==
    ASSUME FInv, UNCHANGED <<searchVars, asked, keys>>,
           collapsed' \subseteq Row, aria' \subseteq Row, clicked' \subseteq Row, chosen' = chosen,
           stripe' = Highlighted(Visible(inList, collapsed'))
    PROVE  FInv'
<1>1. UNCHANGED <<pending, searchTimeout, inList, inContent, found, announced, asked, keys>>
  BY DEF searchVars
<1>2. /\ stripe' \in [Row -> {"odd", "even"}]
      /\ \A r \in Visible(inList, collapsed') :
            stripe'[r] = StripeAmong(Visible(inList, collapsed'), r)
  BY VisibleRows, HighlightedStripes DEF FInv, TypeOK
<1>3. TypeOK'
  BY <1>1, <1>2 DEF FInv, TypeOK
<1>4. Striped'
  BY <1>1, <1>2 DEF Striped
<1>5. SearchInHand' /\ ResultsFitQuery' /\ ClearedIsClean'
  BY <1>1
  DEF FInv, SearchInHand, ResultsFitQuery, ClearedIsClean, Results, Matches, MatchString
<1> QED
  BY <1>3, <1>4, <1>5 DEF FInv

\* A row that is clicked.
LEMMA ClickFInv == ASSUME FInv, NEW r \in Row, Click(r) PROVE FInv'
<1>1. /\ UNCHANGED <<pending, searchTimeout, inList, inContent, found, announced, collapsed, aria,
                     stripe, asked, keys>>
      /\ clicked' = {r} /\ chosen' = r
  BY DEF Click, searchVars
<1>2. TypeOK'
  BY <1>1 DEF FInv, TypeOK
<1> QED
  BY <1>1, <1>2
  DEF FInv, SearchInHand, ResultsFitQuery, ClearedIsClean, Striped, Results, Matches,
      MatchString

\* A toggle that is clicked.
LEMMA ToggleFInv == ASSUME FInv, NEW r \in Row, Toggle(r) PROVE FInv'
<1>1. collapsed' \subseteq Row /\ aria' \subseteq Row /\ clicked' \subseteq Row
  BY DEF Toggle, FInv, TypeOK
<1> QED
  BY <1>1, RestripeFInv DEF Toggle

\* A path the page sends.
LEMMA ExpandToFInv == ASSUME FInv, NEW r \in Row, ExpandTo(r) PROVE FInv'
<1>1. collapsed' \subseteq Row /\ aria' \subseteq Row /\ clicked' \subseteq Row
  BY BranchRows DEF ExpandTo, FInv, TypeOK
<1> QED
  BY <1>1, RestripeFInv DEF ExpandTo
-----------------------------------------------------------------------------
\* The list as YARD writes it.
LEMMA InitFInv == Init => FInv
<1> SUFFICES ASSUME Init PROVE FInv
  OBVIOUS
<1>1. N \in Nat /\ collapsed \subseteq Row
  BY RowAssumption DEF Init
<1>2. stripe \in [Row -> {"odd", "even"}]
  BY DEF Init
<1>3. TypeOK
  <2>1. {inList, inContent} \subseteq BOOLEAN
    BY DEF Init
  <2>2. announced \in 0..(N + 1) /\ keys \in 0..MaxKeys
    BY <1>1, ChunkAssumption DEF Init
  <2> QED
    BY <1>1, <1>2, <2>1, <2>2 DEF Init, TypeOK
<1>4. Striped
  BY VisibleRows DEF Init, Striped, StripeAmong
<1> QED
  BY <1>3, <1>4 DEF Init, FInv, SearchInHand, ResultsFitQuery, ClearedIsClean

\* However keystrokes, clicks, messages and callbacks interleave.
THEOREM FullListInvariance == Spec => []FInv
<1>1. ASSUME FInv, [Next]_listVars PROVE FInv'
  <2>1. CASE UNCHANGED listVars
    BY <1>1, <2>1
    DEF listVars, searchVars, treeVars, FInv, TypeOK, SearchInHand, ResultsFitQuery,
        ClearedIsClean, Striped, Results, Matches, MatchString
  <2> QED
    BY <1>1, <2>1, PerformSearchFInv, RunTimerFInv, ClearSearchFInv, ClickFInv, ToggleFInv,
       ExpandToFInv
    DEF Next, Timers
<1> QED
  BY <1>1, InitFInv, PTL DEF Spec

\* The variables of the script keep their types.
THEOREM FullListTyped == Spec => []TypeOK
<1>1. FInv => TypeOK
  BY DEF FInv
<1> QED
  BY <1>1, FullListInvariance, PTL

\* A search that has come to its end found what its own query matches, however the
\* chunks of earlier searches fell between the keystrokes.
THEOREM SearchesFindTheirOwn == Spec => []ResultsFitQuery
<1>1. FInv => ResultsFitQuery
  BY DEF FInv
<1> QED
  BY <1>1, FullListInvariance, PTL

\* A cleared search leaves nothing behind and nothing of it comes back.
THEOREM ClearedStaysClean == Spec => []ClearedIsClean
<1>1. FInv => ClearedIsClean
  BY DEF FInv
<1> QED
  BY <1>1, FullListInvariance, PTL

\* Visible neighbours differ in stripe whenever no search is under way.
THEOREM NeighboursAlternate == Spec => []StripesAlternate
<1>1. FInv => StripesAlternate
  <2> DEFINE visible == Visible(inList, collapsed)
  <2> SUFFICES ASSUME FInv, pending = {}, NEW r \in visible, NEW s \in visible,
                      r < s, ~ \E v \in visible : r < v /\ v < s
               PROVE  stripe[r] # stripe[s]
    BY DEF StripesAlternate
  <2>1. stripe[r] = StripeAmong(visible, r) /\ stripe[s] = StripeAmong(visible, s)
    BY DEF FInv, Striped
  <2>2. StripeAmong(visible, r) # StripeAmong(visible, s)
    BY VisibleRows, NeighboursDiffer
  <2> QED
    BY <2>1, <2>2
<1> QED
  BY <1>1, FullListInvariance, PTL
=============================================================================
