------------------------------ MODULE FullList ------------------------------
(***************************************************************************)
(* The list of classes, methods or files of the API documentation, in its  *)
(* frame: doc/js/full_list.js, the script YARD put beside the pages.       *)
(*                                                                         *)
(* Rows form a tree and are numbered in document order.  A search goes     *)
(* over them CHUNK rows at a time, each chunk in a callback of setTimeout, *)
(* and between two chunks the reader may type, click, open and close rows, *)
(* and the page around the frame may send it a path to open.               *)
(***************************************************************************)
EXTENDS Naturals, FiniteSets

CONSTANTS
    N,          \* rows in the list
    Parent,     \* Parent[r]: the row r is nested in, 0 at the top
    Name,       \* Name[r]: the text of its link
    FullName,   \* FullName[r]: the first word of its title
    Query,      \* what readers type
    Scoped,     \* the queries with a '::'
    Cased,      \* the queries with a capital, which are case sensitive
    Occurs,     \* <<q, text>>: q is a substring of text, up to case unless Cased
    Spread,     \* <<q, text>>: the letters of q, in order and apart, are in text
    CHUNK,      \* rows a callback goes over
    MaxKeys,    \* bound: keystrokes
    NoTimer,    \* searchTimeout is null
    NoRow       \* nothing was clicked

Row == 1..N

ASSUME RowAssumption    == N \in Nat /\ NoRow \notin Row
ASSUME ParentAssumption == Parent \in [Row -> 0..N] /\ \A r \in Row : Parent[r] < r
ASSUME ChunkAssumption  == CHUNK \in Nat \ {0} /\ MaxKeys \in Nat

VARIABLES
    pending,        \* callbacks of setTimeout that have neither run nor been cleared
    searchTimeout,  \* the handle of the last one
    inList,         \* #full_list has the class insearch
    inContent,      \* #content has it
    found,          \* rows with the class found
    collapsed,      \* rows with the class collapsed
    aria,           \* rows whose toggle says aria-expanded="true"
    clicked,        \* rows with the class clicked
    chosen,         \* $clicked
    stripe,         \* the class odd or even of each row
    announced,      \* the number of results #noresults tells, N + 1 when it is silent
    asked,          \* history: the query of the last search
    keys            \* keystrokes so far

searchVars == <<pending, searchTimeout, inList, inContent, found, announced>>
treeVars   == <<collapsed, aria, clicked, chosen>>
listVars   == <<searchVars, treeVars, stripe, asked, keys>>

Timer == [query: Query, offset: Row]
-----------------------------------------------------------------------------
Ancestors[r \in Row] ==
    IF Parent[r] = 0 THEN {} ELSE {Parent[r]} \cup Ancestors[Parent[r]]

Descendants(r) == {c \in Row : r \in Ancestors[c]}

\* The rows with a toggle.
Branch == {Parent[r] : r \in Row} \ {0}

\* jQuery's li:visible: the row has a width.  A search shows every ul, and hides
\* what is in the rows that were not found, which leaves their width.
Visible(search, closed) ==
    {r \in Row : search \/ Ancestors[r] \cap closed = {}}

\* The rows a reader sees something of.
Readable ==
    {r \in Row : IF inList THEN r \in found ELSE Ancestors[r] \cap collapsed = {}}

\* highlight(): the visible rows get the classes odd and even in turn.
Highlighted(visible) ==
    [r \in Row |->
        IF r \notin visible THEN stripe[r]
        ELSE IF Cardinality({v \in visible : v < r}) % 2 = 0 THEN "odd" ELSE "even"]

\* buildMatchString: the query itself or, with a capital in it, its letters apart.
MatchString(q, text) ==
    <<q, text>> \in Occurs \/ (q \in Cased /\ <<q, text>> \in Spread)

\* The test of partialSearch.
Matches(q, r) == MatchString(q, IF q \in Scoped THEN FullName[r] ELSE Name[r])
-----------------------------------------------------------------------------
(* Search. *)

\* clearSearchTimeout: the callbacks that stay.
Uncleared == pending \ {searchTimeout}

\* Mutant: the rows are striped as they would be without the search.
SearchDoneStriping ==
    /\ searchTimeout' = NoTimer
    /\ stripe' = Highlighted(Visible(FALSE, collapsed))
    /\ announced' = Cardinality(Visible(TRUE, collapsed))
    /\ inContent' = FALSE

\* Mutant: the lists of nested rows are counted with the rows.
SearchDoneCountingLists ==
    /\ searchTimeout' = NoTimer
    /\ stripe' = Highlighted(Visible(TRUE, collapsed))
    /\ announced' = Cardinality(Visible(TRUE, collapsed)) + Cardinality(Branch)
    /\ inContent' = FALSE

\* searchDone counts $('#full_list li:visible').
SearchDone ==
    /\ searchTimeout' = NoTimer
    /\ stripe' = Highlighted(Visible(TRUE, collapsed))
    /\ announced' = Cardinality(Visible(TRUE, collapsed))
    /\ inContent' = FALSE

\* The rest of the search is left to a callback; #noresults stays hidden and
\* #content in search until it is done.
Resume(q, offset, left) ==
    LET next == [query |-> q, offset |-> offset]
    IN  /\ pending' = left \cup {next}
        /\ searchTimeout' = next
        /\ announced' = N + 1
        /\ inContent' = TRUE
        /\ UNCHANGED stripe

\* Mutant: the callback gets the offset of the chunk just done.
PartialSearchAgain(q, offset, left) ==
    LET chunk == {r \in Row : offset <= r /\ r < offset + CHUNK}
    IN  /\ found' = (found \ chunk) \cup {r \in chunk : Matches(q, r)}
        /\ IF offset + CHUNK > N
           THEN pending' = left /\ SearchDone
           ELSE Resume(q, offset, left)

\* partialSearch, with the callbacks left pending: the rows of one chunk, then
\* searchDone or another callback.
PartialSearch(q, offset, left) ==
    LET chunk == {r \in Row : offset <= r /\ r < offset + CHUNK}
    IN  /\ found' = (found \ chunk) \cup {r \in chunk : Matches(q, r)}
        /\ IF offset + CHUNK > N
           THEN pending' = left /\ SearchDone
           ELSE Resume(q, offset + CHUNK, left)

\* Mutant: performSearch leaves the callback of the search before.
PerformSearchBeside(q) ==
    /\ keys < MaxKeys
    /\ keys' = keys + 1
    /\ asked' = q
    /\ inList' = TRUE
    /\ PartialSearch(q, 1, pending)
    /\ UNCHANGED treeVars

\* keyup with a text in the input: performSearch.
PerformSearch(q) ==
    /\ keys < MaxKeys
    /\ keys' = keys + 1
    /\ asked' = q
    /\ inList' = TRUE
    /\ PartialSearch(q, 1, Uncleared)
    /\ UNCHANGED treeVars

RunTimer(t) ==
    /\ t \in pending
    /\ PartialSearch(t.query, t.offset, pending \ {t})
    /\ UNCHANGED <<inList, treeVars, asked, keys>>

\* Mutant: the callback of a search under way is not cleared.
ClearSearchUnderWay ==
    /\ keys < MaxKeys
    /\ keys' = keys + 1
    /\ searchTimeout' = NoTimer
    /\ found' = {}
    /\ inList' = FALSE
    /\ inContent' = FALSE
    /\ collapsed' = collapsed \ (IF chosen = NoRow THEN {} ELSE Ancestors[chosen])
    /\ stripe' = Highlighted(Visible(FALSE, collapsed'))
    /\ UNCHANGED <<pending, announced, aria, clicked, chosen, asked>>

\* keyup with an empty input: clearSearch, which also opens the rows around the
\* clicked one.
ClearSearch ==
    /\ keys < MaxKeys
    /\ keys' = keys + 1
    /\ pending' = Uncleared
    /\ searchTimeout' = NoTimer
    /\ found' = {}
    /\ inList' = FALSE
    /\ inContent' = FALSE
    /\ collapsed' = collapsed \ (IF chosen = NoRow THEN {} ELSE Ancestors[chosen])
    /\ stripe' = Highlighted(Visible(FALSE, collapsed'))
    /\ UNCHANGED <<announced, aria, clicked, chosen, asked>>
-----------------------------------------------------------------------------
(* The tree. *)

\* enableLinks: a click on a row, which the page it leads to need not end (it may
\* be a place in the page that is open, or open in a new tab).
Click(r) ==
    /\ r \in Readable
    /\ clicked' = {r}
    /\ chosen' = r
    /\ UNCHANGED <<searchVars, collapsed, aria, stripe, asked, keys>>

\* enableToggles; a search hides the toggles.
Toggle(r) ==
    /\ r \in Readable \cap Branch
    /\ ~ inList
    /\ collapsed' = IF r \in collapsed THEN collapsed \ {r} ELSE collapsed \cup {r}
    /\ aria' = IF r \in aria THEN aria \ {r} ELSE aria \cup {r}
    /\ stripe' = Highlighted(Visible(inList, collapsed'))
    /\ UNCHANGED <<searchVars, clicked, chosen, asked, keys>>

\* windowEvents and expandTo, on a message with the path of a row; a path without a
\* row changes nothing.
ExpandTo(r) ==
    /\ clicked' = clicked \cup {r}
    /\ collapsed' = collapsed \ ({r} \cup Ancestors[r])
    /\ aria' = aria \cup (Branch \cap (Descendants(r) \cup {r} \cup Ancestors[r]))
    /\ stripe' = Highlighted(Visible(inList, collapsed'))
    /\ UNCHANGED <<searchVars, chosen, asked, keys>>
-----------------------------------------------------------------------------
\* As YARD writes the page: the rows at the top are open, their toggles say they are
\* not, and the stripes fit what is visible.
Init ==
    /\ pending = {} /\ searchTimeout = NoTimer
    /\ inList = FALSE /\ inContent = FALSE
    /\ found = {} /\ announced = N + 1
    /\ collapsed = {r \in Row : Parent[r] # 0}
    /\ aria = {} /\ clicked = {} /\ chosen = NoRow
    /\ stripe = [r \in Row |->
            LET above == {v \in Visible(FALSE, collapsed) : v < r}
            IN  IF Cardinality(above) % 2 = 0 THEN "odd" ELSE "even"]
    /\ asked \in Query
    /\ keys = 0

Timers == \E t \in pending : RunTimer(t)

Next ==
    \/ Timers
    \/ \E q \in Query : PerformSearch(q)
    \/ ClearSearch
    \/ \E r \in Row : Click(r) \/ Toggle(r) \/ ExpandTo(r)

Spec == Init /\ [][Next]_listVars

\* The browser runs the callbacks of setTimeout, whatever the reader does.
FairSpec == Spec /\ WF_listVars(Timers)
-----------------------------------------------------------------------------
TypeOK ==
    /\ pending \subseteq Timer
    /\ searchTimeout \in Timer \cup {NoTimer}
    /\ {inList, inContent} \subseteq BOOLEAN
    /\ found \cup collapsed \cup aria \cup clicked \subseteq Row
    /\ chosen \in Row \cup {NoRow}
    /\ stripe \in [Row -> {"odd", "even"}]
    /\ announced \in 0..(N + 1)
    /\ asked \in Query
    /\ keys \in 0..MaxKeys

\* However keystrokes fall between the chunks of earlier searches, a search that has
\* come to its end has found the rows its own query matches, and no others.
ResultsFitQuery ==
    inList /\ pending = {} => found = {r \in Row : Matches(asked, r)}

\* Once the input is empty nothing of a search is left, nor comes back later.
ClearedIsClean == ~ inList => found = {} /\ pending = {} /\ ~ inContent

\* Two visible neighbours never have the same stripe, unless a search is under way.
StripesAlternate ==
    LET visible == Visible(inList, collapsed)
    IN  pending = {} =>
            \A r, s \in visible :
                r < s /\ ~ (\E v \in visible : r < v /\ v < s) => stripe[r] # stripe[s]

\* Every search comes to an end.
SearchSettles == []<>(pending = {})

\* "This is read out to screen readers" (full_list.js:178): the number told is the
\* number of rows found.
AnnouncedIsFound == announced # N + 1 /\ inList => announced = Cardinality(found)

=============================================================================
