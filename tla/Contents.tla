------------------------------ MODULE Contents ------------------------------
(***************************************************************************)
(* The table of contents of a page of the documentation: generateTOC of    *)
(* doc/js/app.js, which goes over the headings once, in document order,    *)
(* and builds nested lists as their levels rise and fall.                  *)
(***************************************************************************)
EXTENDS Integers, Sequences, FiniteSets, FiniteSetsExt

CONSTANTS
    Documents,          \* sequences of headings
    Text,               \* what an id can be in the page, or a heading spell
    Elsewhere,          \* the ids of what is no heading of the text
    WithNumber(_, _),   \* an id with a number put behind it: "Usage" and 1 make "Usage1"
    None                \* no id, no list

\* A heading: its level; whether it is in the text of a method, where it is passed
\* over; its id and its toc-id, if it has them; the id its text spells.
Heading == [level : 1..6, inMethod : BOOLEAN, id : Text \cup {None}, tocId : Text \cup {None},
            spelled : Text]

ASSUME DocumentsAssumption == Documents \subseteq Seq(Heading)
ASSUME NoneAssumption == None \notin Int /\ None \notin Text
ASSUME NumberAssumption ==
    \A page \in Documents : \A k \in DOMAIN page : \A m, n \in 0..Len(page) :
        /\ WithNumber(page[k].spelled, n) \notin {page[k].spelled, None}
        /\ m # n => WithNumber(page[k].spelled, m) # WithNumber(page[k].spelled, n)

VARIABLES
    document,   \* the headings of the page
    at,         \* headings gone over
    path,       \* the items around the list that grows, outermost first; 0 is a blank one
    attached,   \* that list is in the table
    curli,      \* the heading of the last item
    lastTag,    \* its level
    counter,
    under,      \* under[k]: the item around heading k's, None when it is not in the table
    id          \* id[k]: the id heading k has by now

tocVars == <<document, at, path, attached, curli, lastTag, counter, under, id>>
-----------------------------------------------------------------------------
\* #filecontents h1: the level counts when there are several.
Counted(headings) ==
    {k \in DOMAIN headings :
        /\ ~ headings[k].inMethod
        /\ headings[k].level = 1 => Cardinality({j \in DOMAIN headings : headings[j].level = 1}) > 1}

\* The ids on the page by now.
Ids == Elsewhere \cup ({id[j] : j \in DOMAIN document} \ {None})

\* Mutant: the number is not counted on.
IdentifyAgain(k) ==
    LET heading == document[k]
    IN  /\ id' = [id EXCEPT ![k] =
                    IF @ # None THEN @
                    ELSE IF heading.tocId # None THEN heading.tocId
                    ELSE IF heading.spelled \in Ids THEN WithNumber(heading.spelled, counter)
                    ELSE heading.spelled]
        /\ UNCHANGED counter

\* Heading k has neither an id nor a toc-id: its id is made from its text.
Made(k) == document[k].id = None /\ document[k].tocId = None

\* A heading without an id gets its toc-id, whether or not that is taken, or else the
\* one its text spells, with a number behind it when that is taken by now; that the
\* result is free is not looked up.
Identify(k) ==
    LET spelled == document[k].spelled
        taken == Made(k) /\ spelled \in Ids
    IN  /\ id' = [id EXCEPT ![k] =
                    IF @ # None THEN @
                    ELSE IF ~ Made(k) THEN document[k].tocId
                    ELSE IF taken THEN WithNumber(spelled, counter)
                    ELSE spelled]
        /\ counter' = IF taken THEN counter + 1 ELSE counter

\* Deeper: a list in the last item, and blank items for the levels left out.
Deeper(by) == [path |-> path \o <<curli>> \o [b \in 1..(by - 1) |-> 0], attached |-> attached]

\* Mutant: one list up, however many levels.
ShallowerByOne(by) ==
    IF path # <<>>
    THEN [path |-> SubSeq(path, 1, Len(path) - 1), attached |-> attached]
    ELSE [path |-> <<>>, attached |-> FALSE]

\* Shallower: up as many lists.  Above the outermost there is none, and what is
\* appended from then on goes nowhere.
Shallower(by) ==
    IF by <= Len(path)
    THEN [path |-> SubSeq(path, 1, Len(path) - by), attached |-> attached]
    ELSE [path |-> <<>>, attached |-> FALSE]

\* The first heading of all is compared with NaN, since the tags were made selectors
\* by then: it stays where it is, whatever its level.
Place(level) ==
    IF lastTag = None THEN [path |-> path, attached |-> attached]
    ELSE IF level > lastTag THEN Deeper(level - lastTag)
    ELSE Shallower(lastTag - level)

\* The item of the table a list is in, past blank ones.
Around(items) ==
    LET named == {i \in DOMAIN items : items[i] # 0}
    IN  IF named = {} THEN 0 ELSE items[Max(named)]

\* Mutant: a heading passed over counts as the one before.
HeadingRead(k) ==
    IF k \in Counted(document)
    THEN LET place == Place(document[k].level)
         IN  /\ Identify(k)
             /\ path' = place.path
             /\ attached' = place.attached
             /\ under' = [under EXCEPT ![k] = IF place.attached THEN Around(place.path) ELSE None]
             /\ curli' = k
             /\ lastTag' = document[k].level
    ELSE lastTag' = document[k].level /\ UNCHANGED <<path, attached, curli, counter, under, id>>

Read(k) ==
    IF k \in Counted(document)
    THEN LET place == Place(document[k].level)
         IN  /\ Identify(k)
             /\ path' = place.path
             /\ attached' = place.attached
             /\ under' = [under EXCEPT ![k] = IF place.attached THEN Around(place.path) ELSE None]
             /\ curli' = k
             /\ lastTag' = document[k].level
    ELSE UNCHANGED <<path, attached, curli, lastTag, counter, under, id>>

TocInit ==
    /\ document \in Documents
    /\ at = 0
    /\ path = <<>> /\ attached = TRUE
    /\ curli = None /\ lastTag = None /\ counter = 0
    /\ under = [k \in DOMAIN document |-> None]
    /\ id = [k \in DOMAIN document |-> document[k].id]

TocNext ==
    /\ at < Len(document)
    /\ at' = at + 1
    /\ Read(at + 1)
    /\ UNCHANGED document

TocSpec == TocInit /\ [][TocNext]_tocVars
-----------------------------------------------------------------------------
TocTypeOK ==
    /\ at \in 0..Len(document)
    /\ path \in Seq(0..at) /\ attached \in BOOLEAN
    /\ curli \in 1..at \cup {None} /\ lastTag \in 1..6 \cup {None}
    /\ counter \in 0..at
    /\ \A k \in DOMAIN document : under[k] \in 0..(k - 1) \cup {None}

Level(k) == document[k].level

Done == Counted(document) \cap 1..at

\* A heading is in the table unless it, or one before it, is shallower than the first:
\* then the table has ended.
ListedUnlessShallower ==
    \A k \in Done :
        under[k] # None <=> \A j \in Done : j <= k => Level(j) >= Level(Min(Done))

\* An entry is nested in the closest earlier one that is shallower, also when levels
\* were left out in between.
NestedByLevel ==
    \A k \in Done : under[k] # None =>
        LET above == {j \in Done : j < k /\ Level(j) < Level(k)}
        IN  under[k] = (IF above = {} THEN 0 ELSE Max(above))

\* An id that is made is no other heading's, but for the two that are not looked up:
\* headings that spell the same never share one, and an id given as it is spelled is
\* new on the page, so that only a later heading can repeat it, by a toc-id or a number.
PlacesDiffer ==
    \A k \in Done, j \in DOMAIN document : Made(k) /\ j # k /\ id[j] = id[k] =>
        /\ Made(j) => document[j].spelled # document[k].spelled
        /\ id[k] = document[k].spelled =>
                k < j /\ document[j].id = None /\ (Made(j) => id[j] # document[j].spelled)
=============================================================================
