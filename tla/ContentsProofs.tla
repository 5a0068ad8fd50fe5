--------------------------- MODULE ContentsProofs ----------------------------
(***************************************************************************)
(* Proofs, for documents of any length, about Contents.                    *)
(***************************************************************************)
EXTENDS Contents, SequenceTheorems, WellFoundedInduction, TLAPS

\* The first heading of the table, whose level is that of the outermost list.
First == Min(Done)

\* m is the last heading so far that is no deeper than level l.
LastUpTo(m, l) ==
    /\ m \in Done /\ Level(m) <= l
    /\ \A j \in Done : j > m => Level(j) > l

\* Item i of a path belongs to level Level(First) + i - 1: the last heading no deeper
\* than that level if it is of that level, or else a blank one.
Nests(items) ==
    \A i \in 1..Len(items) : \E m \in Done :
        /\ LastUpTo(m, Level(First) + i - 1)
        /\ items[i] = IF Level(m) = Level(First) + i - 1 THEN m ELSE 0

\* Where the pass is: in a document of the page, after the headings gone over.
Reading ==
    /\ document \in Documents
    /\ DOMAIN under = DOMAIN document /\ DOMAIN id = DOMAIN document
    /\ Done = {} => lastTag = None /\ path = <<>> /\ attached
    /\ Done # {} => curli \in Done /\ lastTag = Level(curli) /\ \A j \in Done : j <= curli

\* The list that grows is where the last heading is, as long as it is in the table.
PathNests ==
    /\ attached <=> \A j \in Done : Level(j) >= Level(First)
    /\ attached /\ Done # {} => Len(path) = lastTag - Level(First) /\ Nests(path)

\* An id a heading was given is the one it spells, or that with a number counter has
\* passed; what it spells is then on the page, so the next to spell it gets a number.
IdsFit ==
    /\ \A k \in DOMAIN document : IF k \in Done THEN id[k] # None ELSE id[k] = document[k].id
    /\ \A k \in Done : Made(k) =>
        /\ document[k].spelled \in Ids
        /\ \/ id[k] = document[k].spelled
           \/ \E n \in 0..(counter - 1) : id[k] = WithNumber(document[k].spelled, n)
    /\ PlacesDiffer

CInv ==
    /\ TocTypeOK
    /\ Reading
    /\ PathNests
    /\ ListedUnlessShallower
    /\ NestedByLevel
    /\ IdsFit
-----------------------------------------------------------------------------
(* The least and the largest. *)

\* Min of a set of numbers is its least one.
LEMMA MinIsLeast ==
    ASSUME NEW S \in SUBSET Nat, S # {}
    PROVE  Min(S) \in S /\ \A y \in S : Min(S) <= y
<1> DEFINE less == {ss \in Nat \X Nat : ss[1] < ss[2]}
<1>1. IsWellFoundedOn(less, Nat)
  BY NatLessThanWellFounded DEF OpToRel
<1>2. \A x, y \in Nat : <<y, x>> \in less <=> y < x
  OBVIOUS
<1> HIDE DEF less
<1>3. \E x \in S : \A y \in S : ~ (<<y, x>> \in less)
  BY <1>1, WFMin, Zenon
<1>4. PICK x \in S : \A y \in S : ~ (<<y, x>> \in less)
  BY <1>3
<1>5. ASSUME NEW y \in S PROVE x <= y
  <2>1. x \in Nat /\ y \in Nat
    OBVIOUS
  <2>2. ~ (y < x)
    BY <1>2, <1>4, <2>1
  <2> QED
    BY <2>1, <2>2
<1> QED
  BY <1>5 DEF Min

\* Max is the one that all others are below.
LEMMA MaxIsLargest ==
    ASSUME NEW S \in SUBSET Nat, NEW m \in S, \A y \in S : y <= m
    PROVE  Max(S) = m
<1>1. \E x \in S : \A y \in S : x >= y
  OBVIOUS
<1>2. Max(S) \in S /\ \A y \in S : Max(S) >= y
  BY <1>1 DEF Max
<1>3. Max(S) \in Nat /\ m \in Nat /\ Max(S) >= m /\ Max(S) <= m
  BY <1>2
<1> QED
  BY <1>3

\* A set of numbers below a bound has a largest.
LEMMA LargestExists ==
    ASSUME NEW n \in Nat, NEW S \in SUBSET (0..n), S # {}
    PROVE  \E m \in S : \A y \in S : y <= m
<1> DEFINE gaps == {n - y : y \in S}
<1>1. gaps \in SUBSET Nat /\ gaps # {}
  <2>1. \A y \in S : y \in Nat /\ n - y \in Nat
    OBVIOUS
  <2> QED
    BY <2>1
<1>2. PICK g \in gaps : \A h \in gaps : g <= h
  <2> HIDE DEF gaps
  <2> QED
    BY <1>1, MinIsLeast
<1>3. PICK m \in S : g = n - m
  OBVIOUS
<1>4. ASSUME NEW y \in S PROVE y <= m
  <2>1. n - m <= n - y
    BY <1>2, <1>3
  <2> QED
    BY <2>1
<1> QED
  BY <1>4
-----------------------------------------------------------------------------
\* The last item of a path that is not blank, if there is one.
LEMMA AroundIsLast ==
    ASSUME NEW items \in Seq(Nat)
    PROVE  \/ Around(items) = 0 /\ \A i \in 1..Len(items) : items[i] = 0
           \/ \E i \in 1..Len(items) :
                /\ Around(items) = items[i] /\ items[i] # 0
                /\ \A h \in 1..Len(items) : h > i => items[h] = 0
<1> DEFINE named == {i \in DOMAIN items : items[i] # 0}
<1>1. DOMAIN items = 1..Len(items) /\ Len(items) \in Nat
  OBVIOUS
<1>2. CASE named = {}
  BY <1>1, <1>2 DEF Around
<1>3. CASE named # {}
  <2>1. named \in SUBSET (0..Len(items)) /\ named \in SUBSET Nat
    BY <1>1
  <2>2. PICK i \in named : \A h \in named : h <= i
    <3> HIDE DEF named
    <3> QED
      BY <1>1, <1>3, <2>1, LargestExists
  <2>3. Max(named) = i
    <3> HIDE DEF named
    <3> QED
      BY <2>1, <2>2, MaxIsLargest
  <2>4. Around(items) = items[i] /\ items[i] # 0 /\ i \in 1..Len(items)
    BY <1>1, <1>3, <2>3 DEF Around
  <2>5. ASSUME NEW h \in 1..Len(items), h > i PROVE items[h] = 0
    BY <1>1, <2>2, <2>4, <2>5
  <2> QED
    BY <2>4, <2>5
<1> QED
  BY <1>2, <1>3

\* The level of the item of a path, and the item of a level.
LEMMA ItemOfLevel ==
    \A l, base, i \in Int : /\ l = base + i - 1 <=> i = l - base + 1
                           /\ i >= l - base + 1 => l <= base + i - 1
OBVIOUS

\* Blank items are a list.
LEMMA BlankList ==
    ASSUME NEW S, 0 \in S, NEW n \in Nat
    PROVE  /\ [b \in 1..n |-> 0] \in Seq(S)
           /\ Len([b \in 1..n |-> 0]) = n
           /\ \A i \in 1..n : [b \in 1..n |-> 0][i] = 0
<1>1. [b \in 1..n |-> 0] \in [1..n -> S]
  OBVIOUS
<1> QED
  BY <1>1

\* A list of some items is a list of more of them.
LEMMA ListOfMore ==
    ASSUME NEW S, NEW T, S \subseteq T, NEW s \in Seq(S)
    PROVE  s \in Seq(T)
<1>1. Len(s) \in Nat /\ DOMAIN s = 1..Len(s) /\ s \in [1..Len(s) -> S]
  BY LenProperties
<1>2. s \in [1..Len(s) -> T]
  BY <1>1
<1> QED
  BY <1>1, <1>2

\* Headings gone over have a level, and the first is the first of them.
LEMMA DoneLevels ==
    ASSUME TocTypeOK, Reading
    PROVE  /\ at \in Nat /\ document \in Seq(Heading)
           /\ \A j \in Done : j \in Nat \ {0} /\ j <= at /\ j \in DOMAIN document /\ Level(j) \in 1..6
           /\ Done # {} => First \in Done /\ \A j \in Done : First <= j
<1>1. document \in Seq(Heading) /\ at \in Nat
  BY DocumentsAssumption DEF Reading, TocTypeOK
<1>2. \A j \in Done : j \in DOMAIN document /\ j \in 1..at
  BY DEF Done, Counted
<1>3. \A j \in DOMAIN document : document[j] \in Heading
  BY <1>1
<1>4. \A j \in Done : j \in Nat \ {0} /\ j <= at /\ j \in DOMAIN document /\ Level(j) \in 1..6
  BY <1>1, <1>2, <1>3 DEF Level, Heading
<1>5. Done \in SUBSET Nat
  BY <1>4
<1> QED
  BY <1>1, <1>4, <1>5, MinIsLeast DEF First

\* In a path that nests, the innermost item that is not blank is the closest heading
\* above.
LEMMA InnermostIsClosest ==
    ASSUME TocTypeOK, Reading, Done # {}, NEW v \in 1..6, v >= Level(First),
           \A j \in Done : Level(j) >= Level(First),
           NEW items \in Seq(Nat), Len(items) = v - Level(First), Nests(items)
    PROVE  LET above == {j \in Done : Level(j) < v}
           IN  Around(items) = IF above = {} THEN 0 ELSE Max(above)
<1> DEFINE above == {j \in Done : Level(j) < v}
           base == Level(First)
<1>0. /\ at \in Nat /\ base \in 1..6 /\ First \in Done
      /\ \A j \in Done : j \in Nat \ {0} /\ j <= at /\ Level(j) \in 1..6 /\ Level(j) >= base
  BY DoneLevels
<1>1. CASE above = {}
  <2>1. ~ (base < v)
    BY <1>0, <1>1
  <2>2. Len(items) = 0
    BY <1>0, <2>1
  <2>3. 1..Len(items) = {}
    BY <2>2
  <2>4. Around(items) = 0
    BY <2>3, AroundIsLast
  <2> QED
    BY <1>1, <2>4
<1>2. CASE above # {}
  <2>1. above \in SUBSET (0..at) /\ above \in SUBSET Nat
    BY <1>0
  <2>2. PICK m \in above : \A j \in above : j <= m
    <3> HIDE DEF above
    <3> QED
      BY <1>0, <1>2, <2>1, LargestExists
  <2>3. Max(above) = m
    <3> HIDE DEF above
    <3> QED
      BY <2>1, <2>2, MaxIsLargest
  <2> DEFINE p == Level(m) - base + 1
  <2>4. m \in Done /\ m \in Nat \ {0} /\ Level(m) \in base..(v - 1) /\ p \in 1..Len(items)
    <3>1. m \in Done /\ Level(m) < v
      OBVIOUS
    <3>2. m \in Nat \ {0} /\ Level(m) \in 1..6 /\ Level(m) >= base
      BY <1>0, <3>1
    <3>3. Len(items) = v - base
      OBVIOUS
    <3>4. Level(m) \in base..(v - 1)
      <4> HIDE DEF base
      <4> QED
        BY <1>0, <3>1, <3>2
    <3>5. p \in 1..Len(items)
      <4>1. Len(items) \in Nat /\ base \in Int
        BY <1>0
      <4> HIDE DEF base
      <4> QED
        BY <3>3, <3>4, <4>1
    <3> QED
      BY <3>1, <3>2, <3>4, <3>5
  <2>5. ASSUME NEW i \in 1..Len(items), i >= p PROVE items[i] = IF i = p THEN m ELSE 0
    <3> DEFINE l == base + i - 1
    <3>1. l \in Nat /\ l < v /\ Level(m) <= l /\ (Level(m) = l <=> i = p)
      <4>1. Len(items) = v - base /\ Len(items) \in Nat /\ base \in Int
        BY <1>0
      <4>2. Level(m) \in Int /\ i \in Int /\ i <= Len(items)
        BY <1>0, <2>4, <4>1
      <4> HIDE DEF base
      <4>3. l \in Nat /\ l < v
        BY <1>0, <4>1, <4>2
      <4>4. Level(m) <= l /\ (Level(m) = l <=> i = p)
        BY <2>5, <4>1, <4>2, ItemOfLevel
      <4> QED
        BY <4>3, <4>4
    <3>2. PICK n \in Done : LastUpTo(n, l) /\ items[i] = IF Level(n) = l THEN n ELSE 0
      BY DEF Nests
    <3>3. n \in Nat /\ Level(n) \in 1..6 /\ Level(n) <= l /\ ~ (m > n)
      BY <1>0, <2>4, <3>1, <3>2 DEF LastUpTo
    <3>4. n \in above
      <4>1. Level(n) < v
        <5> HIDE DEF l
        <5> QED
          BY <3>1, <3>3
      <4> QED
        BY <4>1
    <3>5. n = m
      BY <2>2, <2>4, <3>3, <3>4
    <3> HIDE DEF l, p
    <3> QED
      BY <3>1, <3>2, <3>5
  <2>6. items[p] = m /\ m # 0
    BY <1>0, <2>4, <2>5
  <2> HIDE DEF p
  <2>7. PICK i \in 1..Len(items) :
          /\ Around(items) = items[i] /\ items[i] # 0
          /\ \A h \in 1..Len(items) : h > i => items[h] = 0
    BY <2>4, <2>6, AroundIsLast
  <2>8. i = p
    <3>1. ~ (p > i)
      BY <2>4, <2>6, <2>7
    <3>2. i >= p
      BY <2>4, <3>1
    <3> QED
      BY <2>5, <2>7, <3>2
  <2> QED
    BY <1>2, <2>3, <2>6, <2>7, <2>8
<1> QED
  BY <1>1, <1>2
-----------------------------------------------------------------------------
(* Where the next heading goes. *)

\* Numbers are not None.
LEMMA NoNumberIsNone ==
    \A i \in Int : i # None
BY NoneAssumption

\* The path of a prefix of the levels is a prefix of the path.
LEMMA PrefixNests ==
    ASSUME NEW items \in Seq(Nat), Nests(items), NEW n \in 0..Len(items)
    PROVE  Nests(SubSeq(items, 1, n)) /\ Len(SubSeq(items, 1, n)) = n
<1>1. Len(SubSeq(items, 1, n)) = n /\ \A i \in 1..n : SubSeq(items, 1, n)[i] = items[i]
  OBVIOUS
<1>2. \A i \in 1..n : i \in 1..Len(items)
  OBVIOUS
<1> QED
  BY <1>1, <1>2 DEF Nests

\* A path goes on, below its last heading, through the levels left out.
LEMMA DeeperNests ==
    ASSUME TocTypeOK, Reading, PathNests, attached, Done # {},
           NEW by \in Nat \ {0}
    PROVE  /\ Len(Deeper(by).path) = Len(path) + by
           /\ Nests(Deeper(by).path)
<1> DEFINE blanks == [b \in 1..(by - 1) |-> 0]
           base == Level(First)
           items == path \o <<curli>> \o blanks
<1>0. /\ at \in Nat /\ base \in 1..6 /\ First \in Done
      /\ curli \in Done /\ curli \in Nat /\ lastTag = Level(curli) /\ Level(curli) \in 1..6
      /\ \A j \in Done : j \in Nat /\ j <= curli
  BY DoneLevels DEF Reading
<1>1. path \in Seq(Nat) /\ Len(path) \in Nat /\ blanks \in Seq(Nat) /\ Len(blanks) = by - 1
  <2>1. path \in Seq(Nat)
    BY <1>0 DEF TocTypeOK
  <2>2. by - 1 \in Nat
    OBVIOUS
  <2> QED
    BY <2>1, <2>2, BlankList
<1>2. Len(path) = lastTag - base /\ Nests(path)
  BY DEF PathNests
<1>3. /\ items \in Seq(Nat)
      /\ Len(items) = Len(path) + by
      /\ \A i \in 1..Len(items) : items[i] = IF i <= Len(path) THEN path[i]
                                           ELSE IF i = Len(path) + 1 THEN curli ELSE 0
  <2> DEFINE front == path \o <<curli>>
  <2>1. /\ front \in Seq(Nat) /\ Len(front) = Len(path) + 1
        /\ \A i \in 1..Len(front) : front[i] = IF i <= Len(path) THEN path[i] ELSE curli
    BY <1>0, <1>1
  <2>2. /\ front \o blanks \in Seq(Nat) /\ Len(front \o blanks) = Len(front) + Len(blanks)
        /\ \A i \in 1..(Len(front) + Len(blanks)) :
              (front \o blanks)[i] = IF i <= Len(front) THEN front[i] ELSE blanks[i - Len(front)]
    <3> HIDE DEF front, blanks
    <3> QED
      BY <1>1, <2>1, ConcatProperties
  <2>3. \A b \in 1..(by - 1) : blanks[b] = 0
    OBVIOUS
  <2>4. items = front \o blanks
    OBVIOUS
  <2> HIDE DEF front, blanks, items
  <2>5. Len(items) = Len(front) + Len(blanks) /\ Len(items) = Len(path) + by
    <3>1. Len(items) = Len(front) + Len(blanks)
      BY <2>2, <2>4
    <3>2. Len(front) = Len(path) + 1 /\ Len(blanks) = by - 1
      BY <1>1, <2>1
    <3>3. Len(path) \in Int /\ by \in Int
      BY <1>1
    <3> QED
      BY <3>1, <3>2, <3>3
  <2>6. ASSUME NEW i \in 1..Len(items)
        PROVE  items[i] = IF i <= Len(path) THEN path[i]
                          ELSE IF i = Len(path) + 1 THEN curli ELSE 0
    <3>1. i \in Nat \ {0} /\ i <= Len(front) + Len(blanks)
      BY <1>1, <2>1, <2>5
    <3>2. CASE i <= Len(front)
      <4>1. items[i] = front[i] /\ i \in 1..Len(front)
        BY <1>1, <2>1, <2>2, <2>4, <3>1, <3>2
      <4> QED
        BY <1>1, <2>1, <3>1, <3>2, <4>1
    <3>3. CASE ~ (i <= Len(front))
      <4>0. i - Len(front) \in 1..(by - 1)
        BY <1>1, <2>1, <3>1, <3>3
      <4>1. items[i] = blanks[i - Len(front)]
        BY <1>1, <2>1, <2>2, <2>4, <3>1, <3>3
      <4>2. items[i] = 0
        BY <2>3, <4>0, <4>1
      <4>3. ~ (i <= Len(path)) /\ ~ (i = Len(path) + 1)
        BY <1>1, <2>1, <3>1, <3>3
      <4> QED
        BY <4>2, <4>3
    <3> QED
      BY <3>2, <3>3
  <2> QED
    BY <2>2, <2>4, <2>5, <2>6
<1>4. ASSUME NEW i \in 1..Len(items)
      PROVE  \E m \in Done : LastUpTo(m, base + i - 1)
                /\ items[i] = IF Level(m) = base + i - 1 THEN m ELSE 0
  <2> HIDE DEF items, base
  <2>1. i \in Nat \ {0}
    BY <1>1, <1>3
  <2>2. CASE i <= Len(path)
    <3>1. i \in 1..Len(path)
      BY <1>1, <2>1, <2>2
    <3> QED
      BY <1>2, <1>3, <2>2, <3>1 DEF Nests, base
  <2>3. CASE i > Len(path)
    <3>1. Level(curli) <= base + i - 1 /\ (Level(curli) = base + i - 1 <=> i = Len(path) + 1)
      <4>1. Level(curli) \in Int /\ base \in Int /\ Len(path) = Level(curli) - base
        BY <1>0, <1>2
      <4>2. i >= Level(curli) - base + 1
        BY <1>1, <2>1, <2>3, <4>1
      <4> QED
        BY <2>1, <4>1, <4>2, ItemOfLevel
    <3>2. LastUpTo(curli, base + i - 1)
      BY <1>0, <3>1 DEF LastUpTo
    <3>3. items[i] = IF Level(curli) = base + i - 1 THEN curli ELSE 0
      BY <1>1, <1>3, <2>1, <2>3, <3>1
    <3> QED
      BY <1>0, <3>2, <3>3
  <2> QED
    BY <1>1, <2>1, <2>2, <2>3
<1>5. Deeper(by).path = items
  BY DEF Deeper
<1> QED
  BY <1>3, <1>4, <1>5 DEF Nests

\* What Place answers: the list of the heading, in the table unless the heading is
\* shallower than the first.
LEMMA PlaceNests ==
    ASSUME TocTypeOK, Reading, PathNests, Done # {}, NEW v \in 1..6
    PROVE  /\ Place(v).path \in Seq(0..at)
           /\ Place(v).attached \in BOOLEAN
           /\ Place(v).attached <=> attached /\ v >= Level(First)
           /\ Place(v).attached => /\ Len(Place(v).path) = v - Level(First)
                                  /\ Nests(Place(v).path)
<1> DEFINE base == Level(First)
<1>0. /\ at \in Nat /\ base \in 1..6 /\ curli \in 1..at /\ lastTag \in 1..6 /\ lastTag # None
      /\ path \in Seq(0..at) /\ Len(path) \in Nat /\ attached \in BOOLEAN
  <2>1. at \in Nat /\ base \in 1..6 /\ path \in Seq(0..at) /\ attached \in BOOLEAN
    BY DoneLevels DEF TocTypeOK
  <2>2. curli \in Done /\ lastTag = Level(curli)
    BY DEF Reading
  <2>3. curli \in 1..at /\ lastTag \in 1..6
    BY <2>1, <2>2, DoneLevels
  <2> QED
    BY <2>1, <2>3, NoNumberIsNone
<1>1. CASE v > lastTag
  <2> DEFINE by == v - lastTag
  <2>1. by \in Nat \ {0} /\ Place(v) = Deeper(by)
    BY <1>0, <1>1 DEF Place
  <2>2. [b \in 1..(by - 1) |-> 0] \in Seq(0..at)
    <3>1. by - 1 \in Nat /\ 0 \in 0..at
      BY <1>0, <2>1
    <3> HIDE DEF by
    <3> QED
      BY <3>1, BlankList
  <2>3. Deeper(by).path \in Seq(0..at) /\ Deeper(by).attached = attached
    <3>1. <<curli>> \in Seq(0..at)
      BY <1>0
    <3>2. path \o <<curli>> \in Seq(0..at)
      BY <1>0, <3>1, ConcatProperties
    <3> DEFINE blanks == [b \in 1..(by - 1) |-> 0]
    <3>3. path \o <<curli>> \o blanks \in Seq(0..at)
      <4> HIDE DEF blanks
      <4> QED
        BY <2>2, <3>2, ConcatProperties DEF blanks
    <3> QED
      BY <3>3 DEF Deeper
  <2>4. CASE attached
    <3>1. Len(path) = lastTag - base /\ base <= v
      BY <1>0, <1>1, <2>4 DEF PathNests
    <3>2. Len(Deeper(by).path) = Len(path) + by /\ Nests(Deeper(by).path)
      <4> HIDE DEF by
      <4> QED
        BY <2>1, <2>4, DeeperNests
    <3>3. Len(Deeper(by).path) = v - base
      <4>1. by = v - lastTag /\ base \in Int
        BY <1>0
      <4> HIDE DEF by, base
      <4> QED
        BY <1>0, <3>1, <3>2, <4>1
    <3> QED
      BY <2>1, <2>3, <2>4, <3>1, <3>2, <3>3
  <2> QED
    BY <1>0, <2>1, <2>3, <2>4
<1>2. CASE v <= lastTag
  <2> DEFINE by == lastTag - v
             n == Len(path) - by
  <2>1. by \in Nat /\ Place(v) = Shallower(by)
    BY <1>0, <1>2 DEF Place
  <2>2. CASE by <= Len(path)
    <3>1. n \in 0..Len(path)
      BY <1>0, <2>1, <2>2
    <3>2. Place(v).path = SubSeq(path, 1, n) /\ Place(v).attached = attached
      BY <2>1, <2>2 DEF Shallower
    <3>3. SubSeq(path, 1, n) \in Seq(0..at)
      <4> HIDE DEF n
      <4> QED
        BY <1>0, <3>1
    <3>4. CASE attached
      <4>1. Len(path) = lastTag - base /\ Nests(path) /\ path \in Seq(Nat)
        BY <1>0, <3>4 DEF PathNests
      <4>2. v >= base /\ n = v - base
        BY <1>0, <2>2, <4>1
      <4>3. Nests(SubSeq(path, 1, n)) /\ Len(SubSeq(path, 1, n)) = n
        <5> HIDE DEF n
        <5> QED
          BY <3>1, <4>1, PrefixNests
      <4> QED
        BY <3>2, <3>3, <3>4, <4>2, <4>3
    <3> QED
      <4> HIDE DEF by, n
      <4>1. CASE ~ attached
        BY <1>0, <3>2, <3>3, <4>1
      <4> QED
        BY <1>0, <3>4, <4>1
  <2>3. CASE ~ (by <= Len(path))
    <3>1. Place(v).path = <<>> /\ Place(v).attached = FALSE
      BY <2>1, <2>3 DEF Shallower
    <3>2. attached => ~ (v >= base)
      <4>1. attached => Len(path) = lastTag - base
        BY DEF PathNests
      <4> QED
        BY <1>0, <2>3, <4>1
    <3>3. <<>> \in Seq(0..at)
      OBVIOUS
    <3> HIDE DEF by, n
    <3> QED
      BY <1>0, <3>1, <3>2, <3>3
  <2> QED
    BY <2>2, <2>3
<1> QED
  BY <1>0, <1>1, <1>2
-----------------------------------------------------------------------------
(* Induction over the headings of the page. *)

\* Before the first heading the table is one empty list.
LEMMA InitContents == TocInit => CInv
<1> SUFFICES ASSUME TocInit PROVE CInv
  OBVIOUS
<1>1. document \in Seq(Heading) /\ document \in Documents /\ Len(document) \in Nat
  BY DocumentsAssumption DEF TocInit
<1>2. Done = {}
  BY <1>1 DEF TocInit, Done
<1>4. TocTypeOK
  <2>1. path \in Seq(0..at)
    BY DEF TocInit
  <2> QED
    BY <1>1, <2>1 DEF TocInit, TocTypeOK
<1>5. Reading
  BY <1>1, <1>2 DEF TocInit, Reading
<1>6. PathNests
  BY <1>2 DEF TocInit, PathNests
<1>7. ListedUnlessShallower /\ NestedByLevel
  BY <1>2 DEF ListedUnlessShallower, NestedByLevel
<1>8. IdsFit
  BY <1>2 DEF TocInit, IdsFit, PlacesDiffer
<1> QED
  BY <1>4, <1>5, <1>6, <1>7, <1>8 DEF CInv

\* A step adds the next heading to those gone over, when it counts.
LEMMA DoneGrows ==
    ASSUME TocTypeOK, Reading, TocNext
    PROVE  /\ at' = at + 1 /\ at' \in DOMAIN document /\ at' \in Nat \ {0}
           /\ document' = document /\ \A j : Level(j)' = Level(j)
           /\ Level(at') \in 1..6
           /\ at' \notin Done /\ \A j \in Done : j < at'
           /\ Done' = IF at' \in Counted(document) THEN Done \cup {at'} ELSE Done
<1>0. /\ at \in Nat /\ document \in Seq(Heading) /\ Len(document) \in Nat
      /\ \A j \in Done : j \in Nat \ {0} /\ j <= at
  BY DoneLevels
<1>1. at' = at + 1 /\ at < Len(document) /\ document' = document
  BY DEF TocNext
<1>2. \A j : Level(j)' = Level(j)
  BY <1>1 DEF Level
<1>3. at' \in DOMAIN document /\ at' \in Nat \ {0} /\ DOMAIN document = 1..Len(document)
  BY <1>0, <1>1
<1>4. Level(at') \in 1..6
  <2>1. document[at'] \in Heading
    BY <1>0, <1>3
  <2> QED
    BY <2>1 DEF Level, Heading
<1>5. Counted(document)' = Counted(document) /\ Counted(document) \subseteq DOMAIN document
  BY <1>1 DEF Counted
<1>6. 1..at' = 1..at \cup {at'}
  BY <1>0, <1>1
<1>7. Done' = Counted(document) \cap (1..at')
  BY <1>5 DEF Done
<1>8. Done = Counted(document) \cap (1..at)
  BY DEF Done
<1>9. Done' = IF at' \in Counted(document) THEN Done \cup {at'} ELSE Done
  <2>1. CASE at' \in Counted(document)
    BY <1>6, <1>7, <1>8, <2>1
  <2>2. CASE at' \notin Counted(document)
    BY <1>6, <1>7, <1>8, <2>2
  <2> QED
    BY <2>1, <2>2
<1>10. at' \notin Done /\ \A j \in Done : j < at'
  BY <1>0, <1>1
<1> QED
  BY <1>1, <1>2, <1>3, <1>4, <1>9, <1>10

\* The ids keep to what the headings spell: a free one is new, and a number behind it is
\* the first that counter has not passed.
LEMMA IdentifyKeepsIds ==
    ASSUME TocTypeOK, Reading, IdsFit, TocNext, at' \in Counted(document)
    PROVE  IdsFit' /\ counter' \in 0..at'
<1> DEFINE k == at'
           spelled == document[k].spelled
           taken == Made(k) /\ spelled \in Ids
<1>0. /\ at \in Nat /\ at' = at + 1 /\ k \in DOMAIN document /\ document' = document
      /\ DOMAIN id = DOMAIN document /\ Done' = Done \cup {k} /\ k \notin Done
      /\ \A j \in Done : j < k /\ j \in DOMAIN document
      /\ document \in Seq(Heading) /\ document \in Documents /\ counter \in 0..at
      /\ at < Len(document) /\ Len(document) \in Nat
  <2>1. at \in Nat /\ document \in Seq(Heading) /\ \A j \in Done : j \in DOMAIN document
    BY DoneLevels
  <2>2. at < Len(document)
    BY DEF TocNext
  <2> QED
    BY <2>1, <2>2, DoneGrows DEF Reading, TocTypeOK
<1>1. Identify(k)
  BY <1>0 DEF TocNext, Read
<1>2. /\ id'[k] = IF id[k] # None THEN id[k]
                  ELSE IF ~ Made(k) THEN document[k].tocId
                  ELSE IF taken THEN WithNumber(spelled, counter)
                  ELSE spelled
      /\ \A j \in DOMAIN document \ {k} : id'[j] = id[j]
      /\ DOMAIN id' = DOMAIN document
  BY <1>0, <1>1 DEF Identify
<1>3. counter' = IF taken THEN counter + 1 ELSE counter
  BY <1>1 DEF Identify
<1>4. counter \in Nat /\ counter' \in 0..at' /\ counter <= counter'
  <2>1. counter' = counter \/ counter' = counter + 1
    BY <1>3
  <2> QED
    BY <1>0, <2>1
<1>5. /\ \A j : Made(j)' = Made(j)
      /\ id[k] = document[k].id
      /\ \A j \in DOMAIN document : j \notin Done => id[j] = document[j].id
  BY <1>0 DEF Made, IdsFit
<1>6. \A j \in DOMAIN document : document[j].spelled # None /\ document[j].spelled \in Text
  <2>1. \A j \in DOMAIN document : document[j] \in Heading
    BY <1>0
  <2> QED
    BY <2>1, NoneAssumption DEF Heading
\* The numbers behind an id make it another each time.
<1>7. \A j \in DOMAIN document : \A m, n \in 0..Len(document) :
        /\ WithNumber(document[j].spelled, n) # document[j].spelled
        /\ WithNumber(document[j].spelled, n) # None
        /\ m # n => WithNumber(document[j].spelled, m) # WithNumber(document[j].spelled, n)
  BY <1>0, NumberAssumption
<1>8. counter \in 0..Len(document) /\ \A n \in 0..(counter - 1) : n \in 0..Len(document) /\ n # counter
  BY <1>0, <1>4
<1>9. WithNumber(spelled, counter) # spelled /\ WithNumber(spelled, counter) # None
  BY <1>0, <1>7, <1>8
<1>10. id'[k] # None
  BY <1>0, <1>2, <1>5, <1>6, <1>9 DEF Made
<1>11. Ids \subseteq Ids' /\ id'[k] \in Ids'
  <2>1. ASSUME NEW i \in Ids PROVE i \in Ids'
    <3>1. CASE i \in Elsewhere
      BY <3>1 DEF Ids
    <3>2. CASE i \notin Elsewhere
      <4>1. PICK j \in DOMAIN document : id[j] = i /\ i # None
        BY <3>2 DEF Ids
      <4>2. id'[j] = i
        BY <1>2, <4>1
      <4> QED
        BY <1>0, <4>1, <4>2 DEF Ids
    <3> QED
      BY <3>1, <3>2
  <2> QED
    BY <1>0, <1>10, <2>1 DEF Ids
<1>12. Made(k) => /\ spelled \in Ids'
                  /\ id'[k] = IF taken THEN WithNumber(spelled, counter) ELSE spelled
  <2>1. Made(k) => id'[k] = IF taken THEN WithNumber(spelled, counter) ELSE spelled
    BY <1>2, <1>5 DEF Made
  <2>2. Made(k) /\ taken => spelled \in Ids'
    BY <1>11
  <2>3. Made(k) /\ ~ taken => spelled \in Ids'
    BY <1>11, <2>1
  <2> QED
    BY <2>1, <2>2, <2>3
<1>13. ASSUME NEW j \in Done', Made(j)
       PROVE  /\ document[j].spelled \in Ids'
              /\ \/ id'[j] = document[j].spelled
                 \/ \E n \in 0..(counter' - 1) : id'[j] = WithNumber(document[j].spelled, n)
  <2>1. CASE j = k
    <3>1. taken => counter \in 0..(counter' - 1)
      BY <1>3, <1>4
    <3> QED
      BY <1>12, <1>13, <2>1, <3>1
  <2>2. CASE j # k
    <3>1. j \in Done /\ id'[j] = id[j]
      BY <1>0, <1>2, <2>2
    <3>2. \A n \in 0..(counter - 1) : n \in 0..(counter' - 1)
      BY <1>3, <1>4
    <3> QED
      BY <1>11, <1>13, <3>1, <3>2 DEF IdsFit
  <2> QED
    BY <2>1, <2>2
<1>14. ASSUME NEW i \in Done', NEW j \in DOMAIN document, Made(i), j # i, id'[j] = id'[i]
       PROVE  /\ Made(j) => document[j].spelled # document[i].spelled
              /\ id'[i] = document[i].spelled =>
                    i < j /\ document[j].id = None /\ (Made(j) => id'[j] # document[j].spelled)
  <2>1. CASE i # k /\ j # k
    <3>1. i \in Done /\ id'[i] = id[i] /\ id'[j] = id[j] /\ i \in DOMAIN document
      BY <1>0, <1>2, <2>1
    <3> QED
      BY <1>14, <3>1 DEF IdsFit, PlacesDiffer
  \* The new id is one that some heading spells or has: then it has a number behind it.
  <2>2. ASSUME NEW m \in DOMAIN document, m # k, id[m] = id'[k], Made(k)
        PROVE  /\ taken /\ id'[k] # spelled
               /\ Made(m) => document[m].spelled # spelled
    <3>1. id[m] # None
      BY <1>10, <2>2
    <3>2. taken
      <4> SUFFICES ASSUME ~ taken PROVE FALSE
        OBVIOUS
      <4>1. id'[k] = spelled
        BY <1>12, <2>2
      <4>2. spelled \in Ids
        BY <2>2, <3>1, <4>1 DEF Ids
      <4> QED
        BY <2>2, <4>2
    <3>3. id'[k] = WithNumber(spelled, counter)
      BY <1>12, <2>2, <3>2
    <3>4. ASSUME Made(m), document[m].spelled = spelled PROVE FALSE
      <4>1. m \in Done
        BY <1>5, <3>1, <3>4 DEF Made
      <4>2. id[m] = spelled \/ \E n \in 0..(counter - 1) : id[m] = WithNumber(spelled, n)
        BY <3>4, <4>1 DEF IdsFit
      <4> QED
        BY <1>0, <1>7, <1>8, <1>9, <2>2, <3>3, <4>2
    <3> QED
      BY <1>9, <3>2, <3>3, <3>4
  <2>3. CASE i = k
    <3>1. j # k /\ id[j] = id'[k] /\ Made(k)
      BY <1>2, <1>14, <2>3
    <3> QED
      BY <2>2, <2>3, <3>1
  <2>4. CASE j = k
    <3>1. i \in Done /\ i # k /\ id[i] = id'[k] /\ i < k /\ i \in DOMAIN document
      BY <1>0, <1>2, <1>14, <2>4
    <3>2. Made(k) => id'[k] # spelled /\ document[i].spelled # spelled
      BY <1>14, <2>2, <3>1
    <3>3. id'[i] = document[i].spelled => document[k].id = None
      <4> SUFFICES ASSUME document[k].id # None, id'[i] = document[i].spelled PROVE FALSE
        OBVIOUS
      <4>1. id[k] = id[i]
        BY <1>2, <1>5, <3>1
      <4>2. id[i] = document[i].spelled
        BY <1>2, <3>1
      <4> QED
        BY <1>0, <1>14, <3>1, <4>1, <4>2 DEF IdsFit, PlacesDiffer
    <3> QED
      BY <2>4, <3>1, <3>2, <3>3
  <2> QED
    BY <2>1, <2>3, <2>4
<1>15. ASSUME NEW j \in DOMAIN document
       PROVE  IF j \in Done' THEN id'[j] # None ELSE id'[j] = document[j].id
  BY <1>0, <1>2, <1>10 DEF IdsFit
<1>16. PlacesDiffer'
  BY <1>0, <1>5, <1>14 DEF PlacesDiffer
<1> HIDE DEF k, spelled, taken
<1> QED
  BY <1>0, <1>4, <1>5, <1>13, <1>15, <1>16 DEF IdsFit

\* The first heading of the table opens it.
LEMMA FirstIsPlaced ==
    ASSUME TocTypeOK, Reading, PathNests, TocNext, at' \in Counted(document), Done = {}
    PROVE  /\ path' = <<>> /\ attached' = TRUE
           /\ under' = [under EXCEPT ![at'] = 0]
           /\ Done' = {at'} /\ First' = at'
<1>1. /\ at' = at + 1 /\ Done' = {at'} /\ at' \in Nat /\ Read(at')
  BY DoneGrows DEF TocNext
<1>2. path = <<>> /\ attached = TRUE /\ lastTag = None
  BY DEF Reading, PathNests, TocTypeOK
<1>3. Place(Level(at')) = [path |-> <<>>, attached |-> TRUE]
  BY <1>2 DEF Place
<1>4. Around(<<>>) = 0
  BY DEF Around
<1>5. First' = at'
  <2>1. Done' \in SUBSET Nat /\ Done' # {}
    BY <1>1
  <2>2. Min(Done') \in Done'
    BY <2>1, MinIsLeast
  <2> QED
    BY <1>1, <2>2 DEF First
<1> QED
  BY <1>1, <1>3, <1>4, <1>5 DEF Read, Level

\* Another heading goes where Place says, and the first stays the first.
LEMMA NextIsPlaced ==
    ASSUME TocTypeOK, Reading, PathNests, TocNext, at' \in Counted(document), Done # {}
    PROVE  LET place == Place(Level(at'))
           IN  /\ path' = place.path /\ attached' = place.attached
               /\ under' = [under EXCEPT ![at'] = IF place.attached THEN Around(place.path) ELSE None]
               /\ Done' = Done \cup {at'} /\ First' = First
<1>1. /\ at' = at + 1 /\ Done' = Done \cup {at'} /\ at' \in Nat /\ Read(at')
      /\ \A j \in Done : j < at'
  BY DoneGrows DEF TocNext
<1>2. First \in Done /\ \A j \in Done : First <= j /\ j \in Nat
  BY DoneLevels
<1>3. First' = First
  <2>1. Done' \in SUBSET Nat /\ Done' # {}
    BY <1>1, <1>2
  <2>2. Min(Done') \in Done' /\ \A j \in Done' : Min(Done') <= j
    BY <2>1, MinIsLeast
  <2>3. Min(Done') = First
    <3> DEFINE m == Min(Done')
    <3>1. m \in Done' /\ \A j \in Done' : m <= j
      BY <2>2
    <3> HIDE DEF m
    <3>2. m <= First /\ m # at' /\ m \in Done
      BY <1>1, <1>2, <3>1
    <3>3. First <= m /\ m \in Nat
      BY <1>2, <3>2
    <3>4. m = First
      BY <1>2, <3>2, <3>3
    <3> QED
      BY <3>4 DEF m
  <2> QED
    BY <2>3 DEF First
<1> QED
  BY <1>1, <1>3 DEF Read, Level

\* A heading that counts is placed as its level asks.
LEMMA HeadingIsPlaced ==
    ASSUME TocTypeOK, Reading, PathNests, ListedUnlessShallower, NestedByLevel,
           TocNext, NEW k, k = at', k \in Counted(document), counter' \in 0..at'
    PROVE  (TocTypeOK /\ Reading /\ PathNests /\ ListedUnlessShallower /\ NestedByLevel)'
<1> DEFINE v == Level(k)
<1>0. /\ at \in Nat /\ k = at + 1 /\ k \in DOMAIN document /\ document' = document
      /\ v \in 1..6 /\ Done' = Done \cup {k} /\ k \notin Done /\ k \in Nat \ {0}
      /\ document \in Seq(Heading) /\ Len(document) \in Nat
  BY DoneGrows, DoneLevels
<1>1. /\ \A j : Level(j)' = Level(j)
      /\ \A j \in Done : j \in Nat \ {0} /\ j < k /\ Level(j) \in 1..6 /\ j \in DOMAIN document
  BY DoneGrows, DoneLevels
<1>2. curli' = k /\ lastTag' = v
  BY DEF TocNext, Read, Level
<1>3. k \in 1..at' /\ at' \in 0..Len(document)
  BY <1>0
<1>4. DOMAIN under' = DOMAIN document /\ DOMAIN id' = DOMAIN document
  BY <1>0 DEF TocNext, Read, Identify, Reading
<1>5. Reading'
  <2>1. \A j \in Done' : j <= k
    BY <1>0, <1>1
  <2> QED
    BY <1>0, <1>1, <1>2, <1>4, <2>1 DEF Reading
<1>6. \A j \in DOMAIN document \ {k} : under'[j] = under[j]
  BY <1>0 DEF TocNext, Read, Reading
<1>7. (\A j \in Done' : Level(j)' >= 1 /\ Level(j)' <= 6)
  BY <1>0, <1>1
<1>8. CASE Done = {}
  <2>1. /\ path' = <<>> /\ attached' = TRUE /\ under'[k] = 0
        /\ Done' = {k} /\ First' = k
    BY <1>0, <1>8, FirstIsPlaced DEF Reading
  <2>2. TocTypeOK'
    <3>1. path' \in Seq(0..at')
      BY <2>1
    <3>2. \A j \in DOMAIN document' : under'[j] \in 0..(j - 1) \cup {None}
      <4>1. under'[k] \in 0..(k - 1)
        BY <1>0, <2>1
      <4> QED
        BY <1>0, <1>6, <4>1 DEF TocTypeOK
    <3> QED
      BY <1>0, <1>2, <1>3, <2>1, <3>1, <3>2 DEF TocTypeOK
  <2>3. PathNests'
    <3>1. Level(k)' = v /\ Len(path') = 0 /\ 1..0 = {}
      BY <1>1, <2>1
    <3>2. Nests(path)'
      BY <2>1, <3>1 DEF Nests
    <3> QED
      BY <1>0, <1>1, <1>2, <2>1, <3>1, <3>2 DEF PathNests
  <2>4. ListedUnlessShallower'
    <3>1. under'[k] # None
      BY <2>1, NoNumberIsNone
    <3>2. Min(Done') = k
      BY <2>1 DEF First
    <3>3. \A j \in Done' : Level(j)' >= Level(Min(Done))'
      BY <1>0, <1>1, <2>1, <3>2
    <3> QED
      BY <2>1, <3>1, <3>3 DEF ListedUnlessShallower
  <2>5. NestedByLevel'
    <3>1. {j \in Done' : j < k /\ Level(j)' < Level(k)'} = {}
      BY <1>0, <2>1
    <3> QED
      BY <2>1, <3>1 DEF NestedByLevel
  <2> QED
    BY <1>5, <2>2, <2>3, <2>4, <2>5
<1>9. CASE Done # {}
  <2> DEFINE place == Place(v)
             base == Level(First)
  <2>1. /\ path' = place.path /\ attached' = place.attached
        /\ under'[k] = IF place.attached THEN Around(place.path) ELSE None
        /\ First' = First
    BY <1>0, <1>9, NextIsPlaced DEF Reading
  <2>2. /\ path' \in Seq(0..at) /\ attached' \in BOOLEAN
        /\ attached' <=> attached /\ v >= base
        /\ attached' => Len(path') = v - base /\ Nests(path')
    BY <1>0, <1>9, <2>1, PlaceNests
  <2>3. First \in Done /\ base \in 1..6 /\ Level(First)' = base
    <3>1. First \in Done
      BY <1>9, DoneLevels
    <3> QED
      BY <1>1, <2>1, <3>1
  <2>4. under'[k] = IF attached' THEN Around(path') ELSE None
    BY <2>1
  <2> HIDE DEF place
  <2>5. path' \in Seq(Nat) /\ path' \in Seq(0..at')
    BY <1>0, <2>2
  <2>6. Around(path') \in 0..at
    BY <1>0, <2>2, <2>5, AroundIsLast
  <2>7. TocTypeOK'
    <3>1. \A j \in DOMAIN document' : under'[j] \in 0..(j - 1) \cup {None}
      <4>1. under'[k] \in 0..(k - 1) \cup {None}
        BY <1>0, <2>4, <2>6
      <4> QED
        BY <1>0, <1>6, <4>1 DEF TocTypeOK
    <3> QED
      BY <1>0, <1>2, <1>3, <2>2, <2>5, <3>1 DEF TocTypeOK
  <2>8. attached' <=> \A j \in Done' : Level(j) >= base
    <3>1. attached <=> \A j \in Done : Level(j) >= base
      BY DEF PathNests
    <3>2. (\A j \in Done' : Level(j) >= base) <=> (\A j \in Done : Level(j) >= base) /\ v >= base
      BY <1>0
    <3> QED
      BY <2>2, <3>1, <3>2
  <2>9. PathNests'
    <3>1. ASSUME attached', NEW i \in 1..Len(path')
          PROVE  \E m \in Done' : LastUpTo(m, base + i - 1)'
                    /\ path'[i] = IF Level(m)' = base + i - 1 THEN m ELSE 0
      <4> DEFINE l == base + i - 1
      <4>1. PICK m \in Done : LastUpTo(m, l) /\ path'[i] = IF Level(m) = l THEN m ELSE 0
        BY <2>2, <3>1 DEF Nests
      <4>2. l < v
        <5>1. Len(path') = v - base /\ i \in Int /\ i <= Len(path') /\ v \in Int /\ base \in Int
          BY <1>0, <2>2, <2>3, <3>1
        <5> HIDE DEF v, base
        <5> QED
          BY <5>1
      <4>3. LastUpTo(m, l)'
        <5>1. m \in Done' /\ Level(m)' <= l
          BY <1>0, <1>1, <4>1 DEF LastUpTo
        <5>2. ASSUME NEW j \in Done', j > m PROVE Level(j)' > l
          <6>1. CASE j \in Done
            BY <1>1, <4>1, <5>2, <6>1 DEF LastUpTo
          <6>2. CASE j = k
            <7>1. l \in Int /\ v \in Int
              BY <1>0, <2>3, <3>1
            <7> HIDE DEF l
            <7> QED
              BY <1>1, <4>2, <6>2, <7>1
          <6> QED
            BY <1>0, <6>1, <6>2
        <5>3. l' = l
          BY <2>3
        <5> HIDE DEF l
        <5> QED
          BY <5>1, <5>2, <5>3 DEF LastUpTo
      <4>4. m \in Done' /\ Level(m)' = Level(m)
        BY <1>0, <1>1
      <4> QED
        BY <4>1, <4>3, <4>4
    <3>2. attached' => Nests(path)'
      BY <2>3, <3>1 DEF Nests
    <3>3. attached' => Len(path') = lastTag' - Level(First)'
      BY <1>2, <2>2, <2>3
    <3>4. attached' <=> \A j \in Done' : Level(j)' >= Level(First)'
      BY <1>1, <2>3, <2>8
    <3> QED
      BY <3>2, <3>3, <3>4 DEF PathNests
  <2>10. ListedUnlessShallower'
    <3>1. Level(Min(Done))' = base /\ Level(Min(Done)) = base
      BY <2>3 DEF First
    <3>2. under'[k] # None <=> \A j \in Done' : j <= k => Level(j)' >= base
      <4>1. under'[k] # None <=> attached'
        BY <2>2, <2>4, <2>6, NoNumberIsNone
      <4>2. \A j \in Done' : j <= k
        BY <1>0, <1>1
      <4> QED
        BY <1>1, <2>8, <4>1, <4>2
    <3>3. ASSUME NEW i \in Done
          PROVE  under'[i] # None <=> \A j \in Done' : j <= i => Level(j)' >= base
      <4>1. under'[i] = under[i]
        BY <1>0, <1>1, <1>6
      <4>2. under[i] # None <=> \A j \in Done : j <= i => Level(j) >= base
        BY <3>1 DEF ListedUnlessShallower
      <4>3. ~ (k <= i)
        BY <1>0, <1>1
      <4> QED
        BY <1>0, <1>1, <4>1, <4>2, <4>3
    <3> QED
      BY <1>0, <3>1, <3>2, <3>3 DEF ListedUnlessShallower
  <2>11. NestedByLevel'
    <3>1. ASSUME NEW i \in Done, under'[i] # None
          PROVE  LET above == {j \in Done' : j < i /\ Level(j)' < Level(i)'}
                 IN  under'[i] = IF above = {} THEN 0 ELSE Max(above)
      <4>1. {j \in Done' : j < i /\ Level(j)' < Level(i)'} = {j \in Done : j < i /\ Level(j) < Level(i)}
        <5>1. ~ (k < i)
          BY <1>0, <1>1
        <5> QED
          BY <1>0, <1>1, <5>1
      <4>2. under'[i] = under[i]
        BY <1>0, <1>1, <1>6
      <4> QED
        BY <3>1, <4>1, <4>2 DEF NestedByLevel
    <3>2. ASSUME under'[k] # None
          PROVE  LET above == {j \in Done' : j < k /\ Level(j)' < Level(k)'}
                 IN  under'[k] = IF above = {} THEN 0 ELSE Max(above)
      <4>1. attached' /\ under'[k] = Around(path')
        BY <2>4, <3>2
      <4>2. Around(path') = LET above == {j \in Done : Level(j) < v}
                            IN  IF above = {} THEN 0 ELSE Max(above)
        <5>1. \A j \in Done : Level(j) >= base
          BY <1>0, <2>8, <4>1
        <5>2. v >= base /\ Len(path') = v - base /\ Nests(path')
          BY <2>2, <4>1
        <5> QED
          BY <1>0, <1>9, <2>5, <5>1, <5>2, InnermostIsClosest
      <4>3. {j \in Done' : j < k /\ Level(j)' < Level(k)'} = {j \in Done : Level(j) < v}
        <5>1. ~ (v < v)
          BY <1>0
        <5> QED
          BY <1>0, <1>1, <5>1
      <4> QED
        BY <4>1, <4>2, <4>3
    <3>3. ASSUME NEW i \in Done', under'[i] # None
          PROVE  LET above == {j \in Done' : j < i /\ Level(j)' < Level(i)'}
                 IN  under'[i] = IF above = {} THEN 0 ELSE Max(above)
      <4>1. CASE i \in Done
        BY <3>1, <3>3, <4>1
      <4>2. CASE i = k
        BY <3>2, <3>3, <4>2
      <4> QED
        BY <1>0, <3>3, <4>1, <4>2
    <3> QED
      BY <3>3 DEF NestedByLevel
  <2> QED
    BY <1>5, <2>7, <2>9, <2>10, <2>11
<1> QED
  BY <1>8, <1>9

\* When no heading is added, the table stays as it is.
LEMMA TableStays ==
    ASSUME CInv, at' \in at..Len(document), Done' = Done,
           UNCHANGED <<document, path, attached, curli, lastTag, counter, under, id>>
    PROVE  CInv'
<1>0. /\ TocTypeOK /\ Reading /\ PathNests
      /\ ListedUnlessShallower /\ NestedByLevel /\ IdsFit
  BY DEF CInv
<1>1. /\ document' = document /\ Done' = Done
      /\ \A j : Level(j)' = Level(j)
      /\ document \in Seq(Heading) /\ at \in Nat /\ Len(document) \in Nat
      /\ at' \in Nat /\ at <= at' /\ at' <= Len(document)
  BY <1>0, DoneLevels DEF Level
<1>2. /\ path' = path /\ attached' = attached /\ curli' = curli /\ lastTag' = lastTag
      /\ counter' = counter /\ under' = under /\ id' = id
  OBVIOUS
<1>3. First' = First
  BY <1>1 DEF First
<1>4. TocTypeOK'
  <2>1. at' \in 0..Len(document)
    BY <1>1
  <2>2. path' \in Seq(0..at')
    <3>1. path \in Seq(0..at) /\ Len(path) \in Nat /\ 0..at \subseteq 0..at'
      BY <1>0, <1>1 DEF TocTypeOK
    <3> QED
      BY <1>2, <3>1, ListOfMore
  <2>3. curli' \in 1..at' \cup {None} /\ counter' \in 0..at'
    BY <1>0, <1>1, <1>2 DEF TocTypeOK
  <2> QED
    BY <1>0, <1>1, <1>2, <2>1, <2>2, <2>3 DEF TocTypeOK
<1>5. Reading'
  BY <1>0, <1>1, <1>2 DEF Reading
<1>6. PathNests'
  <2>1. Level(First)' = Level(First)
    BY <1>1, <1>3
  <2>2. \A m, l : LastUpTo(m, l)' <=> LastUpTo(m, l)
    BY <1>1 DEF LastUpTo
  <2>3. ASSUME Nests(path) PROVE Nests(path)'
    <3>1. ASSUME NEW i \in 1..Len(path')
          PROVE  \E m \in Done' : LastUpTo(m, Level(First)' + i - 1)
                    /\ path'[i] = IF Level(m)' = Level(First)' + i - 1 THEN m ELSE 0
      BY <1>1, <1>2, <2>1, <2>3 DEF Nests
    <3> QED
      BY <1>1, <2>1, <2>2, <3>1 DEF Nests, LastUpTo
  <2> QED
    BY <1>0, <1>1, <1>2, <2>1, <2>3 DEF PathNests
<1>7. ListedUnlessShallower'
  BY <1>0, <1>1, <1>2, <1>3 DEF ListedUnlessShallower, First
<1>8. NestedByLevel'
  <2>1. ASSUME NEW i \in Done
        PROVE  {j \in Done' : j < i /\ Level(j)' < Level(i)'} = {j \in Done : j < i /\ Level(j) < Level(i)}
    BY <1>1
  <2> QED
    BY <1>0, <1>1, <1>2, <2>1 DEF NestedByLevel
<1>9. IdsFit'
  BY <1>0, <1>1, <1>2 DEF IdsFit, PlacesDiffer, Made, Ids
<1> QED
  BY <1>4, <1>5, <1>6, <1>7, <1>8, <1>9 DEF CInv

\* Every step keeps the invariant.
LEMMA StepContents == CInv /\ [TocNext]_tocVars => CInv'
<1>1. ASSUME CInv, TocNext, at' \in Counted(document) PROVE CInv'
  <2>1. /\ TocTypeOK /\ Reading /\ PathNests
        /\ ListedUnlessShallower /\ NestedByLevel /\ IdsFit
    BY <1>1 DEF CInv
  <2>2. IdsFit' /\ counter' \in 0..at'
    BY <1>1, <2>1, IdentifyKeepsIds
  <2>3. PICK k : k = at'
    OBVIOUS
  <2>4. (TocTypeOK /\ Reading /\ PathNests /\ ListedUnlessShallower /\ NestedByLevel)'
    BY <1>1, <2>1, <2>2, <2>3, HeadingIsPlaced
  <2> QED
    BY <2>2, <2>4 DEF CInv
<1>2. ASSUME CInv, TocNext, at' \notin Counted(document) PROVE CInv'
  <2>1. TocTypeOK /\ Reading /\ at \in Nat /\ Len(document) \in Nat
    BY <1>2, DoneLevels DEF CInv
  <2>2. /\ UNCHANGED <<document, path, attached, curli, lastTag, counter, under, id>>
        /\ at' \in at..Len(document)
    BY <1>2, <2>1 DEF TocNext, Read
  <2>3. Done' = Done
    BY <1>2, <2>1, DoneGrows
  <2> QED
    BY <1>2, <2>2, <2>3, TableStays
<1>3. ASSUME CInv, UNCHANGED tocVars PROVE CInv'
  <2>1. at \in Nat /\ at <= Len(document) /\ Len(document) \in Nat
    BY <1>3, DoneLevels DEF CInv, TocTypeOK
  <2>2. /\ UNCHANGED <<document, path, attached, curli, lastTag, counter, under, id>>
        /\ at' = at
    BY <1>3 DEF tocVars
  <2>3. at' \in at..Len(document) /\ Done' = Done
    BY <2>1, <2>2 DEF Done, Counted
  <2> QED
    BY <1>3, <2>2, <2>3, TableStays
<1> QED
  BY <1>1, <1>2, <1>3
-----------------------------------------------------------------------------
(* Theorems. *)

\* The inductive invariant of generateTOC.
THEOREM ContentsInvariance == TocSpec => []CInv
BY InitContents, StepContents, PTL DEF TocSpec

\* The variables of generateTOC keep to the headings gone over.
THEOREM ContentsTyped == TocSpec => []TocTypeOK
<1>1. CInv => TocTypeOK
  BY DEF CInv
<1> QED
  BY <1>1, ContentsInvariance, PTL

\* generateTOC lists every heading up to the first one that is shallower than the
\* first of all, and none from there on.
THEOREM ListedUntilShallower == TocSpec => []ListedUnlessShallower
<1>1. CInv => ListedUnlessShallower
  BY DEF CInv
<1> QED
  BY <1>1, ContentsInvariance, PTL

\* generateTOC nests every entry in the closest earlier one that is shallower,
\* whatever levels the document leaves out.
THEOREM EntriesNestByLevel == TocSpec => []NestedByLevel
<1>1. CInv => NestedByLevel
  BY DEF CInv
<1> QED
  BY <1>1, ContentsInvariance, PTL

\* generateTOC never gives two headings that spell the same the same id, and gives
\* none the id another has by then, but where it puts a number behind it.
THEOREM EntriesLeadApart == TocSpec => []PlacesDiffer
<1>1. CInv => PlacesDiffer
  BY DEF CInv, IdsFit
<1> QED
  BY <1>1, ContentsInvariance, PTL
=============================================================================
