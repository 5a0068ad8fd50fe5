------------------------------ MODULE MCContents ------------------------------
(***************************************************************************)
(* Short documents for TLC: every sequence of levels 1 to 4, and every     *)
(* meeting of a few ids.  An id is a word and the numbers behind it.       *)
(***************************************************************************)
EXTENDS Contents

Usage == <<"Usage">>
UsageZero == <<"Usage", 0>>
Search == <<"search">>
Texts == {Usage, UsageZero, Search}

Of(level, inMethod, own, given, text) ==
    [level |-> level, inMethod |-> inMethod, id |-> own, tocId |-> given, spelled |-> text]

\* Headings that differ by level, one of them possibly in a method.
Levels == UNION {[1..n -> {Of(l, FALSE, Usage, None, Usage) : l \in 1..4}
                          \cup {Of(2, TRUE, None, None, Usage)}] : n \in 0..5}

\* Headings that differ by id: made from the text, given by the page or by a toc-id.
Named == UNION {[1..n -> {Of(2, FALSE, None, None, text) : text \in Texts}
                         \cup {Of(2, FALSE, Usage, None, Search), Of(2, FALSE, None, Usage, Search),
                               Of(2, FALSE, None, UsageZero, Usage)}] : n \in 0..4}

Pages == Levels \cup Named

\* The search box of the page has an id of its own.
Others == {Search}
=============================================================================
