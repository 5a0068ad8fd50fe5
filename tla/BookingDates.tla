---------------------------- MODULE BookingDates ----------------------------
(***************************************************************************)
(* Dates of a booking: what DateParser makes of the two request parameters *)
(* and what ActiveRecord then casts the same parameters to, which is not   *)
(* the same; the overlap test shared by Room.available and Room#available?;*)
(* and the nights of a stay, the reference the overlap test is held to.    *)
(***************************************************************************)
EXTENDS Schema

Ancient == 0        \* a date in the first century, before any today
Pass    == 0        \* a filter that lets the request go on

(***************************************************************************)
(* A date parameter, by what the two parsers make of it:                   *)
(*   iso         "2024-09-01", the same day for both                       *)
(*   short_year  "24-09-01": Date.parse completes the century, the         *)
(*               ActiveRecord cast does not and gives the year 24          *)
(*   partial     "monday": a date for Date.parse, nil for the cast         *)
(*   garbled     Date.parse raises Date::Error, an ArgumentError           *)
(*   not_text    a number or an array: Date.parse raises TypeError         *)
(*   missing     nil                                                       *)
(***************************************************************************)
DateText ==
    [kind: {"iso", "short_year", "partial", "garbled", "not_text", "missing"},
     day : Id]

ParseError(t) ==
    IF t.kind = "garbled" THEN 422
    ELSE IF t.kind = "not_text" THEN 500 ELSE Pass

\* DateParser.parse_dates: a missing date is looked for in both before either is
\* parsed; only ArgumentError is rescued.
ParseDates(in, out) ==
    IF "missing" \in {in.kind, out.kind} THEN 422
    ELSE IF ParseError(in) # Pass THEN ParseError(in) ELSE ParseError(out)

\* The cast of an attribute of type date: nil unless HasDay.
HasDay(t) == t.kind \in {"iso", "short_year"}
Day(t)    == IF t.kind = "iso" THEN t.day ELSE Ancient
-----------------------------------------------------------------------------
\* Mutant: only stays under way on the day of check-in are in the way.
OverlapsCheckIn(r, in, out) == r.check_in < in + 1 /\ r.check_out > in

\* 'check_in < ? AND check_out > ?'
Overlaps(r, in, out) == r.check_in < out /\ r.check_out > in

\* Room#available?
Available(d, room, in, out) ==
    ~ \E r \in d.reservations : r.room = room /\ Overlaps(r, in, out)

\* Mutant: > for >= in the comparison of the two dates.
CheckDatesOffByOne(in, out, today) == ~ (in < today) /\ ~ (in > out)

\* Reservation#check_dates: neither message is added.
CheckDates(in, out, today) == ~ (in < today) /\ ~ (in >= out)
-----------------------------------------------------------------------------
\* The nights a guest sleeps in the room: from check-in to the eve of check-out.
Nights(r) == r.check_in .. (r.check_out - 1)

\* No two reservations of a room share a night.
NoSharedNight(d) ==
    \A a, b \in d.reservations :
        a # b /\ a.room = b.room => Nights(a) \cap Nights(b) = {}

\* Every stay has a night, and none has slipped into the first century.
ProperStays(d) ==
    \A r \in d.reservations : Ancient < r.check_in /\ r.check_in < r.check_out
=============================================================================
