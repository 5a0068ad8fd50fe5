----------------------------- MODULE MCFullList ------------------------------
(***************************************************************************)
(* Small lists for TLC: a piece of the class list, which is a tree, and    *)
(* queries of each kind, two of which are typed one after the other.       *)
(***************************************************************************)
EXTENDS FullList, TLC

CONSTANTS tApi, tV1, tHotels, tHotel, tApiV1, tApiV1Hotels     \* texts

\* Api, Api::V1, Api::V1::HotelsController, Hotel
Nesting   == <<0, 1, 2, 0>>
Names     == <<tApi, tV1, tHotels, tHotel>>
FullNames == <<tApi, tApiV1, tApiV1Hotels, tHotel>>

\* "ho", "hotels", "HC" and "api::"
Typed        == {"ho", "hotels", "HC", "api::"}
TypedScoped  == {"api::"}
TypedCased   == {"HC"}
Substrings   == {<<"ho", tHotels>>, <<"ho", tHotel>>, <<"hotels", tHotels>>,
                 <<"ho", tApiV1Hotels>>, <<"hotels", tApiV1Hotels>>,
                 <<"api::", tApiV1>>, <<"api::", tApiV1Hotels>>}
Abbreviated  == {<<"HC", tHotels>>, <<"HC", tApiV1Hotels>>}
=============================================================================
