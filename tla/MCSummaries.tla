----------------------------- MODULE MCSummaries -----------------------------
(***************************************************************************)
(* Two tabs for TLC, on a page with constants and methods (JwtService) and *)
(* one with two summaries of methods (Room).                               *)
(***************************************************************************)
EXTENDS Summaries, TLC

CONSTANTS jwt, room

TogglesOf ==
    jwt  :> {<<"constants", 1>>, <<"methods", 1>>} @@
    room :> {<<"methods", 1>>, <<"methods", 2>>} @@
    NoPage :> {}
=============================================================================
