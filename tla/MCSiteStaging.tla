---------------------------- MODULE MCSiteStaging ----------------------------
(***************************************************************************)
(* Two owners of the panel; in the larger instance one makes two calls.    *)
(***************************************************************************)
EXTENDS SiteStaging
CONSTANTS c1, c2, c3, alice, bob
TwoOwners == [c \in Calls |-> IF c = c2 THEN bob ELSE alice]
=============================================================================
