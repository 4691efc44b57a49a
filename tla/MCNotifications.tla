--------------------------- MODULE MCNotifications ---------------------------
(* Two subscriptions, each on its own channel. *)
EXTENDS Notifications, TLC

CONSTANTS s1, s2, c1, c2

TwoChannels == (s1 :> c1) @@ (s2 :> c2)
=============================================================================
