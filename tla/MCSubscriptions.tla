--------------------------- MODULE MCSubscriptions ---------------------------
(* Instances of Subscriptions for TLC: how many broadcasts each project has. *)
EXTENDS Subscriptions, TLC

CONSTANTS p1, p2

TwoBroadcasts == p1 :> 2
IdleAndBusy == p1 :> 0 @@ p2 :> 2

=============================================================================
