-------------------------- MODULE MCWebhookDelivery --------------------------
(***************************************************************************)
(* Instances of WebhookDelivery for TLC.                                   *)
(***************************************************************************)
EXTENDS WebhookDelivery, TLC

CONSTANTS w1, w2, c1, c2, f1, f2, r1, s1, s2

\* Goroutines are interchangeable, and so are the tasks of the sweep.
GoroutineSymmetry == Permutations(Flight) \cup Permutations(Sweeper)
=============================================================================
