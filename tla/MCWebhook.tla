------------------------------ MODULE MCWebhook ------------------------------
(***************************************************************************)
(* Small instances of Webhook for TLC: two deliveries of one or two        *)
(* batches of two items each.                                              *)
(***************************************************************************)
EXTENDS Webhook, TLC

CONSTANTS d1, d2, r1, r2, r3, r4,
    x, y, z  \* a refund, a sale, and a sale that cannot be stored

MCItemId == (<<d1, 1>> :> r1) @@ (<<d1, 2>> :> r2) @@ (<<d2, 1>> :> r3) @@ (<<d2, 2>> :> r4)
MCAmounts == {5}
MCCents == (x :> -5) @@ (y :> 5) @@ (z :> 5)
MCBatches == {<<x, y>>, <<y, z>>}

HookSymmetry == Permutations(Tenants) \cup Permutations(Secrets) \cup Permutations(Connections)
=============================================================================
