----------------------------- MODULE MCSession -----------------------------
(* Two accounts, one in a restaurant and one in none yet. *)
EXTENDS Session, TLC

CONSTANTS u1, u2, t1, t2

MCMemberships == (u1 :> {t1}) @@ (u2 :> {})
=============================================================================
