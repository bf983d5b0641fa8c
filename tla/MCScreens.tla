----------------------------- MODULE MCScreens -----------------------------
(* Two restaurants; the roles in them are chosen in the initial state. *)
EXTENDS Screens
=============================================================================
