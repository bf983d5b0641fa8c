---------------------------- MODULE MCAuthLockout ----------------------------
(***************************************************************************)
(* The instance of AuthLockout that auth_lockout.cfg describes.  Requests  *)
(* and passwords are interchangeable, but the run checks a liveness        *)
(* property, with which a symmetry set is not sound.                       *)
(***************************************************************************)
EXTENDS AuthLockout
=============================================================================
