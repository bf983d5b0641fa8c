---------------------------- MODULE MCTenantScope ----------------------------
(***************************************************************************)
(* Small instances of TenantScope for TLC.  Ids of every kind are          *)
(* interchangeable.                                                        *)
(***************************************************************************)
EXTENDS TenantScope, TLC

IdSymmetry ==
    Permutations(Requests) \cup Permutations(Connections)
    \cup Permutations(Tenants) \cup Permutations(Users)
=============================================================================
