-------------------------- MODULE MCDashboardRoute --------------------------
(* DashboardRoute on a small instance: two edits, two dashboard processes. *)
EXTENDS DashboardRoute
=============================================================================
