------------------------ MODULE MCRefreshAutomation -------------------------
(* The refresh service, a refresh and an apply by hand, and two hooks. *)
EXTENDS RefreshAutomation
CONSTANTS service, refresh, apply, snapper, pacman
=============================================================================
