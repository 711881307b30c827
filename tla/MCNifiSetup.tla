---------------------------- MODULE MCNifiSetup -----------------------------
(* Two consoles, one that hosts and one that joins, set up a wireless link. *)
EXTENDS NifiSetup
=============================================================================
