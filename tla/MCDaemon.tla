------------------------------ MODULE MCDaemon ------------------------------
(***************************************************************************)
(* The daemon for TLC: two processes started on one data directory.        *)
(***************************************************************************)
EXTENDS Daemon

CONSTANTS p1, p2

MCProc == {p1, p2}

TypeOK == DaemonTypeOK
=============================================================================
