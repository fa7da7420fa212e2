---------------------------- MODULE MCSqliteWal ----------------------------
(* An instance of SqliteWal for TLC: the first transaction changes each page *)
(* at most once, the second one at most twice, so that a page it has spilled *)
(* into the log is written over in place.                                   *)
EXTENDS SqliteWal

OnceTwice == <<1, 2>>
=============================================================================
