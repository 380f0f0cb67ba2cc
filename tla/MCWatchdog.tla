------------------------------ MODULE MCWatchdog ------------------------------
(***************************************************************************)
(* Small instances of Watchdog.                                            *)
(***************************************************************************)
EXTENDS Watchdog, TLC

ShortTimeouts == {0, 1, 3}

===============================================================================
