----------------------------- MODULE MCBackfill -----------------------------
(* Instances of Backfill for TLC.                                          *)
EXTENDS Backfill

CONSTANTS daemon, cli

Daemon == {daemon}
DaemonAndCli == {daemon, cli}
=============================================================================
