---------------------------- MODULE MCMonitors ----------------------------
(* Monitors on small instances; a unit of time is about five seconds, the  *)
(* long windows are shortened.                                             *)
EXTENDS Monitors
=============================================================================
