---------------------------- MODULE MCAlerting ----------------------------
(* Alerting on small instances.  One unit of time is the check interval of *)
(* 10 seconds.                                                             *)
EXTENDS Alerting

(* One window, of one of the nodes. *)
MCWindowIds == {<<CHOOSE n \in Nodes : TRUE, "w">>}
NoWindowIds == {}

=============================================================================
