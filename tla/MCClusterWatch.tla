--------------------------- MODULE MCClusterWatch ---------------------------
(* An instance of ClusterWatch for TLC: the volume server, whose snapshot has *)
(* every kind of field, and nginx, which is asked after it.                   *)
EXTENDS ClusterWatch

McOrder == <<"volume", "nginx">>

=============================================================================
