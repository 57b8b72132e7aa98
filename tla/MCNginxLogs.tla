---------------------------- MODULE MCNginxLogs ----------------------------
(* An instance of NginxLogs for TLC.                                          *)
EXTENDS NginxLogs

=============================================================================
