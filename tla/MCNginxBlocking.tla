-------------------------- MODULE MCNginxBlocking --------------------------
(* An instance of NginxBlocking for TLC: the agent and one s3dctl.            *)
EXTENDS NginxBlocking

CONSTANTS ka, kb, c1

=============================================================================
