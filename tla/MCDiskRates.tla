---------------------------- MODULE MCDiskRates ----------------------------
(* telemetryLoop and the command handler.                                    *)
EXTENDS DiskRates

CONSTANTS loop, handler

MCCallers == {loop, handler}
=============================================================================
