------------------------ MODULE MCTelemetryInterval ------------------------
(* An instance of TelemetryInterval for TLC: durations of 6 bits, 4 ticks a   *)
(* second, so 7 s is the longest interval that does not wrap around.          *)
EXTENDS TelemetryInterval

=============================================================================
