--------------------------- MODULE MCEventWriters ---------------------------
(* TLC instance of EventWriters: two listeners, a log of two lines and one of
   one. *)
EXTENDS EventWriters
CONSTANTS a, b
TwoListeners == {a, b}
TwoLogs == <<2, 1>>
=============================================================================
