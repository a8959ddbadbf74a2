--------------------------- MODULE MCManualControl ----------------------------
(* A SET against a console, on one actuator of each group of eight, with a    *)
(* queue that overflows.                                                      *)
EXTENDS ManualControl

CONSTANT cli
================================================================================
