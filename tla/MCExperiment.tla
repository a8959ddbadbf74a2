----------------------------- MODULE MCExperiment ------------------------------
(* Short runs over a small pool: two runs one after the other, or over one    *)
(* another, with a block dropped, lost, torn or left half full in between.    *)
EXTENDS Experiment
================================================================================
