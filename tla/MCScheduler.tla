---------------------------- MODULE MCScheduler ----------------------------
(***************************************************************************)
(* Small instances of Scheduler for TLC.  Every instance has a kernel      *)
(* thread that never blocks or ends and one idle thread for each further   *)
(* CPU, as kernel.cpp creates them.                                        *)
(***************************************************************************)
EXTENDS Scheduler

CONSTANTS ThreadK, ThreadK2, ThreadH, ThreadN, ThreadL, ThreadI

MCClassOf ==
    [t \in Threads |-> CASE t \in {ThreadK, ThreadK2} -> "kernel"
                         [] t = ThreadH -> "high"
                         [] t = ThreadN -> "normal"
                         [] t = ThreadL -> "low"
                         [] OTHER -> "idle"]
OneCPU == {0}
TwoCPUs == {0, 1}
=============================================================================
