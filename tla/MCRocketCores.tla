---------------------------- MODULE MCRocketCores ----------------------------
(* Instances of RocketCores for TLC: two or three cores, one or two files. *)
EXTENDS RocketCoresInv

CONSTANTS p1, p2, p3, f1, f2

(* Everything that may fail, and cores that are unbound one by one.        *)
Failures == {"device", "early", "irq", "wq", "sched", "resume"}
Unbinds == {"unbind"}
=============================================================================
