---------------------------- MODULE MCScheduler ----------------------------
(* Instances of Scheduler for TLC: real-time levels 0..2, one level above  *)
(* them (3, the code's 100..139), and 4 as a priority without a queue.     *)
EXTENDS Scheduler

AllPriorities == 0..4
RealTime == {1, 2}
AllPolicies == {"FIFO", "RR", "DL"}
NoDlPolicies == {"FIFO", "RR"}
OnlyRR == {"RR"}
=============================================================================
