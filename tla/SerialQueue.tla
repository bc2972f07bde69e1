---------------------------- MODULE SerialQueue ----------------------------
(***************************************************************************)
(* What SingleThreadedSchedulerClient promises (src/src/scheduler.h:       *)
(* "multiple jobs which are required to be run serially ... no two jobs    *)
(* will be executed at the same time", src/src/validationinterface.cpp:    *)
(* "must ensure all callbacks happen in-order"): one queue, one job at a   *)
(* time, first in first out.                                               *)
(***************************************************************************)
EXTENDS Sequences, Naturals

CONSTANT NoJob
VARIABLES jobs, executing

Init == jobs = <<>> /\ executing = NoJob

AddJob ==
  /\ Len(jobs') = Len(jobs) + 1 /\ SubSeq(jobs', 1, Len(jobs)) = jobs
  /\ UNCHANGED executing

Start == /\ executing = NoJob /\ jobs # <<>>
         /\ executing' = Head(jobs) /\ jobs' = Tail(jobs)

Finish == executing # NoJob /\ executing' = NoJob /\ UNCHANGED jobs

Spec == Init /\ [][AddJob \/ Start \/ Finish]_<<jobs, executing>>
=============================================================================
