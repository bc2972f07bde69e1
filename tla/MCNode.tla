------------------------------- MODULE MCNode -------------------------------
(***************************************************************************)
(* The threads of the node, for model checking: the script check queue,    *)
(* the scheduler with the callbacks, the HTTP workers and the order of     *)
(* shutdown, the threads that make blocks, and the targets these must      *)
(* meet.  They share no state (ConnectBlock waits for its checks before    *)
(* any callback is queued, to the threads that make blocks ProcessNewBlock *)
(* is one step, and rewards do not depend on targets), so driven says at   *)
(* the start which of them a behaviour is about.                           *)
(***************************************************************************)
EXTENDS CheckQueue, Callbacks, Minting, Difficulty

CONSTANTS s1, s2, w1, h1, i1, g1, main
VARIABLE driven

(* The threads besides the main thread that exist in a behaviour: two      *)
(* services and an HTTP worker; or a service and the message handler; or a *)
(* service, the importer and a miner.                                      *)
MCPopulations == {{s1, s2, w1, main}, {s1, h1, main}, {s1, i1, g1, main}}

(* The spacings of chainparams.cpp, times 30 / nDgwPastBlocks. *)
MCSpacing == [pos |-> 1125, curve |-> 2805, mino |-> 1875]
MCReducedSpacing == [pos |-> 300, curve |-> 600, mino |-> 600]
MCTimeSteps == {-30, 300, 4500}

nodeVars == <<checkVars, callbackVars, mintVars, headers, driven>>

NodeInit ==
  /\ driven \in {"checks", "callbacks", "minting", "difficulty"}
  /\ CheckInit /\ CallbackInit /\ MintInit /\ DiffInit
  /\ driven # "callbacks" => tpc[h1] # "exit"
  /\ driven # "minting" => staker.pc # "off" /\ \A h \in BaseHeights : base <= h

NodeNext ==
  \/ driven = "checks" /\ CheckNext /\ UNCHANGED <<callbackVars, mintVars, headers, driven>>
  \/ driven = "callbacks" /\ CallbackNext /\ UNCHANGED <<checkVars, mintVars, headers, driven>>
  \/ driven = "minting" /\ MintNext /\ UNCHANGED <<checkVars, callbackVars, headers, driven>>
  \/ driven = "difficulty" /\ DiffNext /\ UNCHANGED <<checkVars, callbackVars, mintVars, driven>>

(* Every thread that can go on does; an interrupted thread, and the        *)
(* message handler, reach their end.  Clients need not call, and the       *)
(* process need not be stopped.                                            *)
NodeFairness ==
  /\ \A t \in CheckThreads : WF_checkVars(driven = "checks" /\ CheckStep(t) /\ ~ Terminated)
  /\ \A m \in Masters : WF_checkVars(driven = "checks" /\ MasterStep(m) /\ ~ Terminated)
  /\ \A t \in Threads : WF_callbackVars(driven = "callbacks" /\ ThreadStep(t))
  /\ \A t \in Activators :
       WF_callbackVars(driven = "callbacks" /\ t \in interrupted \cup Handlers /\ ThreadEnds(t))

NodeSpec == NodeInit /\ [][NodeNext]_nodeVars /\ NodeFairness
-----------------------------------------------------------------------------
(* The types of the four components, with the counters of threads and of    *)
(* scheduled tasks the code keeps beside them.                              *)
NodeTypeOK == CheckTypeOK /\ CallbackTypeOK /\ MintTypeOK /\ DiffTypeOK
=============================================================================
