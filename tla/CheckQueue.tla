----------------------------- MODULE CheckQueue -----------------------------
(***************************************************************************)
(* The queue of script checks, CCheckQueue and CCheckQueueControl of       *)
(* src/src/checkqueue.h: script-check threads and the thread inside        *)
(* ConnectBlock (the master) empty one queue under one mutex and two       *)
(* condition variables.  One action is one critical section; a check runs  *)
(* outside the mutex and touches nothing shared, so its outcome is folded  *)
(* into the critical section that reports it.                              *)
(*                                                                         *)
(* The queue is a set: "the order of booleans doesn't matter".  A batch is *)
(* any part of it of the size the code computes.                           *)
(*                                                                         *)
(* threadGroup.interrupt_all() of Shutdown is part of the model: a wait on *)
(* a condition variable throws in a thread that was interrupted.           *)
(***************************************************************************)
EXTENDS Integers, FiniteSets

CONSTANTS
  ScriptThreads,   \* threads running ThreadScriptCheck
  Masters,         \* threads that call ConnectBlock
  Interruptible,   \* the masters that are boost threads of threadGroup
  Checks,          \* the script checks of a block
  Good,            \* the checks that succeed
  nBatchSize,      \* 128
  NoMaster

CheckThreads == ScriptThreads \cup Masters

ASSUME CheckAssumption ==
  /\ IsFiniteSet(Checks) /\ Good \subseteq Checks
  /\ ScriptThreads \cap Masters = {}
  /\ Interruptible \subseteq Masters
  /\ NoMaster \notin CheckThreads
  /\ nBatchSize \in Nat \ {0}

VARIABLES
  queue, nIdle, nTotal, fAllOk, nTodo,
  ControlMutex,    \* the master whose CCheckQueueControl is alive
  added,           \* the checks it has added
  verdict,         \* what its Wait() returned
  fDiscard,        \* Wait() was called by the destructor: nobody reads the verdict
  checkPc, vChecks, fOk,
  fInterrupted,    \* threadGroup.interrupt_all() was called
  interrupts       \* the threads that have not noticed yet

poolVars    == <<queue, nIdle, nTotal, fAllOk, nTodo>>
controlVars == <<ControlMutex, added, verdict, fDiscard>>
shutdownVars == <<fInterrupted, interrupts>>
checkVars   == <<poolVars, controlVars, checkPc, vChecks, fOk, shutdownVars>>

CheckInit ==
  /\ queue = {} /\ nIdle = 0 /\ nTotal = 0 /\ fAllOk = TRUE /\ nTodo = 0
  /\ ControlMutex = NoMaster /\ added = {} /\ verdict = TRUE /\ fDiscard = FALSE
  /\ checkPc = [t \in CheckThreads |-> IF t \in Masters THEN "out" ELSE "lock"]
  /\ vChecks = [t \in CheckThreads |-> {}]
  /\ fOk = [t \in CheckThreads |-> TRUE]
  /\ fInterrupted = FALSE /\ interrupts = {}
-----------------------------------------------------------------------------
(* Condition variables.  pcs is checkPc after a notification. *)

Waiting(T) == {t \in T : checkPc[t] = "wait"}
NotifyAll(T) == [t \in CheckThreads |-> IF t \in Waiting(T) THEN "woken" ELSE checkPc[t]]
NotifiedOne(T) ==
  {pcs \in {[checkPc EXCEPT ![t] = "woken"] : t \in Waiting(T)} \cup {checkPc} :
     pcs = checkPc => Waiting(T) = {}}

(* nNow: how many checks to take. *)
BatchLimit(total, idle) ==
  LET share == Cardinality(queue) \div (total + idle + 1)
      least == IF share < nBatchSize THEN share ELSE nBatchSize
  IN IF least < 1 THEN 1 ELSE least

(* The master leaves with the verdict and resets it. *)
Return_keep(t, pcs, total, ok) ==
  /\ checkPc' = [pcs EXCEPT ![t] = "done"]
  /\ nTotal' = total - 1 /\ verdict' = ok /\ fAllOk' = ok
  /\ vChecks' = [vChecks EXCEPT ![t] = {}]
  /\ UNCHANGED <<queue, fOk>>

Return(t, pcs, total, ok) ==
  /\ checkPc' = [pcs EXCEPT ![t] = "done"]
  /\ nTotal' = total - 1 /\ verdict' = ok /\ fAllOk' = TRUE
  /\ vChecks' = [vChecks EXCEPT ![t] = {}]
  /\ UNCHANGED <<queue, fOk>>

(* From "logically, the do loop starts here": leave, wait or take a batch.  *)
LoopBody(t, pcs, total, idle, ok, todo) ==
  /\ nTodo' = todo
  /\ \/ /\ queue = {} /\ t \in Masters /\ todo = 0
        /\ nIdle' = idle
        /\ Return(t, pcs, total, ok)
     \/ /\ queue = {} /\ ~ (t \in Masters /\ todo = 0)
        /\ checkPc' = [pcs EXCEPT ![t] = "wait"]
        /\ nIdle' = idle + 1 /\ nTotal' = total /\ fAllOk' = ok
        /\ vChecks' = [vChecks EXCEPT ![t] = {}]
        /\ UNCHANGED <<queue, fOk, verdict>>
     \/ /\ queue # {}
        /\ \E batch \in SUBSET queue :
             /\ Cardinality(batch) = BatchLimit(total, idle)
             /\ queue' = queue \ batch
             /\ vChecks' = [vChecks EXCEPT ![t] = batch]
        /\ fOk' = [fOk EXCEPT ![t] = ok]
        /\ checkPc' = [pcs EXCEPT ![t] = "work"]
        /\ nIdle' = idle /\ nTotal' = total /\ fAllOk' = ok
        /\ UNCHANGED verdict
  /\ UNCHANGED <<ControlMutex, added, fDiscard, shutdownVars>>

(* First iteration of Loop: nNow is 0. *)
EnterLoop_uncounted(t) ==
  /\ checkPc[t] = "lock"
  /\ LoopBody(t, checkPc, nTotal, nIdle, fAllOk, nTodo)

EnterLoop(t) ==
  /\ checkPc[t] = "lock"
  /\ LoopBody(t, checkPc, nTotal + 1, nIdle, fAllOk, nTodo)
-----------------------------------------------------------------------------
(* The batch has run: report it, tell the master if it was the last one. *)
FinishBatch_stale(t) ==
  /\ checkPc[t] = "work"
  /\ LET todo == nTodo - Cardinality(vChecks[t])
         ok   == fOk[t] /\ vChecks[t] \subseteq Good
     IN \E pcs \in IF todo = 0 /\ t \in ScriptThreads THEN NotifiedOne(Masters) ELSE {checkPc} :
          LoopBody(t, pcs, nTotal, nIdle, ok, todo)

FinishBatch_silent(t) ==
  /\ checkPc[t] = "work"
  /\ LoopBody(t, checkPc, nTotal, nIdle, fAllOk /\ fOk[t] /\ vChecks[t] \subseteq Good,
              nTodo - Cardinality(vChecks[t]))

FinishBatch(t) ==
  /\ checkPc[t] = "work"
  /\ LET todo == nTodo - Cardinality(vChecks[t])
         ok   == fAllOk /\ fOk[t] /\ vChecks[t] \subseteq Good
     IN \E pcs \in IF todo = 0 /\ t \in ScriptThreads THEN NotifiedOne(Masters) ELSE {checkPc} :
          LoopBody(t, pcs, nTotal, nIdle, ok, todo)

(* A notified thread gets the mutex back. *)
Resume(t) ==
  /\ checkPc[t] = "woken"
  /\ LoopBody(t, checkPc, nTotal, nIdle - 1, fAllOk, nTodo)

(* A condition variable may wake a thread that nobody notified. *)
SpuriousWake(t) ==
  /\ checkPc[t] = "wait"
  /\ checkPc' = [checkPc EXCEPT ![t] = "woken"]
  /\ UNCHANGED <<poolVars, controlVars, vChecks, fOk, shutdownVars>>

(* wait() throws boost::thread_interrupted: a script thread ends.  In the   *)
(* master the exception unwinds to the destructor of the control, which     *)
(* waits again; thrown by the destructor's own Wait() it ends the process.  *)
Interrupted(t) ==
  /\ checkPc[t] = "wait" /\ t \in interrupts
  /\ interrupts' = interrupts \ {t}
  /\ checkPc' = [checkPc EXCEPT ![t] =
       IF t \in ScriptThreads THEN "exit" ELSE IF fDiscard THEN "terminate" ELSE "lock"]
  /\ fDiscard' = (fDiscard \/ t \in Masters)
  /\ UNCHANGED <<poolVars, ControlMutex, added, verdict, vChecks, fOk, fInterrupted>>
-----------------------------------------------------------------------------
(* The master, in ConnectBlock. *)

NewControl(m) ==
  /\ checkPc[m] = "out" /\ ControlMutex = NoMaster
  /\ ControlMutex' = m
  /\ checkPc' = [checkPc EXCEPT ![m] = "adding"]
  /\ UNCHANGED <<poolVars, added, verdict, fDiscard, vChecks, fOk, shutdownVars>>

Add(m) ==
  /\ checkPc[m] = "adding"
  /\ \E new \in SUBSET (Checks \ added) \ {{}} :
       /\ queue' = queue \cup new
       /\ nTodo' = nTodo + Cardinality(new)
       /\ added' = added \cup new
       /\ checkPc' \in IF Cardinality(new) = 1 THEN NotifiedOne(ScriptThreads)
                       ELSE {NotifyAll(ScriptThreads)}
  /\ UNCHANGED <<nIdle, nTotal, fAllOk, ControlMutex, verdict, fDiscard, vChecks, fOk, shutdownVars>>

(* control.Wait(), or the destructor's Wait() after an early return. *)
Wait(m) ==
  /\ checkPc[m] = "adding"
  /\ checkPc' = [checkPc EXCEPT ![m] = "lock"]
  /\ fDiscard' \in BOOLEAN
  /\ UNCHANGED <<poolVars, ControlMutex, added, verdict, vChecks, fOk, shutdownVars>>

LeaveControl(m) ==
  /\ checkPc[m] = "done"
  /\ checkPc' = [checkPc EXCEPT ![m] = "out"]
  /\ ControlMutex' = NoMaster /\ added' = {} /\ verdict' = TRUE /\ fDiscard' = FALSE
  /\ UNCHANGED <<poolVars, vChecks, fOk, shutdownVars>>

InterruptAll ==
  /\ ~ fInterrupted
  /\ fInterrupted' = TRUE
  /\ interrupts' = ScriptThreads \cup Interruptible
  /\ UNCHANGED <<poolVars, controlVars, checkPc, vChecks, fOk>>
-----------------------------------------------------------------------------
CheckStep(t) == EnterLoop(t) \/ FinishBatch(t) \/ Resume(t) \/ Interrupted(t)
MasterStep(m) == Wait(m) \/ LeaveControl(m)
Terminated == \E m \in Masters : checkPc[m] = "terminate"

CheckNext ==
  /\ ~ Terminated
  /\ \/ \E t \in CheckThreads : CheckStep(t) \/ SpuriousWake(t)
     \/ \E m \in Masters : MasterStep(m) \/ NewControl(m) \/ Add(m)
     \/ InterruptAll

CheckSpec == CheckInit /\ [][CheckNext]_checkVars
-----------------------------------------------------------------------------
(* The checks that nTodo counts: queued, or in a thread's batch. *)
Outstanding == {c \in Checks : c \in queue \/ \E t \in CheckThreads : c \in vChecks[t]}

CheckTypeOK ==
  /\ queue \subseteq Checks /\ nIdle \in Nat /\ nTotal \in Nat
  /\ fAllOk \in BOOLEAN /\ nTodo \in Nat
  /\ ControlMutex \in Masters \cup {NoMaster} /\ added \subseteq Checks
  /\ verdict \in BOOLEAN /\ fDiscard \in BOOLEAN
  /\ checkPc \in [CheckThreads -> {"out", "adding", "lock", "work", "wait", "woken", "done",
                                   "exit", "terminate"}]
  /\ vChecks \in [CheckThreads -> SUBSET Checks]
  /\ fOk \in [CheckThreads -> BOOLEAN]
  /\ fInterrupted \in BOOLEAN /\ interrupts \subseteq CheckThreads

(* Wait(): "return whether all evaluations were successful".  The verdict   *)
(* ConnectBlock gets is about the checks of its own block, all of them,     *)
(* however the batches were dealt out, whichever thread failed first, and   *)
(* whatever became of the block before.                                     *)
VerdictExact ==
  \A m \in Masters :
    (checkPc[m] = "done" /\ ~ fDiscard) => (verdict <=> added \subseteq Good)

(* CCheckQueueControl "guarantees the passed queue is finished before       *)
(* continuing": once the control is gone - also after an early return, or   *)
(* an interruption - no check of the block is queued or running, and no     *)
(* failure is left behind for the next block.                               *)
QueueFinished ==
  (ControlMutex = NoMaster \/ \E m \in Masters : checkPc[m] = "done") =>
    Outstanding = {} /\ nTodo = 0 /\ fAllOk

(* No wake-up is lost: ConnectBlock leaves the queue again, also when       *)
(* script threads go away meanwhile.                                        *)
ControlEnds == ControlMutex # NoMaster ~> (ControlMutex = NoMaster \/ Terminated)
=============================================================================
