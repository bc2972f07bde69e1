-------------------------- MODULE CheckQueueProofs --------------------------
(***************************************************************************)
(* The verdict of the script check queue is exact, for any number of       *)
(* script threads, masters and checks and any batch size.                  *)
(*                                                                         *)
(* Every step inside the mutex ends in LoopBody, so the proof is about     *)
(* LoopBody: with Rest(t), what is outstanding once thread t has reported  *)
(* its batch, LoopBody needs the counter and the verdict so far to be      *)
(* about Rest(t), and re-establishes them for Outstanding.                 *)
(***************************************************************************)
EXTENDS CheckQueue, FiniteSetTheorems, TLAPS

Pcs == {"out", "adding", "lock", "work", "wait", "woken", "done", "exit", "terminate"}

(* The types the proof needs. *)
QueueTypes ==
  /\ queue \subseteq Checks /\ added \subseteq Checks
  /\ nIdle \in Int /\ nTotal \in Int /\ nTodo \in Int
  /\ fAllOk \in BOOLEAN /\ verdict \in BOOLEAN
  /\ checkPc \in [CheckThreads -> Pcs]
  /\ vChecks \in [CheckThreads -> SUBSET Checks]
  /\ fOk \in [CheckThreads -> BOOLEAN]

(* The checks added are dealt out once: they are in the queue, in the batch *)
(* of one thread, which is at work, or done.                                *)
Dealt ==
  /\ queue \subseteq added
  /\ \A t \in CheckThreads :
       /\ checkPc[t] = "work" <=> vChecks[t] # {}
       /\ vChecks[t] \subseteq added
       /\ vChecks[t] \cap queue = {}
       /\ \A u \in CheckThreads \ {t} : vChecks[t] \cap vChecks[u] = {}

Counted == nTodo = Cardinality(Outstanding)

(* The one master in ConnectBlock holds the control; without one, no checks *)
(* have been added.                                                         *)
Owned ==
  /\ \A m \in Masters : checkPc[m] # "out" <=> ControlMutex = m
  /\ ControlMutex = NoMaster => added = {}

NoneDone == \A m \in Masters : checkPc[m] # "done"

(* What ok says of the block when the checks in open have not reported. *)
SoFar(ok, open) ==
  /\ ok => added \ open \subseteq Good
  /\ ~ ok => ~ (added \subseteq Good)

(* fAllOk is right so far; a batch taken after a failure knows of it; the   *)
(* verdict of a master that is done is right.                               *)
Judged ==
  /\ NoneDone => SoFar(fAllOk, Outstanding)
  /\ \A t \in CheckThreads : vChecks[t] # {} /\ ~ fOk[t] => ~ (added \subseteq Good)
  /\ \A m \in Masters : checkPc[m] = "done" =>
       Outstanding = {} /\ fAllOk /\ (verdict <=> added \subseteq Good)

QueueInv == QueueTypes /\ Dealt /\ Counted /\ Owned /\ Judged
-----------------------------------------------------------------------------
(* What is outstanding once t has reported its batch. *)
Rest(t) == {c \in Checks : c \in queue \/ \E u \in CheckThreads \ {t} : c \in vChecks[u]}

(* pcs is checkPc but for threads that have been notified. *)
Notified(pcs) ==
  /\ pcs \in [CheckThreads -> Pcs]
  /\ \A u \in CheckThreads : pcs[u] = checkPc[u] \/ (checkPc[u] = "wait" /\ pcs[u] = "woken")

(* Notifying one thread of a set, or all, changes only waiting threads.    *)
LEMMA NotifiedOneSound ==
  ASSUME checkPc \in [CheckThreads -> Pcs], NEW T \in SUBSET CheckThreads,
         NEW pcs \in NotifiedOne(T)
  PROVE  Notified(pcs)
BY Zenon DEF NotifiedOne, Waiting, Notified, Pcs

(* notify_all changes only threads that wait. *)
LEMMA NotifyAllSound ==
  ASSUME checkPc \in [CheckThreads -> Pcs], NEW T \in SUBSET CheckThreads
  PROVE  Notified(NotifyAll(T))
BY Zenon DEF NotifyAll, Waiting, Notified, Pcs

(* What is outstanding is finite, and consists of the batch of t and the   *)
(* rest, which are disjoint.                                               *)
LEMMA OutstandingSplit ==
  ASSUME QueueTypes, Dealt, NEW t \in CheckThreads
  PROVE  /\ Outstanding = Rest(t) \cup vChecks[t]
         /\ Rest(t) \cap vChecks[t] = {}
         /\ IsFiniteSet(Outstanding) /\ IsFiniteSet(Rest(t)) /\ IsFiniteSet(vChecks[t])
         /\ Cardinality(Outstanding) = Cardinality(Rest(t)) + Cardinality(vChecks[t])
         /\ Outstanding \subseteq added
<1>1. Outstanding = Rest(t) \cup vChecks[t]
  BY Zenon DEF Outstanding, Rest, QueueTypes
<1>2. Rest(t) \cap vChecks[t] = {}
  BY Zenon DEF Rest, Dealt
<1>3. /\ IsFiniteSet(Outstanding) /\ IsFiniteSet(Rest(t)) /\ IsFiniteSet(vChecks[t])
  <2>1. Outstanding \subseteq Checks /\ Rest(t) \subseteq Checks /\ vChecks[t] \subseteq Checks
    BY Zenon DEF Outstanding, Rest, QueueTypes
  <2> QED BY <2>1, CheckAssumption, FS_Subset, Zenon DEF CheckAssumption
<1>4. Cardinality(Outstanding) = Cardinality(Rest(t)) + Cardinality(vChecks[t])
  <2>1. Cardinality(Rest(t) \cup vChecks[t])
          = Cardinality(Rest(t)) + Cardinality(vChecks[t]) - Cardinality(Rest(t) \cap vChecks[t])
    BY <1>3, FS_Union, Zenon
  <2>2. Cardinality(Rest(t) \cap vChecks[t]) = 0
    BY <1>2, FS_EmptySet, Zenon
  <2>3. Cardinality(Rest(t)) \in Nat /\ Cardinality(vChecks[t]) \in Nat
    BY <1>3, FS_CardinalityType, Zenon
  <2> QED BY <1>1, <2>1, <2>2, <2>3
<1>5. Outstanding \subseteq added
  BY Zenon DEF Outstanding, Dealt
<1> QED BY <1>1, <1>2, <1>3, <1>4, <1>5, Zenon

(* A batch is never empty (nNow is at least 1).                            *)
LEMMA BatchNonempty ==
  ASSUME QueueTypes, NEW total \in Int, NEW idle \in Int,
         NEW batch \in SUBSET queue, Cardinality(batch) = BatchLimit(total, idle)
  PROVE  batch # {}
<1>1. BatchLimit(total, idle) # 0
  <2> DEFINE share == Cardinality(queue) \div (total + idle + 1)
             least == IF share < nBatchSize THEN share ELSE nBatchSize
  <2>1. BatchLimit(total, idle) = IF least < 1 THEN 1 ELSE least
    BY Zenon DEF BatchLimit
  <2> HIDE DEF least
  <2>2. least < 1 \/ ~ (least < 1)
    BY Zenon
  <2>3. ~ (least < 1) => least # 0
    OBVIOUS
  <2> QED BY <2>1, <2>3
<1> QED BY <1>1, FS_EmptySet, Zenon

(* LoopBody leaves exactly the rest outstanding: t has given up its batch, *)
(* and a new one only moves from the queue to t.                           *)
LEMMA LoopBodyOutstanding ==
  ASSUME QueueTypes, NEW t \in CheckThreads, NEW pcs, NEW total, NEW idle, NEW ok, NEW todo,
         LoopBody(t, pcs, total, idle, ok, todo)
  PROVE  Outstanding' = Rest(t)
<1>1. CASE vChecks' = [vChecks EXCEPT ![t] = {}] /\ queue' = queue
  BY <1>1, Zenon DEF Outstanding, Rest, QueueTypes
<1>2. CASE \E batch \in SUBSET queue : queue' = queue \ batch /\ vChecks' = [vChecks EXCEPT ![t] = batch]
  BY <1>2, Zenon DEF Outstanding, Rest, QueueTypes
<1> QED BY <1>1, <1>2, Zenon DEF LoopBody, Return

(* The heart of the proof: a thread that comes to "logically, the do loop  *)
(* starts here" with a counter and a verdict that are right for the rest   *)
(* keeps the invariant, whether it leaves, waits or takes a batch.         *)
LEMMA LoopBodySound ==
  ASSUME QueueTypes, Dealt, Owned, Judged,
         NEW t \in CheckThreads, NEW pcs, NEW total \in Int, NEW idle \in Int,
         NEW ok \in BOOLEAN, NEW todo,
         checkPc[t] \in {"lock", "work", "woken"}, Notified(pcs),
         todo = Cardinality(Rest(t)),
         NoneDone => SoFar(ok, Rest(t)),
         ~ NoneDone => ok /\ Rest(t) = {},
         LoopBody(t, pcs, total, idle, ok, todo)
  PROVE  QueueInv'
<1> DEFINE Leaves == /\ queue = {} /\ t \in Masters /\ todo = 0 /\ nIdle' = idle
                     /\ Return(t, pcs, total, ok)
           Waits == /\ queue = {} /\ checkPc' = [pcs EXCEPT ![t] = "wait"]
                    /\ nIdle' = idle + 1 /\ nTotal' = total /\ fAllOk' = ok
                    /\ vChecks' = [vChecks EXCEPT ![t] = {}]
                    /\ UNCHANGED <<queue, fOk, verdict>>
           Takes(batch) == /\ batch # {} /\ queue' = queue \ batch
                           /\ vChecks' = [vChecks EXCEPT ![t] = batch]
                           /\ fOk' = [fOk EXCEPT ![t] = ok]
                           /\ checkPc' = [pcs EXCEPT ![t] = "work"]
                           /\ nIdle' = idle /\ nTotal' = total /\ fAllOk' = ok
                           /\ UNCHANGED verdict
<1>1. Leaves \/ Waits \/ \E batch \in SUBSET queue : Takes(batch)
  BY BatchNonempty, Zenon DEF LoopBody
<1>2. UNCHANGED <<ControlMutex, added>> /\ nTodo' = todo
  BY Zenon DEF LoopBody
<1>3. Outstanding' = Rest(t)
  BY LoopBodyOutstanding, Zenon
<1>4. todo \in Int /\ (todo = 0 => Rest(t) = {})
  BY OutstandingSplit, FS_CardinalityType, FS_EmptySet
<1>5. Counted'
  BY <1>2, <1>3, Zenon DEF Counted
<1>6. \A u \in CheckThreads \ {t} : checkPc[u] = "work" <=> pcs[u] = "work"
  BY Zenon DEF Notified
<1>7. \A m \in Masters \ {t} : /\ checkPc[m] = "out" <=> pcs[m] = "out"
                               /\ checkPc[m] = "done" <=> pcs[m] = "done"
  BY Zenon DEF Notified, CheckThreads
<1>8. t \in Masters => ControlMutex = t /\ \A m \in Masters \ {t} : checkPc[m] # "done"
  BY Zenon DEF Owned
<1>9. CASE Leaves
  <2>1. QueueTypes'
    BY <1>2, <1>4, <1>9 DEF QueueTypes, Return, Notified, Pcs
  <2>2. Dealt'
    BY <1>2, <1>6, <1>9 DEF QueueTypes, Dealt, Return, Notified
  <2>3. Owned'
    BY <1>2, <1>7, <1>8, <1>9, Zenon DEF Owned, Return, Notified, CheckThreads
  <2>4. NoneDone
    BY <1>8, <1>9, Zenon DEF NoneDone
  <2>5. ok <=> added \subseteq Good
    BY <2>4, <1>4, <1>9, Zenon DEF SoFar
  <2>6. Judged'
    <3>1. Outstanding' = {} /\ fAllOk' /\ (verdict' <=> added' \subseteq Good)
      BY <1>2, <1>3, <1>4, <1>9, <2>5, Zenon DEF Return
    <3>2. ~ NoneDone'
      BY <1>9, Zenon DEF NoneDone, Return, Notified
    <3>3. \A u \in CheckThreads : vChecks'[u] # {} /\ ~ fOk'[u] => ~ (added' \subseteq Good)
      BY <1>2, <1>9, Zenon DEF Judged, Return, QueueTypes
    <3> QED BY <3>1, <3>2, <3>3, Zenon DEF Judged
  <2> QED BY <2>1, <2>2, <2>3, <2>6, <1>5, Zenon DEF QueueInv
<1>10. ASSUME Waits \/ \E batch \in SUBSET queue : Takes(batch)
       PROVE  /\ NoneDone' <=> NoneDone
              /\ \A m \in Masters : checkPc'[m] = "done" <=> checkPc[m] = "done"
              /\ Owned'
              /\ fAllOk' = ok /\ verdict' = verdict
  <2>1. PICK pc \in {"wait", "work"} : checkPc' = [pcs EXCEPT ![t] = pc]
    BY <1>10, Zenon
  <2>2. \A m \in Masters : /\ checkPc'[m] = "out" <=> checkPc[m] = "out"
                           /\ checkPc'[m] = "done" <=> checkPc[m] = "done"
    BY <2>1, <1>7, Zenon DEF Notified, CheckThreads
  <2>3. fAllOk' = ok /\ verdict' = verdict
    BY <1>10, Zenon
  <2>4. Owned'
    BY <2>2, <1>2, Zenon DEF Owned
  <2>5. NoneDone' <=> NoneDone
    BY <2>2, Zenon DEF NoneDone
  <2> QED BY <2>2, <2>3, <2>4, <2>5, Zenon
<1>11. ASSUME Waits \/ \E batch \in SUBSET queue : Takes(batch),
              \A u \in CheckThreads : vChecks'[u] # {} /\ ~ fOk'[u] => ~ (added' \subseteq Good)
       PROVE  Judged'
  <2>1. NoneDone' => SoFar(fAllOk, Outstanding)'
    BY <1>2, <1>3, <1>10, <1>11 DEF SoFar
  <2>2. ASSUME NEW m \in Masters, checkPc'[m] = "done"
        PROVE  Outstanding' = {} /\ fAllOk' /\ (verdict' <=> added' \subseteq Good)
    <3>1. checkPc[m] = "done" /\ ~ NoneDone
      BY <2>2, <1>10, <1>11, Zenon DEF NoneDone
    <3>2. verdict <=> added \subseteq Good
      BY <3>1, Zenon DEF Judged
    <3>3. Outstanding' = {} /\ ok
      BY <3>1, <1>3, Zenon
    <3>4. fAllOk' = ok /\ verdict' = verdict /\ added' = added
      BY <1>2, <1>10, <1>11, Zenon
    <3> QED BY <3>2, <3>3, <3>4, Zenon
  <2> QED BY <2>1, <2>2, <1>11, Zenon DEF Judged
<1>12. CASE Waits
  <2>1. QueueTypes'
    BY <1>2, <1>4, <1>12 DEF QueueTypes, Notified, Pcs
  <2>2. Dealt'
    BY <1>2, <1>6, <1>12 DEF QueueTypes, Dealt, Notified
  <2>3. \A u \in CheckThreads : vChecks'[u] # {} /\ ~ fOk'[u] => ~ (added' \subseteq Good)
    BY <1>2, <1>12, Zenon DEF Judged, QueueTypes
  <2> QED BY <2>1, <2>2, <2>3, <1>5, <1>10, <1>11, <1>12, Zenon DEF QueueInv
<1>13. ASSUME NEW batch \in SUBSET queue, Takes(batch)
       PROVE  QueueInv'
  <2>1. QueueTypes'
    BY <1>2, <1>4, <1>13, Zenon DEF QueueTypes, Notified, Pcs
  <2>2. Dealt'
    BY <1>2, <1>6, <1>13 DEF QueueTypes, Dealt, Notified
  <2>3. ~ ok => ~ (added \subseteq Good)
    BY Zenon DEF SoFar
  <2>4. \A u \in CheckThreads : vChecks'[u] # {} /\ ~ fOk'[u] => ~ (added' \subseteq Good)
    BY <2>3, <1>2, <1>13, Zenon DEF Judged, QueueTypes
  <2> QED BY <2>1, <2>2, <2>4, <1>5, <1>10, <1>11, <1>13, Zenon DEF QueueInv
<1> QED BY <1>1, <1>9, <1>12, <1>13, Zenon

(* Every action keeps the invariant.                                       *)
LEMMA QueueInvStep ==
  ASSUME QueueInv, [CheckNext]_checkVars
  PROVE  QueueInv'
<1> USE DEF QueueInv
<1>1. ASSUME NEW t \in CheckThreads, EnterLoop(t)
      PROVE  QueueInv'
  <2>1. Rest(t) = Outstanding
    <3>1. vChecks[t] = {}
      BY <1>1, Zenon DEF EnterLoop, Dealt
    <3> QED BY <3>1, OutstandingSplit, Zenon
  <2>2. ~ NoneDone => fAllOk /\ Rest(t) = {}
    BY <2>1, Zenon DEF NoneDone, Judged
  <2>3. Notified(checkPc)
    BY Zenon DEF QueueTypes, Notified
  <2>4. nTotal + 1 \in Int /\ nIdle \in Int /\ fAllOk \in BOOLEAN
    BY DEF QueueTypes
  <2>5. NoneDone => SoFar(fAllOk, Rest(t))
    BY <2>1, Zenon DEF Judged
  <2>6. checkPc[t] = "lock" /\ LoopBody(t, checkPc, nTotal + 1, nIdle, fAllOk, nTodo)
    BY <1>1, Zenon DEF EnterLoop
  <2>7. nTodo = Cardinality(Rest(t))
    BY <2>1, Zenon DEF Counted
  <2> QED BY <2>2, <2>3, <2>4, <2>5, <2>6, <2>7, LoopBodySound
<1>2. ASSUME NEW t \in CheckThreads, Resume(t)
      PROVE  QueueInv'
  <2>1. Rest(t) = Outstanding
    <3>1. vChecks[t] = {}
      BY <1>2, Zenon DEF Resume, Dealt
    <3> QED BY <3>1, OutstandingSplit, Zenon
  <2>2. ~ NoneDone => fAllOk /\ Rest(t) = {}
    BY <2>1, Zenon DEF NoneDone, Judged
  <2>3. Notified(checkPc)
    BY Zenon DEF QueueTypes, Notified
  <2>4. nTotal \in Int /\ nIdle - 1 \in Int /\ fAllOk \in BOOLEAN
    BY DEF QueueTypes
  <2>5. NoneDone => SoFar(fAllOk, Rest(t))
    BY <2>1, Zenon DEF Judged
  <2>6. checkPc[t] = "woken" /\ LoopBody(t, checkPc, nTotal, nIdle - 1, fAllOk, nTodo)
    BY <1>2, Zenon DEF Resume
  <2>7. nTodo = Cardinality(Rest(t))
    BY <2>1, Zenon DEF Counted
  <2> QED BY <2>2, <2>3, <2>4, <2>5, <2>6, <2>7, LoopBodySound
<1>3. ASSUME NEW t \in CheckThreads, FinishBatch(t)
      PROVE  QueueInv'
  <2> DEFINE todo == nTodo - Cardinality(vChecks[t])
             ok == fAllOk /\ fOk[t] /\ vChecks[t] \subseteq Good
  <2>1. PICK pcs \in IF todo = 0 /\ t \in ScriptThreads THEN NotifiedOne(Masters) ELSE {checkPc} :
          LoopBody(t, pcs, nTotal, nIdle, ok, todo)
    BY <1>3, Zenon DEF FinishBatch
  <2>2. checkPc[t] = "work" /\ vChecks[t] # {}
    BY <1>3, Zenon DEF FinishBatch, Dealt
  <2>3. Notified(pcs)
    <3>1. Notified(checkPc)
      BY Zenon DEF QueueTypes, Notified
    <3>2. Masters \in SUBSET CheckThreads /\ checkPc \in [CheckThreads -> Pcs]
      BY Zenon DEF CheckThreads, QueueTypes
    <3> HIDE DEF todo
    <3> QED BY <2>1, <3>1, <3>2, NotifiedOneSound, Zenon
  <2>4. todo = Cardinality(Rest(t))
    BY OutstandingSplit, FS_CardinalityType DEF Counted
  <2>5. NoneDone
    <3>1. Outstanding # {}
      BY <2>2, OutstandingSplit, Zenon
    <3> QED BY <3>1, Zenon DEF NoneDone, Judged
  <2>6. SoFar(ok, Rest(t))
    <3>1. ok => added \ Rest(t) \subseteq Good
      BY <2>5, OutstandingSplit, Zenon DEF Judged, SoFar
    <3>2. ~ fAllOk => ~ (added \subseteq Good)
      BY <2>5, Zenon DEF Judged, SoFar
    <3>3. ~ fOk[t] => ~ (added \subseteq Good)
      BY <2>2, Zenon DEF Judged
    <3>4. ~ (vChecks[t] \subseteq Good) => ~ (added \subseteq Good)
      BY Zenon DEF Dealt
    <3> QED BY <3>1, <3>2, <3>3, <3>4, Zenon DEF SoFar
  <2>7. nTotal \in Int /\ nIdle \in Int /\ ok \in BOOLEAN
    BY Zenon DEF QueueTypes
  <2> HIDE DEF todo, ok
  <2>8. /\ checkPc[t] \in {"lock", "work", "woken"}
        /\ NoneDone => SoFar(ok, Rest(t))
        /\ ~ NoneDone => ok /\ Rest(t) = {}
    BY <2>2, <2>5, <2>6, Zenon
  <2>9. QueueTypes /\ Dealt /\ Owned /\ Judged
    BY Zenon
  <2> HIDE DEF QueueInv
  <2> QED BY <2>1, <2>3, <2>4, <2>7, <2>8, <2>9, LoopBodySound
<1>4. ASSUME NEW t \in CheckThreads, SpuriousWake(t)
      PROVE  QueueInv'
  <2>1. UNCHANGED <<poolVars, controlVars, vChecks, fOk>> /\ checkPc[t] = "wait"
        /\ checkPc' = [checkPc EXCEPT ![t] = "woken"]
    BY <1>4, Zenon DEF SpuriousWake
  <2>2. QueueTypes' /\ Dealt' /\ Counted' /\ Owned'
    BY <2>1, Zenon DEF QueueTypes, Pcs, Dealt, Counted, Outstanding, Owned, CheckThreads, poolVars, controlVars
  <2>3. Judged'
    BY <2>1, Zenon DEF QueueTypes, Judged, SoFar, NoneDone, Outstanding, CheckThreads, poolVars, controlVars
  <2> QED BY <2>2, <2>3, Zenon
<1>5. ASSUME NEW t \in CheckThreads, Interrupted(t)
      PROVE  QueueInv'
  <2>1. PICK pc \in {"exit", "terminate", "lock"} : checkPc' = [checkPc EXCEPT ![t] = pc]
    BY <1>5, Zenon DEF Interrupted
  <2>2. UNCHANGED <<poolVars, ControlMutex, added, verdict, vChecks, fOk>> /\ checkPc[t] = "wait"
    BY <1>5, Zenon DEF Interrupted
  <2>3. QueueTypes' /\ Dealt' /\ Counted' /\ Owned'
    BY <2>1, <2>2, Zenon DEF QueueTypes, Pcs, Dealt, Counted, Outstanding, Owned, CheckThreads, poolVars
  <2>4. Judged'
    BY <2>1, <2>2, Zenon DEF QueueTypes, Judged, SoFar, NoneDone, Outstanding, CheckThreads, poolVars
  <2> QED BY <2>3, <2>4, Zenon
<1>6. ASSUME NEW m \in Masters, NewControl(m)
      PROVE  QueueInv'
  <2>1. UNCHANGED <<poolVars, added, verdict, vChecks, fOk>> /\ checkPc[m] = "out"
        /\ checkPc' = [checkPc EXCEPT ![m] = "adding"]
        /\ ControlMutex = NoMaster /\ ControlMutex' = m /\ m # NoMaster
    BY <1>6, CheckAssumption, Zenon DEF NewControl, CheckAssumption, CheckThreads
  <2>2. QueueTypes' /\ Dealt' /\ Counted'
    BY <2>1, Zenon DEF QueueTypes, Pcs, Dealt, Counted, Outstanding, CheckThreads, poolVars
  <2>3. \A n \in Masters : checkPc[n] = "out"
    BY <2>1, CheckAssumption, Zenon DEF Owned, CheckAssumption, CheckThreads
  <2>4. Owned'
    BY <2>1, <2>3, Zenon DEF Owned, QueueTypes, CheckThreads
  <2>5. Judged'
    BY <2>1, Zenon DEF QueueTypes, Judged, SoFar, NoneDone, Outstanding, CheckThreads, poolVars
  <2> QED BY <2>2, <2>4, <2>5, Zenon
<1>7. ASSUME NEW m \in Masters, Wait(m)
      PROVE  QueueInv'
  <2>1. UNCHANGED <<poolVars, ControlMutex, added, verdict, vChecks, fOk>> /\ checkPc[m] = "adding"
        /\ checkPc' = [checkPc EXCEPT ![m] = "lock"]
    BY <1>7, Zenon DEF Wait
  <2>2. QueueTypes' /\ Dealt' /\ Counted' /\ Owned'
    BY <2>1, Zenon DEF QueueTypes, Pcs, Dealt, Counted, Outstanding, Owned, CheckThreads, poolVars
  <2>3. Judged'
    BY <2>1, Zenon DEF QueueTypes, Judged, SoFar, NoneDone, Outstanding, CheckThreads, poolVars
  <2> QED BY <2>2, <2>3, Zenon
<1>8. ASSUME NEW m \in Masters, LeaveControl(m)
      PROVE  QueueInv'
  <2>1. UNCHANGED <<poolVars, vChecks, fOk>> /\ checkPc[m] = "done"
        /\ checkPc' = [checkPc EXCEPT ![m] = "out"]
        /\ ControlMutex' = NoMaster /\ added' = {} /\ verdict' = TRUE
    BY <1>8, Zenon DEF LeaveControl
  <2>2. Outstanding = {} /\ fAllOk
    BY <2>1, Zenon DEF Judged
  <2>3. Outstanding' = {} /\ fAllOk' /\ NoMaster \notin Masters
    BY <2>1, <2>2, CheckAssumption, Zenon DEF Outstanding, poolVars, CheckAssumption, CheckThreads
  <2>4. queue = {} /\ \A t \in CheckThreads : vChecks[t] = {}
    BY <2>2, Zenon DEF Outstanding, QueueTypes
  <2>5. QueueTypes' /\ Dealt' /\ Counted'
    BY <2>1, <2>2, <2>3, <2>4, Zenon DEF QueueTypes, Pcs, Dealt, Counted, poolVars, CheckThreads
  <2>6. \A n \in Masters : ControlMutex # n => checkPc'[n] = "out"
    BY <2>1, Zenon DEF Owned, QueueTypes, CheckThreads
  <2>7. \A n \in Masters : checkPc'[n] = "out"
    BY <2>1, <2>6, Zenon DEF Owned, QueueTypes, CheckThreads
  <2>8. Owned'
    BY <2>1, <2>3, <2>7, Zenon DEF Owned
  <2>9. Judged'
    BY <2>1, <2>3, <2>4, <2>7, Zenon DEF Judged, SoFar, poolVars
  <2> QED BY <2>5, <2>8, <2>9, Zenon
<1>9. ASSUME NEW m \in Masters, Add(m)
      PROVE  QueueInv'
  <2>1. PICK new \in SUBSET (Checks \ added) :
          /\ queue' = queue \cup new /\ nTodo' = nTodo + Cardinality(new) /\ added' = added \cup new
          /\ checkPc' \in IF Cardinality(new) = 1 THEN NotifiedOne(ScriptThreads)
                          ELSE {NotifyAll(ScriptThreads)}
    BY <1>9, Zenon DEF Add
  <2>2. UNCHANGED <<nIdle, nTotal, fAllOk, ControlMutex, verdict, vChecks, fOk>> /\ checkPc[m] = "adding"
    BY <1>9, Zenon DEF Add
  <2>3. Notified(checkPc')
    BY <2>1, NotifiedOneSound, NotifyAllSound, Zenon DEF CheckThreads, QueueTypes
  <2>4. \A u \in CheckThreads : /\ checkPc'[u] = "work" <=> checkPc[u] = "work"
                                /\ checkPc'[u] = "out" <=> checkPc[u] = "out"
                                /\ checkPc'[u] = "done" <=> checkPc[u] = "done"
    BY <2>3, Zenon DEF Notified
  <2>5. Outstanding \subseteq added /\ IsFiniteSet(Outstanding)
    BY OutstandingSplit, Zenon DEF CheckThreads
  <2>6. Outstanding' = Outstanding \cup new
    BY <2>1, <2>2, Zenon DEF Outstanding
  <2>7. IsFiniteSet(new)
    BY CheckAssumption, FS_Subset, Zenon DEF CheckAssumption
  <2>8. nTodo' = Cardinality(Outstanding \cup new)
    <3>1. Outstanding \cap new = {}
      BY <2>5, Zenon
    <3>2. Cardinality(Outstanding \cap new) = 0
      BY <3>1, FS_EmptySet, Zenon
    <3>3. Cardinality(Outstanding) \in Nat /\ Cardinality(new) \in Nat
      BY <2>5, <2>7, FS_CardinalityType, Zenon
    <3>4. Cardinality(Outstanding \cup new)
            = Cardinality(Outstanding) + Cardinality(new) - Cardinality(Outstanding \cap new)
      BY <2>5, <2>7, FS_Union, Zenon
    <3> QED BY <2>1, <3>2, <3>3, <3>4 DEF Counted
  <2>9. Counted'
    BY <2>6, <2>8, Zenon DEF Counted
  <2>10. QueueTypes'
    BY <2>1, <2>2, <2>3, <2>7, FS_CardinalityType DEF QueueTypes, Notified
  <2>11. Dealt'
    BY <2>1, <2>2, <2>4, Zenon DEF Dealt
  <2>12. ControlMutex = m /\ m # NoMaster
    BY <2>2, CheckAssumption, Zenon DEF Owned, CheckAssumption, CheckThreads
  <2>13. Owned'
    BY <2>2, <2>4, <2>12, Zenon DEF Owned, CheckThreads
  <2>14. NoneDone /\ NoneDone'
    BY <2>2, <2>4, <2>12, Zenon DEF NoneDone, Owned, CheckThreads
  <2>15. SoFar(fAllOk, Outstanding)'
    BY <2>1, <2>2, <2>6, <2>14, Zenon DEF Judged, SoFar
  <2>16. Judged'
    BY <2>1, <2>2, <2>14, <2>15, Zenon DEF Judged, NoneDone
  <2> QED BY <2>9, <2>10, <2>11, <2>13, <2>16, Zenon
<1>10. ASSUME UNCHANGED <<poolVars, controlVars, checkPc, vChecks, fOk>>
       PROVE  QueueInv'
  BY <1>10, Zenon DEF poolVars, controlVars, QueueTypes, Dealt, Counted, Owned, Judged, Outstanding, NoneDone, SoFar
<1>11. CASE InterruptAll
  BY <1>10, <1>11, Zenon DEF InterruptAll
<1>12. CASE UNCHANGED checkVars
  BY <1>10, <1>12, Zenon DEF checkVars
<1> QED BY <1>1, <1>2, <1>3, <1>4, <1>5, <1>6, <1>7, <1>8, <1>9, <1>11, <1>12, Zenon
        DEF CheckNext, CheckStep, MasterStep

(* The invariant holds at the start.                                       *)
LEMMA QueueInvInit ==
  ASSUME CheckInit PROVE QueueInv
<1>1. Outstanding = {}
  BY Zenon DEF CheckInit, Outstanding
<1>2. \A m \in Masters : checkPc[m] = "out" /\ NoMaster # m
  BY CheckAssumption, Zenon DEF CheckInit, CheckAssumption, CheckThreads
<1>3. QueueTypes /\ Dealt
  BY DEF CheckInit, QueueTypes, Dealt, Pcs
<1>4. Counted
  BY <1>1, FS_EmptySet, Zenon DEF Counted, CheckInit
<1>5. Owned /\ Judged
  BY <1>1, <1>2, Zenon DEF CheckInit, Owned, Judged, SoFar
<1> QED BY <1>3, <1>4, <1>5, Zenon DEF QueueInv

(* The verdict ConnectBlock gets from the script check queue is about the  *)
(* checks of its own block, all of them: for every number of threads and   *)
(* checks, every batch size, and every order of batches and interruptions. *)
THEOREM VerdictSound == CheckSpec => []VerdictExact
<1>1. QueueInv => VerdictExact
  BY Zenon DEF QueueInv, Judged, VerdictExact
<1> QED BY <1>1, QueueInvInit, QueueInvStep, PTL DEF CheckSpec

(* Once a CCheckQueueControl is gone nothing of its block is queued or     *)
(* running, the counter is 0 and no failure is left for the next block.    *)
THEOREM ControlSound == CheckSpec => []QueueFinished
<1>1. ASSUME QueueInv, \E m \in Masters : checkPc[m] = "done"
      PROVE  Outstanding = {} /\ fAllOk
  BY <1>1, Zenon DEF QueueInv, Judged
<1>2. ASSUME QueueInv, ControlMutex = NoMaster
      PROVE  Outstanding = {} /\ fAllOk
  <2>1. added = {} /\ NoneDone
    BY <1>2, CheckAssumption, Zenon DEF QueueInv, Owned, NoneDone, CheckAssumption, CheckThreads
  <2>2. Outstanding = {}
    BY <1>2, <2>1, Zenon DEF QueueInv, Dealt, Outstanding
  <2> QED BY <1>2, <2>1, <2>2, Zenon DEF QueueInv, Judged, SoFar
<1>3. ASSUME QueueInv, Outstanding = {}
      PROVE  nTodo = 0
  BY <1>3, FS_EmptySet, Zenon DEF QueueInv, Counted
<1>4. QueueInv => QueueFinished
  BY <1>1, <1>2, <1>3, Zenon DEF QueueFinished
<1> QED BY <1>4, QueueInvInit, QueueInvStep, PTL DEF CheckSpec
=============================================================================
