--------------------------- MODULE CallbackProofs ---------------------------
(***************************************************************************)
(* The validation callbacks run one at a time, in order, and all of them,  *)
(* for any number of threads of each kind: Callbacks implements            *)
(* SerialQueue, and Shutdown leaves behind only what is added at its end.  *)
(*                                                                         *)
(* The callbacks are numbered as they are added, so at any moment the      *)
(* pending ones are the last ones, those before them have been taken, and  *)
(* of these at most the last has not run to its end.                       *)
(***************************************************************************)
EXTENDS Callbacks, FiniteSetTheorems, TLAPS

CallbackPcs ==
  {"start", "top", "sleep", "wait", "woken", "timed", "rewait", "process", "callback", "raii",
   "maybe", "schedule", "notify", "back", "idle", "lock", "sync", "connect", "http",
   "exit"}

(* A thread between the two critical sections of ProcessQueue. *)
Busy == {"callback", "raii"}

Taken == nAdded - Len(m_callbacks_pending)

(* The types the proof needs. *)
ThreadTypes ==
  /\ tpc \in [Threads -> CallbackPcs] /\ nAdded \in Nat
  /\ callback \in [Threads -> {NoCallback} \cup 1..nAdded]
  /\ m_are_callbacks_running \in BOOLEAN
  /\ taskQueue \in Nat /\ workQueue \in 0..maxDepth
  /\ lateCallbacks \subseteq 1..nAdded /\ interrupted \subseteq ThreadGroup \cup Miners

(* m_are_callbacks_running stands for the one thread that is busy. *)
OneAtATime ==
  /\ \A t, u \in Threads : tpc[t] \in Busy /\ tpc[u] \in Busy => t = u
  /\ m_are_callbacks_running <=> \E t \in Threads : tpc[t] \in Busy

(* The pending callbacks are the last ones added, in order; the others have *)
(* run, but for the one a thread is running.                                *)
InOrder ==
  /\ m_callbacks_pending \in Seq(1..nAdded) /\ Taken \in 0..nAdded
  /\ \A i \in 1..Len(m_callbacks_pending) : m_callbacks_pending[i] = Taken + i
  /\ Running = {} => executed = 1..Taken
  /\ \A t \in Running : callback[t] = Taken /\ Taken > 0 /\ executed = 1..(Taken - 1)

SerialInv == ThreadTypes /\ OneAtATime /\ InOrder

(* nThreadsServicingQueue counts the threads inside serviceQueue. *)
Serving == {s \in Services : tpc[s] \notin {"start", "exit"}}
Counted == nThreadsServicingQueue = Cardinality(Serving)

(* Which threads have ended, and what the main thread does, at each stage   *)
(* of Shutdown.                                                             *)
BeforeFlush == {"run", "stopHTTP", "stopNet", "join"}
Calling == {"maybe", "schedule", "notify", "back"}
Staged ==
  /\ stage \in BeforeFlush \cup {"flush", "empty", "left", "last", "done"}
  /\ stage \in BeforeFlush => tpc[Main] = "idle"
  /\ stage \notin {"run", "stopHTTP"} => Joined(HttpWorkers)
  /\ stage \notin {"run", "stopHTTP", "stopNet"} => Joined(Handlers)
  /\ stage \notin BeforeFlush => Joined(ThreadGroup)
  /\ stage = "flush" => tpc[Main] \in Calling
  /\ stage = "empty" => tpc[Main] \in Calling \cup Busy \cup {"process"}
  /\ stage = "left" => tpc[Main] = "back"
  /\ stage = "last" => tpc[Main] \in Calling
  /\ stage = "done" => tpc[Main] = "exit" /\ Joined(Miners)

(* Only the threads of the scheduler and the main thread run callbacks. *)
RunByScheduler ==
  \A t \in Threads : tpc[t] \in Busy \cup {"process"} => t \in Services \cup {Main}

CallbackInv == SerialInv /\ Counted /\ RunByScheduler /\ Staged /\ NoCallbackMissed
-----------------------------------------------------------------------------
(* The kinds of steps, as far as the queue is concerned. *)

(* No callback is added, begun or ended. *)
Still ==
  /\ UNCHANGED clientVars
  /\ \A u \in Threads :
       /\ tpc'[u] \in Busy <=> tpc[u] \in Busy
       /\ tpc'[u] = "callback" <=> tpc[u] = "callback"
       /\ tpc[u] = "callback" => callback'[u] = callback[u]

(* A callback is added: by a thread that calls, or by Shutdown. *)
MayAdd(t) == tpc[t] \in {"sync", "connect"} \/ (t = Main /\ (JoinAndFlush \/ FlushAndReset))
Adding ==
  \E t \in Threads, p \in BOOLEAN : tpc[t] \notin Busy /\ MayAdd(t) /\ AddToProcessQueue(t, p)

(* ProcessQueue takes a callback. *)
Taking(t) ==
  /\ tpc[t] = "process" /\ Goto(t, "callback")
  /\ ~ m_are_callbacks_running /\ m_are_callbacks_running' = TRUE
  /\ m_callbacks_pending # <<>> /\ m_callbacks_pending' = Tail(m_callbacks_pending)
  /\ callback' = [callback EXCEPT ![t] = Head(m_callbacks_pending)]
  /\ UNCHANGED <<nAdded, executed, lateCallbacks>>

Kinds ==
  \/ Still \/ Adding
  \/ \E t \in Threads : Taking(t) \/ RunCallback(t) \/ CallbackDone(t)

(* Taking the first element of a sequence.                                  *)
LEMMA TakeFirst ==
  ASSUME NEW S, NEW s \in Seq(S), s # <<>>
  PROVE  /\ Head(s) \in S /\ Tail(s) \in Seq(S) /\ Len(Tail(s)) = Len(s) - 1
         /\ \A i \in 1..Len(Tail(s)) : Tail(s)[i] = s[i + 1]
  OBVIOUS

(* A thread that is not busy moves, to where it is not busy either: the     *)
(* queue of callbacks does not see it.                                      *)
LEMMA MoveIsStill ==
  ASSUME ThreadTypes, NEW t \in Threads, NEW pc \in CallbackPcs \ Busy, tpc[t] \notin Busy,
         Goto(t, pc), UNCHANGED clientVars,
         \A u \in Threads \ {t} : callback'[u] = callback[u]
  PROVE  Still /\ tpc' \in [Threads -> CallbackPcs]
BY Zenon DEF ThreadTypes, Goto, Still, Busy

(* newTaskScheduled.notify_one() moves at most one waiting thread of the    *)
(* scheduler, which stays inside serviceQueue.                              *)
LEMMA WakeOneMoves ==
  ASSUME ThreadTypes, NEW pcs \in WakeOne
  PROVE  /\ pcs \in [Threads -> CallbackPcs]
         /\ \A u \in Threads :
              \/ pcs[u] = tpc[u]
              \/ u \in Services /\ tpc[u] \in {"wait", "timed"} /\ pcs[u] \in {"woken", "rewait"}
<1> DEFINE asleep == {s \in Services : tpc[s] \in {"wait", "timed"}}
           Woken(s) == [tpc EXCEPT ![s] = IF @ = "wait" THEN "woken" ELSE "rewait"]
<1>1. CASE asleep = {}
  BY <1>1, Zenon DEF WakeOne, ThreadTypes
<1>2. CASE asleep # {}
  <2>1. PICK s \in asleep : pcs = Woken(s)
    BY <1>2, Zenon DEF WakeOne
  <2>2. s \in Threads
    BY <2>1, Zenon DEF Threads
  <2> QED BY <2>1, <2>2, Zenon DEF ThreadTypes, CallbackPcs
<1> QED BY <1>1, <1>2, Zenon
-----------------------------------------------------------------------------
(* Every step is of one of the kinds, and keeps the types. *)

(* A thread of the scheduler that waits for tasks or takes one leaves the   *)
(* queue of callbacks alone.                                                *)
LEMMA ServiceKinds ==
  ASSUME SerialInv, NEW s \in Services, ServiceStep(s)
  PROVE  ThreadTypes' /\ Still
<1> s \in Threads
  BY Zenon DEF Threads
<1> ThreadTypes
  BY Zenon DEF SerialInv
<1>1. CASE ServiceLoop(s)
  <2> DEFINE pc == IF taskQueue = 0 THEN "sleep" ELSE "timed"
  <2>1. pc \in CallbackPcs \ Busy /\ tpc[s] \notin Busy /\ Goto(s, pc)
    BY <1>1, Zenon DEF ServiceLoop, CallbackPcs, Busy
  <2>2. Still /\ tpc' \in [Threads -> CallbackPcs]
    BY <1>1, <2>1, MoveIsStill, Zenon DEF ServiceLoop
  <2> QED BY <1>1, <2>2, Zenon DEF ServiceLoop, ThreadTypes, clientVars, workVars
<1>2. CASE ServiceWait(s)
  <2> DEFINE pc == IF taskQueue = 0 THEN "wait" ELSE "timed"
  <2>1. pc \in CallbackPcs \ Busy /\ tpc[s] \notin Busy /\ Goto(s, pc)
    BY <1>2, Zenon DEF ServiceWait, CallbackPcs, Busy
  <2>2. Still /\ tpc' \in [Threads -> CallbackPcs]
    BY <1>2, <2>1, MoveIsStill, Zenon DEF ServiceWait
  <2> QED BY <1>2, <2>2, Zenon DEF ServiceWait, ThreadTypes, clientVars, workVars, schedVars
<1>3. CASE ServiceRewait(s)
  <2> DEFINE pc == IF taskQueue = 0 THEN "top" ELSE "timed"
  <2>1. pc \in CallbackPcs \ Busy /\ tpc[s] \notin Busy /\ Goto(s, pc)
    BY <1>3, Zenon DEF ServiceRewait, CallbackPcs, Busy
  <2>2. Still /\ tpc' \in [Threads -> CallbackPcs]
    BY <1>3, <2>1, MoveIsStill, Zenon DEF ServiceRewait
  <2> QED BY <1>3, <2>2, Zenon DEF ServiceRewait, ThreadTypes, clientVars, workVars, schedVars
<1>4. CASE ServiceTake(s)
  <2> DEFINE pc == IF taskQueue = 0 THEN "top" ELSE "process"
  <2>1. pc \in CallbackPcs \ Busy /\ tpc[s] \notin Busy /\ Goto(s, pc)
    BY <1>4, Zenon DEF ServiceTake, CallbackPcs, Busy
  <2>2. Still /\ tpc' \in [Threads -> CallbackPcs]
    BY <1>4, <2>1, MoveIsStill, Zenon DEF ServiceTake
  <2> QED BY <1>4, <2>2 DEF ServiceTake, ThreadTypes, clientVars, workVars
<1>5. CASE ServiceInterrupted(s)
  <2>1. "exit" \in CallbackPcs \ Busy /\ tpc[s] \notin Busy /\ Goto(s, "exit")
    BY <1>5, Zenon DEF ServiceInterrupted, CallbackPcs, Busy
  <2>2. Still /\ tpc' \in [Threads -> CallbackPcs]
    BY <1>5, <2>1, MoveIsStill, Zenon DEF ServiceInterrupted
  <2> QED BY <1>5, <2>2, Zenon DEF ServiceInterrupted, ThreadTypes, clientVars, workVars
<1> QED BY <1>1, <1>2, <1>3, <1>4, <1>5, Zenon DEF ServiceStep

(* AddToProcessQueue keeps the types: the new callback has the next number. *)
LEMMA AddTypes ==
  ASSUME SerialInv, NEW t \in Threads, NEW p \in BOOLEAN, tpc[t] \notin Busy,
         MayAdd(t), AddToProcessQueue(t, p), UNCHANGED workQueue
  PROVE  ThreadTypes' /\ Adding
<1>1. tpc' \in [Threads -> CallbackPcs]
  BY Zenon DEF SerialInv, ThreadTypes, AddToProcessQueue, Goto, CallbackPcs
<1>2. nAdded' = nAdded + 1 /\ nAdded' \in Nat
  BY DEF SerialInv, ThreadTypes, AddToProcessQueue
<1>3. callback' \in [Threads -> {NoCallback} \cup 1..nAdded']
  <2>1. 1..nAdded \subseteq 1..nAdded' /\ nAdded + 1 \in 1..nAdded'
    BY <1>2 DEF SerialInv, ThreadTypes
  <2>2. callback \in [Threads -> {NoCallback} \cup 1..nAdded']
    BY <2>1, Zenon DEF SerialInv, ThreadTypes
  <2> QED BY <2>1, <2>2, Zenon DEF AddToProcessQueue
<1>4. lateCallbacks' \subseteq 1..nAdded'
  <2>1. 1..nAdded \subseteq 1..nAdded' /\ nAdded + 1 \in 1..nAdded'
    BY <1>2 DEF SerialInv, ThreadTypes
  <2>2. lateCallbacks \subseteq 1..nAdded'
    BY <2>1, Zenon DEF SerialInv, ThreadTypes
  <2> QED BY <2>1, <2>2, Zenon DEF AddToProcessQueue
<1> QED BY <1>1, <1>2, <1>3, <1>4, Zenon DEF SerialInv, ThreadTypes, AddToProcessQueue, Adding, schedVars

(* A thread inside SingleThreadedSchedulerClient takes a callback, runs it, *)
(* ends it, or leaves the queue alone.                                      *)
LEMMA ClientKinds ==
  ASSUME SerialInv, NEW t \in Threads, ClientStep(t)
  PROVE  ThreadTypes' /\ Kinds
<1> ThreadTypes
  BY Zenon DEF SerialInv
<1> CallerPc(t) \in CallbackPcs \ Busy
  BY Zenon DEF CallerPc, CallbackPcs, Busy
<1>1. CASE ProcessQueue(t) /\ (m_are_callbacks_running \/ m_callbacks_pending = <<>>)
  <2>1. tpc[t] \notin Busy /\ Goto(t, CallerPc(t)) /\ UNCHANGED <<clientVars, callback>>
    BY <1>1, Zenon DEF ProcessQueue, Busy
  <2>2. Still /\ tpc' \in [Threads -> CallbackPcs]
    BY <2>1, MoveIsStill, Zenon
  <2> QED BY <1>1, <2>1, <2>2, Zenon DEF ProcessQueue, ThreadTypes, clientVars, workVars, schedVars, Kinds
<1>2. CASE ProcessQueue(t) /\ ~ (m_are_callbacks_running \/ m_callbacks_pending = <<>>)
  <2>1. Taking(t)
    BY <1>2, Zenon DEF ProcessQueue, Taking
  <2>2. Head(m_callbacks_pending) \in 1..nAdded
    <3>1. m_callbacks_pending \in Seq(1..nAdded) /\ m_callbacks_pending # <<>>
      BY <1>2, Zenon DEF SerialInv, InOrder
    <3> QED BY <3>1, TakeFirst, Zenon
  <2>3. tpc' \in [Threads -> CallbackPcs]
    BY <2>1, Zenon DEF Taking, Goto, ThreadTypes, CallbackPcs
  <2>4. callback' \in [Threads -> {NoCallback} \cup 1..nAdded']
    BY <2>1, <2>2, Zenon DEF Taking, ThreadTypes
  <2> QED BY <1>2, <2>1, <2>3, <2>4, Zenon DEF ProcessQueue, ThreadTypes, workVars, schedVars, Kinds
<1>3. CASE RunCallback(t)
  <2>1. tpc' \in [Threads -> CallbackPcs]
    BY <1>3, Zenon DEF RunCallback, Goto, ThreadTypes, CallbackPcs
  <2>2. callback' \in [Threads -> {NoCallback} \cup 1..nAdded']
    BY <1>3, Zenon DEF RunCallback, ThreadTypes
  <2> QED BY <1>3, <2>1, <2>2, Zenon DEF RunCallback, ThreadTypes, workVars, schedVars, Kinds
<1>4. CASE CallbackDone(t)
  <2>1. tpc' \in [Threads -> CallbackPcs]
    BY <1>4, Zenon DEF CallbackDone, Goto, ThreadTypes, CallbackPcs
  <2> QED BY <1>4, <2>1, Zenon DEF CallbackDone, ThreadTypes, workVars, schedVars, Kinds
<1>5. CASE MaybeScheduleProcessQueue(t)
  <2> DEFINE pc == IF m_are_callbacks_running \/ m_callbacks_pending = <<>> THEN CallerPc(t)
                   ELSE "schedule"
  <2>1. pc \in CallbackPcs \ Busy /\ tpc[t] \notin Busy /\ Goto(t, pc)
    BY <1>5, Zenon DEF MaybeScheduleProcessQueue, CallbackPcs, Busy
  <2>2. Still /\ tpc' \in [Threads -> CallbackPcs]
    BY <1>5, <2>1, MoveIsStill, Zenon DEF MaybeScheduleProcessQueue
  <2> QED BY <1>5, <2>2, Zenon DEF MaybeScheduleProcessQueue, ThreadTypes, clientVars, workVars, schedVars, Kinds
<1>6. CASE Schedule(t)
  <2>1. "notify" \in CallbackPcs \ Busy /\ tpc[t] \notin Busy /\ Goto(t, "notify")
    BY <1>6, Zenon DEF Schedule, CallbackPcs, Busy
  <2>2. Still /\ tpc' \in [Threads -> CallbackPcs]
    BY <1>6, <2>1, MoveIsStill, Zenon DEF Schedule
  <2> QED BY <1>6, <2>2 DEF Schedule, ThreadTypes, clientVars, workVars, Kinds
<1>7. CASE Notify(t)
  <2>1. PICK pcs \in WakeOne : tpc' = [pcs EXCEPT ![t] = CallerPc(t)]
    BY <1>7, Zenon DEF Notify
  <2>2. /\ pcs \in [Threads -> CallbackPcs]
        /\ \A u \in Threads :
             \/ pcs[u] = tpc[u]
             \/ u \in Services /\ tpc[u] \in {"wait", "timed"} /\ pcs[u] \in {"woken", "rewait"}
    BY <2>1, WakeOneMoves, Zenon
  <2>3. tpc' \in [Threads -> CallbackPcs]
    BY <2>1, <2>2, Zenon
  <2>4. tpc[t] = "notify" /\ UNCHANGED <<clientVars, callback>>
    BY <1>7, Zenon DEF Notify
  <2>5. Still
    BY <2>1, <2>2, <2>4, Zenon DEF Still, Busy
  <2> QED BY <1>7, <2>3, <2>5, Zenon DEF Notify, ThreadTypes, clientVars, workVars, schedVars, Kinds
<1> QED BY <1>1, <1>2, <1>3, <1>4, <1>5, <1>6, <1>7, Zenon DEF ClientStep

(* Every other step adds a callback or leaves the queue alone. *)
LEMMA StepKinds ==
  ASSUME SerialInv, RunByScheduler, Staged, CallbackNext
  PROVE  ThreadTypes' /\ Kinds
<1> ThreadTypes
  BY Zenon DEF SerialInv
<1>1. ASSUME NEW t \in Threads, SyncWithValidationInterfaceQueue(t)
      PROVE  ThreadTypes' /\ Kinds
  BY <1>1, AddTypes, Zenon DEF SyncWithValidationInterfaceQueue, MayAdd, Busy, Kinds, workVars
<1>2. ASSUME NEW t \in Threads, SendSignal(t)
      PROVE  ThreadTypes' /\ Kinds
  BY <1>2, AddTypes, Zenon DEF SendSignal, MayAdd, Busy, Kinds, workVars
<1>3. ASSUME NEW t \in Threads, CallReturns(t)
      PROVE  ThreadTypes' /\ Kinds
  <2> DEFINE pc == IF callback[t] = NoCallback \/ t \in HttpWorkers THEN "idle" ELSE "connect"
  <2>1. pc \in CallbackPcs \ Busy /\ tpc[t] \notin Busy /\ Goto(t, pc)
    BY <1>3, Zenon DEF CallReturns, Returned, CallbackPcs, Busy
  <2>2. callback' = [callback EXCEPT ![t] = NoCallback] /\ UNCHANGED clientVars
    BY <1>3, Zenon DEF CallReturns
  <2>3. \A u \in Threads \ {t} : callback'[u] = callback[u]
    BY <2>2, Zenon DEF ThreadTypes
  <2>4. Still /\ tpc' \in [Threads -> CallbackPcs]
    BY <2>1, <2>2, <2>3, MoveIsStill, Zenon
  <2>5. callback' \in [Threads -> {NoCallback} \cup 1..nAdded']
    BY <2>2, Zenon DEF ThreadTypes, clientVars
  <2> QED BY <1>3, <2>4, <2>5, Zenon DEF CallReturns, ThreadTypes, clientVars, workVars, schedVars, Kinds
<1>4. ASSUME NEW t \in Threads, WorkerRun(t)
      PROVE  ThreadTypes' /\ Kinds
  <2>1. PICK pc \in {"exit", "http", "idle", "sync", "connect"} : Goto(t, pc)
    BY <1>4, Zenon DEF WorkerRun
  <2>2. pc \in CallbackPcs \ Busy /\ tpc[t] \notin Busy
    BY <1>4, <2>1, Zenon DEF WorkerRun, CallbackPcs, Busy
  <2>3. Still /\ tpc' \in [Threads -> CallbackPcs]
    BY <1>4, <2>1, <2>2, MoveIsStill, Zenon DEF WorkerRun
  <2>4. workQueue' \in 0..maxDepth
    BY <1>4, CallbackAssumption DEF WorkerRun, ThreadTypes
  <2> QED BY <1>4, <2>3, <2>4, Zenon DEF WorkerRun, ThreadTypes, clientVars, schedVars, Kinds
<1>5. ASSUME NEW t \in Threads, CheckPending(t)
      PROVE  ThreadTypes' /\ Kinds
  <2>1. PICK pc \in {"exit", "sync", "connect"} : Goto(t, pc)
    BY <1>5, Zenon DEF CheckPending
  <2>2. pc \in CallbackPcs \ Busy /\ tpc[t] \notin Busy
    BY <1>5, <2>1, Zenon DEF CheckPending, CallbackPcs, Busy
  <2>3. Still /\ tpc' \in [Threads -> CallbackPcs]
    BY <1>5, <2>1, <2>2, MoveIsStill, Zenon DEF CheckPending
  <2> QED BY <1>5, <2>3, Zenon DEF CheckPending, ThreadTypes, clientVars, schedVars, workVars, Kinds
<1>10. ASSUME NEW t \in Threads, ActivateBestChain(t)
       PROVE  ThreadTypes' /\ Kinds
  <2>1. "lock" \in CallbackPcs \ Busy /\ tpc[t] \notin Busy /\ Goto(t, "lock")
    BY <1>10, Zenon DEF ActivateBestChain, CallbackPcs, Busy
  <2>2. Still /\ tpc' \in [Threads -> CallbackPcs]
    BY <1>10, <2>1, MoveIsStill, Zenon DEF ActivateBestChain
  <2> QED BY <1>10, <2>2, Zenon DEF ActivateBestChain, ThreadTypes, clientVars, schedVars, Kinds
<1>6. ASSUME NEW t \in Threads, ThreadEnds(t)
      PROVE  ThreadTypes' /\ Kinds
  <2>1. "exit" \in CallbackPcs \ Busy /\ tpc[t] \notin Busy /\ Goto(t, "exit")
    BY <1>6, Zenon DEF ThreadEnds, CallbackPcs, Busy
  <2>2. Still /\ tpc' \in [Threads -> CallbackPcs]
    BY <1>6, <2>1, MoveIsStill, Zenon DEF ThreadEnds
  <2> QED BY <1>6, <2>2, Zenon DEF ThreadEnds, ThreadTypes, clientVars, schedVars, workVars, Kinds
<1>7. ASSUME NEW kept \in BOOLEAN, Enqueue(kept)
      PROVE  ThreadTypes' /\ Kinds
  <2>1. UNCHANGED <<schedVars, clientVars, callback, interrupted>> /\ workQueue' \in 0..maxDepth
    BY <1>7, CallbackAssumption DEF Enqueue, ThreadTypes
  <2>2. CASE UNCHANGED tpc
    BY <2>1, <2>2, Zenon DEF ThreadTypes, Still, clientVars, schedVars, Kinds
  <2>3. CASE \E w \in HttpWorkers : tpc[w] = "http" /\ Goto(w, "idle")
    <3>1. PICK w \in HttpWorkers : tpc[w] = "http" /\ Goto(w, "idle")
      BY <2>3, Zenon
    <3>2. w \in Threads /\ "idle" \in CallbackPcs \ Busy /\ tpc[w] \notin Busy
      BY <3>1, Zenon DEF Threads, CallbackPcs, Busy
    <3>3. Still /\ tpc' \in [Threads -> CallbackPcs]
      BY <2>1, <3>1, <3>2, MoveIsStill, Zenon
    <3> QED BY <2>1, <3>3, Zenon DEF ThreadTypes, clientVars, schedVars, Kinds
  <2> QED BY <1>7, <2>2, <2>3, Zenon DEF Enqueue
<1>8. CASE Interrupt
  <2>1. tpc' \in [Threads -> CallbackPcs]
    BY <1>8, Zenon DEF Interrupt, ThreadTypes, CallbackPcs
  <2>2. Still
    BY <1>8, Zenon DEF Interrupt, Still, Busy, ThreadTypes
  <2> QED BY <1>8, <2>1, <2>2, Zenon DEF Interrupt, ThreadTypes, clientVars, schedVars, Kinds
<1>9. CASE ShutdownStep
  <2> Main \in Threads
    BY Zenon DEF Threads
  <2>1. CASE StopHTTPServer
    BY <2>1, CallbackAssumption DEF StopHTTPServer, GeneratePulsar, ThreadTypes, Still, clientVars, schedVars, Kinds
  <2>2. CASE StopNet
    BY <2>2, Zenon DEF StopNet, ThreadTypes, Still, clientVars, schedVars, workVars, Kinds
  <2>3. CASE JoinAndFlush
    <3>1. tpc[Main] = "idle"
      BY <2>3, Zenon DEF JoinAndFlush, Staged, BeforeFlush
    <3> QED BY <2>3, <3>1, AddTypes, Zenon DEF JoinAndFlush, MayAdd, Busy, Kinds, workVars
  <2>4. CASE EmptyQueue /\ Goto(Main, "process")
    <3>1. "process" \in CallbackPcs \ Busy /\ tpc[Main] \notin Busy
      BY <2>4, Zenon DEF EmptyQueue, Returned, CallbackPcs, Busy
    <3>2. Still /\ tpc' \in [Threads -> CallbackPcs]
      BY <2>4, <3>1, MoveIsStill, Zenon DEF EmptyQueue
    <3> QED BY <2>4, <3>2, Zenon DEF EmptyQueue, ThreadTypes, clientVars, schedVars, workVars, Kinds
  <2>5. CASE EmptyQueue /\ UNCHANGED tpc
    BY <2>5, Zenon DEF EmptyQueue, ThreadTypes, Still, clientVars, schedVars, workVars, Kinds
  <2>6. CASE FlushAndReset
    <3>1. tpc[Main] = "back"
      BY <2>6, Zenon DEF FlushAndReset, Staged
    <3> QED BY <2>6, <3>1, AddTypes, Zenon DEF FlushAndReset, MayAdd, Busy, Kinds, workVars
  <2>7. CASE ShutdownDone
    <3>1. \A t \in Miners \cup {Main} : tpc[t] \notin Busy
      <4>1. tpc[Main] \notin Busy
        BY <2>7, Zenon DEF ShutdownDone, Staged, Calling, Busy
      <4>2. \A t \in Miners : t \in Threads /\ t \notin Services /\ t # Main
        BY CallbackAssumption, Zenon DEF Threads, Activators
      <4> QED BY <4>1, <4>2, Zenon DEF RunByScheduler
    <3>2. \A t \in Threads : tpc'[t] = IF t \in Miners \cup {Main} THEN "exit" ELSE tpc[t]
      BY <2>7, Zenon DEF ShutdownDone
    <3>3. Still
      BY <2>7, <3>1, <3>2, Zenon DEF ShutdownDone, Still, Busy
    <3>4. tpc' \in [Threads -> CallbackPcs]
      BY <2>7, Zenon DEF ShutdownDone, ThreadTypes, CallbackPcs
    <3> QED BY <2>7, <3>3, <3>4, Zenon DEF ShutdownDone, ThreadTypes, clientVars, schedVars, workVars, Kinds
  <2> QED BY <1>9, <2>1, <2>2, <2>3, <2>4, <2>5, <2>6, <2>7, Zenon DEF ShutdownStep, EmptyQueue
<1> QED
  BY <1>1, <1>2, <1>3, <1>4, <1>5, <1>6, <1>7, <1>8, <1>9, <1>10, ServiceKinds, ClientKinds, Zenon
     DEF CallbackNext, ThreadStep, CallStep, Kinds
-----------------------------------------------------------------------------
(* What is executed is the callback of the thread that runs one. *)
ExecutesIt == \A t \in Running : Executing = callback[t]

(* The callback in progress is that of the one running thread. *)
LEMMA ExecutingIs == OneAtATime => ExecutesIt
<1> SUFFICES ASSUME OneAtATime, NEW t \in Running
             PROVE  Executing = callback[t]
  BY Zenon DEF ExecutesIt
<1>1. \A u \in Running : u = t
  BY Zenon DEF OneAtATime, Running, Busy
<1>2. (CHOOSE u \in Running : TRUE) \in Running
  BY Zenon
<1>3. (CHOOSE u \in Running : TRUE) = t
  BY <1>1, <1>2, Zenon
<1> QED BY <1>3, Zenon DEF Executing

(* What SerialQueue allows. *)
SerialSteps == Serial!AddJob \/ Serial!Start \/ Serial!Finish \/ UNCHANGED <<m_callbacks_pending, Executing>>

(* A step that does not concern the queue of callbacks. *)
LEMMA StillSerial ==
  ASSUME SerialInv, Still, ThreadTypes'
  PROVE  SerialInv' /\ SerialSteps
<1>1. Running' = Running /\ \A t \in Running : callback'[t] = callback[t]
  BY Zenon DEF Still, Running
<1>2. OneAtATime'
  BY Zenon DEF SerialInv, Still, OneAtATime, clientVars
<1>3. Taken' = Taken /\ UNCHANGED clientVars
  BY Zenon DEF Still, Taken, clientVars
<1>4. InOrder'
  BY <1>1, <1>3, Zenon DEF SerialInv, InOrder, clientVars
<1>5. Executing' = Executing
  <2>1. CASE Running = {}
    BY <1>1, <2>1, Zenon DEF Executing
  <2>2. CASE Running # {}
    <3>1. PICK t : t \in Running
      BY <2>2, Zenon
    <3>2. (OneAtATime => ExecutesIt)'
      BY ExecutingIs, PTL
    <3>3. Executing = callback[t]
      BY <3>1, ExecutingIs, Zenon DEF SerialInv, ExecutesIt
    <3>4. Executing' = callback'[t]
      BY <1>1, <1>2, <3>1, <3>2, Zenon DEF ExecutesIt
    <3> QED BY <1>1, <3>1, <3>3, <3>4, Zenon
  <2> QED BY <2>1, <2>2, Zenon
<1> QED BY <1>2, <1>3, <1>4, <1>5, Zenon DEF SerialInv, SerialSteps, clientVars

(* AddToProcessQueue appends the next number and disturbs nobody. *)
LEMMA AddingSerial ==
  ASSUME SerialInv, Adding, ThreadTypes'
  PROVE  SerialInv' /\ SerialSteps /\ Len(m_callbacks_pending') = Len(m_callbacks_pending) + 1
<1>1. PICK t \in Threads, p \in BOOLEAN : tpc[t] \notin Busy /\ AddToProcessQueue(t, p)
  BY Zenon DEF Adding
<1>2. \A u \in Threads : /\ tpc'[u] \in Busy <=> tpc[u] \in Busy
                         /\ tpc'[u] = "callback" <=> tpc[u] = "callback"
                         /\ tpc[u] = "callback" => callback'[u] = callback[u]
  BY <1>1, Zenon DEF SerialInv, ThreadTypes, AddToProcessQueue, Goto, Busy
<1>3. Running' = Running /\ \A u \in Running : callback'[u] = callback[u]
  BY <1>2, Zenon DEF Running
<1>4. OneAtATime'
  BY <1>1, <1>2, Zenon DEF SerialInv, OneAtATime, AddToProcessQueue
<1>5. /\ m_callbacks_pending \in Seq(1..nAdded) /\ nAdded \in Nat /\ nAdded' = nAdded + 1
      /\ m_callbacks_pending' = Append(m_callbacks_pending, nAdded + 1)
      /\ executed' = executed
  BY <1>1, Zenon DEF SerialInv, ThreadTypes, InOrder, AddToProcessQueue
<1>6. /\ m_callbacks_pending' \in Seq(1..nAdded')
      /\ Len(m_callbacks_pending') = Len(m_callbacks_pending) + 1
      /\ \A i \in 1..Len(m_callbacks_pending) : m_callbacks_pending'[i] = m_callbacks_pending[i]
      /\ m_callbacks_pending'[Len(m_callbacks_pending) + 1] = nAdded + 1
  <2>1. m_callbacks_pending \in Seq(1..nAdded')
    BY <1>5
  <2> QED BY <1>5, <2>1
<1>7. Taken' = Taken
  BY <1>5, <1>6 DEF Taken
<1>8. InOrder'
  <2>1. Taken' \in 0..nAdded'
    BY <1>5, <1>7 DEF SerialInv, InOrder
  <2>2. \A i \in 1..Len(m_callbacks_pending') : m_callbacks_pending'[i] = Taken' + i
    <3>1. \A l, k, i \in Nat : i \in 1..(l + 1) => i \in 1..l \/ (i = l + 1 /\ k + 1 = (k - l) + i)
      OBVIOUS
    <3>2. Len(m_callbacks_pending) \in Nat /\ \A i \in 1..(Len(m_callbacks_pending) + 1) : i \in Nat
      BY <1>5
    <3>3. \A i \in 1..Len(m_callbacks_pending) : m_callbacks_pending[i] = Taken + i
      BY DEF SerialInv, InOrder
    <3>4. \A i \in 1..Len(m_callbacks_pending) : m_callbacks_pending'[i] = Taken + i
      BY <1>6, <3>3, Zenon
    <3>5. nAdded \in Nat /\ m_callbacks_pending'[Len(m_callbacks_pending) + 1] = nAdded + 1
      BY <1>5, <1>6, Zenon
    <3>6. \A i \in 1..(Len(m_callbacks_pending) + 1) : m_callbacks_pending'[i] = Taken + i
      BY <3>1, <3>2, <3>4, <3>5, Zenon DEF Taken
    <3> QED BY <1>6, <1>7, <3>6, Zenon
  <2> QED BY <1>3, <1>5, <1>6, <1>7, <2>1, <2>2, Zenon DEF SerialInv, InOrder
<1>9. Executing' = Executing
  <2>1. CASE Running = {}
    BY <1>3, <2>1, Zenon DEF Executing
  <2>2. CASE Running # {}
    <3>1. PICK u : u \in Running
      BY <2>2, Zenon
    <3>2. (OneAtATime => ExecutesIt)'
      BY ExecutingIs, PTL
    <3>3. Executing = callback[u]
      BY <3>1, ExecutingIs, Zenon DEF SerialInv, ExecutesIt
    <3>4. Executing' = callback'[u]
      BY <1>3, <1>4, <3>1, <3>2, Zenon DEF ExecutesIt
    <3> QED BY <1>3, <3>1, <3>3, <3>4, Zenon
  <2> QED BY <2>1, <2>2, Zenon
<1>10. Serial!AddJob
  <2>1. SubSeq(m_callbacks_pending', 1, Len(m_callbacks_pending)) = m_callbacks_pending
    BY <1>5, <1>6
  <2> QED BY <1>6, <1>9, <2>1, Zenon DEF Serial!AddJob
<1> QED BY <1>4, <1>6, <1>8, <1>10, Zenon DEF SerialInv, SerialSteps

(* ProcessQueue takes the first pending callback when nobody is busy. *)
LEMMA TakingSerial ==
  ASSUME SerialInv, NEW t \in Threads, Taking(t), ThreadTypes'
  PROVE  SerialInv' /\ SerialSteps
<1>1. \A u \in Threads : tpc[u] \notin Busy
  BY Zenon DEF SerialInv, OneAtATime, Taking
<1>2. tpc' = [tpc EXCEPT ![t] = "callback"] /\ tpc \in [Threads -> CallbackPcs]
  BY Zenon DEF Taking, Goto, SerialInv, ThreadTypes
<1>3. Running = {} /\ Running' = {t}
  BY <1>1, <1>2, Zenon DEF Running, Busy
<1>4. OneAtATime'
  BY <1>1, <1>2, Zenon DEF OneAtATime, Taking, Busy
<1>5. m_callbacks_pending \in Seq(1..nAdded) /\ m_callbacks_pending # <<>> /\ nAdded \in Nat
  BY Zenon DEF Taking, SerialInv, InOrder, ThreadTypes
<1>6. /\ Tail(m_callbacks_pending) \in Seq(1..nAdded)
      /\ Len(Tail(m_callbacks_pending)) = Len(m_callbacks_pending) - 1
      /\ \A i \in 1..Len(Tail(m_callbacks_pending)) :
           Tail(m_callbacks_pending)[i] = m_callbacks_pending[i + 1]
  BY <1>5, TakeFirst, Zenon
<1>7. Len(m_callbacks_pending) \in Nat \ {0} /\ Head(m_callbacks_pending) = m_callbacks_pending[1]
  BY <1>5
<1>8. m_callbacks_pending' = Tail(m_callbacks_pending) /\ nAdded' = nAdded /\ executed' = executed
  BY Zenon DEF Taking
<1>9. Taken \in 0..nAdded /\ \A i \in 1..Len(m_callbacks_pending) : m_callbacks_pending[i] = Taken + i
  BY Zenon DEF SerialInv, InOrder
<1>10. Taken' = Taken + 1
  BY <1>5, <1>6, <1>7, <1>8 DEF Taken
<1>11. callback'[t] = Taken'
  <2>1. Head(m_callbacks_pending) = Taken + 1
    BY <1>7, <1>9
  <2>2. callback'[t] = Head(m_callbacks_pending)
    BY Zenon DEF Taking, SerialInv, ThreadTypes
  <2> QED BY <1>10, <2>1, <2>2, Zenon
<1>12. Taken' \in 0..nAdded' /\ Taken' > 0
  BY <1>5, <1>6, <1>7, <1>8, <1>9, <1>10 DEF Taken
<1>13. \A i \in 1..Len(m_callbacks_pending') : m_callbacks_pending'[i] = Taken' + i
  BY <1>6, <1>7, <1>8, <1>9, <1>10
<1>14. executed' = 1..(Taken' - 1)
  BY <1>3, <1>8, <1>9, <1>10 DEF SerialInv, InOrder
<1>15. InOrder'
  BY <1>3, <1>6, <1>8, <1>11, <1>12, <1>13, <1>14, Zenon DEF InOrder
<1>16. Serial!Start
  <2>1. Executing = NoCallback
    BY <1>3, Zenon DEF Executing
  <2>2. (OneAtATime => ExecutesIt)'
    BY ExecutingIs, PTL
  <2>3. Executing' = callback'[t]
    BY <1>3, <1>4, <2>2, Zenon DEF ExecutesIt
  <2>4. callback'[t] = Head(m_callbacks_pending)
    BY Zenon DEF Taking, SerialInv, ThreadTypes
  <2> QED BY <1>5, <1>8, <2>1, <2>3, <2>4, Zenon DEF Serial!Start
<1> QED BY <1>4, <1>15, <1>16, Zenon DEF SerialInv, SerialSteps

(* The callback that is run is the last one taken: all of them have run. *)
LEMMA RunSerial ==
  ASSUME SerialInv, NEW t \in Threads, RunCallback(t), ThreadTypes'
  PROVE  SerialInv' /\ SerialSteps
<1>1. tpc[t] = "callback" /\ tpc' = [tpc EXCEPT ![t] = "raii"] /\ tpc \in [Threads -> CallbackPcs]
  BY Zenon DEF RunCallback, Goto, SerialInv, ThreadTypes
<1>2. Running = {t} /\ Running' = {}
  BY <1>1, Zenon DEF SerialInv, OneAtATime, Running, Busy
<1>3. OneAtATime'
  BY <1>1, Zenon DEF SerialInv, OneAtATime, RunCallback, Busy
<1>4. UNCHANGED <<m_callbacks_pending, nAdded>> /\ Taken' = Taken
  BY Zenon DEF RunCallback, Taken
<1>5. callback[t] = Taken /\ Taken > 0 /\ Taken \in Nat /\ executed = 1..(Taken - 1)
  BY <1>2 DEF SerialInv, InOrder
<1>6. executed' = 1..Taken'
  BY <1>4, <1>5 DEF RunCallback
<1>7. InOrder'
  BY <1>2, <1>4, <1>6, Zenon DEF SerialInv, InOrder
<1>8. Serial!Finish
  <2>1. Executing = Taken
    BY <1>2, <1>5, ExecutingIs, Zenon DEF SerialInv, ExecutesIt
  <2>2. Executing' = NoCallback
    BY <1>2, Zenon DEF Executing
  <2> QED BY <1>4, <1>5, <2>1, <2>2, CallbackAssumption, Zenon DEF Serial!Finish
<1> QED BY <1>3, <1>7, <1>8, Zenon DEF SerialInv, SerialSteps

(* The flag goes down with the last busy thread. *)
LEMMA DoneSerial ==
  ASSUME SerialInv, NEW t \in Threads, CallbackDone(t), ThreadTypes'
  PROVE  SerialInv' /\ SerialSteps
<1>1. tpc[t] = "raii" /\ tpc' = [tpc EXCEPT ![t] = "maybe"] /\ tpc \in [Threads -> CallbackPcs]
  BY Zenon DEF CallbackDone, Goto, SerialInv, ThreadTypes
<1>2. \A u \in Threads : tpc[u] \in Busy => u = t
  BY <1>1, Zenon DEF SerialInv, OneAtATime, Busy
<1>3. Running = {} /\ Running' = {}
  BY <1>1, <1>2, Zenon DEF Running, Busy
<1>4. OneAtATime'
  BY <1>1, <1>2, Zenon DEF OneAtATime, CallbackDone, Busy
<1>5. UNCHANGED <<m_callbacks_pending, nAdded, executed>> /\ Taken' = Taken
  BY Zenon DEF CallbackDone, Taken
<1>6. InOrder'
  BY <1>3, <1>5, Zenon DEF SerialInv, InOrder
<1>7. Executing' = Executing
  BY <1>3, Zenon DEF Executing
<1> QED BY <1>4, <1>5, <1>6, <1>7, Zenon DEF SerialInv, SerialSteps

(* Whatever a step does, the callbacks stay in order, one at a time. *)
LEMMA SerialStep ==
  ASSUME SerialInv, RunByScheduler, Staged, CallbackNext
  PROVE  SerialInv' /\ SerialSteps
BY StepKinds, StillSerial, AddingSerial, TakingSerial, RunSerial, DoneSerial, Zenon DEF Kinds
-----------------------------------------------------------------------------
(* The counter of serviceQueue. *)

(* A step after which the same threads are inside serviceQueue. *)
LEMMA CountedSame ==
  ASSUME Counted, UNCHANGED nThreadsServicingQueue,
         \A s \in Services : tpc'[s] \in {"start", "exit"} <=> tpc[s] \in {"start", "exit"}
  PROVE  Counted'
<1>1. Serving' = Serving
  BY Zenon DEF Serving
<1> QED BY <1>1, Zenon DEF Counted

(* A thread outside the scheduler moves, or one inside it that stays there. *)
LEMMA CountedMove ==
  ASSUME Counted, ThreadTypes, UNCHANGED nThreadsServicingQueue, NEW t \in Threads, NEW pc,
         Goto(t, pc), t \in Services => {pc, tpc[t]} \cap {"start", "exit"} = {}
  PROVE  Counted'
<1>1. \A s \in Services : tpc'[s] \in {"start", "exit"} <=> tpc[s] \in {"start", "exit"}
  BY Zenon DEF ThreadTypes, Goto, Threads
<1> QED BY <1>1, CountedSame, Zenon

(* nThreadsServicingQueue is exact: it changes when a thread enters or      *)
(* leaves serviceQueue.                                                     *)
LEMMA CountedService ==
  ASSUME Counted, ThreadTypes, NEW s \in Services, ServiceStep(s)
  PROVE  Counted'
<1> s \in Threads
  BY Zenon DEF Threads
<1> DEFINE N == Cardinality(Serving)
<1>1. IsFiniteSet(Serving) /\ N \in Nat
  <2>1. Serving \subseteq Services
    BY Zenon DEF Serving
  <2> QED BY <2>1, CallbackAssumption, FS_Subset, FS_CardinalityType, Zenon
<1>2. CASE ServiceLoop(s) /\ tpc[s] = "start"
  <2>1. Serving' = Serving \cup {s} /\ s \notin Serving
    BY <1>2, Zenon DEF ServiceLoop, Goto, Serving, ThreadTypes, Threads
  <2>2. Cardinality(Serving') = N + 1
    BY <1>1, <2>1, FS_AddElement, Zenon
  <2>3. nThreadsServicingQueue' = nThreadsServicingQueue + 1
    BY <1>2, Zenon DEF ServiceLoop
  <2> QED BY <2>2, <2>3, Zenon DEF Counted
<1>3. CASE ServiceLoop(s) /\ tpc[s] = "top"
  <2>1. UNCHANGED nThreadsServicingQueue
    BY <1>1, <1>3 DEF ServiceLoop, Counted
  <2>2. PICK pc \in {"sleep", "timed"} : Goto(s, pc)
    BY <1>3, Zenon DEF ServiceLoop
  <2> QED BY <1>3, <2>1, <2>2, CountedMove, Zenon
<1>4. CASE ServiceWait(s)
  <2>1. PICK pc \in {"wait", "timed"} : Goto(s, pc)
    BY <1>4, Zenon DEF ServiceWait
  <2> QED BY <1>4, <2>1, CountedMove, Zenon DEF ServiceWait, schedVars
<1>5. CASE ServiceRewait(s)
  <2>1. PICK pc \in {"top", "timed"} : Goto(s, pc)
    BY <1>5, Zenon DEF ServiceRewait
  <2> QED BY <1>5, <2>1, CountedMove, Zenon DEF ServiceRewait, schedVars
<1>6. CASE ServiceTake(s)
  <2>1. PICK pc \in {"top", "process"} : Goto(s, pc)
    BY <1>6, Zenon DEF ServiceTake
  <2> QED BY <1>6, <2>1, CountedMove, Zenon DEF ServiceTake
<1>7. CASE ServiceInterrupted(s)
  <2>1. Serving' = Serving \ {s} /\ s \in Serving
    BY <1>7, Zenon DEF ServiceInterrupted, Goto, Serving, ThreadTypes, Threads
  <2>2. Cardinality(Serving') = N - 1
    BY <1>1, <2>1, FS_RemoveElement, Zenon
  <2>3. nThreadsServicingQueue' = nThreadsServicingQueue - 1
    BY <1>7, Zenon DEF ServiceInterrupted
  <2> QED BY <2>2, <2>3, Zenon DEF Counted
<1> QED BY <1>2, <1>3, <1>4, <1>5, <1>6, <1>7, Zenon DEF ServiceStep, ServiceLoop

(* No other step lets a thread into serviceQueue or out of it. *)
LEMMA CountedStep ==
  ASSUME Counted, ThreadTypes, CallbackNext
  PROVE  Counted'
<1> Main \in Threads /\ Main \notin Services
  BY CallbackAssumption, Zenon DEF Threads
<1>1. ASSUME NEW t \in Threads, ClientStep(t)
      PROVE  Counted'
  <2> CallerPc(t) \notin {"start", "exit"}
    BY Zenon DEF CallerPc
  <2>1. CASE ProcessQueue(t) \/ RunCallback(t) \/ CallbackDone(t)
    <3>1. /\ tpc[t] \notin {"start", "exit"} /\ UNCHANGED nThreadsServicingQueue
          /\ \E pc \in {CallerPc(t), "callback", "raii", "maybe"} : Goto(t, pc)
      BY <2>1, Zenon DEF ProcessQueue, RunCallback, CallbackDone, schedVars
    <3> QED BY <3>1, CountedMove, Zenon
  <2>2. CASE MaybeScheduleProcessQueue(t) \/ Schedule(t)
    <3>1. /\ tpc[t] \notin {"start", "exit"} /\ UNCHANGED nThreadsServicingQueue
          /\ \E pc \in {CallerPc(t), "schedule", "notify"} : Goto(t, pc)
      BY <2>2, Zenon DEF MaybeScheduleProcessQueue, Schedule, schedVars
    <3> QED BY <3>1, CountedMove, Zenon
  <2>3. CASE Notify(t)
    <3>1. PICK pcs \in WakeOne : tpc' = [pcs EXCEPT ![t] = CallerPc(t)]
      BY <2>3, Zenon DEF Notify
    <3>2. /\ pcs \in [Threads -> CallbackPcs]
          /\ \A u \in Threads :
               \/ pcs[u] = tpc[u]
               \/ u \in Services /\ tpc[u] \in {"wait", "timed"} /\ pcs[u] \in {"woken", "rewait"}
      BY <3>1, WakeOneMoves, Zenon
    <3>3. tpc[t] = "notify" /\ UNCHANGED nThreadsServicingQueue
      BY <2>3, Zenon DEF Notify, schedVars
    <3>4. \A s \in Services : tpc'[s] \in {"start", "exit"} <=> tpc[s] \in {"start", "exit"}
      BY <3>1, <3>2, <3>3, Zenon DEF Threads
    <3> QED BY <3>3, <3>4, CountedSame, Zenon
  <2> QED BY <1>1, <2>1, <2>2, <2>3, Zenon DEF ClientStep
<1>2. ASSUME NEW t \in Threads, CallStep(t)
      PROVE  Counted'
  <2>1. CASE ~ CheckPending(t)
    <3>1. /\ tpc[t] \in {"sync", "connect", "back"} /\ UNCHANGED nThreadsServicingQueue
          /\ \E pc \in {"maybe", "idle", "connect"} : Goto(t, pc)
      BY <1>2, <2>1, Zenon DEF CallStep, SyncWithValidationInterfaceQueue, SendSignal, CallReturns,
                               Returned, AddToProcessQueue, schedVars
    <3> QED BY <3>1, CountedMove, Zenon
  <2>2. CASE CheckPending(t)
    BY <2>2, CallbackAssumption, CountedMove, Zenon DEF CheckPending, schedVars
  <2> QED BY <2>1, <2>2, Zenon
<1>3. ASSUME NEW t \in Threads, WorkerRun(t) \/ ActivateBestChain(t) \/ ThreadEnds(t)
      PROVE  Counted'
  <2>1. t \notin Services
    BY <1>3, CallbackAssumption, Zenon DEF WorkerRun, ActivateBestChain, ThreadEnds, Activators
  <2>2. (\E pc : Goto(t, pc)) /\ UNCHANGED nThreadsServicingQueue
    BY <1>3, Zenon DEF WorkerRun, ActivateBestChain, ThreadEnds, schedVars
  <2> QED BY <2>1, <2>2, CountedMove, Zenon
<1>4. ASSUME NEW kept \in BOOLEAN, Enqueue(kept)
      PROVE  Counted'
  <2>1. /\ UNCHANGED tpc \/ \E w \in HttpWorkers : Goto(w, "idle")
        /\ UNCHANGED nThreadsServicingQueue
    BY <1>4, Zenon DEF Enqueue, schedVars
  <2>2. CASE UNCHANGED tpc
    BY <2>1, <2>2, CountedSame, Zenon
  <2>3. ASSUME NEW w \in HttpWorkers, Goto(w, "idle")
        PROVE  Counted'
    BY <2>1, <2>3, CallbackAssumption, CountedMove, Zenon DEF Threads
  <2> QED BY <2>1, <2>2, <2>3, Zenon
<1>5. CASE Interrupt
  <2>1. \A s \in Services : tpc'[s] \in {"start", "exit"} <=> tpc[s] \in {"start", "exit"}
    BY <1>5, Zenon DEF Interrupt, Threads
  <2> QED BY <1>5, <2>1, CountedSame, Zenon DEF Interrupt, schedVars
<1>6. CASE ShutdownStep
  <2>1. CASE ~ ShutdownDone
    <3>1. UNCHANGED tpc \/ \E pc : Goto(Main, pc)
      BY <1>6, <2>1, Zenon DEF ShutdownStep, StopHTTPServer, StopNet, JoinAndFlush, EmptyQueue,
                               FlushAndReset, AddToProcessQueue
    <3>2. UNCHANGED nThreadsServicingQueue
      BY <1>6, <2>1, Zenon DEF ShutdownStep, StopHTTPServer, StopNet, JoinAndFlush, EmptyQueue,
                               FlushAndReset, AddToProcessQueue, schedVars
    <3> QED BY <3>1, <3>2, CountedSame, CountedMove, Zenon
  <2>2. CASE ShutdownDone
    <3>1. \A s \in Services : s \in Threads /\ s \notin Miners \cup {Main}
      BY CallbackAssumption, Zenon DEF Threads, Activators
    <3>2. \A s \in Services : tpc'[s] = tpc[s]
      BY <2>2, <3>1, Zenon DEF ShutdownDone
    <3> QED BY <2>2, <3>2, CountedSame, Zenon DEF ShutdownDone, schedVars
  <2> QED BY <2>1, <2>2, Zenon
<1> QED
  BY <1>1, <1>2, <1>3, <1>4, <1>5, <1>6, CountedService, Zenon DEF CallbackNext, ThreadStep
-----------------------------------------------------------------------------
(* The stages of Shutdown. *)

(* A thread that has ended does not come back. *)
LEMMA ExitStays ==
  ASSUME ThreadTypes, Staged, CallbackNext
  PROVE  \A u \in Threads : tpc[u] = "exit" => tpc'[u] = "exit"
<1> Main \in Threads
  BY Zenon DEF Threads
<1>1. ASSUME NEW t \in Threads, tpc[t] # "exit", NEW pc, Goto(t, pc)
      PROVE  \A u \in Threads : tpc[u] = "exit" => tpc'[u] = "exit"
  BY <1>1, Zenon DEF Goto, ThreadTypes
<1>2. ASSUME NEW s \in Services, ServiceStep(s)
      PROVE  \A u \in Threads : tpc[u] = "exit" => tpc'[u] = "exit"
  <2>1. tpc[s] # "exit" /\ \E pc : Goto(s, pc)
    BY <1>2, Zenon DEF ServiceStep, ServiceLoop, ServiceWait, ServiceRewait, ServiceTake, ServiceInterrupted
  <2> QED BY <1>1, <2>1, Zenon DEF Threads
<1>3. ASSUME NEW t \in Threads, ClientStep(t)
      PROVE  \A u \in Threads : tpc[u] = "exit" => tpc'[u] = "exit"
  <2>1. CASE Notify(t)
    <3>1. PICK pcs \in WakeOne : tpc' = [pcs EXCEPT ![t] = CallerPc(t)]
      BY <2>1, Zenon DEF Notify
    <3>2. /\ pcs \in [Threads -> CallbackPcs]
          /\ \A u \in Threads :
               \/ pcs[u] = tpc[u]
               \/ u \in Services /\ tpc[u] \in {"wait", "timed"} /\ pcs[u] \in {"woken", "rewait"}
      BY <3>1, WakeOneMoves, Zenon
    <3>3. tpc[t] = "notify"
      BY <2>1, Zenon DEF Notify
    <3> QED BY <3>1, <3>2, <3>3, Zenon
  <2>2. CASE ~ Notify(t)
    <3>1. tpc[t] # "exit" /\ \E pc : Goto(t, pc)
      BY <1>3, <2>2, Zenon DEF ClientStep, ProcessQueue, RunCallback, CallbackDone,
                        MaybeScheduleProcessQueue, Schedule
    <3> QED BY <1>1, <3>1, Zenon
  <2> QED BY <2>1, <2>2, Zenon
<1>4. ASSUME NEW t \in Threads, CallStep(t)
      PROVE  \A u \in Threads : tpc[u] = "exit" => tpc'[u] = "exit"
  <2>1. tpc[t] # "exit" /\ \E pc : Goto(t, pc)
    BY <1>4, Zenon DEF CallStep, CheckPending, SyncWithValidationInterfaceQueue, SendSignal, CallReturns,
                Returned, AddToProcessQueue
  <2> QED BY <1>1, <2>1, Zenon
<1>5. ASSUME NEW t \in Threads, WorkerRun(t) \/ ActivateBestChain(t) \/ ThreadEnds(t)
      PROVE  \A u \in Threads : tpc[u] = "exit" => tpc'[u] = "exit"
  <2>1. tpc[t] # "exit" /\ \E pc : Goto(t, pc)
    BY <1>5, Zenon DEF WorkerRun, ActivateBestChain, ThreadEnds
  <2> QED BY <1>1, <2>1, Zenon
<1>6. ASSUME NEW kept \in BOOLEAN, Enqueue(kept)
      PROVE  \A u \in Threads : tpc[u] = "exit" => tpc'[u] = "exit"
  <2>1. UNCHANGED tpc \/ \E w \in HttpWorkers : tpc[w] = "http" /\ Goto(w, "idle")
    BY <1>6, Zenon DEF Enqueue
  <2> QED BY <1>1, <2>1, Zenon DEF Threads
<1>7. CASE Interrupt
  BY <1>7, Zenon DEF Interrupt
<1>8. CASE ShutdownStep
  <2>1. CASE ~ ShutdownDone
    <3>1. UNCHANGED tpc \/ (tpc[Main] # "exit" /\ \E pc : Goto(Main, pc))
      BY <1>8, <2>1, Zenon DEF ShutdownStep, StopHTTPServer, StopNet, JoinAndFlush, EmptyQueue,
                               FlushAndReset, AddToProcessQueue, Returned, Staged, BeforeFlush
    <3> QED BY <1>1, <3>1, Zenon
  <2>2. CASE ShutdownDone
    BY <2>2, Zenon DEF ShutdownDone
  <2> QED BY <2>1, <2>2, Zenon
<1> QED
  BY <1>2, <1>3, <1>4, <1>5, <1>6, <1>7, <1>8, Zenon DEF CallbackNext, ThreadStep

(* No thread moves the main thread or the stages of Shutdown but itself.   *)
LEMMA OthersMove ==
  ASSUME ThreadTypes, CallbackNext
  PROVE  \/ UNCHANGED stage /\ tpc'[Main] = tpc[Main]
         \/ Interrupt \/ ShutdownStep \/ ClientStep(Main) \/ CallStep(Main)
<1> Main \in Threads
  BY Zenon DEF Threads
<1>1. ASSUME NEW t \in Threads, t # Main, NEW pc, Goto(t, pc)
      PROVE  tpc'[Main] = tpc[Main]
  BY <1>1, Zenon DEF Goto, ThreadTypes
<1>2. ASSUME NEW s \in Services, ServiceStep(s)
      PROVE  tpc'[Main] = tpc[Main] /\ UNCHANGED stage
  <2>1. UNCHANGED stage /\ \E pc : Goto(s, pc)
    BY <1>2, Zenon DEF ServiceStep, ServiceLoop, ServiceWait, ServiceRewait, ServiceTake, ServiceInterrupted
  <2> QED BY <1>1, <2>1, CallbackAssumption, Zenon DEF Threads
<1>3. ASSUME NEW t \in Threads, t # Main, ClientStep(t)
      PROVE  tpc'[Main] = tpc[Main] /\ UNCHANGED stage
  <2>1. CASE Notify(t)
    <3>1. PICK pcs \in WakeOne : tpc' = [pcs EXCEPT ![t] = CallerPc(t)]
      BY <2>1, Zenon DEF Notify
    <3>2. /\ pcs \in [Threads -> CallbackPcs]
          /\ \A u \in Threads :
               \/ pcs[u] = tpc[u]
               \/ u \in Services /\ tpc[u] \in {"wait", "timed"} /\ pcs[u] \in {"woken", "rewait"}
      BY <3>1, WakeOneMoves, Zenon
    <3>3. pcs[Main] = tpc[Main]
      BY <3>2, CallbackAssumption, Zenon
    <3> QED BY <1>3, <2>1, <3>1, <3>2, <3>3, Zenon DEF Notify
  <2>2. CASE ~ Notify(t)
    <3>1. UNCHANGED stage /\ \E pc : Goto(t, pc)
      BY <1>3, <2>2, Zenon DEF ClientStep, ProcessQueue, RunCallback, CallbackDone,
                        MaybeScheduleProcessQueue, Schedule
    <3> QED BY <1>1, <1>3, <3>1, Zenon
  <2> QED BY <2>1, <2>2, Zenon
<1>4. ASSUME NEW t \in Threads, t # Main, CallStep(t)
      PROVE  tpc'[Main] = tpc[Main] /\ UNCHANGED stage
  <2>1. UNCHANGED stage /\ \E pc : Goto(t, pc)
    BY <1>4, Zenon DEF CallStep, CheckPending, SyncWithValidationInterfaceQueue, SendSignal, CallReturns,
                      AddToProcessQueue
  <2> QED BY <1>1, <1>4, <2>1, Zenon
<1>5. ASSUME NEW t \in Threads, WorkerRun(t) \/ ActivateBestChain(t) \/ ThreadEnds(t)
      PROVE  tpc'[Main] = tpc[Main] /\ UNCHANGED stage
  <2>1. t # Main
    BY <1>5, CallbackAssumption, Zenon DEF WorkerRun, ActivateBestChain, ThreadEnds, Activators
  <2>2. UNCHANGED stage /\ \E pc : Goto(t, pc)
    BY <1>5, Zenon DEF WorkerRun, ActivateBestChain, ThreadEnds
  <2> QED BY <1>1, <2>1, <2>2, Zenon
<1>6. ASSUME NEW kept \in BOOLEAN, Enqueue(kept)
      PROVE  tpc'[Main] = tpc[Main] /\ UNCHANGED stage
  <2>1. UNCHANGED stage /\ (UNCHANGED tpc \/ \E w \in HttpWorkers : Goto(w, "idle"))
    BY <1>6, Zenon DEF Enqueue
  <2>2. \A w \in HttpWorkers : w \in Threads /\ w # Main
    BY CallbackAssumption, Zenon DEF Threads
  <2> QED BY <1>1, <2>1, <2>2, Zenon
<1> QED
  BY <1>2, <1>3, <1>4, <1>5, <1>6, Zenon DEF CallbackNext, ThreadStep

(* Until the flush the main thread does nothing but go through the stages. *)
LEMMA MainWaits ==
  ASSUME ThreadTypes, Staged, stage \in BeforeFlush, CallbackNext
  PROVE  \/ tpc'[Main] = "idle" /\ UNCHANGED stage
         \/ Interrupt \/ StopHTTPServer \/ StopNet \/ JoinAndFlush
<1>1. tpc[Main] = "idle"
  BY Zenon DEF Staged
<1>2. ~ ClientStep(Main)
  BY <1>1, Zenon DEF ClientStep, ProcessQueue, RunCallback, CallbackDone,
                    MaybeScheduleProcessQueue, Schedule, Notify
<1>3. ~ CallStep(Main)
  BY <1>1, Zenon DEF CallStep, CheckPending, SyncWithValidationInterfaceQueue, SendSignal, CallReturns
<1>4. ShutdownStep => StopHTTPServer \/ StopNet \/ JoinAndFlush
  BY Zenon DEF ShutdownStep, EmptyQueue, FlushAndReset, ShutdownDone, BeforeFlush
<1> QED BY <1>1, <1>2, <1>3, <1>4, OthersMove, Zenon

(* The stages up to the flush, each entered when the threads it joins have  *)
(* ended.                                                                   *)
LEMMA StagedBefore ==
  ASSUME ThreadTypes, Staged, stage \in BeforeFlush, CallbackNext
  PROVE  Staged'
<1> Main \in Threads
  BY Zenon DEF Threads
<1>0. tpc[Main] = "idle"
  BY Zenon DEF Staged
<1>1. \A u \in Threads : tpc[u] = "exit" => tpc'[u] = "exit"
  BY ExitStays, Zenon
<1>2. \A S \in SUBSET Threads : Joined(S) => Joined(S)'
  BY <1>1, Zenon DEF Joined
<1>3. HttpWorkers \in SUBSET Threads /\ Handlers \in SUBSET Threads /\ ThreadGroup \in SUBSET Threads
  BY Zenon DEF Threads, ThreadGroup, Activators
<1>4. CASE tpc'[Main] = "idle" /\ UNCHANGED stage
  BY <1>2, <1>3, <1>4, Zenon DEF Staged, BeforeFlush
<1>5. CASE Interrupt
  BY <1>0, <1>5, Zenon DEF Interrupt, Staged, BeforeFlush
<1>6. CASE StopHTTPServer
  BY <1>0, <1>2, <1>3, <1>6, Zenon DEF StopHTTPServer, Staged, BeforeFlush
<1>7. CASE StopNet
  BY <1>0, <1>2, <1>3, <1>7, Zenon DEF StopNet, Staged, BeforeFlush
<1>8. CASE JoinAndFlush
  <2>1. tpc'[Main] = "maybe"
    BY <1>8, Zenon DEF JoinAndFlush, AddToProcessQueue, Goto, ThreadTypes
  <2>2. Joined(HttpWorkers)' /\ Joined(Handlers)' /\ Joined(ThreadGroup)'
    BY <1>2, <1>3, <1>8, Zenon DEF JoinAndFlush, Staged
  <2> QED BY <1>8, <2>1, <2>2, Zenon DEF JoinAndFlush, Staged, BeforeFlush, Calling
<1> QED BY <1>4, <1>5, <1>6, <1>7, <1>8, MainWaits, Zenon

(* From the flush on the main thread is alone but for the miners. *)
LEMMA MainAlone ==
  ASSUME Staged, stage \notin BeforeFlush
  PROVE  \A t \in Threads : tpc[t] # "exit" => t \in Miners \cup {Main}
BY Zenon DEF Staged, Joined, Threads, Activators, ThreadGroup, BeforeFlush

(* It calls FlushStateToDisk, empties the queue, and flushes once more. *)
LEMMA StagedAfter ==
  ASSUME SerialInv, Staged, stage \notin BeforeFlush, CallbackNext
  PROVE  Staged'
<1> Main \in Threads /\ Main \notin Services /\ ThreadTypes
  BY CallbackAssumption, Zenon DEF Threads, SerialInv
<1>0. stage \in {"flush", "empty", "left", "last", "done"}
  BY Zenon DEF Staged, BeforeFlush
<1>1. \A u \in Threads : tpc[u] = "exit" => tpc'[u] = "exit"
  BY ExitStays, Zenon
<1>2. Joined(HttpWorkers)' /\ Joined(Handlers)' /\ Joined(ThreadGroup)'
  BY <1>0, <1>1, Zenon DEF Staged, Joined, Threads, Activators, ThreadGroup, BeforeFlush
<1>3. \/ UNCHANGED stage /\ tpc'[Main] = tpc[Main]
      \/ ClientStep(Main) \/ EmptyQueue \/ FlushAndReset \/ ShutdownDone
  <2>1. ~ Interrupt /\ ~ StopHTTPServer /\ ~ StopNet /\ ~ JoinAndFlush
    BY <1>0, Zenon DEF Interrupt, StopHTTPServer, StopNet, JoinAndFlush
  <2>2. tpc[Main] \notin {"lock", "sync", "connect"}
    BY <1>0, Zenon DEF Staged, Calling, Busy
  <2>3. ~ CallStep(Main)
    BY <2>2, Zenon DEF CallStep, CheckPending, SyncWithValidationInterfaceQueue, SendSignal, CallReturns
  <2> QED BY <2>1, <2>3, OthersMove, Zenon DEF ShutdownStep
<1>4. CASE ClientStep(Main)
  <2>0. UNCHANGED stage /\ CallerPc(Main) = "back"
    BY <1>4, Zenon DEF ClientStep, ProcessQueue, RunCallback, CallbackDone,
                MaybeScheduleProcessQueue, Schedule, Notify, CallerPc
  <2>1. CASE tpc[Main] \in Calling
    <3>1. MaybeScheduleProcessQueue(Main) \/ Schedule(Main) \/ Notify(Main)
      BY <1>4, <2>1, Zenon DEF ClientStep, ProcessQueue, RunCallback, CallbackDone, Calling
    <3>2. stage \in {"flush", "empty", "last"}
      BY <1>0, <3>1, Zenon DEF Staged, MaybeScheduleProcessQueue, Schedule, Notify
    <3>3. tpc'[Main] \in Calling
      <4>1. CASE Notify(Main)
        <5>1. PICK pcs \in WakeOne : tpc' = [pcs EXCEPT ![Main] = CallerPc(Main)]
          BY <4>1, Zenon DEF Notify
        <5>2. pcs \in [Threads -> CallbackPcs]
          BY <5>1, WakeOneMoves, Zenon
        <5> QED BY <2>0, <5>1, <5>2, Zenon DEF Calling
      <4>2. CASE MaybeScheduleProcessQueue(Main) \/ Schedule(Main)
        BY <2>0, <4>2, Zenon DEF MaybeScheduleProcessQueue, Schedule, Goto, ThreadTypes, Calling
      <4> QED BY <3>1, <4>1, <4>2, Zenon
    <3> QED BY <1>2, <2>0, <3>2, <3>3, Zenon DEF Staged, BeforeFlush
  <2>2. CASE tpc[Main] \notin Calling
    <3>1. stage = "empty" /\ (ProcessQueue(Main) \/ RunCallback(Main) \/ CallbackDone(Main))
      BY <1>0, <1>4, <2>2, Zenon DEF ClientStep, MaybeScheduleProcessQueue, Schedule, Notify, Calling, Staged,
                              ProcessQueue, RunCallback, CallbackDone
    <3>2. tpc'[Main] \in {"back", "callback", "raii", "maybe"}
      BY <2>0, <3>1, Zenon DEF ProcessQueue, RunCallback, CallbackDone, Goto, ThreadTypes
    <3> QED BY <1>2, <2>0, <3>1, <3>2, Zenon DEF Staged, BeforeFlush, Calling, Busy
  <2> QED BY <2>1, <2>2, Zenon
<1>5. CASE EmptyQueue /\ stage' = "empty"
  <2>1. tpc'[Main] = "process"
    BY <1>5, Zenon DEF EmptyQueue, Goto, ThreadTypes
  <2> QED BY <1>2, <1>5, <2>1, Zenon DEF Staged, BeforeFlush
<1>6. CASE EmptyQueue /\ stage' # "empty"
  <2>1. stage' = "left" /\ tpc'[Main] = "back"
    BY <1>6, Zenon DEF EmptyQueue, Returned
  <2> QED BY <1>2, <2>1, Zenon DEF Staged, BeforeFlush
<1>7. CASE FlushAndReset
  <2>1. stage' = "last" /\ tpc'[Main] = "maybe"
    BY <1>7, Zenon DEF FlushAndReset, AddToProcessQueue, Goto, ThreadTypes
  <2> QED BY <1>2, <2>1, Zenon DEF Staged, BeforeFlush, Calling
<1>8. CASE ShutdownDone
  <2>1. \A m \in Miners : m \in Threads
    BY Zenon DEF Threads, Activators
  <2>2. stage' = "done" /\ tpc'[Main] = "exit" /\ Joined(Miners)'
    BY <1>8, <2>1, Zenon DEF ShutdownDone, Joined
  <2> QED BY <1>2, <2>2, Zenon DEF Staged, BeforeFlush
<1>9. CASE UNCHANGED stage /\ tpc'[Main] = tpc[Main]
  <2>1. Joined(Miners) => Joined(Miners)'
    BY <1>1, Zenon DEF Joined, Threads, Activators
  <2> QED BY <1>0, <1>2, <1>9, <2>1, Zenon DEF Staged, BeforeFlush
<1> QED BY <1>3, <1>4, <1>5, <1>6, <1>7, <1>8, <1>9, Zenon
(* A thread that calls never runs a callback itself.                        *)
LEMMA RunBySchedulerStep ==
  ASSUME ThreadTypes, RunByScheduler, CallbackNext
  PROVE  RunByScheduler'
<1> DEFINE Runs == Busy \cup {"process"}
<1> Main \in Threads
  BY Zenon DEF Threads
<1>1. ASSUME NEW t \in Threads, NEW pc, Goto(t, pc), pc \in Runs => t \in Services \cup {Main}
      PROVE  RunByScheduler'
  BY <1>1, Zenon DEF Goto, ThreadTypes, RunByScheduler
<1>2. ASSUME NEW s \in Services, ServiceStep(s)
      PROVE  RunByScheduler'
  <2>1. \E pc : Goto(s, pc)
    BY <1>2, Zenon DEF ServiceStep, ServiceLoop, ServiceWait, ServiceRewait, ServiceTake, ServiceInterrupted
  <2> QED BY <1>1, <2>1, Zenon DEF Threads
<1>3. ASSUME NEW t \in Threads, ClientStep(t)
      PROVE  RunByScheduler'
  <2> CallerPc(t) \notin Runs
    BY Zenon DEF CallerPc, Busy
  <2>1. CASE Notify(t)
    <3>1. PICK pcs \in WakeOne : tpc' = [pcs EXCEPT ![t] = CallerPc(t)]
      BY <2>1, Zenon DEF Notify
    <3>2. /\ pcs \in [Threads -> CallbackPcs]
          /\ \A u \in Threads :
               \/ pcs[u] = tpc[u]
               \/ u \in Services /\ tpc[u] \in {"wait", "timed"} /\ pcs[u] \in {"woken", "rewait"}
      BY <3>1, WakeOneMoves, Zenon
    <3> QED BY <3>1, <3>2, Zenon DEF RunByScheduler
  <2>2. CASE ProcessQueue(t) \/ RunCallback(t)
    <3>1. t \in Services \cup {Main} /\ \E pc : Goto(t, pc)
      BY <2>2, Zenon DEF ProcessQueue, RunCallback, RunByScheduler, Busy
    <3> QED BY <1>1, <3>1, Zenon
  <2>3. CASE CallbackDone(t) \/ MaybeScheduleProcessQueue(t) \/ Schedule(t)
    <3>1. \E pc \in {CallerPc(t), "maybe", "schedule", "notify"} : Goto(t, pc)
      BY <2>3, Zenon DEF CallbackDone, MaybeScheduleProcessQueue, Schedule
    <3> QED BY <1>1, <3>1, Zenon DEF Busy
  <2> QED BY <1>3, <2>1, <2>2, <2>3, Zenon DEF ClientStep
<1>4. ASSUME NEW t \in Threads, CallStep(t)
      PROVE  RunByScheduler'
  <2>1. \E pc \in {"exit", "sync", "connect", "maybe", "idle"} : Goto(t, pc)
    BY <1>4, Zenon DEF CallStep, CheckPending, SyncWithValidationInterfaceQueue, SendSignal, CallReturns,
                      AddToProcessQueue
  <2> QED BY <1>1, <2>1, Zenon DEF Busy
<1>5. ASSUME NEW t \in Threads, WorkerRun(t) \/ ActivateBestChain(t) \/ ThreadEnds(t)
      PROVE  RunByScheduler'
  <2>1. \E pc \in {"exit", "http", "idle", "sync", "connect", "lock"} : Goto(t, pc)
    BY <1>5, Zenon DEF WorkerRun, ActivateBestChain, ThreadEnds
  <2> QED BY <1>1, <2>1, Zenon DEF Busy
<1>6. ASSUME NEW kept \in BOOLEAN, Enqueue(kept)
      PROVE  RunByScheduler'
  <2>1. UNCHANGED tpc \/ \E w \in HttpWorkers : Goto(w, "idle")
    BY <1>6, Zenon DEF Enqueue
  <2> QED BY <1>1, <2>1, Zenon DEF Threads, Busy, RunByScheduler
<1>7. CASE Interrupt
  BY <1>7, Zenon DEF Interrupt, RunByScheduler, Busy
<1>8. CASE ShutdownStep
  <2>1. CASE ShutdownDone
    BY <2>1, Zenon DEF ShutdownDone, RunByScheduler, Busy
  <2>2. CASE ~ ShutdownDone
    <3>1. UNCHANGED tpc \/ \E pc : Goto(Main, pc)
      BY <1>8, <2>2, Zenon DEF ShutdownStep, StopHTTPServer, StopNet, JoinAndFlush, EmptyQueue,
                               FlushAndReset, AddToProcessQueue
    <3> QED BY <1>1, <3>1, Zenon DEF RunByScheduler
  <2> QED BY <2>1, <2>2, Zenon
<1> QED
  BY <1>2, <1>3, <1>4, <1>5, <1>6, <1>7, <1>8, Zenon DEF CallbackNext, ThreadStep

(* With the main thread back from ProcessQueue and the scheduler ended,     *)
(* nobody is inside serviceQueue and no callback is in progress.            *)
LEMMA AloneAndDone ==
  ASSUME CallbackInv, stage \notin BeforeFlush, tpc[Main] \notin Busy
  PROVE  nThreadsServicingQueue = 0 /\ ~ m_are_callbacks_running /\ executed = 1..Taken
<1>1. \A s \in Services : s \in Threads /\ tpc[s] = "exit"
  BY Zenon DEF CallbackInv, Staged, Joined, ThreadGroup, Threads
<1>2. \A t \in Threads : tpc[t] \notin Busy
  BY <1>1, Zenon DEF CallbackInv, RunByScheduler, Busy
<1>3. Running = {}
  BY <1>2, Zenon DEF Running, Busy
<1>4. Serving = {}
  BY <1>1, Zenon DEF Serving
<1>5. Cardinality(Serving) = 0
  BY <1>4, FS_EmptySet, Zenon
<1> QED BY <1>2, <1>3, <1>5, Zenon DEF CallbackInv, SerialInv, OneAtATime, InOrder, Counted

(* After EmptyQueue only the second flush adds to what is missed: a miner's *)
(* callback is a late one.                                                  *)
LEMMA MissedFalls ==
  ASSUME ThreadTypes, Staged, Kinds, stage \in {"left", "last"}, ~ FlushAndReset
  PROVE  Missed' \subseteq Missed
<1>1. CASE Still
  BY <1>1, Zenon DEF Still, clientVars, Missed
<1>2. CASE Adding
  <2>1. PICK t \in Threads, p \in BOOLEAN : MayAdd(t) /\ AddToProcessQueue(t, p)
    BY <1>2, Zenon DEF Adding
  <2>2. tpc[t] \in {"sync", "connect"}
    BY <2>1, Zenon DEF MayAdd, JoinAndFlush
  <2>3. t \in Miners
    BY <2>2, MainAlone, Zenon DEF Staged, Calling, BeforeFlush
  <2>4. /\ nAdded \in Nat /\ nAdded' = nAdded + 1 /\ executed' = executed
        /\ lateCallbacks' = lateCallbacks \cup {nAdded + 1}
    BY <2>1, <2>3, Zenon DEF AddToProcessQueue, ThreadTypes
  <2> QED BY <2>4 DEF Missed
<1>3. CASE \E t \in Threads : Taking(t) \/ CallbackDone(t)
  BY <1>3, Zenon DEF Taking, CallbackDone, Missed
<1>4. CASE \E t \in Threads : RunCallback(t)
  BY <1>4, Zenon DEF RunCallback, Missed
<1> QED BY <1>1, <1>2, <1>3, <1>4, Zenon DEF Kinds

(* EmptyQueue is left with everything run; the second flush adds one.       *)
LEMMA MissedStep ==
  ASSUME CallbackInv, CallbackNext
  PROVE  NoCallbackMissed'
<1> ThreadTypes /\ Staged /\ SerialInv /\ RunByScheduler /\ NoCallbackMissed
  BY Zenon DEF CallbackInv, SerialInv
<1>1. CASE EmptyQueue
  <2>1. CASE stage' = "empty"
    BY <2>1, Zenon DEF NoCallbackMissed
  <2>2. CASE stage' = "left"
    <3>1. m_callbacks_pending = <<>> /\ UNCHANGED clientVars /\ tpc[Main] \notin Busy /\ stage \notin BeforeFlush
      BY <1>1, <2>2, Zenon DEF EmptyQueue, Returned, Busy, BeforeFlush
    <3>2. executed = 1..Taken /\ nAdded \in Nat
      BY <3>1, AloneAndDone, Zenon DEF ThreadTypes
    <3>3. Taken = nAdded
      BY <3>1, <3>2 DEF Taken
    <3>4. Missed' = {}
      BY <3>1, <3>2, <3>3, Zenon DEF Missed, clientVars
    <3> QED BY <2>2, <3>4, Zenon DEF NoCallbackMissed
  <2> QED BY <1>1, <2>1, <2>2, Zenon DEF EmptyQueue
<1>2. CASE FlushAndReset
  <2>1. Missed = {} /\ stage' = "last" /\ executed' = executed /\ nAdded' = nAdded + 1 /\ nAdded \in Nat
    BY <1>2, Zenon DEF FlushAndReset, AddToProcessQueue, NoCallbackMissed, ThreadTypes
  <2>2. lateCallbacks \subseteq lateCallbacks'
    BY <1>2, Zenon DEF FlushAndReset, AddToProcessQueue
  <2>3. Missed' \subseteq {nAdded + 1}
    BY <2>1, <2>2 DEF Missed
  <2> QED BY <2>1, <2>3, Zenon DEF NoCallbackMissed
<1>3. CASE ~ EmptyQueue /\ ~ FlushAndReset
  <2>1. CASE stage \in {"left", "last"}
    <3>1. Missed' \subseteq Missed
      BY <1>3, <2>1, StepKinds, MissedFalls, Zenon
    <3>2. CASE stage = "left"
      <4>1. Missed' = {}
        BY <3>1, <3>2, Zenon DEF NoCallbackMissed
      <4> QED BY <4>1, Zenon DEF NoCallbackMissed
    <3>3. CASE stage = "last"
      <4>1. \A c, d \in Missed' : c = d
        BY <3>1, <3>3, Zenon DEF NoCallbackMissed
      <4>2. stage' # "left"
        <5>1. stage' = stage \/ Interrupt \/ ShutdownStep \/ ClientStep(Main) \/ CallStep(Main)
          BY OthersMove, Zenon
        <5> QED BY <1>3, <3>3, <5>1, Zenon
              DEF Interrupt, ShutdownStep, StopHTTPServer, StopNet, JoinAndFlush, ShutdownDone, ClientStep,
                  ProcessQueue, RunCallback, CallbackDone, MaybeScheduleProcessQueue, Schedule, Notify,
                  CallStep, CheckPending, SyncWithValidationInterfaceQueue, SendSignal, CallReturns
      <4> QED BY <4>1, <4>2, Zenon DEF NoCallbackMissed
    <3> QED BY <2>1, <3>2, <3>3, Zenon
  <2>2. CASE stage \notin {"left", "last"}
    <3>1. stage' = stage \/ Interrupt \/ ShutdownStep \/ ClientStep(Main) \/ CallStep(Main)
      BY OthersMove, Zenon
    <3>2. stage' \in {"left", "last", "done"} => stage = "done" /\ stage' = "done"
      BY <1>3, <2>2, <3>1, Zenon
         DEF Interrupt, ShutdownStep, StopHTTPServer, StopNet, JoinAndFlush, ShutdownDone, ClientStep,
             ProcessQueue, RunCallback, CallbackDone, MaybeScheduleProcessQueue, Schedule, Notify,
             CallStep, CheckPending, SyncWithValidationInterfaceQueue, SendSignal, CallReturns
    <3>3. CASE stage = "done"
      <4>1. \A t \in Threads : tpc[t] = "exit"
        BY <3>3, MainAlone, Zenon DEF Staged, Joined, BeforeFlush
      <4>2. Kinds
        BY StepKinds, Zenon
      <4>3. ~ Adding /\ \A t \in Threads : ~ Taking(t) /\ ~ RunCallback(t) /\ ~ CallbackDone(t)
        BY <3>3, <4>1, Zenon DEF Adding, MayAdd, JoinAndFlush, FlushAndReset, Taking, RunCallback, CallbackDone
      <4>4. Missed' = Missed
        BY <4>2, <4>3, Zenon DEF Kinds, Still, clientVars, Missed
      <4>5. stage' # "left"
        BY <3>2, <3>3, Zenon
      <4> QED BY <3>3, <4>4, <4>5, Zenon DEF NoCallbackMissed
    <3> QED BY <3>2, <3>3, Zenon DEF NoCallbackMissed
  <2> QED BY <2>1, <2>2, Zenon
<1> QED BY <1>1, <1>2, <1>3, Zenon
-----------------------------------------------------------------------------
(* The invariant. *)

(* The node starts with no callback and no thread busy. *)
LEMMA CallbackInitInv ==
  ASSUME CallbackInit
  PROVE  CallbackInv /\ Serial!Init
<1>0. PICK started \in Populations :
        tpc = [t \in Threads |-> IF t \notin started THEN "exit"
                                ELSE IF t \in Services THEN "start" ELSE "idle"]
  BY Zenon DEF CallbackInit
<1>1. ThreadTypes
  <2>1. tpc \in [Threads -> CallbackPcs]
    BY <1>0, Zenon DEF CallbackPcs
  <2>2. callback \in [Threads -> {NoCallback} \cup 1..nAdded]
    BY Zenon DEF CallbackInit
  <2>3. taskQueue \in Nat /\ nAdded \in Nat /\ workQueue \in 0..maxDepth
    BY CallbackAssumption DEF CallbackInit
  <2>4. /\ m_are_callbacks_running \in BOOLEAN /\ lateCallbacks \subseteq 1..nAdded
        /\ interrupted \subseteq ThreadGroup \cup Miners
    BY Zenon DEF CallbackInit
  <2> QED BY <2>1, <2>2, <2>3, <2>4, Zenon DEF ThreadTypes
<1>2. \A t \in Threads : tpc[t] \notin Busy /\ tpc[t] \in {"exit", "start", "idle"}
  BY <1>0, Zenon DEF Busy
<1>3. Running = {}
  BY <1>2, Zenon DEF Running, Busy
<1>4. OneAtATime
  BY <1>2, Zenon DEF OneAtATime, CallbackInit
<1>5. InOrder
  <2>0. Len(m_callbacks_pending) = 0 /\ nAdded = 0
    BY Zenon DEF CallbackInit
  <2>1. Taken = 0 /\ 1..Taken = {} /\ Len(m_callbacks_pending) = 0
    BY <2>0 DEF Taken
  <2> QED BY <1>3, <2>1 DEF InOrder, CallbackInit
<1>6. Counted
  <2>1. Serving = {}
    BY <1>0, Zenon DEF Serving, Threads
  <2> QED BY <2>1, FS_EmptySet, Zenon DEF Counted, CallbackInit
<1>7. Staged
  <2>1. Main \in started /\ Main \notin Services /\ Main \in Threads
    BY CallbackAssumption, Zenon DEF Threads
  <2>2. tpc[Main] = "idle"
    BY <1>0, <2>1, Zenon
  <2> QED BY <2>2, Zenon DEF Staged, BeforeFlush, CallbackInit
<1>8. Serial!Init
  BY <1>3, Zenon DEF Serial!Init, Executing, CallbackInit
<1>9. RunByScheduler /\ NoCallbackMissed
  BY <1>2, Zenon DEF RunByScheduler, NoCallbackMissed, Busy, CallbackInit
<1> QED BY <1>1, <1>4, <1>5, <1>6, <1>7, <1>8, <1>9, Zenon DEF CallbackInv, SerialInv

(* Each step keeps the invariant, and is a step of SerialQueue or leaves    *)
(* what SerialQueue sees unchanged.                                         *)
LEMMA CallbackStepInv ==
  CallbackInv /\ [CallbackNext]_callbackVars => CallbackInv' /\ SerialSteps
<1> SUFFICES ASSUME CallbackInv, [CallbackNext]_callbackVars
             PROVE  CallbackInv' /\ SerialSteps
  BY Zenon
<1> USE DEF CallbackInv
<1>1. CASE CallbackNext
  <2>1. SerialInv' /\ SerialSteps
    BY <1>1, SerialStep, Zenon
  <2>2. Counted'
    BY <1>1, CountedStep, Zenon DEF SerialInv
  <2>3. Staged'
    BY <1>1, StagedBefore, StagedAfter, Zenon DEF SerialInv
  <2>4. RunByScheduler' /\ NoCallbackMissed'
    BY <1>1, RunBySchedulerStep, MissedStep, Zenon DEF SerialInv
  <2> QED BY <2>1, <2>2, <2>3, <2>4, Zenon
<1>2. CASE UNCHANGED callbackVars
  <2>1. SerialInv'
    BY <1>2, Zenon DEF callbackVars, schedVars, clientVars, workVars, SerialInv, ThreadTypes, OneAtATime,
                InOrder, Taken, Running
  <2>2. Counted' /\ Staged'
    BY <1>2, Zenon DEF callbackVars, schedVars, clientVars, Counted, Serving, Staged, Joined
  <2>3. SerialSteps
    BY <1>2 DEF callbackVars, clientVars, SerialSteps, Executing, Running
  <2>4. RunByScheduler' /\ NoCallbackMissed'
    BY <1>2, Zenon DEF callbackVars, clientVars, RunByScheduler, NoCallbackMissed, Missed
  <2> QED BY <2>1, <2>2, <2>3, <2>4, Zenon
<1> QED BY <1>1, <1>2, Zenon

(* nThreadsServicingQueue never leaves 0..|Services|, and every callback    *)
(* pending, executed or waited for is one that was added.                   *)
LEMMA CallbackInvTypes == CallbackInv => CallbackTypeOK
<1> SUFFICES ASSUME CallbackInv PROVE CallbackTypeOK
  BY Zenon
<1> ThreadTypes /\ InOrder /\ Counted
  BY Zenon DEF CallbackInv, SerialInv
<1>1. nThreadsServicingQueue \in 0..Cardinality(Services)
  <2>1. IsFiniteSet(Services) /\ Serving \subseteq Services
    BY CallbackAssumption, Zenon DEF Serving
  <2>2. IsFiniteSet(Serving) /\ Cardinality(Serving) <= Cardinality(Services)
    BY <2>1, FS_Subset, Zenon
  <2>3. Cardinality(Serving) \in Nat /\ Cardinality(Services) \in Nat
    BY <2>1, <2>2, FS_CardinalityType, Zenon
  <2> QED BY <2>2, <2>3 DEF Counted
<1>2. executed \subseteq 1..nAdded
  <2>1. nAdded \in Nat /\ Taken \in 0..nAdded
    BY Zenon DEF ThreadTypes, InOrder
  <2>2. executed = 1..Taken \/ executed = 1..(Taken - 1)
    BY Zenon DEF InOrder
  <2> QED BY <2>1, <2>2
<1> QED BY <1>1, <1>2, Zenon DEF CallbackTypeOK, ThreadTypes, InOrder

(* EmptyQueue's assertion, from the invariant. *)
LEMMA CallbackInvAlone == CallbackInv => EmptyQueueAlone
BY AloneAndDone, Zenon DEF EmptyQueueAlone, BeforeFlush, Busy
-----------------------------------------------------------------------------
(* The inductive invariant holds in every reachable state, for any number   *)
(* of scheduler threads, HTTP workers, handlers, importers and miners.      *)
THEOREM CallbacksInvariant == CallbackSpec => []CallbackInv
<1>1. CallbackInit => CallbackInv
  BY CallbackInitInv, Zenon
<1> QED BY <1>1, CallbackStepInv, PTL DEF CallbackSpec

(* The counters and queues of scheduler.cpp keep their types: in particular *)
(* nThreadsServicingQueue counts the threads inside serviceQueue exactly.   *)
THEOREM CallbacksTyped == CallbackSpec => []CallbackTypeOK
BY CallbacksInvariant, CallbackInvTypes, PTL

(* The assertion of EmptyQueue, !AreThreadsServicingQueue(), never fails,   *)
(* and no callback is in progress when its loop looks at the queue.         *)
THEOREM EmptyQueueAsserted == CallbackSpec => []EmptyQueueAlone
BY CallbacksInvariant, CallbackInvAlone, PTL

(* When FlushBackgroundCallbacks returns, each callback added by any thread *)
(* has run.  What is added later and never runs is the callback of the      *)
(* second FlushStateToDisk, and what PulsarMiner threads still add, which   *)
(* Shutdown interrupts but does not join.                                   *)
THEOREM ShutdownMissesNone == CallbackSpec => []NoCallbackMissed
<1>1. CallbackInv => NoCallbackMissed
  BY Zenon DEF CallbackInv
<1> QED BY <1>1, CallbacksInvariant, PTL

(* SingleThreadedSchedulerClient keeps its promise: the threads that call   *)
(* ProcessQueue implement one queue whose jobs run one at a time in the     *)
(* order of AddToProcessQueue.                                              *)
THEOREM CallbacksImplementSerial == CallbackSpec => CallbacksSerial
<1>1. CallbackInit => Serial!Init
  BY CallbackInitInv, Zenon
<1>2. CallbackInv /\ [CallbackNext]_callbackVars
        => [Serial!AddJob \/ Serial!Start \/ Serial!Finish]_<<m_callbacks_pending, Executing>>
  BY CallbackStepInv, Zenon DEF SerialSteps
<1> QED BY <1>1, <1>2, CallbacksInvariant, PTL DEF CallbackSpec, CallbacksSerial, Serial!Spec
=============================================================================
