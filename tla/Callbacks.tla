----------------------------- MODULE Callbacks -----------------------------
(***************************************************************************)
(* The task scheduler, the queue of validation callbacks built on it, the  *)
(* threads that fill that queue or wait for it, and the order in which     *)
(* Shutdown stops them: src/src/scheduler.cpp, validationinterface.cpp,    *)
(* the work queue of httpserver.cpp, ActivateBestChain's use of the queue  *)
(* (validation.cpp) and init.cpp.                                          *)
(*                                                                         *)
(* One action is one critical section.  A callback is a number, given in   *)
(* the order of AddToProcessQueue.  The task queue of CScheduler holds     *)
(* only copies of ProcessQueue here, so it is a count; their times are     *)
(* abstracted: a timed wait may expire at any moment.                      *)
(***************************************************************************)
EXTENDS Integers, Sequences, FiniteSets

CONSTANTS
  Services,      \* threads running CScheduler::serviceQueue
  HttpWorkers,   \* threads running WorkQueue::Run
  Handlers,      \* threads that activate chains and that CConnman::Stop joins
  Importers,     \* threads that do so and belong to threadGroup: ThreadImport, PoSMiner
  Miners,        \* threads that do so and that nobody joins: PulsarMiner
  Main,          \* the thread that runs Shutdown
  Populations,   \* which of these threads a configuration of the node starts
  NoCallback,
  SyncLimit,     \* CallbacksPending() above which ActivateBestChain waits (10)
  maxDepth,      \* -rpcworkqueue
  MaxDemand      \* bound on the blocks connected and the HTTP requests

Activators == Handlers \cup Importers \cup Miners
Threads == Services \cup HttpWorkers \cup Activators \cup {Main}
ThreadGroup == Services \cup Importers

ASSUME CallbackAssumption ==
  /\ \A started \in Populations : started \cap Services # {} /\ Main \in started
  /\ IsFiniteSet(Services) /\ NoCallback \notin Nat
  /\ (Services \cup {Main}) \cap (HttpWorkers \cup Activators) = {}
  /\ Main \notin Services
  /\ SyncLimit \in Nat /\ maxDepth \in Nat \ {0}
  /\ MaxDemand \in Nat

VARIABLES
  taskQueue,                \* how many ProcessQueue tasks are scheduled
  nThreadsServicingQueue,
  m_callbacks_pending, m_are_callbacks_running,
  nAdded,                   \* callbacks added so far
  executed,                 \* callbacks that have run
  lateCallbacks,            \* callbacks that Miners added after EmptyQueue
  tpc,                      \* where each thread is
  callback,                 \* the callback a thread runs, or whose promise it waits for
  workQueue, workRunning,   \* WorkQueue: queued requests, the flag running
  nDemand,                  \* blocks connected and requests received
  stage,                    \* how far Shutdown is
  interrupted               \* threads whose interruption is not delivered yet

schedVars  == <<taskQueue, nThreadsServicingQueue>>
clientVars == <<m_callbacks_pending, m_are_callbacks_running, nAdded, executed, lateCallbacks>>
workVars   == <<workQueue, workRunning, nDemand>>
callbackVars == <<schedVars, clientVars, tpc, callback, workVars, stage, interrupted>>

CallbackInit ==
  /\ taskQueue = 0 /\ nThreadsServicingQueue = 0
  /\ m_callbacks_pending = <<>> /\ m_are_callbacks_running = FALSE
  /\ nAdded = 0 /\ executed = {} /\ lateCallbacks = {}
  /\ \E started \in Populations :
       tpc = [t \in Threads |-> IF t \notin started THEN "exit"
                                ELSE IF t \in Services THEN "start" ELSE "idle"]
  /\ callback = [t \in Threads |-> NoCallback]
  /\ workQueue = 0 /\ workRunning = TRUE /\ nDemand = 0
  /\ stage = "run" /\ interrupted = {}

Joined(S) == \A t \in S : tpc[t] = "exit"
Goto(t, pc) == tpc' = [tpc EXCEPT ![t] = pc]
-----------------------------------------------------------------------------
(* CScheduler.  Waiting threads are in wait() or wait_until(). *)

WakeOne ==
  LET asleep == {s \in Services : tpc[s] \in {"wait", "timed"}}
      Woken(s) == [tpc EXCEPT ![s] = IF @ = "wait" THEN "woken" ELSE "rewait"]
  IN IF asleep = {} THEN {tpc} ELSE {Woken(s) : s \in asleep}

(* serviceQueue from the head of its loop, holding newTaskMutex: an empty   *)
(* queue lets the mutex go for RandAddSeedSleep.                            *)
ServiceLoop(s) ==
  /\ tpc[s] \in {"start", "top"}
  /\ nThreadsServicingQueue' = nThreadsServicingQueue + (IF tpc[s] = "start" THEN 1 ELSE 0)
  /\ Goto(s, IF taskQueue = 0 THEN "sleep" ELSE "timed")
  /\ UNCHANGED <<taskQueue, clientVars, callback, workVars, stage, interrupted>>

(* while (taskQueue.empty()) wait(); then wait for the time of the first. *)
ServiceWait(s) ==
  /\ tpc[s] \in {"sleep", "woken"}
  /\ Goto(s, IF taskQueue = 0 THEN "wait" ELSE "timed")
  /\ UNCHANGED <<schedVars, clientVars, callback, workVars, stage, interrupted>>

(* Notified in wait_until(): look at the first task again. *)
ServiceRewait(s) ==
  /\ tpc[s] = "rewait"
  /\ Goto(s, IF taskQueue = 0 THEN "top" ELSE "timed")
  /\ UNCHANGED <<schedVars, clientVars, callback, workVars, stage, interrupted>>

(* wait_until() timed out: take the first task, if another thread did not. *)
ServiceTake(s) ==
  /\ tpc[s] = "timed"
  /\ taskQueue' = IF taskQueue = 0 THEN 0 ELSE taskQueue - 1
  /\ Goto(s, IF taskQueue = 0 THEN "top" ELSE "process")
  /\ UNCHANGED <<nThreadsServicingQueue, clientVars, callback, workVars, stage, interrupted>>

(* A wait or a sleep throws boost::thread_interrupted. *)
ServiceInterrupted(s) ==
  /\ tpc[s] \in {"sleep", "wait", "timed"} /\ s \in interrupted
  /\ Goto(s, "exit") /\ interrupted' = interrupted \ {s}
  /\ nThreadsServicingQueue' = nThreadsServicingQueue - 1
  /\ UNCHANGED <<taskQueue, clientVars, callback, workVars, stage>>
-----------------------------------------------------------------------------
(* SingleThreadedSchedulerClient.  ProcessQueue runs in a service thread or *)
(* in Shutdown; MaybeScheduleProcessQueue in any thread.                    *)

CallerPc(t) == IF t \in Services THEN "top" ELSE "back"

ProcessQueue_overlap(t) ==
  /\ tpc[t] = "process"
  /\ IF m_callbacks_pending = <<>>
     THEN /\ Goto(t, CallerPc(t))
          /\ UNCHANGED <<clientVars, callback>>
     ELSE /\ m_are_callbacks_running' = TRUE
          /\ m_callbacks_pending' = Tail(m_callbacks_pending)
          /\ callback' = [callback EXCEPT ![t] = Head(m_callbacks_pending)]
          /\ Goto(t, "callback")
          /\ UNCHANGED <<nAdded, executed, lateCallbacks>>
  /\ UNCHANGED <<schedVars, workVars, stage, interrupted>>

ProcessQueue(t) ==
  /\ tpc[t] = "process"
  /\ IF m_are_callbacks_running \/ m_callbacks_pending = <<>>
     THEN /\ Goto(t, CallerPc(t))
          /\ UNCHANGED <<clientVars, callback>>
     ELSE /\ m_are_callbacks_running' = TRUE
          /\ m_callbacks_pending' = Tail(m_callbacks_pending)
          /\ callback' = [callback EXCEPT ![t] = Head(m_callbacks_pending)]
          /\ Goto(t, "callback")
          /\ UNCHANGED <<nAdded, executed, lateCallbacks>>
  /\ UNCHANGED <<schedVars, workVars, stage, interrupted>>

RunCallback(t) ==
  /\ tpc[t] = "callback"
  /\ executed' = executed \cup {callback[t]}
  /\ callback' = [callback EXCEPT ![t] = NoCallback]
  /\ Goto(t, "raii")
  /\ UNCHANGED <<schedVars, m_callbacks_pending, m_are_callbacks_running, nAdded,
                 lateCallbacks, workVars, stage, interrupted>>

(* ~RAIICallbacksRunning *)
CallbackDone_forget(t) ==
  /\ tpc[t] = "raii"
  /\ m_are_callbacks_running' = FALSE
  /\ Goto(t, CallerPc(t))
  /\ UNCHANGED <<schedVars, m_callbacks_pending, nAdded, executed, lateCallbacks, callback,
                 workVars, stage, interrupted>>

CallbackDone(t) ==
  /\ tpc[t] = "raii"
  /\ m_are_callbacks_running' = FALSE
  /\ Goto(t, "maybe")
  /\ UNCHANGED <<schedVars, m_callbacks_pending, nAdded, executed, lateCallbacks, callback,
                 workVars, stage, interrupted>>

MaybeScheduleProcessQueue(t) ==
  /\ tpc[t] = "maybe"
  /\ Goto(t, IF m_are_callbacks_running \/ m_callbacks_pending = <<>> THEN CallerPc(t)
             ELSE "schedule")
  /\ UNCHANGED <<schedVars, clientVars, callback, workVars, stage, interrupted>>

Schedule(t) ==
  /\ tpc[t] = "schedule"
  /\ taskQueue' = taskQueue + 1 /\ Goto(t, "notify")
  /\ UNCHANGED <<nThreadsServicingQueue, clientVars, callback, workVars, stage, interrupted>>

(* newTaskScheduled.notify_one(), after the mutex is released. *)
Notify(t) ==
  /\ tpc[t] = "notify"
  /\ \E pcs \in WakeOne : tpc' = [pcs EXCEPT ![t] = CallerPc(t)]
  /\ UNCHANGED <<schedVars, clientVars, callback, workVars, stage, interrupted>>

(* AddToProcessQueue, up to MaybeScheduleProcessQueue; promise tells        *)
(* whether the caller is SyncWithValidationInterfaceQueue.                  *)
AddToProcessQueue(t, promise) ==
  /\ nAdded' = nAdded + 1
  /\ m_callbacks_pending' = Append(m_callbacks_pending, nAdded + 1)
  /\ lateCallbacks' = IF t \in Miners /\ stage \in {"left", "last"}
                        THEN lateCallbacks \cup {nAdded + 1} ELSE lateCallbacks
  /\ callback' = [callback EXCEPT ![t] = IF promise THEN nAdded + 1 ELSE NoCallback]
  /\ Goto(t, "maybe")
  /\ UNCHANGED <<schedVars, m_are_callbacks_running, executed, interrupted>>

(* The call is over; after SyncWithValidationInterfaceQueue also            *)
(* promise.get_future().wait().                                             *)
Returned(t) == tpc[t] = "back" /\ callback[t] \in {NoCallback} \cup executed

ClientStep(t) ==
  \/ ProcessQueue(t) \/ RunCallback(t) \/ CallbackDone(t)
  \/ MaybeScheduleProcessQueue(t) \/ Schedule(t) \/ Notify(t)
ServiceStep(s) ==
  \/ ServiceLoop(s) \/ ServiceWait(s) \/ ServiceRewait(s) \/ ServiceTake(s)
  \/ ServiceInterrupted(s)
-----------------------------------------------------------------------------
(* ActivateBestChain takes m_cs_chainstate and passes an interruption       *)
(* point; then an iteration reads CallbacksPending(), waits for the queue   *)
(* to drain when it is too long, and connects a block.                      *)

ActivateBestChain(t) ==
  /\ t \in Activators /\ tpc[t] = "idle" /\ (t \in Handlers => stage = "run")
  /\ nDemand < MaxDemand /\ nDemand' = nDemand + 1
  /\ Goto(t, "lock")
  /\ UNCHANGED <<schedVars, clientVars, callback, workQueue, workRunning, stage, interrupted>>

CheckPending(t) ==
  /\ t \in Activators /\ tpc[t] = "lock"
  /\ \A u \in Activators : tpc[u] \in {"idle", "lock", "exit"}
  /\ Goto(t, IF t \in interrupted THEN "exit"
             ELSE IF Len(m_callbacks_pending) > SyncLimit THEN "sync" ELSE "connect")
  /\ interrupted' = interrupted \ {t}
  /\ UNCHANGED <<schedVars, clientVars, callback, workVars, stage>>

SyncWithValidationInterfaceQueue(t) ==
  /\ tpc[t] = "sync" /\ AddToProcessQueue(t, TRUE)
  /\ UNCHANGED <<workVars, stage>>

(* GetMainSignals().BlockConnected(...), and what other signals a handler   *)
(* or an RPC sends; no block is connected once the coins are gone.          *)
SendSignal(t) ==
  /\ tpc[t] = "connect" /\ stage # "last" /\ AddToProcessQueue(t, FALSE)
  /\ UNCHANGED <<workVars, stage>>

(* ActivateBestChain goes on to connect after it waited. *)
CallReturns(t) ==
  /\ t # Main /\ Returned(t)
  /\ callback' = [callback EXCEPT ![t] = NoCallback]
  /\ Goto(t, IF callback[t] = NoCallback \/ t \in HttpWorkers THEN "idle" ELSE "connect")
  /\ UNCHANGED <<schedVars, clientVars, workVars, stage, interrupted>>

(* The message handler leaves on flagInterruptMsgProc; a thread of          *)
(* threadGroup or a miner at an interruption point, or when its work is     *)
(* done.                                                                    *)
ThreadEnds(t) ==
  /\ tpc[t] = "idle"
  /\ \/ t \in Handlers /\ stage # "run"
     \/ t \in Importers \cup Miners
  /\ Goto(t, "exit") /\ interrupted' = interrupted \ {t}
  /\ UNCHANGED <<schedVars, clientVars, callback, workVars, stage>>
-----------------------------------------------------------------------------
(* WorkQueue: Enqueue, called by the event thread as long as there are     *)
(* workers, and Run.                                                       *)

Enqueue_quiet(kept) ==
  /\ ~ Joined(HttpWorkers) /\ nDemand < MaxDemand
  /\ nDemand' = nDemand + 1
  /\ kept = (workQueue < maxDepth)
  /\ workQueue' = workQueue + (IF kept THEN 1 ELSE 0)
  /\ UNCHANGED <<schedVars, clientVars, tpc, callback, workRunning, stage, interrupted>>

Enqueue(kept) ==
  /\ ~ Joined(HttpWorkers) /\ nDemand < MaxDemand
  /\ nDemand' = nDemand + 1
  /\ LET asleep == {w \in HttpWorkers : tpc[w] = "http"}
     IN \/ /\ workQueue >= maxDepth /\ ~ kept
           /\ UNCHANGED <<workQueue, tpc>>
        \/ /\ workQueue < maxDepth /\ kept
           /\ workQueue' = workQueue + 1
           /\ IF asleep = {} THEN UNCHANGED tpc ELSE \E w \in asleep : Goto(w, "idle")
  /\ UNCHANGED <<schedVars, clientVars, callback, workRunning, stage, interrupted>>

WorkerRun_sleepy(w) ==
  /\ w \in HttpWorkers /\ tpc[w] = "idle"
  /\ \/ /\ workQueue = 0
        /\ Goto(w, "http") /\ UNCHANGED workQueue
     \/ /\ workQueue > 0 /\ ~ workRunning
        /\ Goto(w, "exit") /\ UNCHANGED workQueue
     \/ /\ workQueue > 0 /\ workRunning
        /\ workQueue' = workQueue - 1
        /\ \E pc \in {"idle", "sync", "connect"} : Goto(w, pc)
  /\ UNCHANGED <<schedVars, clientVars, callback, workRunning, nDemand, stage,
                 interrupted>>

WorkerRun(w) ==
  /\ w \in HttpWorkers /\ tpc[w] = "idle"
  /\ \/ /\ ~ workRunning
        /\ Goto(w, "exit") /\ UNCHANGED workQueue
     \/ /\ workRunning /\ workQueue = 0
        /\ Goto(w, "http") /\ UNCHANGED workQueue
     \/ /\ workRunning /\ workQueue > 0
        /\ workQueue' = workQueue - 1
        /\ \E pc \in {"idle", "sync", "connect"} : Goto(w, pc)
  /\ UNCHANGED <<schedVars, clientVars, callback, workRunning, nDemand, stage,
                 interrupted>>
-----------------------------------------------------------------------------
(* Shutdown, with the Interrupt() that precedes it. *)

(* Interrupt(): WorkQueue::Interrupt and flagInterruptMsgProc. *)
Interrupt ==
  /\ stage = "run" /\ stage' = "stopHTTP"
  /\ workRunning' = FALSE
  /\ tpc' = [t \in Threads |-> IF tpc[t] = "http" THEN "idle" ELSE tpc[t]]
  /\ UNCHANGED <<schedVars, clientVars, callback, workQueue, nDemand, interrupted>>

(* GeneratePulsar(false) interrupts the miners and does not wait for them. *)
GeneratePulsar == interrupted' = {m \in Miners : tpc[m] # "exit"}

(* StopHTTPServer joins its workers and deletes the queue with the requests *)
(* it still holds.                                                          *)
StopHTTPServer ==
  /\ stage = "stopHTTP" /\ Joined(HttpWorkers) /\ stage' = "stopNet"
  /\ workQueue' = 0
  /\ GeneratePulsar
  /\ UNCHANGED <<schedVars, clientVars, tpc, callback, workRunning, nDemand>>

(* g_connman->Stop(), then threadGroup.interrupt_all(). *)
StopNet ==
  /\ stage = "stopNet" /\ Joined(Handlers) /\ stage' = "join"
  /\ interrupted' = interrupted \cup {t \in ThreadGroup : tpc[t] # "exit"}
  /\ UNCHANGED <<schedVars, clientVars, tpc, callback, workVars>>

(* threadGroup.join_all(), and the FlushStateToDisk that adds SetBestChain. *)
JoinAndFlush ==
  /\ stage = "join" /\ Joined(ThreadGroup) /\ stage' = "flush"
  /\ AddToProcessQueue(Main, FALSE) /\ UNCHANGED workVars

(* FlushBackgroundCallbacks: EmptyQueue calls ProcessQueue until nothing is *)
(* pending.                                                                 *)
EmptyQueue_once ==
  /\ stage \in {"flush", "empty"} /\ Returned(Main)
  /\ \/ stage = "flush" /\ stage' = "empty" /\ Goto(Main, "process")
     \/ stage = "empty" /\ stage' = "left" /\ UNCHANGED tpc
  /\ UNCHANGED <<schedVars, clientVars, callback, workVars, interrupted>>

EmptyQueue ==
  /\ stage \in {"flush", "empty"} /\ Returned(Main)
  /\ \/ /\ stage = "flush" \/ m_callbacks_pending # <<>>
        /\ stage' = "empty" /\ Goto(Main, "process")
     \/ /\ stage = "empty" /\ m_callbacks_pending = <<>>
        /\ stage' = "left" /\ UNCHANGED tpc
  /\ UNCHANGED <<schedVars, clientVars, callback, workVars, interrupted>>

(* The second FlushStateToDisk adds a callback nobody will run; pcoinsTip   *)
(* is reset under the same cs_main.                                         *)
FlushAndReset ==
  /\ stage = "left" /\ stage' = "last"
  /\ AddToProcessQueue(Main, FALSE) /\ UNCHANGED workVars

(* The process ends, miners and all, at the latest when a miner reaches for *)
(* the coins.                                                               *)
ShutdownDone ==
  /\ stage = "last" /\ (Returned(Main) \/ \E m \in Miners : tpc[m] = "connect")
  /\ stage' = "done"
  /\ tpc' = [t \in Threads |-> IF t \in Miners \cup {Main} THEN "exit" ELSE tpc[t]]
  /\ UNCHANGED <<schedVars, clientVars, callback, workVars, interrupted>>

ShutdownStep ==
  StopHTTPServer \/ StopNet \/ JoinAndFlush \/ EmptyQueue \/ FlushAndReset \/ ShutdownDone
-----------------------------------------------------------------------------
CallStep(t) ==
  \/ CheckPending(t) \/ SyncWithValidationInterfaceQueue(t) \/ SendSignal(t) \/ CallReturns(t)

(* What each thread does next once it has begun; the rest is demand. *)
ThreadStep(t) ==
  \/ t \in Services /\ ServiceStep(t)
  \/ ClientStep(t) \/ CallStep(t)
  \/ WorkerRun(t)
  \/ t = Main /\ ShutdownStep

CallbackNext ==
  \/ \E t \in Threads : ThreadStep(t) \/ ActivateBestChain(t) \/ ThreadEnds(t)
  \/ \E kept \in BOOLEAN : Enqueue(kept)
  \/ Interrupt

CallbackSpec == CallbackInit /\ [][CallbackNext]_callbackVars
-----------------------------------------------------------------------------
CallbackTypeOK ==
  /\ taskQueue \in Nat /\ nThreadsServicingQueue \in 0..Cardinality(Services)
  /\ m_callbacks_pending \in Seq(1..nAdded) /\ executed \subseteq 1..nAdded
  /\ lateCallbacks \subseteq 1..nAdded
  /\ callback \in [Threads -> {NoCallback} \cup 1..nAdded]
  /\ workQueue \in 0..maxDepth /\ interrupted \subseteq ThreadGroup \cup Miners

(* The callback in progress: ProcessQueue runs it without the lock. *)
Running == {t \in Threads : tpc[t] = "callback"}
Executing == IF Running = {} THEN NoCallback ELSE callback[CHOOSE t \in Running : TRUE]

Serial == INSTANCE SerialQueue
            WITH jobs <- m_callbacks_pending, NoJob <- NoCallback, executing <- Executing

(* The threads of the scheduler and EmptyQueue together run the callbacks  *)
(* one at a time and in the order they were added, however many copies of  *)
(* ProcessQueue are scheduled.                                             *)
CallbacksSerial == Serial!Spec

(* EmptyQueue asserts !AreThreadsServicingQueue(); and no callback may be  *)
(* in progress, or its loop would spin for ever.                           *)
EmptyQueueAlone ==
  (stage \in {"flush", "empty"} /\ tpc[Main] = "back")
    => nThreadsServicingQueue = 0 /\ ~ m_are_callbacks_running

(* Callbacks that have not run, but for those miners add after EmptyQueue. *)
Missed == (1..nAdded) \ (executed \cup lateCallbacks)

(* "FlushStateToDisk generates a SetBestChain callback, which we should    *)
(* avoid missing" (init.cpp): when EmptyQueue is left, every callback ever *)
(* added has run.  Only two sorts of callbacks are dropped after it: that  *)
(* of the second flush, and those of miners, which Shutdown interrupts but *)
(* does not join.                                                          *)
NoCallbackMissed ==
  /\ stage = "left" => Missed = {}
  /\ stage \in {"last", "done"} => \A c, d \in Missed : c = d

(* A thread of threadGroup waits for the queue to drain when interrupt_all *)
(* has ended the scheduler, or for m_cs_chainstate, which a miner holds    *)
(* that does so: it waits on a std::future, which boost::thread::interrupt *)
(* does not reach, and join_all waits for it.                              *)
Stuck(t) == tpc[t] = "back" /\ ~ Returned(t)
CaughtWaiting ==
  /\ stage = "join" /\ Joined(Services)
  /\ \E t \in Importers : Stuck(t) \/ (tpc[t] = "lock" /\ \E m \in Miners : Stuck(m))

(* Every callback runs in the end, whatever wake-ups race with it.         *)
EveryCallbackRuns ==
  (executed # 1..nAdded) ~> (executed = 1..nAdded \/ stage = "done" \/ CaughtWaiting)

(* Shutdown comes to its end: no thread it joins waits for one already     *)
(* stopped, but for the case above.                                        *)
ShutdownCompletes == (stage # "run") ~> (stage = "done" \/ CaughtWaiting)

(* No accepted request stays in the work queue: a worker takes it or the   *)
(* server is stopped.                                                      *)
RequestsTaken == (workQueue > 0) ~> (workQueue = 0)
=============================================================================
