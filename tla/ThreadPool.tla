----------------------------- MODULE ThreadPool -----------------------------
(***************************************************************************)
(* moses: a pool of threads that run translation tasks (ThreadPool.cpp),   *)
(* and the main program that submits them (Main.cpp).  A task receives one *)
(* request from the harness and answers it, whatever sentence it was made  *)
(* for, so m_tasks is the number of queued tasks.  A region guarded by     *)
(* m_mutex is one step; a wait on a condition variable ends it.            *)
(***************************************************************************)
EXTENDS TBenchServer

CONSTANT NumTasks   \* the option -num-tasks

ASSUME NumTasksAssumption == NumTasks \in Nat

VARIABLES
    m_tasks,      \* length of the queue
    m_stopping,   \* no more tasks are accepted
    m_stopped,    \* the threads are to end
    submitted,    \* i in the loop of main
    drains        \* Stop's argument processRemainingJobs

poolVars == <<m_tasks, m_stopping, m_stopped, submitted, drains>>

PoolInit ==
    /\ m_tasks = 0
    /\ m_stopping = FALSE
    /\ m_stopped = FALSE
    /\ submitted = 0
    /\ drains = TRUE
    /\ pc = [w \in Workers |-> "start"]
    /\ main = "submit"

(* m_threadNeeded.notify_all: every thread waiting for a task wakes up.    *)
ThreadNeeded == pc' = [w \in Workers |-> IF pc[w] = "idle" THEN "woken" ELSE pc[w]]

StartExecute(w) == tBenchServerThreadStart(w, "take") /\ UNCHANGED poolVars

WaitForTask(w) ==
    /\ m_tasks = 0 /\ ~m_stopped
    /\ Goto(w, "take", "idle")
    /\ UNCHANGED m_tasks

(* The test after the wait: the wait may have ended for nothing, and       *)
(* another thread may have taken the task.                                 *)
TakeTask(w) ==
    /\ \/ pc[w] = "woken"
       \/ pc[w] = "take" /\ (m_tasks > 0 \/ m_stopped)
    /\ \/ /\ ~m_stopped /\ m_tasks > 0
          /\ m_tasks' = m_tasks - 1
          /\ pc' = [pc EXCEPT ![w] = "recv"]
       \/ /\ m_stopped \/ m_tasks = 0
          /\ UNCHANGED m_tasks
          /\ pc' = [pc EXCEPT ![w] = "notify"]

SpuriousWakeup(w) == Goto(w, "idle", "woken") /\ UNCHANGED m_tasks

FindJob(w) ==
    /\ WaitForTask(w) \/ TakeTask(w)
    /\ UNCHANGED <<curTid, tid, offered, received, answered, finished, main>>
    /\ UNCHANGED <<m_stopping, m_stopped, submitted, drains>>

(* task->Run(): the request is received first and answered last. *)
RunReceives(w) == tBenchRecvReq(w) /\ UNCHANGED poolVars

RunAnswers(w) == tBenchSendResp(w, "notify") /\ UNCHANGED poolVars

(* Faulty: the thread that waits for the queue to drain is not told. *)
ThreadAvailableSilent == UNCHANGED main

(* m_threadAvailable.notify_all: Stop may be waiting for the queue. *)
ThreadAvailable == main' = IF main = "draining" THEN "drain" ELSE main

NotifyAvailable(w) ==
    /\ Goto(w, "notify", "loop")
    /\ ThreadAvailable
    /\ UNCHANGED <<curTid, tid, offered, received, answered, finished>>
    /\ UNCHANGED poolVars

(* while (!m_stopped), read without the mutex. *)
LoopEnd(w) ==
    /\ Goto(w, "loop", IF m_stopped THEN "done" ELSE "take")
    /\ UNCHANGED <<curTid, tid, offered, received, answered, finished, main>>
    /\ UNCHANGED poolVars

Execute(w) ==
    \/ StartExecute(w) \/ FindJob(w) \/ RunReceives(w) \/ RunAnswers(w)
    \/ NotifyAvailable(w) \/ LoopEnd(w)

Spurious(w) ==
    /\ SpuriousWakeup(w)
    /\ UNCHANGED <<curTid, tid, offered, received, answered, finished, main>>
    /\ UNCHANGED <<m_stopping, m_stopped, submitted, drains>>

(* m_queueLimit is 0 (nobody sets it), so Submit never blocks, and it is   *)
(* called by the thread that calls Stop, so m_stopping is FALSE.           *)
Submit ==
    /\ main = "submit" /\ submitted < NumTasks
    /\ m_tasks' = m_tasks + 1
    /\ submitted' = submitted + 1
    /\ ThreadNeeded
    /\ UNCHANGED <<m_stopping, m_stopped, drains, main>>

(* The input has fewer sentences than tasks: main returns, and the         *)
(* destructor of the pool calls Stop(false).                               *)
ReadInputFails ==
    /\ main = "submit" /\ submitted < NumTasks
    /\ drains' = FALSE
    /\ main' = "stop"
    /\ UNCHANGED <<m_tasks, m_stopping, m_stopped, submitted, pc>>

AllSubmitted ==
    /\ main = "submit" /\ submitted = NumTasks
    /\ main' = "stop"
    /\ UNCHANGED poolVars /\ UNCHANGED pc

(* Stop, one step for each region guarded by m_mutex. *)
Stopping ==
    /\ main = "stop"
    /\ m_stopping' = TRUE
    /\ main' = IF drains THEN "drain" ELSE "setStopped"
    /\ UNCHANGED <<m_tasks, m_stopped, submitted, drains, pc>>

(* Faulty: the queue is not looked at. *)
DrainAtOnce ==
    /\ main = "drain"
    /\ main' = "setStopped"
    /\ UNCHANGED poolVars /\ UNCHANGED pc

Drain ==
    /\ main = "drain"
    /\ main' = IF m_tasks > 0 /\ ~m_stopped THEN "draining" ELSE "setStopped"
    /\ UNCHANGED poolVars /\ UNCHANGED pc

SpuriousDrain ==
    /\ main = "draining"
    /\ main' = "drain"
    /\ UNCHANGED poolVars /\ UNCHANGED pc

SetStopped ==
    /\ main = "setStopped"
    /\ m_stopped' = TRUE
    /\ main' = "notifyNeeded"
    /\ UNCHANGED <<m_tasks, m_stopping, submitted, drains, pc>>

NotifyNeeded ==
    /\ main = "notifyNeeded"
    /\ ThreadNeeded
    /\ main' = "joinAll"
    /\ UNCHANGED poolVars

JoinPool ==
    /\ main = "joinAll" /\ Joined
    /\ main' = IF drains THEN "finish" ELSE "ended"
    /\ UNCHANGED poolVars /\ UNCHANGED pc

PoolMain ==
    \/ /\ Submit \/ ReadInputFails \/ AllSubmitted \/ Stopping \/ Drain \/ SetStopped
          \/ NotifyNeeded \/ JoinPool
       /\ UNCHANGED <<curTid, tid, offered, received, answered, finished>>
    \/ tBenchServerFinish /\ UNCHANGED poolVars

PoolNext ==
    \/ \E w \in Workers : Execute(w) \/ Spurious(w)
    \/ PoolMain
    \/ SpuriousDrain /\ UNCHANGED <<curTid, tid, offered, received, answered, finished>>
=============================================================================
