---------------------------- MODULE Applications ----------------------------
(***************************************************************************)
(* The server processes of the benchmark: one application, chosen when the *)
(* process starts, on top of the harness.  What the harness and the one    *)
(* who runs the benchmark rely on is stated here, for all applications.    *)
(***************************************************************************)
EXTENDS WorkerLoops, ThreadPool

CONSTANT Programs   \* the applications considered

ASSUME ProgramsAssumption == Programs \subseteq Loops \cup {"moses"}

appVars == <<program, apiVars, loopVars, poolVars>>

AppInit ==
    /\ program \in Programs
    /\ tBenchServerInit
    /\ IF program = "moses"
       THEN /\ PoolInit
            /\ total = 0 /\ own = [w \in Workers |-> 0] /\ running = TRUE
       ELSE /\ LoopsInit
            /\ m_tasks = 0 /\ m_stopping = FALSE /\ m_stopped = FALSE
            /\ submitted = 0 /\ drains = FALSE

LoopsStep(A) == program # "moses" /\ A /\ UNCHANGED <<program, poolVars>>
PoolStep(A)  == program = "moses" /\ A /\ UNCHANGED <<program, loopVars>>

AppNext == LoopsStep(LoopsNext) \/ PoolStep(PoolNext)

(***************************************************************************)
(* Fairness: every thread is scheduled.  A retried transaction commits in  *)
(* the end (an answer stays possible while it is retried), the time of     *)
(* silo runs out, and nothing makes a waiter wake up without a notice.     *)
(***************************************************************************)
AppSpec ==
    /\ AppInit /\ [][AppNext]_appVars
    /\ WF_appVars(LoopsStep(Rendezvous \/ TimeIsOver))
    /\ WF_appVars(LoopsStep(MainJoins \/ (tBenchServerFinish /\ UNCHANGED loopVars)))
    /\ WF_appVars(PoolStep(PoolMain))
    /\ \A w \in Workers :
          /\ WF_appVars(LoopsStep(Start(w) \/ LoopHead(w) \/ CountProcessed(w)))
          /\ WF_appVars(LoopsStep(Receive(w)))
          /\ WF_appVars(LoopsStep(Answer(w)))
          /\ WF_appVars(PoolStep(Execute(w)))

-----------------------------------------------------------------------------

(* The slots of the harness: a thread that has started has a number below  *)
(* the nthreads given to tBenchServerInit, and no two have the same, so no *)
(* thread reads into the reqbuf[tid], reqInfo[tid] or activeFds[tid] of    *)
(* another (tid = curTid++ in tBenchServerThreadStart).                    *)
SlotsAreOwn ==
    \A v, w \in Workers :
        /\ tid[v] < NThreads
        /\ pc[v] \notin {"born", "barrier", "start"} => tid[v] >= 0
        /\ v # w /\ tid[v] = tid[w] => tid[v] = NoTid

(* When a program calls tBenchServerFinish, every request handed to one of *)
(* its threads has been answered and no thread will ask for another: the   *)
(* threads are joined first.  silo with a time gives up transactions that  *)
(* abort after the time is over; those requests are not answered.          *)
FinishIsQuiet ==
    finished => /\ \A w \in Workers : pc[w] = "done"
                /\ program # "silo-timed" => answered = received

(* The requests a program serves.  img-dnn and moses serve at most the     *)
(* number they were given; xapian checks the count before it receives and  *)
(* raises it after it has answered, so every other thread may serve one    *)
(* more; silo and shore serve that number in each thread.                  *)
MostServed ==
    CASE program = "xapian"  -> Quota + NThreads - 1
      [] program = "img-dnn" -> Quota
      [] program = "moses"   -> NumTasks
      [] program \in {"silo", "shore"} -> NThreads * Quota
      [] OTHER -> MaxOffered

ServesNoMore == received <= MostServed

(* "Wait until all queued jobs have completed, and shut down the           *)
(* ThreadPool" (ThreadPool.h:78): when moses calls tBenchServerFinish each *)
(* of its tasks has run once.                                              *)
StopRunsEveryTask == finished /\ program = "moses" => answered = NumTasks /\ m_tasks = 0

(* A program that counts requests ends, however its threads interleave, if *)
(* the clients send as many requests as it may serve: no thread is left    *)
(* in tBenchRecvReq, no wake-up of the pool is lost.  xapian needs more    *)
(* requests than the number it was given.                                  *)
ProgramEnds ==
    (program \notin {"sphinx", "silo-timed"} /\ offered >= MostServed) => <>(main = "ended")

-----------------------------------------------------------------------------
(***************************************************************************)
(* What makes the properties inductive.  ApplicationsProofs proves it.     *)
(***************************************************************************)

(* The workers at one of the control points S, and their number. *)
At(S) == {w \in Workers : pc[w] \in S}
In(S) == Cardinality(At(S))

Before == {"born", "barrier", "start"}
Stopped == {"setStopped", "notifyNeeded", "joinAll", "finish", "ended"}

WorkerPoints ==
    Before \cup {"loop", "recv", "work", "count", "done", "take", "idle", "woken", "notify"}
MainPoints == {"join", "submit", "stop", "drain", "draining"} \cup Stopped

AppTypeOK ==
    /\ program \in Loops \cup {"moses"}
    /\ pc \in [Workers -> WorkerPoints]
    /\ main \in MainPoints
    /\ {offered, received, answered, total, m_tasks, submitted} \subseteq Nat
    /\ own \in [Workers -> Nat]

(* curTid counts the threads that have started. *)
SlotInv ==
    /\ curTid = Cardinality({w \in Workers : pc[w] \notin Before})
    /\ tid \in [Workers -> Int]
    /\ \A w \in Workers :
          IF pc[w] \in Before THEN tid[w] = NoTid ELSE 0 <= tid[w] /\ tid[w] < curTid
    /\ \A v, w \in Workers : v # w /\ tid[v] = tid[w] => tid[v] = NoTid

(* The threads are joined before main finishes or ends. *)
MainInv ==
    /\ main \in {"finish", "ended"} => Joined
    /\ finished => main = "ended"
    /\ program # "silo-timed" => running

(* A request that was received is being served or has been answered. *)
ServeInv ==
    /\ offered + received <= MaxOffered
    /\ program # "silo-timed" => received = answered + In({"work"})

(* xapian: a thread that may still receive has passed the test of the count *)
(* before the others raised it.                                             *)
XapianInv ==
    /\ received = total + In({"work", "count"})
    /\ total + In({"recv", "work", "count"}) <= Quota + NThreads - 1

(* img-dnn: the count was raised for each thread that may still receive. *)
ImgDnnInv ==
    /\ received + In({"recv"}) <= total
    /\ received + In({"recv"}) <= Quota

(* silo and shore: the requests received, as pairs of a worker and a number *)
(* within its quota.                                                        *)
Taken ==
    {p \in Workers \X (1 .. Quota) :
       p[2] <= own[p[1]] + (IF pc[p[1]] = "work" THEN 1 ELSE 0)}

OwnInv ==
    /\ \A w \in Workers :
          own[w] + (IF pc[w] \in {"recv", "work"} THEN 1 ELSE 0) <= Quota
    /\ received = Cardinality(Taken)

(* moses: a task is queued, about to receive its request, or has received  *)
(* it; main sets m_stopped only after the queue has drained, unless the    *)
(* input was too short.                                                    *)
PoolInv ==
    /\ received + In({"recv"}) + m_tasks = submitted
    /\ submitted <= NumTasks
    /\ m_stopped => main \in Stopped \ {"setStopped"}
    /\ main \in {"submit", "drain", "draining", "finish"} => drains
    /\ finished => drains
    /\ drains /\ main # "submit" => submitted = NumTasks
    /\ drains /\ main \in Stopped => m_tasks = 0

AppInv ==
    /\ AppTypeOK /\ SlotInv /\ MainInv /\ ServeInv
    /\ program = "xapian" => XapianInv
    /\ program = "img-dnn" => ImgDnnInv
    /\ program \in {"silo", "shore"} => OwnInv
    /\ program = "moses" => PoolInv
=============================================================================
