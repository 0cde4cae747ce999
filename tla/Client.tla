------------------------------- MODULE Client -------------------------------
(***************************************************************************)
(* class Client of harness/client.cpp: the load generator and the          *)
(* measurement state shared by the networked client (NetworkedClient) and  *)
(* by the integrated server (IntegratedServer), which inherits from it.    *)
(*                                                                         *)
(* Every region guarded by the mutex "lock" is one step: no thread blocks  *)
(* while it holds that mutex, and the variables used inside are only used  *)
(* under it, with two exceptions that are kept as separate steps: the      *)
(* unlocked reads of status in startReq, and sent_requests, which send()   *)
(* updates under another mutex (see NetworkedClient).                      *)
(*                                                                         *)
(* Time is left out, and with it what is only computed from time: arrival  *)
(* times, late requests, latencies, timely_gen_requests and the *_ns sums. *)
(***************************************************************************)
EXTENDS Integers, Sequences, FiniteSets

CONSTANTS
  Threads,      \* the nthreads threads that call startReq()
  WarmupReqs,   \* constructor argument warmupreq
  MaxReqs,      \* constructor argument maxreq
  QpsVar,       \* TBENCH_VARQPS: 0 fixed rate, 1 stepped, 2 cyclic
  Qps,          \* TBENCH_QPS
  IniQps,       \* TBENCH_INIQPS
  StepQps,      \* TBENCH_STEPQPS
  IntervalQps,  \* TBENCH_INTERVALQPS
  NextQps       \* <<TBENCH_QPS_1, ..., TBENCH_QPS_4>>

ASSUME ClientAssumption ==
  /\ Threads # {}
  /\ IsFiniteSet(Threads)
  /\ WarmupReqs \in Nat
  /\ MaxReqs \in Nat
  /\ QpsVar \in 0..2
  /\ {Qps, IniQps, StepQps} \subseteq Nat \ {0}
  /\ IntervalQps \in Nat
  /\ NextQps \in Seq(Nat \ {0})

listQPS == <<IniQps>> \o NextQps

(* The code scales intervals with doubles.  Between rates whose ratio is a *)
(* power of two that arithmetic is exact, so integers model it exactly;    *)
(* the instances are restricted to such rates.                             *)
Doublings == {1, 2, 4, 8, 16, 32, 64, 128, 256, 512, 1024}
ASSUME RatesExact ==
  \A i, j \in DOMAIN listQPS :
    \E k \in Doublings :
      \/ listQPS[i] = listQPS[j] * k
      \/ listQPS[j] = listQPS[i] * k

VARIABLES
  proc,                 \* the process: "running" or how it ended
  pc,                   \* control point of every thread of the process
  req,                  \* the id of the Request each thread got from startReq
  status,               \* ClientStatus
  dist,                 \* rate of the ExpDist in use, 0 for nullptr
  barrier,              \* threads blocked on the barrier
  startedReqs,
  inFlightReqs,         \* ids in the map; the Request objects not yet deleted
  numReqsSent,
  numReqsCompleted,
  sjrnTimes,            \* length of the five latency vectors
  gen_requests,
  sent_requests,
  latsFile,             \* tuples in lats_<id>.bin, NoFile before dumpStats
  qpsIni, qpsInterval, qpsCounter, idxListQPS

NoFile == -1
NoReq == -1

initVars == <<status, dist, barrier>>
reqVars == <<req, startedReqs, inFlightReqs>>
countVars == <<numReqsSent, numReqsCompleted>>
statVars == <<sjrnTimes, gen_requests, sent_requests, latsFile>>
qpsVars == <<qpsIni, qpsInterval, qpsCounter, idxListQPS>>
clientVars == <<proc, pc, initVars, reqVars, countVars, statVars, qpsVars>>

Goto(t, from, to) ==
  /\ pc[t] = from
  /\ pc' = [pc EXCEPT ![t] = to]

-----------------------------------------------------------------------------
(* Client::Client.  qpsCounter is left uninitialised by the constructor;   *)
(* it is not read before _startRoi sets it.                                *)

InitClient ==
  /\ proc = "running"
  /\ req = [t \in Threads |-> NoReq]
  /\ status = "INIT"
  /\ dist = 0
  /\ barrier = {}
  /\ startedReqs = 0
  /\ inFlightReqs = {}
  /\ numReqsSent = 0
  /\ numReqsCompleted = 0
  /\ sjrnTimes = 0
  /\ gen_requests = 0
  /\ sent_requests = 0
  /\ latsFile = NoFile
  /\ qpsIni = IniQps
  /\ qpsInterval = IntervalQps
  /\ qpsCounter = 0
  /\ idxListQPS = 1

-----------------------------------------------------------------------------
(* Client::startReq, from the first read of status to the return.          *)

\* if (status == INIT), read without the lock.
StartReq(t) ==
  /\ Goto(t, "startReq", IF status = "INIT" THEN "barrier1" ELSE "roi")
  /\ UNCHANGED <<proc, initVars, reqVars, countVars, statVars, qpsVars>>

\* Where a thread continues once the barrier it waits on is released.
AfterBarrier == [barrier1 |-> "init", barrier2 |-> "roi"]

\* pthread_barrier_wait: the last of the nthreads threads releases the others.
BarrierWait(t) ==
  /\ pc[t] \in {"barrier1", "barrier2"}
  /\ t \notin barrier
  /\ IF barrier \cup {t} = Threads
     THEN /\ barrier' = {}
          /\ pc' = [u \in DOMAIN pc |->
                      IF u \in Threads THEN AfterBarrier[pc[u]] ELSE pc[u]]
     ELSE /\ barrier' = barrier \cup {t}
          /\ UNCHANGED pc
  /\ UNCHANGED <<proc, status, dist, reqVars, countVars, statVars, qpsVars>>

\* Faulty: every thread re-initialises the barrier.
InitDistEveryThread(t) ==
  /\ Goto(t, "init", "barrier2")
  /\ dist' = IF QpsVar = 0 THEN Qps ELSE qpsIni
  /\ status' = "WARMUP"
  /\ barrier' = {}
  /\ UNCHANGED <<proc, reqVars, countVars, statVars, qpsVars>>

\* Under lock: the first thread creates the distribution and re-initialises
\* the barrier; the others find dist set.
InitDist(t) ==
  /\ Goto(t, "init", "barrier2")
  /\ IF dist = 0
     THEN /\ dist' = IF QpsVar = 0 THEN Qps ELSE qpsIni
          /\ status' = "WARMUP"
          /\ barrier' = {}
     ELSE UNCHANGED initVars
  /\ UNCHANGED <<proc, reqVars, countVars, statVars, qpsVars>>

\* if (status == ROI && qpsVar), read without the lock.
CheckRoi(t) ==
  /\ Goto(t, "roi", IF status = "ROI" /\ QpsVar # 0 THEN "qps" ELSE "gen")
  /\ UNCHANGED <<proc, initVars, reqVars, countVars, statVars, qpsVars>>

\* Faulty: the interval is truncated.
ScaledIntervalTruncated(newqps) ==
  (qpsInterval * newqps) \div qpsIni

\* The interval for the rate newqps, proportional to the rate.
ScaledInterval(newqps) ==
  (qpsInterval * newqps) \div qpsIni + (IF newqps < qpsIni THEN 1 ELSE 0)

StepRate ==
  /\ QpsVar = 1
  /\ qpsIni' = qpsIni + StepQps
  /\ UNCHANGED <<qpsInterval, idxListQPS>>

NextRate ==
  LET newqps == listQPS[(idxListQPS % Len(listQPS)) + 1]
  IN  /\ QpsVar = 2
      /\ qpsInterval' = ScaledInterval(newqps)
      /\ qpsIni' = newqps
      /\ idxListQPS' = idxListQPS + 1

\* Faulty: the counter is not reset.
ChangeRateKeepingCounter ==
  /\ StepRate \/ NextRate
  /\ dist' = qpsIni'
  /\ UNCHANGED qpsCounter

\* Faulty: the distribution is not re-created.
ChangeRateKeepingDist ==
  /\ StepRate \/ NextRate
  /\ qpsCounter' = 0
  /\ UNCHANGED dist

\* The new rate, its distribution, and the counter from 0 again.
ChangeRate ==
  /\ StepRate \/ NextRate
  /\ dist' = qpsIni'
  /\ qpsCounter' = 0

\* Under lock: count the request, or change the rate when the interval is over.
VaryQps(t) ==
  /\ Goto(t, "qps", "gen")
  /\ \/ /\ qpsCounter = qpsInterval
        /\ ChangeRate
     \/ /\ qpsCounter # qpsInterval
        /\ qpsCounter' = qpsCounter + 1
        /\ UNCHANGED <<dist, qpsIni, qpsInterval, idxListQPS>>
  /\ UNCHANGED <<proc, status, barrier, reqVars, countVars, statVars>>

\* Faulty: the ids are drawn without the lock and an increment may be lost.
GenReqUnlocked(t, next) ==
  /\ Goto(t, "gen", next)
  /\ req' = [req EXCEPT ![t] = startedReqs]
  /\ \E inc \in {0, 1} : startedReqs' = startedReqs + inc
  /\ inFlightReqs' = inFlightReqs \cup {startedReqs}
  /\ gen_requests' = gen_requests + 1
  /\ UNCHANGED <<proc, initVars, countVars, sjrnTimes, sent_requests, latsFile, qpsVars>>

\* Under lock: generate the request and register it as in flight.  The sleep
\* until its arrival time follows; it changes nothing modelled here.
GenReq(t, next) ==
  /\ Goto(t, "gen", next)
  /\ req' = [req EXCEPT ![t] = startedReqs]
  /\ startedReqs' = startedReqs + 1
  /\ inFlightReqs' = inFlightReqs \cup {startedReqs}
  /\ gen_requests' = gen_requests + 1
  /\ UNCHANGED <<proc, initVars, countVars, sjrnTimes, sent_requests, latsFile, qpsVars>>

-----------------------------------------------------------------------------
(* Client::finiReq, one region under lock.  An assertion that fails aborts *)
(* the process; the memory it leaves behind is then of no account.  The    *)
(* assertion on the clock holds by TimedClient!SojournCoversNic.           *)

AssertElseAbort(cond) == proc' = IF cond THEN proc ELSE "aborted"

completedNow == numReqsCompleted + 1

\* Faulty: warmup requests are measured as well.
recordedAlways == sjrnTimes + 1

\* The latency vectors after the push_backs of finiReq.
recordedNow == IF status = "ROI" THEN sjrnTimes + 1 ELSE sjrnTimes

\* Faulty: true after the warmup, too.
StartsRoiAgain == completedNow >= WarmupReqs

StartsRoi == completedNow = WarmupReqs \/ WarmupReqs = 0

\* Faulty: the warmup requests are not added to the budget.
IsLastWithoutWarmup == ~StartsRoi /\ completedNow >= MaxReqs

IsLast == ~StartsRoi /\ completedNow >= WarmupReqs + MaxReqs

\* Faulty: the rate counter starts one short.
_startRoiOneShort ==
  /\ status' = "ROI"
  /\ qpsCounter' = -1
  /\ sjrnTimes' = 0
  /\ gen_requests' = 0
  /\ sent_requests' = 0

\* The assignments of Client::_startRoi.
_startRoi ==
  /\ status' = "ROI"
  /\ qpsCounter' = 0
  /\ sjrnTimes' = 0
  /\ gen_requests' = 0
  /\ sent_requests' = 0

\* Client::dumpStats: the file, and the printed count of generated requests.
dumpStats(recorded, completed) ==
  /\ latsFile' = recorded
  /\ gen_requests' = completed - WarmupReqs

\* delete req; inFlightReqs.erase(it); ++numReqsCompleted
Retire(id) ==
  /\ inFlightReqs' = inFlightReqs \ {id}
  /\ numReqsCompleted' = completedNow
  /\ UNCHANGED <<dist, barrier, req, startedReqs, numReqsSent>>

\* The response that ends the warmup.
FiniStartsRoi(t, id, next) ==
  /\ StartsRoi
  /\ Goto(t, "fini", next)
  /\ AssertElseAbort(id \in inFlightReqs /\ status = "WARMUP")
  /\ Retire(id)
  /\ _startRoi
  /\ UNCHANGED <<latsFile, qpsIni, qpsInterval, idxListQPS>>

\* A response that is only counted, and measured in the region of interest.
FiniCounts(t, id, next) ==
  /\ ~StartsRoi
  /\ ~IsLast
  /\ Goto(t, "fini", next)
  /\ AssertElseAbort(id \in inFlightReqs)
  /\ Retire(id)
  /\ sjrnTimes' = recordedNow
  /\ UNCHANGED <<status, gen_requests, sent_requests, latsFile, qpsVars>>

\* The last response: dumpStats, then the mutex is released before exit_group.
FiniDumps(t, id) ==
  /\ IsLast
  /\ Goto(t, "fini", "exit_group")
  /\ AssertElseAbort(id \in inFlightReqs)
  /\ Retire(id)
  /\ sjrnTimes' = recordedNow
  /\ dumpStats(recordedNow, completedNow)
  /\ UNCHANGED <<status, sent_requests, qpsVars>>

finiReq(t, id, next) ==
  \/ FiniStartsRoi(t, id, next)
  \/ FiniCounts(t, id, next)
  \/ FiniDumps(t, id)

-----------------------------------------------------------------------------
(* Properties of the shared class, whoever calls it.                       *)

\* No thread that waits on the start-up barrier is forgotten: it stays in the
\* barrier until it is released, although startReq destroys and re-initialises
\* the barrier between its two waits.
NoWaiterForgotten ==
  [][\A t \in barrier : t \in barrier' \/ pc'[t] # pc[t]]_clientVars

\* When a request is generated the distribution exists and has the rate in
\* force, whichever thread created it.
RateInForce ==
  \A t \in Threads :
    pc[t] = "gen" => dist = (IF QpsVar = 0 THEN Qps ELSE qpsIni)

\* While in the region of interest the rate counter stays within the interval,
\* so that the equality test in startReq cannot be stepped over.
CounterWithinInterval == status = "ROI" => qpsCounter <= qpsInterval

\* With TBENCH_VARQPS=2 the client stays at a rate at least as long as at the
\* first one: interval/rate never drops.
StaysAtLeastAsLong ==
  QpsVar = 2 => qpsInterval * IniQps >= IntervalQps * qpsIni

=============================================================================
