-------------------------- MODULE IntegratedServer --------------------------
(***************************************************************************)
(* class IntegratedServer of harness/tbench_server_integrated.cpp: server  *)
(* and client in one process.  Each application thread generates its own   *)
(* request with Client::startReq, processes it and retires it with         *)
(* Client::finiReq; the Server part of the class counts finished requests. *)
(* The constructor passes 0 for the Client's own warmupreq and maxreq.     *)
(* The thread's reqInfo entry always equals its req and is not kept apart. *)
(***************************************************************************)
EXTENDS Client

CONSTANTS WarmupChoices,  \* values of TBENCH_WARMUPREQS to consider
          MaxChoices      \* values of TBENCH_MAXREQS to consider

ASSUME IntegratedAssumption ==
  /\ WarmupReqs = 0
  /\ MaxReqs = 0
  /\ WarmupChoices \subseteq Nat
  /\ MaxChoices \subseteq Nat

VARIABLES warmupReqs, maxReqs, finishedReqs  \* members of class Server

serverVars == <<warmupReqs, maxReqs, finishedReqs>>
vars == <<clientVars, serverVars>>

Init ==
  /\ InitClient
  /\ pc = [t \in Threads |-> "startReq"]
  /\ warmupReqs \in WarmupChoices
  /\ maxReqs \in MaxChoices
  /\ finishedReqs = 0

\* recvReq: Client::startReq, then reqInfo[id].
RecvReq(t) ==
  /\ \/ StartReq(t)
     \/ BarrierWait(t)
     \/ InitDist(t)
     \/ CheckRoi(t)
     \/ VaryQps(t)
     \/ GenReq(t, "serve")
  /\ UNCHANGED serverVars

\* The application processes the request and calls sendResp.
Process(t) ==
  /\ Goto(t, "serve", "fini")
  /\ UNCHANGED <<proc, initVars, reqVars, countVars, statVars, qpsVars, serverVars>>

\* sendResp, first half: Client::finiReq.
SendRespFini(t) ==
  /\ finiReq(t, req[t], "count")
  /\ UNCHANGED serverVars

\* sendResp, second half, under lock again: count the request, begin the region
\* of interest, or publish and exit_group with the lock held.
CountWarmedUp ==
  /\ finishedReqs' = warmupReqs
  /\ AssertElseAbort(status = "WARMUP")
  /\ _startRoi
  /\ UNCHANGED latsFile

CountLast ==
  /\ finishedReqs' # warmupReqs
  /\ finishedReqs' = warmupReqs + maxReqs
  /\ dumpStats(sjrnTimes, numReqsCompleted)
  /\ proc' = "exited"
  /\ UNCHANGED <<status, qpsCounter, sjrnTimes, sent_requests>>

CountOther ==
  /\ finishedReqs' \notin {warmupReqs, warmupReqs + maxReqs}
  /\ UNCHANGED <<proc, status, qpsCounter, statVars>>

SendRespCount(t) ==
  /\ Goto(t, "count", "startReq")
  /\ finishedReqs' = finishedReqs + 1
  /\ CountWarmedUp \/ CountLast \/ CountOther
  /\ UNCHANGED <<dist, barrier, reqVars, countVars, qpsIni, qpsInterval, idxListQPS,
                 warmupReqs, maxReqs>>

Thread(t) == RecvReq(t) \/ Process(t) \/ SendRespFini(t) \/ SendRespCount(t)

Ended ==
  /\ proc # "running"
  /\ UNCHANGED vars

Next ==
  \/ /\ proc = "running"
     /\ \E t \in Threads : Thread(t)
  \/ Ended

Spec == Init /\ [][Next]_vars

-----------------------------------------------------------------------------
(* Properties.                                                             *)

\* The request a thread processes is its own and still in flight until the
\* thread itself retires it.
OwnRequestInFlight ==
  \A t \in Threads :
    pc[t] \in {"serve", "fini"} =>
      /\ req[t] \in inFlightReqs
      /\ \A u \in Threads \ {t} : req[u] # req[t]

\* assert(status == WARMUP) in _startRoi (client.cpp:394): the region of
\* interest begins once, from WARMUP.
RoiBeginsOnce == proc # "aborted"

-----------------------------------------------------------------------------
(***************************************************************************)
(* What makes the properties inductive.  IntegratedServerProofs proves it. *)
(***************************************************************************)

ThreadPC == {"startReq", "barrier1", "init", "barrier2", "roi", "qps", "gen",
             "serve", "fini", "count"}

IntegratedTypeOK ==
  /\ pc \in [Threads -> ThreadPC]
  /\ req \in [Threads -> Nat \cup {NoReq}]
  /\ status \in {"INIT", "WARMUP", "ROI"}
  /\ dist \in Nat
  /\ barrier \subseteq Threads
  /\ startedReqs \in Nat
  /\ inFlightReqs \subseteq Nat
  /\ qpsIni \in Nat \ {0}
  /\ idxListQPS \in Nat

\* The distribution exists once the start-up section has been entered, with
\* the rate in force; before that the threads wait for each other, and all
\* leave the first barrier together.
StartUpInv ==
  /\ \A t \in barrier : pc[t] \in {"barrier1", "barrier2"}
  /\ dist = 0 <=> status = "INIT"
  /\ dist # 0 => dist = (IF QpsVar = 0 THEN Qps ELSE qpsIni)
  /\ status = "INIT" =>
       \/ \A t \in Threads : pc[t] \in {"startReq", "barrier1"}
       \/ barrier = {} /\ \A t \in Threads : pc[t] = "init"

\* No id is given out twice, and only its thread retires a request.
OwnerInv ==
  /\ \A id \in inFlightReqs : id < startedReqs
  /\ \A t \in Threads : req[t] < startedReqs
  /\ \A t, u \in Threads : t # u /\ req[t] = req[u] => req[t] = NoReq
  /\ \A t \in Threads : pc[t] \in {"serve", "fini"} => req[t] \in inFlightReqs

IntegratedInv == IntegratedTypeOK /\ StartUpInv /\ OwnerInv

=============================================================================
