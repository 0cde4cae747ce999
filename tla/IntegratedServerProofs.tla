---------------------- MODULE IntegratedServerProofs -----------------------
(***************************************************************************)
(* Proofs about IntegratedServer, for any number of threads and any rates: *)
(* IntegratedInv is inductive, and the properties follow from it.          *)
(***************************************************************************)
EXTENDS IntegratedServer, TLAPS

-----------------------------------------------------------------------------
(* What most steps leave alone. *)

\* A thread's move, and the threads it leaves where they are.
LEMMA Moves ==
  ASSUME IntegratedTypeOK, NEW t \in Threads, NEW a, NEW b \in ThreadPC, Goto(t, a, b)
  PROVE  /\ pc[t] = a /\ pc'[t] = b
         /\ \A u \in Threads \ {t} : pc'[u] = pc[u]
         /\ pc' \in [Threads -> ThreadPC]
BY Zenon DEF IntegratedTypeOK, Goto

\* Steps that neither give out nor retire a request.
LEMMA OwnerKept ==
  ASSUME OwnerInv, UNCHANGED reqVars,
         \A u \in Threads : pc'[u] \in {"serve", "fini"} => pc[u] \in {"serve", "fini"}
  PROVE  OwnerInv'
BY Zenon DEF OwnerInv, reqVars

\* Steps after the start-up section that leave the rate alone.
LEMMA StartUpKept ==
  ASSUME StartUpInv, status # "INIT", status' # "INIT", UNCHANGED <<dist, barrier, qpsIni>>,
         \A u \in barrier : pc'[u] = pc[u]
  PROVE  StartUpInv'
BY Zenon DEF StartUpInv

\* The initial rate or the rate in force is a rate.
LEMMA RatesPositive == Qps \in Nat \ {0} /\ IniQps \in Nat \ {0}
BY ClientAssumption, Zenon

\* A thread beyond the start-up section finds the distribution in place.
LEMMA PastStartUp ==
  ASSUME StartUpInv, NEW t \in Threads, pc[t] \notin {"startReq", "barrier1", "init"}
  PROVE  status # "INIT"
BY Zenon DEF StartUpInv

-----------------------------------------------------------------------------
(* Client::startReq. *)

\* The unlocked read of status at the entry.
LEMMA StepStartReq ==
  ASSUME IntegratedInv, NEW t \in Threads, StartReq(t)
  PROVE  IntegratedInv'
<1> DEFINE b == IF status = "INIT" THEN "barrier1" ELSE "roi"
<1>0. /\ IntegratedTypeOK /\ StartUpInv /\ OwnerInv
      /\ Goto(t, "startReq", b) /\ b \in ThreadPC
      /\ UNCHANGED <<status, dist, barrier, reqVars, qpsIni, idxListQPS>>
  BY Zenon DEF IntegratedInv, StartReq, initVars, qpsVars, ThreadPC
<1>1. /\ pc[t] = "startReq" /\ pc'[t] = b
      /\ \A u \in Threads \ {t} : pc'[u] = pc[u]
      /\ pc' \in [Threads -> ThreadPC]
  BY <1>0, Moves, Zenon
<1>2. IntegratedTypeOK'
  BY <1>0, <1>1, Zenon DEF IntegratedTypeOK, reqVars
<1>3. StartUpInv'
  <2>1. t \notin barrier /\ \A u \in barrier : pc'[u] = pc[u]
    BY <1>0, <1>1, Zenon DEF StartUpInv, IntegratedTypeOK
  <2>2. CASE status = "INIT"
    <3>1. \A u \in Threads : pc'[u] \in {"startReq", "barrier1"}
      BY <1>0, <1>1, <2>2, Zenon DEF StartUpInv
    <3> QED BY <1>0, <2>1, <2>2, <3>1, Zenon DEF StartUpInv
  <2>3. CASE status # "INIT"
    BY <1>0, <2>1, <2>3, StartUpKept, Zenon
  <2> QED BY <2>2, <2>3, Zenon
<1>4. OwnerInv'
  BY <1>0, <1>1, OwnerKept, Zenon
<1> QED BY <1>2, <1>3, <1>4, Zenon DEF IntegratedInv

\* The two waits on the barrier.
LEMMA StepBarrierWait ==
  ASSUME IntegratedInv, NEW t \in Threads, BarrierWait(t)
  PROVE  IntegratedInv'
<1>0. /\ IntegratedTypeOK /\ StartUpInv /\ OwnerInv
      /\ pc[t] \in {"barrier1", "barrier2"}
      /\ UNCHANGED <<status, dist, reqVars, qpsIni, idxListQPS>>
  BY Zenon DEF IntegratedInv, BarrierWait, qpsVars
<1>1. CASE barrier \cup {t} = Threads
  <2>1. barrier' = {} /\ pc' = [u \in Threads |-> AfterBarrier[pc[u]]]
    BY <1>0, <1>1, Zenon DEF BarrierWait, IntegratedTypeOK
  <2>2. \A u \in Threads : pc[u] \in {"barrier1", "barrier2"}
    BY <1>0, <1>1, Zenon DEF StartUpInv
  <2>3. \A u \in Threads : /\ pc[u] = "barrier1" => pc'[u] = "init"
                           /\ pc[u] = "barrier2" => pc'[u] = "roi"
    BY <2>1 DEF AfterBarrier
  <2>4. pc' \in [Threads -> ThreadPC]
    BY <2>1, <2>2, <2>3, Zenon DEF ThreadPC
  <2>5. IntegratedTypeOK'
    BY <1>0, <2>1, <2>4, Zenon DEF IntegratedTypeOK, reqVars
  <2>6. status = "INIT" => \A u \in Threads : pc'[u] = "init"
    BY <1>0, <2>2, <2>3, Zenon DEF StartUpInv
  <2>7. StartUpInv'
    BY <1>0, <2>1, <2>6, Zenon DEF StartUpInv
  <2>8. OwnerInv'
    BY <1>0, <2>2, <2>3, OwnerKept, Zenon
  <2> QED BY <2>5, <2>7, <2>8, Zenon DEF IntegratedInv
<1>2. CASE barrier \cup {t} # Threads
  <2>1. barrier' = barrier \cup {t} /\ pc' = pc
    BY <1>2, Zenon DEF BarrierWait
  <2>2. IntegratedTypeOK'
    BY <1>0, <2>1, Zenon DEF IntegratedTypeOK, reqVars
  <2>3. StartUpInv'
    BY <1>0, <2>1, Zenon DEF StartUpInv
  <2>4. OwnerInv'
    BY <1>0, <2>1, OwnerKept, Zenon
  <2> QED BY <2>2, <2>3, <2>4, Zenon DEF IntegratedInv
<1> QED BY <1>1, <1>2, Zenon

\* The start-up section: the first thread creates the distribution.
LEMMA StepInitDist ==
  ASSUME IntegratedInv, NEW t \in Threads, InitDist(t)
  PROVE  IntegratedInv'
<1>0. /\ IntegratedTypeOK /\ StartUpInv /\ OwnerInv
      /\ Goto(t, "init", "barrier2") /\ "barrier2" \in ThreadPC
      /\ UNCHANGED <<reqVars, qpsIni, idxListQPS>>
  BY Zenon DEF IntegratedInv, InitDist, qpsVars, ThreadPC
<1>1. /\ pc[t] = "init" /\ pc'[t] = "barrier2"
      /\ \A u \in Threads \ {t} : pc'[u] = pc[u]
      /\ pc' \in [Threads -> ThreadPC]
  BY <1>0, Moves, Zenon
<1>2. t \notin barrier /\ \A u \in barrier : pc'[u] = pc[u]
  BY <1>0, <1>1, Zenon DEF StartUpInv, IntegratedTypeOK
<1>3. OwnerInv'
  BY <1>0, <1>1, OwnerKept, Zenon
<1>4. CASE dist = 0
  <2>1. /\ dist' = (IF QpsVar = 0 THEN Qps ELSE qpsIni)
        /\ status' = "WARMUP" /\ barrier' = {}
    BY <1>4, Zenon DEF InitDist
  <2>2. dist' \in Nat /\ dist' # 0
    BY <1>0, <2>1, RatesPositive, Zenon DEF IntegratedTypeOK
  <2>3. IntegratedTypeOK'
    BY <1>0, <1>1, <2>1, <2>2, Zenon DEF IntegratedTypeOK, reqVars
  <2>4. StartUpInv'
    BY <1>0, <2>1, <2>2, Zenon DEF StartUpInv
  <2> QED BY <1>3, <2>3, <2>4, Zenon DEF IntegratedInv
<1>5. CASE dist # 0
  <2>1. UNCHANGED <<status, dist, barrier>> /\ status # "INIT"
    BY <1>0, <1>5, Zenon DEF InitDist, initVars, StartUpInv
  <2>2. IntegratedTypeOK'
    BY <1>0, <1>1, <2>1, Zenon DEF IntegratedTypeOK, reqVars
  <2>3. StartUpInv'
    BY <1>0, <1>2, <2>1, StartUpKept, Zenon
  <2> QED BY <1>3, <2>2, <2>3, Zenon DEF IntegratedInv
<1> QED BY <1>4, <1>5, Zenon

\* A move beyond the start-up section that keeps requests, rate and barrier.
LEMMA LateStep ==
  ASSUME IntegratedInv, NEW t \in Threads, NEW a, NEW b \in ThreadPC, Goto(t, a, b),
         a \notin {"startReq", "barrier1", "init", "barrier2"},
         b \in {"serve", "fini"} => a \in {"serve", "fini"},
         status' \in {status, "ROI"},
         UNCHANGED <<dist, barrier, reqVars, qpsIni, idxListQPS>>
  PROVE  IntegratedInv'
<1>0. IntegratedTypeOK /\ StartUpInv /\ OwnerInv
  BY Zenon DEF IntegratedInv
<1>1. /\ pc[t] = a /\ pc'[t] = b
      /\ \A u \in Threads \ {t} : pc'[u] = pc[u]
      /\ pc' \in [Threads -> ThreadPC]
  BY <1>0, Moves, Zenon
<1>2. IntegratedTypeOK'
  BY <1>0, <1>1, Zenon DEF IntegratedTypeOK, reqVars
<1>3. StartUpInv'
  <2>1. \A u \in barrier : pc'[u] = pc[u]
    BY <1>0, <1>1, Zenon DEF StartUpInv, IntegratedTypeOK
  <2>2. status # "INIT" /\ status' # "INIT"
    BY <1>0, <1>1, PastStartUp, Zenon
  <2> QED BY <1>0, <2>1, <2>2, StartUpKept, Zenon
<1>4. OwnerInv'
  BY <1>0, <1>1, OwnerKept, Zenon
<1> QED BY <1>2, <1>3, <1>4, Zenon DEF IntegratedInv

\* The unlocked read of status before the rate section.
LEMMA StepCheckRoi ==
  ASSUME IntegratedInv, NEW t \in Threads, CheckRoi(t)
  PROVE  IntegratedInv'
<1>1. PICK b \in {"qps", "gen"} : Goto(t, "roi", b)
  BY Zenon DEF CheckRoi
<1>2. UNCHANGED <<status, dist, barrier, reqVars, qpsIni, idxListQPS>>
  BY Zenon DEF CheckRoi, initVars, qpsVars
<1>3. b \in ThreadPC /\ b \notin {"serve", "fini"}
  BY Zenon DEF ThreadPC
<1> QED BY <1>1, <1>2, <1>3, LateStep, Zenon

\* The rates that the rate section chooses.
LEMMA RateFacts ==
  ASSUME NEW t, VaryQps(t), qpsIni \in Nat \ {0}, idxListQPS \in Nat
  PROVE  /\ UNCHANGED <<dist, qpsIni>> \/ (dist' = qpsIni' /\ QpsVar # 0)
         /\ qpsIni' \in Nat \ {0} /\ idxListQPS' \in Nat
<1>1. CASE UNCHANGED <<dist, qpsIni, idxListQPS>>
  BY <1>1, Zenon
<1>2. CASE ChangeRate /\ StepRate
  BY <1>2, ClientAssumption DEF ChangeRate, StepRate
<1>3. CASE ChangeRate /\ NextRate
  <2>1. listQPS \in Seq(Nat \ {0}) /\ Len(listQPS) \in Nat \ {0}
    BY ClientAssumption DEF listQPS
  <2>2. (idxListQPS % Len(listQPS)) + 1 \in 1..Len(listQPS)
    BY <2>1
  <2>3. listQPS[(idxListQPS % Len(listQPS)) + 1] \in Nat \ {0}
    BY <2>1, <2>2, SMTT(30)
  <2>4. /\ qpsIni' = listQPS[(idxListQPS % Len(listQPS)) + 1]
        /\ idxListQPS' = idxListQPS + 1
        /\ dist' = qpsIni' /\ QpsVar = 2
    BY <1>3, Zenon DEF ChangeRate, NextRate
  <2>5. idxListQPS' \in Nat /\ QpsVar # 0
    BY <2>4
  <2> QED BY <2>3, <2>4, <2>5, Zenon
<1> QED BY <1>1, <1>2, <1>3, Zenon DEF VaryQps, ChangeRate

\* The rate section.
LEMMA StepVaryQps ==
  ASSUME IntegratedInv, NEW t \in Threads, VaryQps(t)
  PROVE  IntegratedInv'
<1>0. /\ IntegratedTypeOK /\ StartUpInv /\ OwnerInv
      /\ Goto(t, "qps", "gen") /\ "gen" \in ThreadPC
      /\ UNCHANGED <<status, barrier, reqVars>>
      /\ qpsIni \in Nat \ {0} /\ idxListQPS \in Nat
  BY Zenon DEF IntegratedInv, IntegratedTypeOK, VaryQps, ThreadPC
<1>1. /\ pc[t] = "qps" /\ pc'[t] = "gen"
      /\ \A u \in Threads \ {t} : pc'[u] = pc[u]
      /\ pc' \in [Threads -> ThreadPC]
  BY <1>0, Moves, Zenon
<1>2. /\ UNCHANGED <<dist, qpsIni>> \/ (dist' = qpsIni' /\ QpsVar # 0)
      /\ qpsIni' \in Nat \ {0} /\ idxListQPS' \in Nat
  BY <1>0, RateFacts, Zenon
<1>3. status # "INIT" /\ \A u \in barrier : pc'[u] = pc[u]
  BY <1>0, <1>1, PastStartUp, Zenon DEF StartUpInv, IntegratedTypeOK
<1>4. IntegratedTypeOK'
  BY <1>0, <1>1, <1>2, Zenon DEF IntegratedTypeOK, reqVars
<1>5. StartUpInv'
  BY <1>0, <1>2, <1>3, Zenon DEF StartUpInv
<1>6. OwnerInv'
  BY <1>0, <1>1, OwnerKept, Zenon
<1> QED BY <1>4, <1>5, <1>6, Zenon DEF IntegratedInv

\* A new request: its id was never given out before.
LEMMA StepGenReq ==
  ASSUME IntegratedInv, NEW t \in Threads, GenReq(t, "serve")
  PROVE  IntegratedInv'
<1>0. /\ IntegratedTypeOK /\ StartUpInv /\ OwnerInv
      /\ Goto(t, "gen", "serve") /\ "serve" \in ThreadPC
      /\ UNCHANGED <<status, dist, barrier, qpsIni, idxListQPS>>
      /\ req' = [req EXCEPT ![t] = startedReqs]
      /\ startedReqs' = startedReqs + 1
      /\ inFlightReqs' = inFlightReqs \cup {startedReqs}
  BY Zenon DEF IntegratedInv, GenReq, ThreadPC, initVars, qpsVars
<1>1. /\ pc[t] = "gen" /\ pc'[t] = "serve"
      /\ \A u \in Threads \ {t} : pc'[u] = pc[u]
      /\ pc' \in [Threads -> ThreadPC]
  BY <1>0, Moves, Zenon
<1>2. /\ startedReqs \in Nat /\ startedReqs' \in Nat /\ inFlightReqs \subseteq Nat
      /\ req \in [Threads -> Nat \cup {NoReq}]
  <2>1. startedReqs \in Nat
    BY <1>0, Zenon DEF IntegratedTypeOK
  <2>2. startedReqs' \in Nat
    BY <1>0, <2>1
  <2> QED BY <1>0, <2>1, <2>2, Zenon DEF IntegratedTypeOK
<1>3. /\ req'[t] = startedReqs
      /\ \A u \in Threads \ {t} : req'[u] = req[u]
      /\ req' \in [Threads -> Nat \cup {NoReq}]
  BY <1>0, <1>2, Zenon
<1>4. IntegratedTypeOK'
  BY <1>0, <1>1, <1>2, <1>3, Zenon DEF IntegratedTypeOK
<1>5. StartUpInv'
  <2>1. status # "INIT" /\ \A u \in barrier : pc'[u] = pc[u]
    BY <1>0, <1>1, PastStartUp, Zenon DEF StartUpInv, IntegratedTypeOK
  <2> QED BY <1>0, <2>1, StartUpKept, Zenon
<1>6. OwnerInv'
  <2>1. /\ \A id \in inFlightReqs : id < startedReqs'
        /\ \A u \in Threads : req[u] < startedReqs' /\ req[u] # startedReqs
        /\ startedReqs < startedReqs'
    BY <1>0, <1>2 DEF OwnerInv, NoReq
  <2> QED BY <1>0, <1>1, <1>3, <2>1, Zenon DEF OwnerInv
<1> QED BY <1>4, <1>5, <1>6, Zenon DEF IntegratedInv

-----------------------------------------------------------------------------
(* The application and Server::sendResp. *)

\* The application's own work.
LEMMA StepProcess ==
  ASSUME IntegratedInv, NEW t \in Threads, Process(t)
  PROVE  IntegratedInv'
<1>1. /\ Goto(t, "serve", "fini") /\ "fini" \in ThreadPC
      /\ UNCHANGED <<status, dist, barrier, reqVars, qpsIni, idxListQPS>>
  BY Zenon DEF Process, initVars, qpsVars, ThreadPC
<1> QED BY <1>1, LateStep, Zenon

\* finiReq: with a warmup of 0 every response begins the region of interest.
\* The thread retires its own request, which no other thread holds.
LEMMA StepFini ==
  ASSUME IntegratedInv, NEW t \in Threads, SendRespFini(t)
  PROVE  IntegratedInv'
<1>1. FiniStartsRoi(t, req[t], "count")
  BY IntegratedAssumption, Zenon
     DEF SendRespFini, finiReq, FiniCounts, FiniDumps, IsLast, StartsRoi
<1>0. /\ IntegratedTypeOK /\ StartUpInv /\ OwnerInv
      /\ Goto(t, "fini", "count") /\ "count" \in ThreadPC
      /\ UNCHANGED <<dist, barrier, req, startedReqs, qpsIni, idxListQPS>>
      /\ status' = "ROI"
      /\ inFlightReqs' = inFlightReqs \ {req[t]}
  BY <1>1, Zenon DEF IntegratedInv, FiniStartsRoi, Retire, _startRoi, ThreadPC
<1>2. /\ pc[t] = "fini" /\ pc'[t] = "count"
      /\ \A u \in Threads \ {t} : pc'[u] = pc[u]
      /\ pc' \in [Threads -> ThreadPC]
  BY <1>0, Moves, Zenon
<1>3. IntegratedTypeOK'
  BY <1>0, <1>2, Zenon DEF IntegratedTypeOK
<1>4. StartUpInv'
  <2>1. status # "INIT" /\ \A u \in barrier : pc'[u] = pc[u]
    BY <1>0, <1>2, PastStartUp, Zenon DEF StartUpInv, IntegratedTypeOK
  <2> QED BY <1>0, <2>1, StartUpKept, Zenon
<1>5. OwnerInv'
  <2>1. NoReq \notin Nat
    BY DEF NoReq
  <2>2. ASSUME NEW u \in Threads, pc'[u] \in {"serve", "fini"}
        PROVE  req[u] \in inFlightReqs \ {req[t]}
    <3>1. u # t /\ req[u] \in inFlightReqs /\ req[u] \in Nat
      BY <1>0, <1>2, <2>2, Zenon DEF OwnerInv, IntegratedTypeOK
    <3> QED BY <1>0, <2>1, <3>1, Zenon DEF OwnerInv
  <2> QED BY <1>0, <2>2, Zenon DEF OwnerInv
<1> QED BY <1>3, <1>4, <1>5, Zenon DEF IntegratedInv

\* The Server part counts the request.
LEMMA StepCount ==
  ASSUME IntegratedInv, NEW t \in Threads, SendRespCount(t)
  PROVE  IntegratedInv'
<1>1. /\ Goto(t, "count", "startReq") /\ "startReq" \in ThreadPC
      /\ UNCHANGED <<dist, barrier, reqVars, qpsIni, idxListQPS>>
      /\ status' \in {status, "ROI"}
  BY Zenon DEF SendRespCount, CountWarmedUp, CountLast, CountOther, _startRoi, ThreadPC
<1> QED BY <1>1, LateStep, Zenon

-----------------------------------------------------------------------------
(* The invariant and the properties. *)

\* The constructor's state.
LEMMA Init_Inv == Init => IntegratedInv
<1> SUFFICES ASSUME Init PROVE IntegratedInv
  OBVIOUS
<1>1. IntegratedTypeOK
  <2>1. 0 \in Nat /\ 1 \in Nat
    OBVIOUS
  <2> QED BY <2>1, RatesPositive, Zenon DEF Init, InitClient, IntegratedTypeOK, ThreadPC
<1>2. StartUpInv
  BY Zenon DEF Init, InitClient, StartUpInv
<1>3. OwnerInv
  <2>1. NoReq < 0
    BY DEF NoReq
  <2> QED BY <2>1, Zenon DEF Init, InitClient, OwnerInv
<1> QED BY <1>1, <1>2, <1>3, Zenon DEF IntegratedInv

\* Every step keeps the invariant.
LEMMA Next_Inv == IntegratedInv /\ [Next]_vars => IntegratedInv'
<1> SUFFICES ASSUME IntegratedInv, [Next]_vars PROVE IntegratedInv'
  OBVIOUS
<1>1. ASSUME NEW t \in Threads, Thread(t) PROVE IntegratedInv'
  BY <1>1, StepStartReq, StepBarrierWait, StepInitDist, StepCheckRoi, StepVaryQps, StepGenReq,
     StepProcess, StepFini, StepCount, Zenon DEF Thread, RecvReq
<1>2. CASE UNCHANGED vars
  <2>1. UNCHANGED <<pc, status, dist, barrier, reqVars, qpsIni, idxListQPS>>
    BY <1>2, Zenon DEF vars, clientVars, initVars, qpsVars
  <2>2. IntegratedTypeOK'
    BY <2>1, Zenon DEF IntegratedInv, IntegratedTypeOK, reqVars
  <2>3. StartUpInv'
    BY <2>1, Zenon DEF IntegratedInv, StartUpInv
  <2>4. OwnerInv'
    BY <2>1, OwnerKept, Zenon DEF IntegratedInv
  <2> QED BY <2>2, <2>3, <2>4, Zenon DEF IntegratedInv
<1> QED BY <1>1, <1>2, Zenon DEF Next, Ended

\* IntegratedInv is an invariant for any number of threads and any rates.
THEOREM IntegratedInvariance == Spec => []IntegratedInv
<1>1. Init => IntegratedInv
  BY Init_Inv, Zenon
<1>2. IntegratedInv /\ [Next]_vars => IntegratedInv'
  BY Next_Inv, Zenon
<1> QED BY <1>1, <1>2, PTL DEF Spec

\* The request a thread processes is its own and stays in flight until the
\* thread retires it: the assert on inFlightReqs in finiReq cannot fail.
THEOREM OwnRequests == Spec => []OwnRequestInFlight
<1>1. ASSUME IntegratedInv PROVE OwnRequestInFlight
  <2>1. NoReq \notin Nat
    BY DEF NoReq
  <2>2. inFlightReqs \subseteq Nat
    BY <1>1, Zenon DEF IntegratedInv, IntegratedTypeOK
  <2> QED BY <1>1, <2>1, <2>2, Zenon DEF IntegratedInv, OwnerInv, OwnRequestInFlight
<1> QED BY <1>1, IntegratedInvariance, PTL

\* startReq generates requests from a distribution that exists and has the rate
\* in force.
THEOREM IntegratedRate == Spec => []RateInForce
<1>1. ASSUME IntegratedInv PROVE RateInForce
  <2>1. ASSUME NEW t \in Threads, pc[t] = "gen"
        PROVE  dist = (IF QpsVar = 0 THEN Qps ELSE qpsIni)
    <3>1. status # "INIT"
      BY <1>1, <2>1, PastStartUp, Zenon DEF IntegratedInv
    <3> QED BY <1>1, <3>1, Zenon DEF IntegratedInv, StartUpInv
  <2> QED BY <2>1, Zenon DEF RateInForce
<1> QED BY <1>1, IntegratedInvariance, PTL

\* Re-initialising the barrier between its two uses in startReq forgets no
\* thread: nobody waits on it then.
THEOREM IntegratedBarrier == Spec => NoWaiterForgotten
<1> DEFINE Kept == \A t \in barrier : t \in barrier' \/ pc'[t] # pc[t]
<1>1. ASSUME IntegratedInv, [Next]_vars PROVE [Kept]_clientVars
  <2>0. IntegratedTypeOK /\ StartUpInv
    BY <1>1, Zenon DEF IntegratedInv
  <2>1. ASSUME NEW t \in Threads, BarrierWait(t) PROVE Kept
    <3>1. CASE barrier \cup {t} = Threads
      <4>1. pc' = [u \in Threads |-> AfterBarrier[pc[u]]]
        BY <2>0, <2>1, <3>1, Zenon DEF BarrierWait, IntegratedTypeOK
      <4>2. AfterBarrier["barrier1"] # "barrier1" /\ AfterBarrier["barrier2"] # "barrier2"
        BY DEF AfterBarrier
      <4> QED BY <2>0, <4>1, <4>2, Zenon DEF StartUpInv, IntegratedTypeOK
    <3>2. CASE barrier \cup {t} # Threads
      BY <2>1, <3>2, Zenon DEF BarrierWait
    <3> QED BY <3>1, <3>2, Zenon
  <2>2. ASSUME NEW t \in Threads, InitDist(t) PROVE Kept
    <3>1. CASE dist = 0
      <4>1. barrier = {}
        BY <2>0, <2>2, <3>1, Zenon DEF StartUpInv, InitDist, Goto
      <4> QED BY <4>1, Zenon
    <3>2. CASE dist # 0
      BY <2>2, <3>2, Zenon DEF InitDist, initVars
    <3> QED BY <3>1, <3>2, Zenon
  <2>3. ASSUME NEW t \in Threads, Thread(t), ~BarrierWait(t), ~InitDist(t)
        PROVE  UNCHANGED barrier
    BY <2>3, Zenon
       DEF Thread, RecvReq, StartReq, CheckRoi, VaryQps, GenReq, Process, SendRespFini, finiReq,
           FiniStartsRoi, FiniCounts, FiniDumps, Retire, SendRespCount, initVars
  <2>4. Next => Kept \/ UNCHANGED vars
    BY <2>1, <2>2, <2>3, Zenon DEF Next, Ended
  <2>5. UNCHANGED vars => UNCHANGED clientVars
    BY Zenon DEF vars
  <2> QED BY <1>1, <2>4, <2>5, Zenon
<1> QED BY <1>1, IntegratedInvariance, PTL DEF Spec, NoWaiterForgotten

=============================================================================
