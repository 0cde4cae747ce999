----------------------- MODULE NetworkedClientProofs ------------------------
(***************************************************************************)
(* Proofs about NetworkedClient, for any number of threads, any budget and *)
(* any rates: IndInv is inductive, the safety properties follow from it,   *)
(* and the client implements Measurement.                                  *)
(***************************************************************************)
EXTENDS ClientStepProofs

USE ClientAssumption, NetworkedAssumption

-----------------------------------------------------------------------------
(* The inductive invariant.                                                *)

\* The state after the constructors satisfies the invariant.
LEMMA IndInvInit == Init => IndInv
<1> SUFFICES ASSUME Init PROVE IndInv
  BY Zenon
<1> USE DEF Init, InitClient
<1>1. TypeOK
  <2>1. PcTypeOK
    BY Zenon DEF PcTypeOK, SenderPC, ReceiverPC
  <2>2. ClientTypeOK
    BY DEF ClientTypeOK, NoReq, NoFile
  <2>3. NetTypeOK
    BY Zenon DEF NetTypeOK, NoReq
  <2> QED BY <2>1, <2>2, <2>3, Zenon DEF TypeOK
<1>2. SendLockInv /\ StartInv /\ AssertionsHold
  BY Zenon DEF SendLockInv, StartInv, AssertionsHold
<1>3. FiniReceivers = {} /\ SentPending = 0
  BY Zenon DEF FiniReceivers, SentPending
<1>4. PlaceInv
  BY <1>3, Zenon DEF PlaceInv, TouchesReq
<1>5. CountInv
  BY <1>3, FS_EmptySet DEF CountInv, Due, TotalReqs
<1>6. PhaseInv
  BY DEF PhaseInv
<1> QED BY <1>1, <1>2, <1>4, <1>5, <1>6, ZenonT(40) DEF IndInv

\* Every step of the client and of its environment preserves the invariant.
LEMMA IndInvStep == IndInv /\ [Next]_vars => IndInv'
<1> SUFFICES ASSUME IndInv, [Next]_vars PROVE IndInv'
  BY Zenon
<1>1. ASSUME NEW t \in Threads, Sender(t) PROVE IndInv'
  <2>1. CASE CallStartReq(t)
    BY <2>1, StepStartReq, StepBarrierWait, StepInitDist, StepCheckRoi, StepVaryQps,
       StepGenReq, Zenon DEF CallStartReq
  <2>2. CASE CheckSent(t) \/ LockSend(t) \/ SkipSend(t) \/ SendOk(t) \/ SendFails(t)
    BY <2>2, StepCheckSent, StepLockSend, StepSkipSend, StepSendOk, StepSendFails, Zenon
  <2>3. CASE SendKills(t) \/ CountSent(t) \/ ReadSentRequests(t) \/ WriteSentRequests(t)
    BY <2>3, StepSendKills, StepCountSent, StepReadSentRequests, StepWriteSentRequests, Zenon
  <2> QED BY <1>1, <2>1, <2>2, <2>3, Zenon DEF Sender
<1>2. ASSUME NEW r \in Receivers, Receiver(r) PROVE IndInv'
  <2>1. CASE CallFiniReq(r)
    BY <2>1, StepFiniStartsRoi, StepFiniCounts, StepFiniDumps, Zenon DEF CallFiniReq, finiReq
  <2>2. CASE LockRecv(r) \/ ReadResponse(r) \/ ReadFinish(r) \/ RecvFails(r) \/ ExitGroup(r)
    BY <2>2, StepLockRecv, StepReadResponse, StepReadFinish, StepRecvFails, StepExitGroup, Zenon
  <2> QED BY <1>2, <2>1, <2>2, Zenon DEF Receiver
<1>3. CASE MainReturns
  BY <1>3, StepMainReturns, Zenon
<1>4. CASE Environment
  BY <1>4, StepRespond, StepServerFinish, StepServerGoes, Zenon DEF Environment
<1>5. CASE UNCHANGED vars
  <2> USE <1>5 DEF vars, clientVars, initVars, reqVars, countVars, statVars, qpsVars, lockVars, netVars
  <2> /\ PcTypeOK /\ ClientTypeOK /\ NetTypeOK /\ SendLockInv /\ StartInv
      /\ PlaceInv /\ CountInv /\ PhaseInv /\ AssertionsHold
    BY Zenon DEF IndInv, TypeOK
  <2>1. PcTypeOK' /\ SendLockInv' /\ StartInv'
    BY Zenon DEF PcTypeOK, SendLockInv, StartInv
  <2>2. ClientTypeOK'
    BY Zenon DEF ClientTypeOK
  <2>3. NetTypeOK'
    BY Zenon DEF NetTypeOK
  <2>4. PhaseInv' /\ AssertionsHold'
    BY Zenon DEF PhaseInv, AssertionsHold
  <2>5. FiniReceivers' = FiniReceivers /\ SentPending' = SentPending
    BY Zenon DEF FiniReceivers, SentPending
  <2>6. PlaceInv'
    BY <2>5, PlaceFrame, Zenon
  <2>7. CountInv'
    BY <2>5, CountFrame, Zenon
  <2> QED BY <2>1, <2>2, <2>3, <2>4, <2>6, <2>7, ZenonT(40) DEF IndInv, TypeOK
<1> QED BY <1>1, <1>2, <1>3, <1>4, <1>5, Zenon DEF Next, Ended

\* The invariant holds in every reachable state of the networked client.
THEOREM Invariance == Spec => []IndInv
BY IndInvInit, IndInvStep, PTL DEF Spec

\* The variables of the networked client keep their types.
THEOREM TypeCorrect == Spec => []TypeOK
<1>1. IndInv => TypeOK
  BY Zenon DEF IndInv
<1> QED BY <1>1, Invariance, PTL

\* No assertion of finiReq or _startRoi ever fails.
THEOREM AssertionsNeverFail == Spec => []AssertionsHold
<1>1. IndInv => AssertionsHold
  BY Zenon DEF IndInv
<1> QED BY <1>1, Invariance, PTL

\* The published file holds exactly maxreqs tuples.
THEOREM FileIsComplete == Spec => []PublishesMaxReqs
<1>1. IndInv => PublishesMaxReqs
  BY Zenon DEF IndInv, TypeOK, ClientTypeOK, PhaseInv, PublishesMaxReqs
<1> QED BY <1>1, Invariance, PTL

\* The requests that reach the server never exceed the budget.
THEOREM BudgetIsKept == Spec => []BudgetKept
<1>1. ASSUME IndInv PROVE BudgetKept
  <2>1. Due \in Nat
    BY <1>1, CountsAreNat, FiniFinite, SMTT(30) DEF Due
  <2> QED BY <1>1, <2>1, CountsAreNat, SMTT(30) DEF IndInv, CountInv, BudgetKept
<1> QED BY <1>1, Invariance, PTL

\* No sender touches a Request that finiReq has deleted.
THEOREM NoAccessAfterDelete == Spec => []NoUseAfterDelete
<1>1. IndInv => NoUseAfterDelete
  BY Zenon DEF IndInv, PlaceInv, NoUseAfterDelete
<1> QED BY <1>1, Invariance, PTL

\* Completions overtake the count of sends only during one send, by one.
THEOREM CompletionsTrailSends == Spec => []CompletedTrailsSent
<1>1. ASSUME IndInv, numReqsCompleted > numReqsSent
      PROVE  /\ sendLock # NoThread
             /\ pc[sendLock] = "sent"
             /\ numReqsCompleted = numReqsSent + 1
  <2>1. Due \in Nat
    BY <1>1, CountsAreNat, FiniFinite, SMTT(30) DEF Due
  <2>2. numReqsCompleted <= numReqsSent + SentPending
    BY <1>1, <2>1, CountsAreNat, SMTT(30) DEF IndInv, CountInv
  <2>3. SentPending = 1 /\ numReqsCompleted = numReqsSent + 1
    BY <1>1, <2>2, CountsAreNat, SMTT(30)
  <2>4. PICK t \in Threads : pc[t] = "sent"
    BY <2>3 DEF SentPending
  <2>5. sendLock = t
    BY <1>1, <2>4, Zenon DEF IndInv, SendLockInv
  <2> QED BY <2>3, <2>4, <2>5, Zenon
<1>2. IndInv => CompletedTrailsSent
  BY <1>1, Zenon DEF CompletedTrailsSent
<1> QED BY <1>2, Invariance, PTL

\* A step keeps the threads that wait on the barrier, or releases them.
LEMMA WaitersKeptOrReleased ==
  ASSUME IndInv, [Next]_vars
  PROVE  \A u \in barrier : u \in barrier' \/ pc'[u] # pc[u]
<1> USE DEF initVars, clientVars
<1>1. ASSUME NEW t \in Threads, BarrierWait(t)
      PROVE  \A u \in barrier : u \in barrier' \/ pc'[u] # pc[u]
  <2>1. /\ \A u \in barrier : u \in Threads /\ pc[u] \in {"barrier1", "barrier2"}
        /\ Threads \subseteq DOMAIN pc
    BY ZenonT(40) DEF IndInv, TypeOK, PcTypeOK, ClientTypeOK, StartInv
  <2>2. CASE barrier \cup {t} = Threads
    BY <1>1, <2>1, <2>2 DEF BarrierWait, AfterBarrier
  <2>3. CASE barrier \cup {t} # Threads
    BY <1>1, <2>3, Zenon DEF BarrierWait
  <2> QED BY <2>2, <2>3, ZenonT(40)
<1>2. ASSUME NEW t \in Threads, InitDist(t)
      PROVE  \A u \in barrier : u \in barrier' \/ pc'[u] # pc[u]
  <2>1. CASE dist = 0
    BY <1>2, <2>1, Zenon DEF IndInv, StartInv, InitDist, Goto
  <2>2. CASE dist # 0
    BY <1>2, <2>2, Zenon DEF InitDist
  <2> QED BY <2>1, <2>2, Zenon
<1>3. ASSUME NEW t \in Threads, Sender(t), ~BarrierWait(t), ~InitDist(t)
      PROVE  barrier' = barrier
  <2>1. CASE CallStartReq(t)
    BY <1>3, <2>1, Zenon DEF CallStartReq, StartReq, CheckRoi, VaryQps, GenReq
  <2>2. CASE CheckSent(t) \/ LockSend(t) \/ SkipSend(t)
    BY <2>2, Zenon DEF CheckSent, LockSend, SkipSend
  <2>3. CASE SendOk(t) \/ SendFails(t) \/ SendKills(t)
    BY <2>3, Zenon DEF SendOk, SendFails, SendKills
  <2>4. CASE CountSent(t) \/ ReadSentRequests(t) \/ WriteSentRequests(t)
    BY <2>4, Zenon DEF CountSent, ReadSentRequests, WriteSentRequests
  <2> QED BY <1>3, <2>1, <2>2, <2>3, <2>4, Zenon DEF Sender
<1>4. ASSUME NEW r \in Receivers, Receiver(r)
      PROVE  barrier' = barrier
  <2>1. CASE LockRecv(r) \/ ReadResponse(r) \/ ReadFinish(r)
    BY <2>1, SMTT(30) DEF LockRecv, ReadResponse, ReadFinish
  <2>2. CASE RecvFails(r) \/ ExitGroup(r)
    BY <2>2, Zenon DEF RecvFails, ExitGroup
  <2>3. CASE CallFiniReq(r)
    BY <2>3, ZenonT(40) DEF CallFiniReq, finiReq, FiniStartsRoi, FiniCounts, FiniDumps, Retire
  <2> QED BY <1>4, <2>1, <2>2, <2>3, ZenonT(40) DEF Receiver
<1>5. CASE MainReturns \/ Environment
  BY <1>5, Zenon DEF MainReturns, Environment, Respond, ServerFinish, ServerGoes
<1>6. CASE UNCHANGED vars
  BY <1>6, Zenon DEF vars
<1> QED BY <1>1, <1>2, <1>3, <1>4, <1>5, <1>6, ZenonT(40) DEF Next, Ended

\* No thread that waits on the start-up barrier is forgotten when startReq
\* destroys and re-initialises the barrier.
THEOREM WaitersAreNotForgotten == Spec => NoWaiterForgotten
<1>1. IndInv /\ [Next]_vars =>
        [\A t \in barrier : t \in barrier' \/ pc'[t] # pc[t]]_clientVars
  BY WaitersKeptOrReleased, Zenon
<1> QED BY <1>1, Invariance, PTL DEF Spec, NoWaiterForgotten

\* Requests are generated with the rate in force.
THEOREM RateIsInForce == Spec => []RateInForce
<1>1. IndInv => RateInForce
  BY Zenon DEF IndInv, StartInv, RateInForce
<1> QED BY <1>1, Invariance, PTL

-----------------------------------------------------------------------------
(* Refinement of Measurement: only finiReq moves the abstract state.       *)

\* A step outside finiReq completes, records and publishes nothing, and leaves
\* the region of interest alone.
LEMMA OtherStepsKeepMeasurement ==
  ASSUME IndInv, [Next]_vars, \A r \in Receivers : ~CallFiniReq(r)
  PROVE  /\ UNCHANGED <<numReqsCompleted, sjrnTimes, latsFile>>
         /\ status' = "ROI" <=> status = "ROI"
<1> USE DEF initVars, countVars, statVars, clientVars
<1>1. ASSUME NEW t \in Threads, CallStartReq(t)
      PROVE  /\ UNCHANGED <<numReqsCompleted, sjrnTimes, latsFile>>
             /\ status' = "ROI" <=> status = "ROI"
  <2>1. CASE StartReq(t) \/ BarrierWait(t) \/ CheckRoi(t)
    BY <2>1, SMTT(30) DEF StartReq, BarrierWait, CheckRoi
  <2>2. CASE InitDist(t)
    BY <2>2, Zenon DEF InitDist, IndInv, StartInv
  <2>3. CASE VaryQps(t) \/ GenReq(t, "send")
    BY <2>3, Zenon DEF VaryQps, GenReq
  <2> QED BY <1>1, <2>1, <2>2, <2>3, ZenonT(40) DEF CallStartReq
<1>2. ASSUME NEW t \in Threads, Sender(t), ~CallStartReq(t)
      PROVE  UNCHANGED <<numReqsCompleted, sjrnTimes, latsFile, status>>
  <2>1. CASE CheckSent(t) \/ LockSend(t) \/ SkipSend(t)
    BY <2>1, Zenon DEF CheckSent, LockSend, SkipSend
  <2>2. CASE SendOk(t) \/ SendFails(t) \/ SendKills(t)
    BY <2>2, Zenon DEF SendOk, SendFails, SendKills
  <2>3. CASE CountSent(t) \/ ReadSentRequests(t) \/ WriteSentRequests(t)
    BY <2>3, Zenon DEF CountSent, ReadSentRequests, WriteSentRequests
  <2> QED BY <1>2, <2>1, <2>2, <2>3, ZenonT(40) DEF Sender
<1>3. ASSUME NEW r \in Receivers, Receiver(r)
      PROVE  UNCHANGED <<numReqsCompleted, sjrnTimes, latsFile, status>>
  <2>1. CASE LockRecv(r) \/ ReadResponse(r) \/ ReadFinish(r)
    BY <2>1, SMTT(30) DEF LockRecv, ReadResponse, ReadFinish
  <2>2. CASE RecvFails(r) \/ ExitGroup(r)
    BY <2>2, Zenon DEF RecvFails, ExitGroup
  <2> QED BY <1>3, <2>1, <2>2, Zenon DEF Receiver
<1>4. CASE MainReturns \/ Environment
  BY <1>4, Zenon DEF MainReturns, Environment, Respond, ServerFinish, ServerGoes
<1>5. CASE UNCHANGED vars
  BY <1>5, Zenon DEF vars
<1> QED BY <1>1, <1>2, <1>3, <1>4, <1>5, ZenonT(40) DEF Next, Ended

\* The outcomes of finiReq are the steps of Measurement.
LEMMA FiniMeasures ==
  ASSUME IndInv, NEW r \in Receivers, CallFiniReq(r)
  PROVE  M!Next
<1> USE DEF PhaseInv, TotalReqs, NoFile, completedNow, StartsRoi, IsLast
<1>1. PhaseInv
  BY Zenon DEF IndInv
<1>2. /\ {numReqsCompleted, sjrnTimes} \subseteq Nat
     /\ latsFile \in Nat \cup {NoFile}
  BY Zenon DEF IndInv, TypeOK, ClientTypeOK
<1>3. pc[r] = "fini" /\ numReqsCompleted + 1 <= TotalReqs
  BY FiniFacts, Zenon DEF CallFiniReq, finiReq, FiniStartsRoi, FiniCounts, FiniDumps, Goto
<1>4. CASE FiniStartsRoi(r, resp[r], "recv")
  <2>1. M!BeginRoi
    BY <1>1, <1>2, <1>4, SMTT(30) DEF FiniStartsRoi, Retire, _startRoi, M!BeginRoi
  <2> QED BY <2>1, ZenonT(40) DEF M!Next
<1>5. CASE FiniCounts(r, resp[r], "recv") /\ status = "ROI"
  <2>1. M!Measure
    BY <1>1, <1>2, <1>5, SMTT(30) DEF FiniCounts, Retire, recordedNow, M!Measure
  <2> QED BY <2>1, ZenonT(40) DEF M!Next
<1>6. CASE FiniCounts(r, resp[r], "recv") /\ status # "ROI"
  <2>1. M!WarmUp
    BY <1>1, <1>2, <1>6, SMTT(30) DEF FiniCounts, Retire, recordedNow, M!WarmUp
  <2> QED BY <2>1, Zenon DEF M!Next
<1>7. CASE FiniDumps(r, resp[r])
  <2>1. status = "ROI" /\ latsFile = NoFile /\ numReqsCompleted + 1 = TotalReqs
    BY <1>1, <1>2, <1>3, <1>7, SMTT(30) DEF FiniDumps
  <2>2. latsFile' \in Nat /\ sjrnTimes' = sjrnTimes + 1
    BY <1>2, <1>7, <2>1, SMTT(30) DEF FiniDumps, dumpStats, recordedNow
  <2>3. M!Publish
    BY <1>2, <1>7, <2>1, <2>2, SMTT(30) DEF FiniDumps, Retire, M!Publish
  <2> QED BY <2>3, Zenon DEF M!Next
<1> QED BY <1>4, <1>5, <1>6, <1>7, ZenonT(40) DEF CallFiniReq, finiReq

\* The networked client implements Measurement: exactly the first warmupreqs
\* completions go unmeasured, the next maxreqs are recorded one by one, and the
\* file is written at the last of them and never again.
THEOREM ImplementsMeasurement == Spec => MeasuresAsPromised
<1>1. Init => M!Init
  BY Zenon DEF Init, InitClient, M!Init
<1>2. IndInv /\ [Next]_vars => [M!Next]_(M!vars)
  <2> SUFFICES ASSUME IndInv, [Next]_vars PROVE M!Next \/ UNCHANGED M!vars
    BY Zenon DEF M!vars
  <2>1. CASE \E r \in Receivers : CallFiniReq(r)
    BY <2>1, FiniMeasures, Zenon
  <2>2. CASE \A r \in Receivers : ~CallFiniReq(r)
    <3>1. /\ UNCHANGED <<numReqsCompleted, sjrnTimes, latsFile>>
          /\ status' = "ROI" <=> status = "ROI"
      BY <2>2, OtherStepsKeepMeasurement, Zenon
    <3> QED BY <3>1, Zenon DEF M!vars
  <2> QED BY <2>1, <2>2, Zenon
<1> QED BY <1>1, <1>2, Invariance, PTL DEF Spec, MeasuresAsPromised, M!Spec

-----------------------------------------------------------------------------
(* Invariants beside IndInv: the statistic sent_requests, recvLock, the    *)
(* rate schedule and the number of generated requests.                     *)

\* The sender steps that follow the generation of a request.
SendSteps(t) ==
  \/ CheckSent(t) \/ LockSend(t) \/ SkipSend(t) \/ SendOk(t) \/ SendFails(t)
  \/ SendKills(t) \/ CountSent(t) \/ ReadSentRequests(t) \/ WriteSentRequests(t)

\* What startReq leaves alone, and where it takes a thread.
LEMMA StartReqFrame ==
  ASSUME IndInv, NEW t \in Threads, CallStartReq(t)
  PROVE  /\ UNCHANGED <<numReqsSent, sent_requests, sentTmp, recvLock, server>>
         /\ \A r \in Receivers : pc'[r] = pc[r]
         /\ \A u \in Threads :
              pc'[u] \notin {"check", "sending", "sent", "stat_read", "stat_write", "done"}
                \/ pc'[u] = pc[u]
<1> PcTypeOK
  BY Zenon DEF IndInv, TypeOK
<1>1. UNCHANGED <<sentTmp, recvLock, server>>
  BY Zenon DEF CallStartReq, lockVars, netVars
<1> USE DEF Goto, PcTypeOK, countVars, statVars
<1>2. CASE BarrierWait(t)
  <2>1. UNCHANGED <<numReqsSent, sent_requests>>
    BY <1>2, Zenon DEF BarrierWait
  <2>2. CASE barrier \cup {t} = Threads
    <3>1. \A u \in Threads : pc[u] \in {"barrier1", "barrier2"}
      BY <1>2, <2>2, ZenonT(40) DEF IndInv, StartInv, BarrierWait
    <3>2. \A u \in Threads : pc'[u] = AfterBarrier[pc[u]]
      BY <1>2, <2>2, Zenon DEF BarrierWait
    <3>3. \A u \in Threads : pc'[u] \in {"init", "roi"}
      BY <3>1, <3>2 DEF AfterBarrier
    <3>4. \A r \in Receivers : pc'[r] = pc[r]
      BY <1>2, <2>2, Zenon DEF BarrierWait
    <3> QED BY <1>1, <2>1, <3>3, <3>4, ZenonT(40)
  <2>3. CASE barrier \cup {t} # Threads
    BY <1>1, <1>2, <2>1, <2>3, ZenonT(40) DEF BarrierWait
  <2> QED BY <2>2, <2>3, Zenon
<1>3. CASE StartReq(t) \/ CheckRoi(t)
  BY <1>1, <1>3, ZenonT(40) DEF StartReq, CheckRoi
<1>4. CASE InitDist(t)
  BY <1>1, <1>4, Zenon DEF InitDist
<1>5. CASE VaryQps(t)
  BY <1>1, <1>5, Zenon DEF VaryQps
<1>6. CASE GenReq(t, "send")
  BY <1>1, <1>6, Zenon DEF GenReq
<1> QED BY <1>2, <1>3, <1>4, <1>5, <1>6, ZenonT(60) DEF CallStartReq

\* What a step of another thread leaves to the senders, and what _startRoi does
\* to the statistics and the rate.
SendersKept ==
  /\ UNCHANGED <<startedReqs, numReqsSent, sentTmp>>
  /\ \A t \in Threads : pc'[t] = pc[t]
  /\ sent_requests' \in {0, sent_requests}
  /\ UNCHANGED <<qpsIni, qpsInterval, idxListQPS>>
  /\ qpsCounter' \in {0, qpsCounter}
  /\ status' = status \/ (status' = "ROI" /\ qpsCounter' = 0)

\* The receivers, main and the server keep what the senders work on.
LEMMA NoSenderFrame ==
  ASSUME IndInv,
         \/ \E r \in Receivers : Receiver(r)
         \/ MainReturns \/ Environment \/ UNCHANGED vars
  PROVE  SendersKept
<1> PcTypeOK
  BY Zenon DEF IndInv, TypeOK
<1> USE DEF Goto, initVars, reqVars, countVars, statVars, qpsVars, lockVars, clientVars
<1>0. ASSUME UNCHANGED <<startedReqs, numReqsSent, sentTmp, sent_requests, qpsVars, status>>,
             \A t \in Threads : pc'[t] = pc[t]
      PROVE  SendersKept
  BY <1>0, Zenon DEF SendersKept
<1>1. ASSUME NEW r \in Receivers, CallFiniReq(r)
      PROVE  SendersKept
  <2>1. CASE FiniStartsRoi(r, resp[r], "recv")
    BY <1>1, <2>1, Zenon DEF CallFiniReq, FiniStartsRoi, Retire, _startRoi, SendersKept, PcTypeOK
  <2>2. CASE FiniCounts(r, resp[r], "recv")
    BY <1>1, <2>2, Zenon DEF CallFiniReq, FiniCounts, Retire, SendersKept, PcTypeOK
  <2>3. CASE FiniDumps(r, resp[r])
    BY <1>1, <2>3, SMTT(30) DEF CallFiniReq, FiniDumps, Retire, SendersKept, PcTypeOK
  <2> QED BY <1>1, <2>1, <2>2, <2>3, ZenonT(60) DEF CallFiniReq, finiReq
<1>2. ASSUME NEW r \in Receivers, LockRecv(r) \/ ReadResponse(r) \/ ReadFinish(r)
      PROVE  UNCHANGED <<startedReqs, numReqsSent, sentTmp, sent_requests, qpsVars, status>>
             /\ \A t \in Threads : pc'[t] = pc[t]
  BY <1>2, SMTT(30) DEF LockRecv, ReadResponse, ReadFinish, PcTypeOK
<1>3. ASSUME NEW r \in Receivers, RecvFails(r) \/ ExitGroup(r)
      PROVE  UNCHANGED <<startedReqs, numReqsSent, sentTmp, sent_requests, qpsVars, status>>
             /\ \A t \in Threads : pc'[t] = pc[t]
  <2>1. CASE RecvFails(r)
    BY <2>1, SMTT(30) DEF RecvFails, PcTypeOK
  <2>2. CASE ExitGroup(r)
    BY <2>2, Zenon DEF ExitGroup
  <2> QED BY <1>3, <2>1, <2>2, Zenon
<1>4. CASE MainReturns \/ Environment
  <2>1. UNCHANGED <<startedReqs, numReqsSent, sentTmp, sent_requests, qpsVars, status, pc>>
    BY <1>4, ZenonT(40) DEF MainReturns, Environment, Respond, ServerFinish, ServerGoes
  <2> QED BY <1>0, <2>1, Zenon
<1>5. CASE UNCHANGED vars
  <2>1. UNCHANGED <<startedReqs, numReqsSent, sentTmp, sent_requests, qpsVars, status, pc>>
    BY <1>5, Zenon DEF vars
  <2> QED BY <1>0, <2>1, Zenon
<1> QED BY <1>0, <1>1, <1>2, <1>3, <1>4, <1>5, ZenonT(40) DEF Receiver

\* The sends counted in sent_requests have been made, although _startRoi resets
\* the statistic between its read and its write.
LEMMA SentStatStep == IndInv /\ SentStatInv /\ [Next]_vars => SentStatInv'
<1> SUFFICES ASSUME IndInv, SentStatInv, [Next]_vars PROVE SentStatInv'
  BY Zenon
<1>0. PcTypeOK /\ SendLockInv /\ {numReqsSent, sent_requests, sentTmp} \subseteq Nat
  BY ZenonT(40) DEF IndInv, TypeOK, ClientTypeOK, NetTypeOK
<1>1. ASSUME NEW t \in Threads, CallStartReq(t) PROVE SentStatInv'
  BY <1>1, StartReqFrame, Zenon DEF SentStatInv
<1>2. CASE \/ \E r \in Receivers : Receiver(r)
           \/ MainReturns \/ Environment \/ UNCHANGED vars
  <2>1. SendersKept
    BY <1>2, NoSenderFrame, Zenon
  <2>2. 0 <= numReqsSent /\ (sent_requests < numReqsSent => 0 < numReqsSent)
    BY <1>0
  <2>3. CASE sent_requests' = sent_requests
    BY <2>1, <2>3, Zenon DEF SendersKept, SentStatInv
  <2>4. CASE sent_requests' = 0
    BY <2>1, <2>2, <2>4, Zenon DEF SendersKept, SentStatInv
  <2> QED BY <2>1, <2>3, <2>4, Zenon DEF SendersKept
<1>3. ASSUME NEW t \in Threads, SendSteps(t) PROVE SentStatInv'
  <2> USE DEF Goto, PcTypeOK, countVars, statVars, lockVars
  <2>1. CASE CheckSent(t)
    BY <1>0, <2>1, Zenon DEF CheckSent, SentStatInv
  <2>2. CASE LockSend(t) \/ SkipSend(t)
    BY <1>0, <2>2, Zenon DEF LockSend, SkipSend, SentStatInv
  <2>3. CASE SendOk(t) \/ SendFails(t) \/ SendKills(t)
    BY <1>0, <2>3, Zenon DEF SendOk, SendFails, SendKills, SentStatInv
  <2>4. CASE CountSent(t)
    <3>1. \A u \in Threads : u # t => pc[u] \notin {"stat_read", "stat_write"}
      BY <1>0, <2>4, Zenon DEF SendLockInv, CountSent
    <3> QED BY <1>0, <2>4, <3>1, SMTT(30) DEF CountSent, SentStatInv
  <2>5. CASE ReadSentRequests(t)
    <3>1. \A u \in Threads : u # t => pc[u] \notin {"stat_read", "stat_write"}
      BY <1>0, <2>5, Zenon DEF SendLockInv, ReadSentRequests
    <3> QED BY <1>0, <2>5, <3>1, Zenon DEF ReadSentRequests, SentStatInv
  <2>6. CASE WriteSentRequests(t)
    <3>1. \A u \in Threads : u # t => pc[u] \notin {"stat_read", "stat_write"}
      BY <1>0, <2>6, Zenon DEF SendLockInv, WriteSentRequests
    <3> QED BY <1>0, <2>6, <3>1 DEF WriteSentRequests, SentStatInv
  <2> QED BY <1>3, <2>1, <2>2, <2>3, <2>4, <2>5, <2>6, ZenonT(40) DEF SendSteps
<1> QED BY <1>1, <1>2, <1>3, Zenon DEF Next, Ended, Sender, SendSteps

\* The statistic sent_requests never reports a send that was not made.
THEOREM SentStatIsBounded == Spec => []SentStatBounded
<1>1. Init => SentStatInv
  BY DEF Init, InitClient, SentStatInv
<1>2. SentStatInv => SentStatBounded
  BY Zenon DEF SentStatInv, SentStatBounded
<1> QED BY <1>1, <1>2, SentStatStep, Invariance, PTL DEF Spec

\* recvLock changes hands only between a receiver that starts to read and the
\* end of its read; RecvFails keeps it.
LEMMA RecvLockStep == IndInv /\ RecvLockInv /\ [Next]_vars => RecvLockInv'
<1> SUFFICES ASSUME IndInv, RecvLockInv, [Next]_vars PROVE RecvLockInv'
  BY Zenon
<1>0. PcTypeOK /\ NetTypeOK
  BY Zenon DEF IndInv, TypeOK
<1> USE DEF Goto, PcTypeOK, lockVars, netVars
<1>1. ASSUME recvLock' = recvLock, server' = server \/ server' = "gone",
             \A r \in Receivers : pc'[r] = pc[r]
      PROVE  RecvLockInv'
  BY <1>1, Zenon DEF RecvLockInv
<1>2. ASSUME NEW t \in Threads, CallStartReq(t) PROVE RecvLockInv'
  BY <1>1, <1>2, StartReqFrame, Zenon
<1>3. ASSUME NEW t \in Threads, SendSteps(t) PROVE RecvLockInv'
  <2>1. recvLock' = recvLock /\ server' = server /\ \A r \in Receivers : pc'[r] = pc[r]
    <3>1. CASE CheckSent(t) \/ LockSend(t) \/ SkipSend(t)
      BY <1>0, <3>1, Zenon DEF CheckSent, LockSend, SkipSend
    <3>2. CASE SendOk(t) \/ SendFails(t) \/ SendKills(t)
      BY <1>0, <3>2, Zenon DEF SendOk, SendFails, SendKills
    <3>3. CASE CountSent(t) \/ ReadSentRequests(t) \/ WriteSentRequests(t)
      BY <1>0, <3>3, Zenon DEF CountSent, ReadSentRequests, WriteSentRequests
    <3> QED BY <1>3, <3>1, <3>2, <3>3, Zenon DEF SendSteps
  <2> QED BY <1>1, <2>1, Zenon
<1>4. ASSUME NEW r \in Receivers, Receiver(r) PROVE RecvLockInv'
  <2>1. CASE LockRecv(r)
    BY <1>0, <2>1, Zenon DEF LockRecv, RecvLockInv
  <2>2. CASE ReadResponse(r)
    BY <1>0, <2>2, Zenon DEF ReadResponse, RecvLockInv
  <2>3. CASE ReadFinish(r)
    BY <1>0, <2>3, Zenon DEF ReadFinish, RecvLockInv
  <2>4. CASE RecvFails(r)
    BY <1>0, <2>4, Zenon DEF RecvFails, RecvLockInv
  <2>5. CASE CallFiniReq(r)
    <3>1. /\ UNCHANGED <<recvLock, server>> /\ pc[r] = "fini"
          /\ \E to \in {"recv", "exit_group"} : pc' = [pc EXCEPT ![r] = to]
      BY <2>5, Zenon DEF CallFiniReq, finiReq, FiniStartsRoi, FiniCounts, FiniDumps
    <3> QED BY <1>0, <3>1, Zenon DEF RecvLockInv
  <2>6. CASE ExitGroup(r)
    BY <1>1, <2>6, Zenon DEF ExitGroup
  <2> QED BY <1>4, <2>1, <2>2, <2>3, <2>4, <2>5, <2>6, ZenonT(60) DEF Receiver
<1>5. CASE MainReturns \/ Environment \/ UNCHANGED vars
  <2>1. recvLock' = recvLock /\ pc' = pc /\ (server' = server \/ server' = "gone" \/ server = "up")
    BY <1>5, Zenon DEF MainReturns, Environment, Respond, ServerFinish, ServerGoes, vars, clientVars
  <2> QED BY <2>1, Zenon DEF RecvLockInv
<1> QED BY <1>2, <1>3, <1>4, <1>5, ZenonT(40) DEF Next, Ended, Sender, SendSteps

\* recvLock is left locked by a finished receiver only once the connection has
\* ended.
THEOREM RecvLockOrphanedAtEnd == Spec => []RecvLockOrphanedOnlyAtEnd
<1>1. Init => RecvLockInv
  BY Zenon DEF Init, RecvLockInv
<1>2. ASSUME IndInv, RecvLockInv PROVE RecvLockOrphanedOnlyAtEnd
  BY <1>2, Zenon DEF RecvLockInv, RecvLockOrphanedOnlyAtEnd, IndInv, TypeOK, NetTypeOK
<1> QED BY <1>1, <1>2, RecvLockStep, Invariance, PTL DEF Spec

\* Rescaling keeps the time at a rate: rounding up when the rate drops, and
\* exactly when it is multiplied.
LEMMA ScalingKeepsTime ==
  ASSUME NEW q \in Nat, NEW i \in Nat \ {0}, NEW n \in Nat \ {0},
         NEW a \in Nat \ {0}, NEW b \in Nat,
         q * a >= b * i,
         n < i \/ \E k \in Nat : n = i * k
  PROVE  /\ (q * n) \div i \in Nat
         /\ ((q * n) \div i + (IF n < i THEN 1 ELSE 0)) * a >= b * n
<1> DEFINE p == q * n
           d == p \div i
<1>1. p \in Nat
  OBVIOUS
<1>2. d \in Nat /\ i * d <= p /\ p < i * (d + 1)
  <2> HIDE DEF p
  <2> QED BY <1>1
<1> HIDE DEF d
<1>3. CASE n < i
  <2> DEFINE x == (d + 1) * a
  <2>1. x \in Nat /\ b * n \in Nat
    BY <1>2
  <2>2. i * x = (i * (d + 1)) * a
    BY <1>2
  <2>3. (i * (d + 1)) * a >= p * a
    <3> DEFINE y == i * (d + 1)
    <3>1. y \in Nat
      BY <1>2, SMTT(30)
    <3>2. y >= p
      BY <1>1, <1>2, <3>1, SMTT(30)
    <3> HIDE DEF y, p
    <3>3. y * a >= p * a
      BY <1>1, <3>1, <3>2
    <3> QED BY <3>3, Zenon DEF y
  <2>4. p * a = (q * a) * n
    OBVIOUS
  <2>5. (q * a) * n >= (b * i) * n
    <3> DEFINE y == q * a
               z == b * i
    <3>1. y \in Nat /\ z \in Nat /\ y >= z
      OBVIOUS
    <3> HIDE DEF y, z
    <3>2. y * n >= z * n
      BY <3>1, SMTT(30)
    <3> QED BY <3>2, Zenon DEF y, z
  <2>6. (b * i) * n = i * (b * n)
    OBVIOUS
  <2>7. i * x >= i * (b * n)
    <3>1. (i * (d + 1)) * a \in Nat /\ p * a \in Nat /\ (q * a) * n \in Nat /\ (b * i) * n \in Nat
      BY <1>1, <1>2
    <3> DEFINE A == (i * (d + 1)) * a
               B == p * a
               C == (q * a) * n
               D == (b * i) * n
               l == i * x
               r == i * (b * n)
    <3> HIDE DEF A, B, C, D, l, r
    <3>2. /\ l = A /\ A >= B /\ B = C /\ C >= D /\ D = r
          /\ A \in Nat /\ B \in Nat /\ C \in Nat /\ D \in Nat
      BY <2>2, <2>3, <2>4, <2>5, <2>6, <3>1, ZenonT(40) DEF A, B, C, D, l, r
    <3>3. l >= r
      BY <3>2
    <3> QED BY <3>3, Zenon DEF l, r
  <2>8. x >= b * n
    <3> DEFINE z == b * n
    <3> HIDE DEF x, z
    <3>1. x \in Nat /\ z \in Nat /\ i * x >= i * z
      BY <2>1, <2>7, Zenon DEF z
    <3>2. x >= z
      BY <3>1
    <3> QED BY <3>2, Zenon DEF z
  <2> QED BY <1>2, <1>3, <2>8, Zenon DEF d
<1>4. CASE ~(n < i)
  <2>1. PICK k \in Nat : n = i * k
    BY <1>4, Zenon
  <2>2. p = i * (q * k) /\ q * k \in Nat
    BY <2>1
  <2>3. d = q * k
    <3> DEFINE y == q * k
    <3> HIDE DEF y, p
    <3>1. y \in Nat /\ p = i * y
      BY <2>2, Zenon DEF y
    <3>2. i * d <= i * y /\ i * y < i * (d + 1)
      BY <1>2, <3>1, ZenonT(40)
    <3>3. d = y
      BY <1>2, <3>1, <3>2, SMTT(30)
    <3> QED BY <3>3, Zenon DEF y
  <2>4. d * a = (q * a) * k
    BY <2>3
  <2>5. (q * a) * k >= (b * i) * k
    <3> DEFINE y == q * a
               z == b * i
    <3>1. y \in Nat /\ z \in Nat /\ y >= z
      OBVIOUS
    <3> HIDE DEF y, z
    <3>2. y * k >= z * k
      BY <3>1
    <3> QED BY <3>2, Zenon DEF y, z
  <2>6. (b * i) * k = b * n
    BY <2>1
  <2>7. d * a >= b * n
    BY <2>4, <2>5, <2>6, Zenon
  <2>8. d + (IF n < i THEN 1 ELSE 0) = d
    BY <1>2, <1>4, SMTT(30)
  <2> QED BY <1>2, <2>7, <2>8, Zenon DEF d
<1> QED BY <1>3, <1>4, Zenon

\* The rates of the cycle are positive, and one divides the other.
LEMMA RatesDivide ==
  ASSUME NEW i \in DOMAIN listQPS, NEW j \in DOMAIN listQPS
  PROVE  /\ listQPS[i] \in Nat \ {0}
         /\ listQPS[j] \in Nat \ {0}
         /\ listQPS[j] < listQPS[i] \/ \E k \in Nat : listQPS[j] = listQPS[i] * k
<1>1. listQPS \in Seq(Nat \ {0})
  BY DEF listQPS
<1>2. listQPS[i] \in Nat \ {0} /\ listQPS[j] \in Nat \ {0}
  BY <1>1
<1>3. PICK k \in Doublings : listQPS[i] = listQPS[j] * k \/ listQPS[j] = listQPS[i] * k
  BY RatesExact, Zenon
<1>4. k \in Nat \ {0}
  BY DEF Doublings
<1> DEFINE x == listQPS[i]
           y == listQPS[j]
<1> HIDE DEF x, y
<1>5. x \in Nat \ {0} /\ y \in Nat \ {0} /\ (x = y * k \/ y = x * k)
  BY <1>2, <1>3, Zenon DEF x, y
<1>6. CASE x = y * k /\ k = 1
  BY <1>2, <1>5, <1>6 DEF x, y
<1>7. CASE x = y * k /\ k # 1
  <2>1. y < x
    BY <1>4, <1>5, <1>7, SMTT(30)
  <2> QED BY <1>2, <2>1, Zenon DEF x, y
<1>8. CASE y = x * k
  BY <1>2, <1>4, <1>8, Zenon DEF x, y
<1> QED BY <1>5, <1>6, <1>7, <1>8, Zenon

\* The next rate of TBENCH_VARQPS=2 is one of the list, and the interval is
\* rescaled to it.
LEMMA NextRateKeeps ==
  ASSUME IndInv, RateInv, NextRate
  PROVE  /\ qpsInterval' \in Nat
         /\ qpsIni' \in Nat \ {0}
         /\ \E i \in DOMAIN listQPS : qpsIni' = listQPS[i]
         /\ qpsInterval' * IniQps >= IntervalQps * qpsIni'
<1>1. idxListQPS \in Nat
  BY Zenon DEF IndInv, TypeOK, ClientTypeOK
<1>2. listQPS \in Seq(Nat \ {0}) /\ Len(listQPS) \in Nat \ {0}
  BY DEF listQPS
<1>3. (idxListQPS % Len(listQPS)) + 1 \in DOMAIN listQPS
  BY <1>1, <1>2
<1>4. PICK j \in DOMAIN listQPS : qpsIni' = listQPS[j] /\ qpsInterval' = ScaledInterval(listQPS[j])
  BY <1>3, Zenon DEF NextRate
<1>5. PICK i \in DOMAIN listQPS : qpsIni = listQPS[i]
  BY Zenon DEF RateInv, NextRate
<1> DEFINE n == listQPS[j]
<1>6. /\ qpsIni \in Nat \ {0} /\ n \in Nat \ {0}
      /\ n < qpsIni \/ \E k \in Nat : n = qpsIni * k
  BY <1>5, RatesDivide, Zenon
<1>7. qpsInterval \in Nat /\ qpsInterval * IniQps >= IntervalQps * qpsIni
  BY Zenon DEF RateInv, StaysAtLeastAsLong, NextRate
<1> HIDE DEF n
<1>8. /\ (qpsInterval * n) \div qpsIni \in Nat
      /\ ((qpsInterval * n) \div qpsIni + (IF n < qpsIni THEN 1 ELSE 0)) * IniQps >= IntervalQps * n
  <2>1. IniQps \in Nat \ {0} /\ IntervalQps \in Nat
    BY Zenon
  <2> QED BY <1>6, <1>7, <2>1, ScalingKeepsTime, ZenonT(40)
<1>9. ScaledInterval(n) \in Nat
  <2>1. (IF n < qpsIni THEN 1 ELSE 0) \in Nat
    BY Zenon
  <2> QED BY <1>8, <2>1, SMTT(30) DEF ScaledInterval
<1> QED BY <1>4, <1>6, <1>8, <1>9, ZenonT(40) DEF n, ScaledInterval

\* A rate change starts a new interval; between changes the counter stops at
\* the interval.
LEMMA RateStep == IndInv /\ RateInv /\ [Next]_vars => RateInv'
<1> SUFFICES ASSUME IndInv, RateInv, [Next]_vars PROVE RateInv'
  BY Zenon
<1>0. qpsCounter \in Nat /\ qpsInterval \in Nat /\ qpsIni \in Nat
  BY Zenon DEF IndInv, TypeOK, ClientTypeOK, RateInv
<1>1. ASSUME UNCHANGED <<qpsIni, qpsInterval>>,
             status' = "ROI" => qpsCounter' <= qpsInterval
      PROVE  RateInv'
  BY <1>1, Zenon DEF RateInv, CounterWithinInterval, StaysAtLeastAsLong
<1>2. CASE \/ \E r \in Receivers : Receiver(r)
           \/ MainReturns \/ Environment \/ UNCHANGED vars
  <2>1. SendersKept
    BY <1>2, NoSenderFrame, Zenon
  <2> QED BY <1>0, <1>1, <2>1, SMTT(30) DEF SendersKept, RateInv, CounterWithinInterval
<1>3. ASSUME NEW t \in Threads, SendSteps(t) PROVE RateInv'
  <2> USE DEF qpsVars, initVars
  <2>1. UNCHANGED <<qpsIni, qpsInterval, qpsCounter, status>>
    <3>1. CASE CheckSent(t) \/ LockSend(t) \/ SkipSend(t)
      BY <3>1, Zenon DEF CheckSent, LockSend, SkipSend
    <3>2. CASE SendOk(t) \/ SendFails(t) \/ SendKills(t)
      BY <3>2, ZenonT(60) DEF SendOk, SendFails, SendKills
    <3>3. CASE CountSent(t) \/ ReadSentRequests(t) \/ WriteSentRequests(t)
      BY <3>3, Zenon DEF CountSent, ReadSentRequests, WriteSentRequests
    <3> QED BY <1>3, <3>1, <3>2, <3>3, ZenonT(60) DEF SendSteps
  <2> QED BY <1>1, <2>1, Zenon DEF RateInv, CounterWithinInterval
<1>4. ASSUME NEW t \in Threads, CallStartReq(t), ~VaryQps(t) PROVE RateInv'
  <2> USE DEF qpsVars, initVars
  <2>1. UNCHANGED <<qpsIni, qpsInterval, qpsCounter>> /\ status' \in {status, "WARMUP"}
    <3>1. CASE StartReq(t) \/ CheckRoi(t) \/ GenReq(t, "send")
      BY <3>1, Zenon DEF StartReq, CheckRoi, GenReq
    <3>2. CASE BarrierWait(t)
      BY <3>2, Zenon DEF BarrierWait
    <3>3. CASE InitDist(t)
      BY <3>3, Zenon DEF InitDist
    <3> QED BY <1>4, <3>1, <3>2, <3>3, Zenon DEF CallStartReq
  <2> QED BY <1>1, <2>1, Zenon DEF RateInv, CounterWithinInterval
<1>5. ASSUME NEW t \in Threads, VaryQps(t) PROVE RateInv'
  <2>1. CASE qpsCounter # qpsInterval
    <3>1. UNCHANGED <<qpsIni, qpsInterval, status>> /\ qpsCounter' = qpsCounter + 1
      BY <1>5, <2>1, Zenon DEF VaryQps
    <3>2. status = "ROI" => qpsCounter <= qpsInterval
      BY Zenon DEF RateInv, CounterWithinInterval
    <3>3. status = "ROI" => qpsCounter + 1 <= qpsInterval
      BY <1>0, <2>1, <3>2, SMTT(30)
    <3> QED BY <1>1, <3>1, <3>3, Zenon
  <2>2. CASE qpsCounter = qpsInterval
    <3>1. ChangeRate
      BY <1>5, <2>2, Zenon DEF VaryQps
    <3>2. CASE StepRate
      <4>1. /\ qpsInterval' \in Nat /\ qpsIni' \in Nat \ {0} /\ QpsVar # 2
            /\ qpsCounter' <= qpsInterval'
        BY <1>0, <3>1, <3>2, SMTT(30) DEF ChangeRate, StepRate
      <4> QED BY <4>1, Zenon DEF RateInv, CounterWithinInterval, StaysAtLeastAsLong
    <3>3. CASE NextRate
      <4>1. qpsCounter' = 0
        BY <3>1, Zenon DEF ChangeRate
      <4>2. /\ qpsInterval' \in Nat /\ qpsIni' \in Nat \ {0}
            /\ \E i \in DOMAIN listQPS : qpsIni' = listQPS[i]
            /\ qpsInterval' * IniQps >= IntervalQps * qpsIni'
        BY <3>3, NextRateKeeps, Zenon
      <4>3. qpsCounter' <= qpsInterval'
        BY <4>1, <4>2, SMTT(30)
      <4> QED BY <4>2, <4>3, Zenon DEF RateInv, CounterWithinInterval, StaysAtLeastAsLong
    <3> QED BY <3>1, <3>2, <3>3, Zenon DEF ChangeRate
  <2> QED BY <2>1, <2>2, Zenon
<1> QED BY <1>2, <1>3, <1>4, <1>5, ZenonT(40) DEF Next, Ended, Sender, SendSteps

\* The rate schedule starts within the invariant.
LEMMA RateInit == Init => RateInv
<1> SUFFICES ASSUME Init PROVE RateInv
  BY Zenon
<1>1. qpsIni = IniQps /\ qpsInterval = IntervalQps /\ qpsCounter = 0
  BY Zenon DEF Init, InitClient
<1>2. 1 \in DOMAIN listQPS /\ listQPS[1] = IniQps
  BY DEF listQPS
<1>3. qpsInterval * IniQps >= IntervalQps * qpsIni
  BY <1>1
<1> QED BY <1>1, <1>2, <1>3 DEF RateInv, CounterWithinInterval, StaysAtLeastAsLong

\* The rate counter never steps over the interval.
THEOREM CounterStaysWithinInterval == Spec => []CounterWithinInterval
<1>1. RateInv => CounterWithinInterval
  BY Zenon DEF RateInv
<1> QED BY <1>1, RateInit, RateStep, Invariance, PTL DEF Spec

\* With TBENCH_VARQPS=2 no rate is held for a shorter time than the first.
THEOREM RatesAreHeld == Spec => []StaysAtLeastAsLong
<1>1. RateInv => StaysAtLeastAsLong
  BY Zenon DEF RateInv
<1> QED BY <1>1, RateInit, RateStep, Invariance, PTL DEF Spec

\* The threads before and after the generation of a request are finitely many,
\* and no thread is both.
LEMMA ThreadSets ==
  /\ IsFiniteSet(Coming) /\ IsFiniteSet(Holding)
  /\ Cardinality(Coming) \in Nat /\ Cardinality(Holding) \in Nat
  /\ Cardinality(Threads) \in Nat
  /\ Cardinality(Coming) + Cardinality(Holding) <= Cardinality(Threads)
<1>1. Coming \subseteq Threads /\ Holding \subseteq Threads /\ Coming \cap Holding = {}
  BY Zenon DEF Coming, Holding
<1>2. /\ IsFiniteSet(Coming) /\ IsFiniteSet(Holding)
      /\ Cardinality(Coming) \in Nat /\ Cardinality(Holding) \in Nat
      /\ Cardinality(Threads) \in Nat
  BY <1>1, FS_Subset, FS_CardinalityType, ZenonT(40)
<1>3. Cardinality(Coming \cup Holding) = Cardinality(Coming) + Cardinality(Holding)
  <2>1. Cardinality(Coming \cup Holding)
          = Cardinality(Coming) + Cardinality(Holding) - Cardinality(Coming \cap Holding)
    BY <1>2, FS_Union, Zenon
  <2>2. Cardinality(Coming \cap Holding) = 0
    BY <1>1, FS_EmptySet, Zenon
  <2> QED BY <1>2, <2>1, <2>2, SMTT(30)
<1>4. Cardinality(Coming \cup Holding) <= Cardinality(Threads)
  <2>1. Coming \cup Holding \subseteq Threads
    BY <1>1, Zenon
  <2> QED BY <2>1, FS_Subset, Zenon
<1> QED BY <1>2, <1>3, <1>4, Zenon

\* Where a sender's step takes it, as far as the count of requests goes.
LEMMA SenderMoves ==
  ASSUME IndInv, NEW t \in Threads, Sender(t)
  PROVE  \/ UNCHANGED <<startedReqs, numReqsSent, Coming, Holding>>
         \/ /\ UNCHANGED <<startedReqs, numReqsSent, Holding>>
            /\ numReqsSent < TotalReqs /\ t \notin Coming /\ Coming' = Coming \cup {t}
         \/ /\ startedReqs' = startedReqs + 1 /\ UNCHANGED numReqsSent
            /\ t \in Coming /\ t \notin Holding
            /\ Coming' = Coming \ {t} /\ Holding' = Holding \cup {t}
         \/ /\ UNCHANGED <<startedReqs, numReqsSent, Coming>>
            /\ numReqsSent = TotalReqs /\ t \in Holding /\ Holding' = Holding \ {t}
         \/ /\ numReqsSent' = numReqsSent + 1 /\ UNCHANGED <<startedReqs, Coming>>
            /\ numReqsSent < TotalReqs /\ t \in Holding /\ Holding' = Holding \ {t}
<1>0. PcTypeOK /\ numReqsSent \in Nat /\ TotalReqs \in Nat
  BY CountsAreNat, Zenon DEF IndInv, TypeOK
<1> USE DEF Goto, reqVars, countVars
<1>1. CASE CheckSent(t)
  <2>1. CASE numReqsSent >= TotalReqs
    BY <1>0, <1>1, <2>1, ZenonT(60) DEF CheckSent, Coming, Holding, PcTypeOK
  <2>2. CASE ~(numReqsSent >= TotalReqs)
    <3>1. pc[t] = "check" /\ pc' = [pc EXCEPT ![t] = "startReq"]
      BY <1>1, <2>2, Zenon DEF CheckSent
    <3>2. t \notin Coming /\ Coming' = Coming \cup {t} /\ Holding' = Holding
      BY <1>0, <3>1, Zenon DEF Coming, Holding, PcTypeOK
    <3> QED BY <1>0, <1>1, <2>2, <3>2, SMTT(30) DEF CheckSent
  <2> QED BY <2>1, <2>2, Zenon
<1>2. CASE CallStartReq(t)
  <2>1. CASE BarrierWait(t)
    <3>1. CASE barrier \cup {t} = Threads
      <4>1. \A u \in Threads : pc[u] \in {"barrier1", "barrier2"}
        BY <2>1, <3>1, ZenonT(40) DEF IndInv, StartInv, BarrierWait
      <4>2. \A u \in Threads : pc'[u] = AfterBarrier[pc[u]]
        BY <1>0, <2>1, <3>1, ZenonT(40) DEF BarrierWait, PcTypeOK
      <4>3. \A u \in Threads : pc'[u] \in {"init", "roi"}
        BY <4>1, <4>2, SMTT(30) DEF AfterBarrier
      <4>4. Coming' = Coming /\ Holding' = Holding
        BY <4>1, <4>3, Zenon DEF Coming, Holding
      <4> QED BY <2>1, <4>4, ZenonT(40) DEF BarrierWait
    <3>2. CASE barrier \cup {t} # Threads
      BY <2>1, <3>2, ZenonT(60) DEF BarrierWait, Coming, Holding
    <3> QED BY <3>1, <3>2, Zenon
  <2>2. CASE GenReq(t, "send")
    <3>1. pc[t] = "gen" /\ pc' = [pc EXCEPT ![t] = "send"]
      BY <2>2, Zenon DEF GenReq
    <3>2. /\ t \in Coming /\ t \notin Holding
          /\ Coming' = Coming \ {t} /\ Holding' = Holding \cup {t}
      BY <1>0, <3>1, Zenon DEF Coming, Holding, PcTypeOK
    <3> QED BY <2>2, <3>2, Zenon DEF GenReq
  <2>3. CASE StartReq(t) \/ InitDist(t) \/ CheckRoi(t) \/ VaryQps(t)
    <3>1. /\ pc[t] \in {"startReq", "init", "roi", "qps"}
          /\ \E to \in {"barrier1", "barrier2", "roi", "qps", "gen"} : pc' = [pc EXCEPT ![t] = to]
          /\ UNCHANGED <<startedReqs, numReqsSent>>
      BY <2>3, Zenon DEF StartReq, InitDist, CheckRoi, VaryQps
    <3>2. Coming' = Coming /\ Holding' = Holding
      BY <1>0, <3>1, ZenonT(40) DEF Coming, Holding, PcTypeOK
    <3> QED BY <3>1, <3>2, Zenon
  <2> QED BY <1>2, <2>1, <2>2, <2>3, ZenonT(60) DEF CallStartReq
<1>3. CASE LockSend(t) \/ SendOk(t) \/ SendFails(t) \/ SendKills(t)
  <2>1. /\ pc[t] \in {"send", "sending"}
        /\ pc' = pc \/ \E to \in {"sending", "sent"} : pc' = [pc EXCEPT ![t] = to]
        /\ UNCHANGED <<startedReqs, numReqsSent>>
    BY <1>3, ZenonT(60) DEF LockSend, SendOk, SendFails, SendKills
  <2>2. Coming' = Coming /\ Holding' = Holding
    BY <1>0, <2>1, Zenon DEF Coming, Holding, PcTypeOK
  <2> QED BY <2>1, <2>2, Zenon
<1>4. CASE ReadSentRequests(t) \/ WriteSentRequests(t)
  <2>1. /\ pc[t] \in {"stat_read", "stat_write"}
        /\ \E to \in {"stat_write", "check", "done"} : pc' = [pc EXCEPT ![t] = to]
        /\ UNCHANGED <<startedReqs, numReqsSent>>
    BY <1>4, Zenon DEF ReadSentRequests, WriteSentRequests
  <2>2. Coming' = Coming /\ Holding' = Holding
    BY <1>0, <2>1, Zenon DEF Coming, Holding, PcTypeOK
  <2> QED BY <2>1, <2>2, Zenon
<1>5. CASE SkipSend(t) \/ CountSent(t)
  <2>1. pc[t] \in {"sending", "sent"} /\ \E to \in {"check", "stat_read"} : pc' = [pc EXCEPT ![t] = to]
    BY <1>5, Zenon DEF SkipSend, CountSent
  <2>2. Coming' = Coming /\ t \in Holding /\ Holding' = Holding \ {t}
    BY <1>0, <2>1, Zenon DEF Coming, Holding, PcTypeOK
  <2>3. CASE SkipSend(t)
    BY <2>2, <2>3, ZenonT(40) DEF SkipSend, MaySend
  <2>4. CASE CountSent(t)
    <3>1. SentPending = 1
      BY <2>4, ZenonT(40) DEF SentPending, CountSent
    <3>2. numReqsSent < TotalReqs
      BY <1>0, <3>1, SMTT(30) DEF IndInv, CountInv
    <3> QED BY <2>2, <2>4, <3>2, Zenon DEF CountSent
  <2> QED BY <1>5, <2>3, <2>4, Zenon
<1> QED BY <1>1, <1>2, <1>3, <1>4, <1>5, ZenonT(40) DEF Sender

\* Every generated request is sent, about to be sent, or one of those that came
\* too late.
LEMMA GenStep == IndInv /\ GenInv /\ [Next]_vars => GenInv'
<1> SUFFICES ASSUME IndInv, GenInv, [Next]_vars PROVE GenInv'
  BY Zenon
<1> DEFINE n == numReqsSent
           s == startedReqs
           c == Cardinality(Coming)
           h == Cardinality(Holding)
           T == Cardinality(Threads)
<1>0. /\ n \in Nat /\ s \in Nat /\ c \in Nat /\ h \in Nat /\ T \in Nat /\ TotalReqs \in Nat
      /\ c + h <= T
      /\ IsFiniteSet(Coming) /\ IsFiniteSet(Holding)
  BY CountsAreNat, ThreadSets, ZenonT(40) DEF IndInv, TypeOK, ClientTypeOK
<1>g. /\ s >= n + h
      /\ n < TotalReqs => s = n + h
      /\ n = TotalReqs => s + c <= TotalReqs + T - 1
  BY Zenon DEF GenInv
<1>s. ASSUME s' >= n' + h',
             n' < TotalReqs => s' = n' + h',
             n' = TotalReqs => s' + c' <= TotalReqs + T - 1
      PROVE  GenInv'
  BY <1>s, Zenon DEF GenInv
<1> HIDE DEF n, s, c, h, T
<1>1. CASE UNCHANGED <<startedReqs, numReqsSent, Coming, Holding>>
  <2>1. n' = n /\ s' = s /\ c' = c /\ h' = h
    BY <1>1, Zenon DEF n, s, c, h
  <2> QED BY <1>g, <1>s, <2>1, Zenon
<1>2. ASSUME NEW t \in Threads, Sender(t) PROVE GenInv'
  <2>1. CASE /\ UNCHANGED <<startedReqs, numReqsSent, Holding>>
             /\ numReqsSent < TotalReqs /\ t \notin Coming /\ Coming' = Coming \cup {t}
    <3>1. n' = n /\ s' = s /\ h' = h /\ n < TotalReqs
      BY <2>1, Zenon DEF n, s, h
    <3> QED BY <1>0, <1>g, <1>s, <3>1, SMTT(30)
  <2>2. CASE /\ startedReqs' = startedReqs + 1 /\ UNCHANGED numReqsSent
             /\ t \in Coming /\ t \notin Holding
             /\ Coming' = Coming \ {t} /\ Holding' = Holding \cup {t}
    <3>1. n' = n /\ s' = s + 1 /\ c' = c - 1 /\ h' = h + 1
      BY <1>0, <2>2, OneMore, OneLess, ZenonT(40) DEF n, s, c, h
    <3> QED BY <1>0, <1>g, <1>s, <3>1, SMTT(30)
  <2>3. CASE /\ UNCHANGED <<startedReqs, numReqsSent, Coming>>
             /\ numReqsSent = TotalReqs /\ t \in Holding /\ Holding' = Holding \ {t}
    <3>1. n' = n /\ s' = s /\ c' = c /\ h' = h - 1 /\ n = TotalReqs
      BY <1>0, <2>3, OneLess, ZenonT(40) DEF n, s, c, h
    <3> QED BY <1>0, <1>g, <1>s, <3>1, SMTT(30)
  <2>4. CASE /\ numReqsSent' = numReqsSent + 1 /\ UNCHANGED <<startedReqs, Coming>>
             /\ numReqsSent < TotalReqs /\ t \in Holding /\ Holding' = Holding \ {t}
    <3>1. n' = n + 1 /\ s' = s /\ c' = c /\ h' = h - 1 /\ n < TotalReqs
      BY <1>0, <2>4, OneLess, Zenon DEF n, s, c, h
    <3> QED BY <1>0, <1>g, <1>s, <3>1, SMTT(30)
  <2> QED BY <1>1, <1>2, <2>1, <2>2, <2>3, <2>4, SenderMoves, ZenonT(60)
<1>3. CASE \/ \E r \in Receivers : Receiver(r)
           \/ MainReturns \/ Environment \/ UNCHANGED vars
  <2>1. SendersKept
    BY <1>3, NoSenderFrame, ZenonT(60)
  <2>2. UNCHANGED <<startedReqs, numReqsSent, Coming, Holding>>
    BY <2>1, Zenon DEF SendersKept, Coming, Holding
  <2> QED BY <1>1, <2>2, Zenon
<1> QED BY <1>2, <1>3, ZenonT(60) DEF Next, Ended

\* Nothing has been generated when the client starts.
LEMMA GenInit == Init => GenInv
<1> SUFFICES ASSUME Init PROVE GenInv
  BY Zenon
<1>1. Coming = {} /\ Holding = {} /\ numReqsSent = 0 /\ startedReqs = 0
  BY Zenon DEF Init, InitClient, Coming, Holding
<1>2. Cardinality(Coming) = 0 /\ Cardinality(Holding) = 0
  BY <1>1, FS_EmptySet, Zenon
<1>3. TotalReqs \in Nat \ {0}
  BY DEF TotalReqs
<1> QED BY <1>1, <1>2, <1>3, SMTT(30) DEF GenInv

\* What GenInv says of the number of generated requests.
LEMMA GenBounds ==
  ASSUME IndInv, GenInv
  PROVE  /\ startedReqs <= TotalReqs + Cardinality(Threads) - 1
         /\ numReqsCompleted + Cardinality(FiniReceivers) <= startedReqs
<1>0. /\ numReqsSent \in Nat /\ startedReqs \in Nat /\ TotalReqs \in Nat
      /\ SentPending \in {0, 1}
      /\ numReqsSent + SentPending <= TotalReqs
  BY CountsAreNat, ZenonT(40) DEF IndInv, TypeOK, ClientTypeOK, CountInv
<1>1. numReqsSent <= TotalReqs
  BY <1>0
<1>2. startedReqs <= TotalReqs + Cardinality(Threads) - 1
  BY <1>0, <1>1, ThreadSets, SMTT(30) DEF GenInv
<1>3. SentPending <= Cardinality(Holding)
  <2>1. CASE \E t \in Threads : pc[t] = "sent"
    <3>1. Holding # {}
      BY <2>1, Zenon DEF Holding
    <3>2. Cardinality(Holding) # 0
      BY <3>1, ThreadSets, FS_EmptySet, ZenonT(40)
    <3> QED BY <1>0, <3>2, ThreadSets, SMTT(30)
  <2>2. CASE ~\E t \in Threads : pc[t] = "sent"
    BY <2>2, ThreadSets, SMTT(30) DEF SentPending
  <2> QED BY <2>1, <2>2, Zenon
<1>4. numReqsSent + SentPending <= startedReqs
  BY <1>0, <1>3, ThreadSets, SMTT(30) DEF GenInv
<1>5. numReqsCompleted + Cardinality(FiniReceivers) <= numReqsSent + SentPending
  BY CountsAreNat, FiniFinite, SMTT(30) DEF IndInv, CountInv, Due
<1>6. numReqsCompleted \in Nat /\ Cardinality(FiniReceivers) \in Nat
  BY CountsAreNat, FiniFinite, Zenon
<1> QED BY <1>0, <1>2, <1>4, <1>5, <1>6, SMTT(30)

\* Senders that passed the loop head generate at most one request each beyond
\* the budget, and not all of them do.
THEOREM OverGenerationIsBounded == Spec => []OverGenerationBounded
<1>1. IndInv /\ GenInv => OverGenerationBounded
  BY GenBounds, Zenon DEF OverGenerationBounded
<1> QED BY <1>1, GenInit, GenStep, Invariance, PTL DEF Spec

=============================================================================
