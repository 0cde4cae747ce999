------------------------- MODULE TimedClientProofs --------------------------
(***************************************************************************)
(* Proofs about TimedClient: its steps are steps of NetworkedClient, so    *)
(* the theorems about NetworkedClient carry over, and a request is never   *)
(* answered before it was due.                                             *)
(***************************************************************************)
EXTENDS TimedClient, NetworkedClientProofs

USE ClientAssumption, NetworkedAssumption, TimedAssumption

-----------------------------------------------------------------------------
(* Every behaviour of TimedClient is one of NetworkedClient.               *)

\* A step with the clock is a step without it.
LEMMA TimedStepIsStep == [TimedNext]_timedVars => [Next]_vars
<1> SUFFICES ASSUME [TimedNext]_timedVars PROVE [Next]_vars
  BY Zenon
<1>1. ASSUME NEW t \in Threads, TimedSender(t) PROVE Sender(t)
  BY <1>1, Zenon DEF TimedSender, Sender, ReadStart, StartSchedule, Schedule, StampSent, RestOfSender
<1>2. ASSUME NEW r \in Receivers, TimedReceiver(r) PROVE Receiver(r)
  BY <1>2, Zenon DEF TimedReceiver, Receiver, TimedFiniReq
<1>3. ASSUME NEW id \in atServer, TimedRespond(id) PROVE Environment
  BY <1>3, Zenon DEF TimedRespond, Environment
<1>4. CASE Tick \/ UNCHANGED timedVars
  BY <1>4, Zenon DEF Tick, timedVars
<1> QED BY <1>1, <1>2, <1>3, <1>4, Zenon DEF TimedNext, Next, Environment

\* The client with its clock implements the client without it, so every
\* theorem about NetworkedClient holds of it.
THEOREM TimedImplementsUntimed == TimedSpec => Spec
<1>1. TimedInit => Init
  BY Zenon DEF TimedInit
<1> QED BY <1>1, TimedStepIsStep, PTL DEF TimedSpec, Spec

-----------------------------------------------------------------------------
(* The inductive invariant.                                                *)

\* A step that changes no stamp of a request that stays in flight, and stamps a
\* new one with times that have passed.
KeepsStamps ==
  /\ TimeTypeOK'
  /\ clock <= clock'
  /\ \A t \in Threads : startNs'[t] <= clock'
  /\ \A id \in inFlightReqs' :
       IF id \in inFlightReqs THEN stamp'[id] = stamp[id]
       ELSE stamp'[id].start <= clock' /\ stamp'[id].sent <= clock'

\* A step that takes requests only along their way: from a sender inside send
\* to the server, once later than they were sent to the replies, to a receiver.
KeepsPlaces ==
  /\ \A t \in Threads : pc'[t] = "sending" => pc[t] = "sending" /\ req'[t] = req[t]
  /\ \A id \in atServer' :
       id \in atServer \/ \E t \in Threads : pc[t] = "sending" /\ req[t] = id
  /\ \A id \in replies' :
       id \in replies \/ (id \in atServer /\ stamp[id].sent < clock)
  /\ \A r \in FiniReceivers' :
       \/ r \in FiniReceivers /\ resp'[r] = resp[r]
       \/ resp'[r] \in replies

\* The stamps of a request in flight are natural numbers.
LEMMA StampType ==
  ASSUME TimeTypeOK, NEW id \in inFlightReqs
  PROVE  /\ stamp[id].start \in Nat
         /\ stamp[id].gen \in Nat
         /\ stamp[id].sent \in Nat
BY Zenon DEF TimeTypeOK, Stamps

\* The requests on their way are in flight.
LEMMA OnTheWayInFlight ==
  ASSUME PlaceInv
  PROVE  /\ \A id \in atServer \cup replies : id \in inFlightReqs
         /\ \A t \in Threads : pc[t] \in {"send", "sending"} => req[t] \in inFlightReqs
         /\ \A r \in FiniReceivers : resp[r] \in inFlightReqs
BY Zenon DEF PlaceInv, TouchesReq

\* The same, after a step.
LEMMA OnTheWayInFlightNext ==
  ASSUME PlaceInv'
  PROVE  /\ \A id \in atServer' \cup replies' : id \in inFlightReqs'
         /\ \A t \in Threads : pc'[t] \in {"send", "sending"} => req'[t] \in inFlightReqs'
         /\ \A r \in FiniReceivers' : resp'[r] \in inFlightReqs'
BY Zenon DEF PlaceInv, TouchesReq

\* A step that keeps stamps and places keeps the invariant.
LEMMA TimeFrame ==
  ASSUME TimeInv, PlaceInv, PlaceInv', KeepsStamps, KeepsPlaces
  PROVE  TimeInv'
<1>0. TimeTypeOK /\ TimeTypeOK' /\ clock \in Nat /\ clock' \in Nat /\ clock <= clock'
  BY ZenonT(40) DEF TimeInv, TimeTypeOK, KeepsStamps
<1>1. ASSUME NEW id \in inFlightReqs, id \in inFlightReqs'
      PROVE  /\ stamp'[id] = stamp[id]
             /\ stamp[id].start \in Nat /\ stamp[id].gen \in Nat /\ stamp[id].sent \in Nat
             /\ stamp[id].start <= clock /\ stamp[id].sent <= clock
             /\ SentInTime(id) => SentInTime(id)'
             /\ stamp[id].sent < clock => stamp'[id].sent < clock'
  <2>1. stamp'[id] = stamp[id]
    BY <1>1, Zenon DEF KeepsStamps
  <2>2. stamp[id].start \in Nat /\ stamp[id].gen \in Nat /\ stamp[id].sent \in Nat
    BY <1>0, StampType, Zenon
  <2>3. stamp[id].start <= clock /\ stamp[id].sent <= clock
    BY Zenon DEF TimeInv
  <2>4. SentInTime(id) => SentInTime(id)'
    BY <2>1, Zenon DEF SentInTime, Origin
  <2> QED BY <1>0, <2>1, <2>2, <2>3, <2>4, SMTT(30)
<1>2. \A id \in inFlightReqs' : stamp'[id].start <= clock' /\ stamp'[id].sent <= clock'
  <2> SUFFICES ASSUME NEW id \in inFlightReqs'
               PROVE  stamp'[id].start <= clock' /\ stamp'[id].sent <= clock'
    BY Zenon
  <2>1. CASE id \in inFlightReqs
    BY <1>0, <1>1, <2>1, SMTT(30)
  <2>2. CASE id \notin inFlightReqs
    BY <2>2, Zenon DEF KeepsStamps
  <2> QED BY <2>1, <2>2, Zenon
<1>3. \A t \in Threads : pc'[t] = "sending" => SentInTime(req[t])' 
  <2> SUFFICES ASSUME NEW t \in Threads, pc'[t] = "sending" PROVE SentInTime(req[t])'
    BY Zenon
  <2>1. pc[t] = "sending" /\ req'[t] = req[t] /\ SentInTime(req[t])
    BY Zenon DEF KeepsPlaces, TimeInv
  <2>2. req[t] \in inFlightReqs /\ req'[t] \in inFlightReqs'
    BY <2>1, OnTheWayInFlight, OnTheWayInFlightNext, ZenonT(40)
  <2>3. Origin(stamp[req[t]])' = Origin(stamp[req[t]]) /\ stamp'[req'[t]] = stamp[req[t]]
    BY <1>1, <2>1, <2>2, SMTT(30) DEF Origin
  <2> QED BY <2>1, <2>3, Zenon DEF SentInTime
<1>4. /\ \A id \in atServer' \cup replies' : SentInTime(id)'
      /\ \A id \in replies' : stamp'[id].sent < clock'
  <2>1. ASSUME NEW id \in atServer' PROVE SentInTime(id)'
    <3>1. id \in inFlightReqs /\ id \in inFlightReqs' /\ SentInTime(id)
      BY OnTheWayInFlight, OnTheWayInFlightNext, ZenonT(40) DEF KeepsPlaces, TimeInv
    <3> QED BY <1>1, <3>1, Zenon
  <2>2. ASSUME NEW id \in replies' PROVE SentInTime(id)' /\ stamp'[id].sent < clock'
    <3>1. id \in inFlightReqs /\ id \in inFlightReqs' /\ SentInTime(id) /\ stamp[id].sent < clock
      BY OnTheWayInFlight, OnTheWayInFlightNext, ZenonT(40) DEF KeepsPlaces, TimeInv
    <3> QED BY <1>1, <3>1, Zenon
  <2> QED BY <2>1, <2>2, Zenon
<1>5. \A r \in FiniReceivers' : SentInTime(resp[r])' /\ stamp'[resp'[r]].sent < clock'
  <2> SUFFICES ASSUME NEW r \in FiniReceivers'
               PROVE  SentInTime(resp[r])' /\ stamp'[resp'[r]].sent < clock'
    BY Zenon
  <2> DEFINE id == resp'[r]
  <2>1. id \in inFlightReqs /\ id \in inFlightReqs' /\ SentInTime(id) /\ stamp[id].sent < clock
    BY OnTheWayInFlight, OnTheWayInFlightNext, Zenon DEF KeepsPlaces, TimeInv
  <2>2. stamp'[id] = stamp[id] /\ stamp'[id].sent < clock'
    BY <1>1, <2>1, ZenonT(40)
  <2>3. SentInTime(resp[r])'
    BY <2>1, <2>2, ZenonT(40) DEF SentInTime, Origin
  <2> QED BY <2>2, <2>3, Zenon
<1> QED BY <1>0, <1>2, <1>3, <1>4, <1>5, Zenon DEF TimeInv, KeepsStamps

\* A step that leaves the stamps alone.
LEMMA StampsFrame ==
  ASSUME TimeInv, UNCHANGED <<startNs, stamp, inFlightReqs>>,
         {clock', curNs', timely_gen_requests'} \subseteq Nat, clock <= clock'
  PROVE  KeepsStamps
<1>1. TimeTypeOK /\ clock \in Nat /\ clock' \in Nat
  BY Zenon DEF TimeInv, TimeTypeOK
<1>2. TimeTypeOK'
  BY <1>1, Zenon DEF TimeTypeOK
<1>3. ASSUME NEW t \in Threads PROVE startNs'[t] <= clock'
  <2>1. startNs[t] \in Nat /\ startNs[t] <= clock
    BY <1>1, Zenon DEF TimeInv, TimeTypeOK
  <2> QED BY <1>1, <2>1, SMTT(30)
<1> QED BY <1>2, <1>3, Zenon DEF KeepsStamps

\* startReq takes no request any further.
LEMMA StartReqPlaces ==
  ASSUME IndInv, NEW t \in Threads, CallStartReq(t)
  PROVE  KeepsPlaces
<1> PcTypeOK /\ req \in [Threads -> Nat \cup {NoReq}]
  BY Zenon DEF IndInv, TypeOK, ClientTypeOK
<1>0. UNCHANGED <<atServer, replies, resp>>
  BY Zenon DEF CallStartReq, lockVars, netVars
<1>1. /\ \A u \in Threads : pc'[u] = "sending" => pc[u] = "sending" /\ req'[u] = req[u]
      /\ \A r \in Receivers : pc'[r] = pc[r]
  <2>1. CASE StartReq(t)
    BY <2>1, Zenon DEF StartReq, Goto, PcTypeOK, reqVars
  <2>2. CASE BarrierWait(t)
    <3>1. CASE barrier \cup {t} = Threads
      <4>1. \A u \in Threads : pc[u] \in {"barrier1", "barrier2"}
        BY <2>2, <3>1, ZenonT(40) DEF IndInv, StartInv, BarrierWait
      <4>2. \A u \in Threads : pc'[u] = AfterBarrier[pc[u]]
        BY <2>2, <3>1, ZenonT(40) DEF BarrierWait, PcTypeOK
      <4>3. \A u \in Threads : pc'[u] # "sending"
        BY <4>1, <4>2, SMTT(30) DEF AfterBarrier
      <4>4. \A r \in Receivers : pc'[r] = pc[r]
        BY <2>2, <3>1, Zenon DEF BarrierWait, PcTypeOK
      <4> QED BY <4>3, <4>4, Zenon
    <3>2. CASE barrier \cup {t} # Threads
      BY <2>2, <3>2, Zenon DEF BarrierWait, reqVars
    <3> QED BY <3>1, <3>2, Zenon
  <2>3. CASE InitDist(t)
    BY <2>3, Zenon DEF InitDist, Goto, PcTypeOK, reqVars
  <2>4. CASE CheckRoi(t)
    BY <2>4, Zenon DEF CheckRoi, Goto, PcTypeOK, reqVars
  <2>5. CASE VaryQps(t)
    BY <2>5, Zenon DEF VaryQps, Goto, PcTypeOK, reqVars
  <2>6. CASE GenReq(t, "send")
    BY <2>6, Zenon DEF GenReq, Goto, PcTypeOK
  <2> QED BY <2>1, <2>2, <2>3, <2>4, <2>5, <2>6, ZenonT(40) DEF CallStartReq
<1>2. FiniReceivers' = FiniReceivers
  BY <1>1, Zenon DEF FiniReceivers
<1> QED BY <1>0, <1>1, <1>2, ZenonT(40) DEF KeepsPlaces

\* Rounding a time to the next double gives a time.
LEMMA NearestType ==
  ASSUME NEW x \in Nat
  PROVE  Nearest(x) \in Nat
<1>1. Grain \in Nat /\ Grain > 0 /\ Grain \div 2 \in Nat
  OBVIOUS
<1>2. x + Grain \div 2 \in Nat
  BY <1>1, SMTT(30)
<1> DEFINE y == x + Grain \div 2
<1>3. y \div Grain \in Nat
  <2> HIDE DEF y
  <2> QED BY <1>1, <1>2, SMTT(30) DEF y
<1>4. (y \div Grain) * Grain \in Nat
  BY <1>1, <1>3, SMTT(30)
<1> QED BY <1>4, ZenonT(40) DEF Nearest

\* Every arrival time is a time.
LEMMA ArrivalType ==
  ASSUME TimeInv, NEW gap \in Gaps
  PROVE  nextArrivalNs(gap) \in Nat
<1>1. curNs \in Nat /\ gap \in Nat
  BY Zenon DEF TimeInv, TimeTypeOK
<1>2. Nearest(curNs) \in Nat
  BY <1>1, NearestType, Zenon
<1>3. Nearest(curNs) + gap \in Nat
  BY <1>1, <1>2, SMTT(30)
<1> QED BY <1>3, NearestType, ZenonT(40) DEF nextArrivalNs

\* startReq with its clock: startNs is read, a distribution starts now, or a
\* request is stamped with times that have passed and its arrival time.
LEMMA TimedStartReq ==
  ASSUME IndInv, IndInv', TimeInv, clock' = clock, NEW t \in Threads,
         ReadStart(t) \/ StartSchedule(t) \/ Schedule(t)
  PROVE  TimeInv'
<1>0. /\ PlaceInv /\ PlaceInv' /\ CallStartReq(t) /\ TimeTypeOK /\ clock \in Nat
      /\ inFlightReqs' = inFlightReqs \/ inFlightReqs' = inFlightReqs \cup {startedReqs}
  <2>1. PlaceInv /\ PlaceInv' /\ TimeTypeOK /\ clock \in Nat
    BY Zenon DEF IndInv, TimeInv, TimeTypeOK
  <2>2. CallStartReq(t)
    BY Zenon DEF ReadStart, StartSchedule, Schedule
  <2> QED BY <2>1, <2>2, ZenonT(40) DEF CallStartReq, StartReq, BarrierWait, InitDist, CheckRoi, VaryQps,
     GenReq, reqVars
<1>1. KeepsPlaces
  BY <1>0, StartReqPlaces, Zenon
<1>2. ASSUME pc[t] # "gen" PROVE inFlightReqs' = inFlightReqs
  BY <1>0, <1>2, ZenonT(60) DEF CallStartReq, StartReq, BarrierWait, InitDist, CheckRoi, VaryQps, GenReq,
     reqVars, Goto
<1>3. CASE ReadStart(t)
  <2>1. inFlightReqs' = inFlightReqs
    BY <1>2, <1>3, Zenon DEF ReadStart
  <2>2. TimeTypeOK'
    BY <1>0, <1>3, <2>1, ZenonT(40) DEF ReadStart, TimeTypeOK
  <2>3. \A u \in Threads : startNs'[u] <= clock'
    BY <1>0, <1>3, SMTT(30) DEF ReadStart, TimeTypeOK, TimeInv
  <2>4. KeepsStamps
    BY <1>0, <1>3, <2>1, <2>2, <2>3, SMTT(30) DEF ReadStart, KeepsStamps
  <2> QED BY <1>0, <1>1, <2>4, TimeFrame, ZenonT(40)
<1>4. CASE StartSchedule(t)
  <2>1. inFlightReqs' = inFlightReqs
    BY <1>2, <1>4, ZenonT(40) DEF StartSchedule
  <2>2. {clock', curNs', timely_gen_requests'} \subseteq Nat /\ clock <= clock'
    BY <1>0, <1>4, SMTT(30) DEF StartSchedule, TimeTypeOK
  <2>3. KeepsStamps
    BY <1>4, <2>1, <2>2, StampsFrame, ZenonT(40) DEF StartSchedule
  <2> QED BY <1>0, <1>1, <2>3, TimeFrame, Zenon
<1>5. CASE Schedule(t)
  <2>1. curNs' \in Nat
    BY <1>5, ArrivalType, ZenonT(40) DEF Schedule
  <2>2. timely_gen_requests' \in Nat
    BY <1>0, <1>5, SMTT(30) DEF Schedule, TimeTypeOK
  <2>3. /\ startNs' \in [Threads -> Nat]
        /\ \A u \in Threads : startNs'[u] <= clock'
        /\ startNs[t] \in Nat /\ startNs[t] <= clock
    BY <1>0, <1>5, SMTT(30) DEF Schedule, TimeTypeOK, TimeInv
  <2> DEFINE new == [start |-> startNs[t], gen |-> curNs', sent |-> 0]
  <2>4. stamp' = [id \in inFlightReqs' |-> IF id = startedReqs THEN new ELSE stamp[id]]
    BY <1>5, Zenon DEF Schedule
  <2>5. new \in Stamps /\ new.start <= clock /\ new.sent <= clock
    BY <1>0, <2>1, <2>3, SMTT(30) DEF Stamps
  <2>6. \A id \in inFlightReqs : id # startedReqs /\ stamp[id] \in Stamps
    <3>1. \A id \in inFlightReqs : id < startedReqs /\ id \in Nat
      BY ZenonT(40) DEF IndInv, PlaceInv, TypeOK, ClientTypeOK
    <3> QED BY <1>0, <3>1, SMTT(30) DEF TimeTypeOK
  <2> HIDE DEF new
  <2>7. stamp' \in [inFlightReqs' -> Stamps]
    BY <1>0, <2>4, <2>5, <2>6, ZenonT(40)
  <2>8. TimeTypeOK'
    BY <1>0, <2>1, <2>2, <2>3, <2>7, ZenonT(40) DEF TimeTypeOK
  <2>9. \A id \in inFlightReqs' :
          IF id \in inFlightReqs THEN stamp'[id] = stamp[id]
          ELSE stamp'[id].start <= clock' /\ stamp'[id].sent <= clock'
    BY <1>0, <2>4, <2>5, <2>6, ZenonT(40)
  <2>10. KeepsStamps
    BY <1>0, <2>3, <2>8, <2>9, SMTT(30) DEF KeepsStamps
  <2> QED BY <1>0, <1>1, <2>10, TimeFrame, Zenon
<1> QED BY <1>3, <1>4, <1>5, ZenonT(40)

\* The entry of send: the sleep is over, so that the time of sending is past
\* the arrival time and past the call of startReq.
LEMMA TimedLockSend ==
  ASSUME IndInv, TimeInv, clock' = clock, NEW t \in Threads, StampSent(t)
  PROVE  TimeInv'
<1> DEFINE id0 == req[t]
<1>0. /\ PlaceInv /\ TimeTypeOK /\ clock \in Nat /\ PcTypeOK
      /\ pc[t] = "send" /\ pc' = [pc EXCEPT ![t] = "sending"]
      /\ UNCHANGED <<req, resp, atServer, replies, inFlightReqs>>
      /\ startNs' = startNs /\ curNs' = curNs /\ timely_gen_requests' = timely_gen_requests
      /\ stamp[id0].gen <= clock
      /\ stamp' = [stamp EXCEPT ![id0].sent = clock]
  BY Zenon DEF IndInv, TypeOK, TimeInv, TimeTypeOK, StampSent, LockSend, Goto, Awake, sentNs_lock_ad,
         reqVars, netVars
<1>1. /\ id0 \in inFlightReqs \ (atServer \cup replies)
      /\ \A u \in Threads \ {t} : pc[u] = "sending" => req[u] # id0
      /\ \A r \in FiniReceivers : resp[r] # id0
  BY <1>0, Zenon DEF PlaceInv, TouchesReq
<1>2. /\ stamp[id0] \in Stamps
      /\ stamp[id0].start \in Nat /\ stamp[id0].gen \in Nat /\ stamp[id0].start <= clock
  BY <1>0, <1>1, StampType, ZenonT(40) DEF TimeInv, TimeTypeOK
<1>3. /\ stamp' \in [inFlightReqs -> Stamps]
      /\ stamp'[id0] = [stamp[id0] EXCEPT !.sent = clock]
      /\ \A id \in inFlightReqs : id # id0 => stamp'[id] = stamp[id]
  <2> HIDE DEF id0
  <2>1. stamp \in [inFlightReqs -> Stamps]
    BY <1>0, Zenon DEF TimeTypeOK
  <2>2. [stamp[id0] EXCEPT !.sent = clock] \in Stamps
    <3> DEFINE s == stamp[id0]
    <3>1. s \in Stamps /\ clock \in Nat
      BY <1>0, <1>2, Zenon
    <3> HIDE DEF s
    <3>2. [s EXCEPT !.sent = clock] \in Stamps
      BY <3>1, Zenon DEF Stamps
    <3> QED BY <3>2, Zenon DEF s
  <2> QED BY <1>0, <1>1, <2>1, <2>2, ZenonT(40)
<1>4. /\ stamp'[id0].start = stamp[id0].start
      /\ stamp'[id0].gen = stamp[id0].gen
      /\ stamp'[id0].sent = clock
  BY <1>2, <1>3, Zenon DEF Stamps
<1> HIDE DEF id0
<1>5. TimeTypeOK'
  BY <1>0, <1>3, Zenon DEF TimeTypeOK
<1>6. \A u \in Threads : startNs'[u] <= clock'
  BY <1>0, ZenonT(40) DEF TimeInv
<1>7. \A id \in inFlightReqs' : stamp'[id].start <= clock' /\ stamp'[id].sent <= clock'
  BY <1>0, <1>2, <1>3, <1>4, SMTT(30) DEF TimeInv
<1>8. SentInTime(id0)'
  BY <1>0, <1>2, <1>4, ZenonT(40) DEF SentInTime, Origin, id0
<1>9. \A u \in Threads : pc'[u] = "sending" => SentInTime(req[u])'
  <2> SUFFICES ASSUME NEW u \in Threads, pc'[u] = "sending" PROVE SentInTime(req[u])'
    BY Zenon
  <2>1. CASE u = t
    BY <1>8, <2>1, ZenonT(40) DEF id0
  <2>2. CASE u # t
    <3>1. pc[u] = "sending" /\ SentInTime(req[u])
      BY <1>0, <2>2, ZenonT(40) DEF TimeInv, PcTypeOK
    <3>2. req[u] # id0 /\ req[u] \in inFlightReqs
      BY <1>0, <1>1, <2>2, <3>1, OnTheWayInFlight, SMTT(30)
    <3> QED BY <1>0, <1>3, <3>1, <3>2, ZenonT(40) DEF SentInTime, Origin
  <2> QED BY <2>1, <2>2, ZenonT(40)
<1>10. /\ \A id \in atServer' \cup replies' : SentInTime(id)'
       /\ \A id \in replies' : stamp'[id].sent < clock'
  <2>1. \A id \in atServer \cup replies : id \in inFlightReqs /\ id # id0
    BY <1>0, <1>1, OnTheWayInFlight, ZenonT(40)
  <2> QED BY <1>0, <1>3, <2>1, ZenonT(40) DEF TimeInv, SentInTime, Origin
<1>11. \A r \in FiniReceivers' : SentInTime(resp[r])' /\ stamp'[resp'[r]].sent < clock'
  <2>1. FiniReceivers' = FiniReceivers
    BY <1>0, Zenon DEF FiniReceivers, PcTypeOK
  <2>2. \A r \in FiniReceivers : resp[r] \in inFlightReqs /\ resp[r] # id0
    BY <1>0, <1>1, OnTheWayInFlight, ZenonT(40)
  <2> QED BY <1>0, <1>3, <2>1, <2>2, SMTT(30) DEF TimeInv, SentInTime, Origin
<1> QED BY <1>5, <1>6, <1>7, <1>9, <1>10, <1>11, ZenonT(60) DEF TimeInv

\* The rest of the sender keeps the times: send hands its request to the server.
LEMMA TimedRestOfSender ==
  ASSUME IndInv, IndInv', TimeInv, clock' = clock, NEW t \in Threads, RestOfSender(t)
  PROVE  TimeInv'
<1>0. PlaceInv /\ PlaceInv' /\ PcTypeOK /\ TimeTypeOK
  BY Zenon DEF IndInv, TypeOK, TimeInv
<1>1. /\ UNCHANGED <<req, inFlightReqs, resp, replies>>
      /\ \E to \in SenderPC \ {"sending"} : pc' = [pc EXCEPT ![t] = to] \/ pc' = pc
      /\ atServer' = atServer \/ (pc[t] = "sending" /\ atServer' = atServer \cup {req[t]})
  <2> USE DEF Goto, SenderPC, reqVars, netVars, lockVars
  <2>1. CASE CheckSent(t) \/ SkipSend(t)
    BY <2>1, ZenonT(40) DEF CheckSent, SkipSend
  <2>4. CASE SendFails(t) \/ SendKills(t)
    BY <2>4, SMTT(30) DEF SendFails, SendKills
  <2>2. CASE SendOk(t)
    BY <2>2, Zenon DEF SendOk
  <2>3. CASE CountSent(t) \/ ReadSentRequests(t) \/ WriteSentRequests(t)
    BY <2>3, ZenonT(40) DEF CountSent, ReadSentRequests, WriteSentRequests
  <2> QED BY <2>1, <2>2, <2>3, <2>4, ZenonT(60) DEF RestOfSender
<1>2. /\ \A u \in Threads : pc'[u] = "sending" => pc[u] = "sending"
      /\ FiniReceivers' = FiniReceivers
  BY <1>0, <1>1, SMTT(30) DEF PcTypeOK, FiniReceivers
<1>3. KeepsPlaces
  BY <1>1, <1>2, ZenonT(40) DEF KeepsPlaces
<1>4. KeepsStamps
  BY <1>0, <1>1, StampsFrame, SMTT(30) DEF RestOfSender, timeVars, TimeTypeOK
<1> QED BY <1>0, <1>3, <1>4, TimeFrame, ZenonT(40)

\* A receiver takes a reply, or retires its request with its stamps.
LEMMA TimedReceiverStep ==
  ASSUME IndInv, IndInv', TimeInv, clock' = clock, NEW r \in Receivers, TimedReceiver(r)
  PROVE  TimeInv'
<1>0. PlaceInv /\ PlaceInv' /\ PcTypeOK /\ TimeTypeOK /\ resp \in [Receivers -> Nat \cup {NoReq}]
  BY Zenon DEF IndInv, TypeOK, NetTypeOK, TimeInv
<1>1. CASE TimedFiniReq(r)
  <2>1. /\ UNCHANGED <<req, resp, atServer, replies>>
        /\ inFlightReqs' \subseteq inFlightReqs
        /\ \E to \in {"recv", "exit_group"} : pc' = [pc EXCEPT ![r] = to]
    BY <1>1, ZenonT(60) DEF TimedFiniReq, CallFiniReq, finiReq, FiniStartsRoi, FiniCounts, FiniDumps,
       Retire, Goto, lockVars, netVars
  <2>2. /\ \A u \in Threads : pc'[u] = pc[u]
        /\ \A q \in FiniReceivers' : q \in FiniReceivers
    BY <1>0, <2>1, ZenonT(40) DEF PcTypeOK, FiniReceivers
  <2>3. KeepsPlaces
    BY <2>1, <2>2, Zenon DEF KeepsPlaces
  <2>4. stamp' = [id \in inFlightReqs' |-> stamp[id]]
    BY <1>1, Zenon DEF TimedFiniReq
  <2>5. stamp' \in [inFlightReqs' -> Stamps]
    BY <1>0, <2>1, <2>4, ZenonT(40) DEF TimeTypeOK
  <2>6. timely_gen_requests' \in Nat /\ UNCHANGED <<startNs, curNs>>
    BY <1>0, <1>1, Zenon DEF TimedFiniReq, timelyNow, TimeTypeOK
  <2>7. TimeTypeOK'
    BY <1>0, <2>5, <2>6, ZenonT(40) DEF TimeTypeOK
  <2>8. KeepsStamps
    BY <1>0, <2>1, <2>4, <2>6, <2>7, SMTT(30) DEF KeepsStamps, TimeInv, TimeTypeOK
  <2> QED BY <1>0, <2>3, <2>8, TimeFrame, ZenonT(40)
<1>2. CASE /\ LockRecv(r) \/ ReadResponse(r) \/ ReadFinish(r) \/ RecvFails(r) \/ ExitGroup(r)
           /\ UNCHANGED timeVars
  <2>1. /\ UNCHANGED <<req, atServer, inFlightReqs>>
        /\ replies' \subseteq replies
        /\ \/ resp' = resp /\ \E to \in ReceiverPC \ {"fini"} : pc' = [pc EXCEPT ![r] = to] \/ pc' = pc
           \/ /\ \E id \in replies : resp' = [resp EXCEPT ![r] = id]
              /\ pc' = [pc EXCEPT ![r] = "fini"]
    <3> USE DEF Goto, ReceiverPC, reqVars, netVars, lockVars
    <3>1. CASE LockRecv(r) \/ ReadFinish(r)
      BY <3>1, Zenon DEF LockRecv, ReadFinish
    <3>2. CASE RecvFails(r) \/ ExitGroup(r)
      BY <3>2, Zenon DEF RecvFails, ExitGroup
    <3>3. CASE ReadResponse(r)
      BY <3>3, Zenon DEF ReadResponse
    <3> QED BY <1>2, <3>1, <3>2, <3>3, ZenonT(40)
  <2>2. \A u \in Threads : pc'[u] = pc[u]
    BY <1>0, <2>1, Zenon DEF PcTypeOK
  <2>3. ASSUME NEW q \in FiniReceivers'
        PROVE  \/ q \in FiniReceivers /\ resp'[q] = resp[q]
               \/ resp'[q] \in replies
    BY <1>0, <2>1, Zenon DEF PcTypeOK, FiniReceivers
  <2>4. KeepsPlaces
    BY <2>1, <2>2, <2>3, ZenonT(40) DEF KeepsPlaces
  <2>5. KeepsStamps
    BY <1>0, <1>2, <2>1, StampsFrame, SMTT(30) DEF timeVars, TimeTypeOK
  <2> QED BY <1>0, <2>4, <2>5, TimeFrame, Zenon
<1> QED BY <1>1, <1>2, ZenonT(40) DEF TimedReceiver

\* The server answers later than the request was sent; the end of the server,
\* the end of main and the passing of time move no request to a receiver.
LEMMA TimedEnvironment ==
  ASSUME IndInv, IndInv', TimeInv,
         \/ clock' = clock /\ \E id \in atServer : TimedRespond(id)
         \/ clock' = clock /\ (MainReturns \/ ServerFinish \/ ServerGoes) /\ UNCHANGED timeVars
         \/ Tick
         \/ UNCHANGED timedVars
  PROVE  TimeInv'
<1>0. PlaceInv /\ PlaceInv' /\ TimeTypeOK /\ clock \in Nat
  BY Zenon DEF IndInv, TimeInv, TimeTypeOK
<1>1. /\ UNCHANGED <<req, resp, inFlightReqs, pc, startNs, stamp, curNs, timely_gen_requests>>
      /\ atServer' \subseteq atServer
      /\ \A id \in replies' : id \in replies \/ (id \in atServer /\ stamp[id].sent < clock)
      /\ clock' \in {clock, clock + 1}
  <2> USE DEF reqVars, netVars, lockVars, clientVars, vars, timeVars, timedVars
  <2>1. CASE clock' = clock /\ \E id \in atServer : TimedRespond(id)
    BY <2>1, Zenon DEF TimedRespond, Respond
  <2>2. CASE clock' = clock /\ (MainReturns \/ ServerFinish \/ ServerGoes) /\ UNCHANGED timeVars
    BY <2>2, ZenonT(60) DEF MainReturns, ServerFinish, ServerGoes
  <2>3. CASE Tick \/ UNCHANGED timedVars
    BY <2>3, ZenonT(60) DEF Tick
  <2> QED BY <2>1, <2>2, <2>3, ZenonT(60)
<1>2. FiniReceivers' = FiniReceivers
  BY <1>1, ZenonT(60) DEF FiniReceivers
<1>3. KeepsPlaces
  BY <1>1, <1>2, ZenonT(40) DEF KeepsPlaces
<1>4. KeepsStamps
  BY <1>0, <1>1, StampsFrame, SMTT(30) DEF TimeTypeOK
<1> QED BY <1>0, <1>3, <1>4, TimeFrame, ZenonT(40)

\* Every step preserves the invariant.
LEMMA TimeInvStep == IndInv /\ IndInv' /\ TimeInv /\ [TimedNext]_timedVars => TimeInv'
<1> SUFFICES ASSUME IndInv, IndInv', TimeInv, [TimedNext]_timedVars PROVE TimeInv'
  BY Zenon
<1>1. ASSUME NEW t \in Threads, TimedSender(t), clock' = clock PROVE TimeInv'
  BY <1>1, TimedStartReq, TimedLockSend, TimedRestOfSender, ZenonT(40) DEF TimedSender
<1>2. CASE UNCHANGED clock /\ \E r \in Receivers : TimedReceiver(r)
  BY <1>2, TimedReceiverStep, Zenon
<1>3. CASE UNCHANGED timedVars \/ (Ended /\ UNCHANGED <<clock, timeVars>>)
  BY <1>3, TimedEnvironment, ZenonT(40) DEF Ended, timedVars
<1> QED BY <1>1, <1>2, <1>3, TimedEnvironment, ZenonT(40) DEF TimedNext

\* The invariant holds when the client starts.
LEMMA TimeInvInit == TimedInit => TimeInv
<1> SUFFICES ASSUME TimedInit PROVE TimeInv
  BY Zenon
<1>1. /\ atServer = {} /\ replies = {} /\ inFlightReqs = {} /\ FiniReceivers = {}
      /\ \A t \in Threads : pc[t] = "check"
  BY Zenon DEF TimedInit, Init, InitClient, FiniReceivers
<1>2. TimeTypeOK
  BY <1>1 DEF TimedInit, TimeTypeOK
<1> QED BY <1>1, <1>2, SMTT(30) DEF TimedInit, TimeInv

\* The order of the time stamps is invariant, for any schedule of arrivals and
\* any delays of the threads and of the network.
THEOREM TimeInvariance == TimedSpec => []TimeInv
BY TimeInvInit, TimeInvStep, TimedStepIsStep, TimedImplementsUntimed, Invariance, PTL
   DEF TimedSpec

\* No request is answered before it was due, so finiReq's assertion on the
\* clock holds, and its sojourn time covers the time on the network.
THEOREM LatenciesAreOrdered == TimedSpec => []SojournCoversNic
<1>1. ASSUME IndInv, TimeInv PROVE SojournCoversNic
  <2> SUFFICES ASSUME NEW r \in FiniReceivers
               PROVE  /\ stamp[resp[r]].gen < clock
                      /\ Origin(stamp[resp[r]]) <= stamp[resp[r]].sent
                      /\ stamp[resp[r]].sent < clock
    BY Zenon DEF SojournCoversNic
  <2> DEFINE s == stamp[resp[r]]
  <2>1. resp[r] \in inFlightReqs
    BY <1>1, OnTheWayInFlight, Zenon DEF IndInv
  <2>2. s.start \in Nat /\ s.gen \in Nat /\ s.sent \in Nat /\ clock \in Nat
    BY <1>1, <2>1, StampType, ZenonT(40) DEF TimeInv, TimeTypeOK
  <2>3. Origin(s) <= s.sent /\ s.sent < clock
    BY <1>1, ZenonT(40) DEF TimeInv, SentInTime
  <2>4. s.gen <= Origin(s)
    BY <2>2, SMTT(30) DEF Origin
  <2>5. Origin(s) \in Nat
    BY <2>2, Zenon DEF Origin
  <2> HIDE DEF s
  <2>6. s.gen < clock
    BY <2>2, <2>3, <2>4, <2>5, SMTT(30)
  <2> QED BY <2>3, <2>6, Zenon DEF s
<1> QED BY <1>1, TimeInvariance, TimedImplementsUntimed, Invariance, PTL

\* Each request counted as timely was generated after the warmup's.
LEMMA TimelyStep ==
  IndInv /\ GenInv /\ TimeInv /\ TimelyInv /\ [TimedNext]_timedVars => TimelyInv'
<1> SUFFICES ASSUME IndInv, GenInv, TimeInv, TimelyInv, [TimedNext]_timedVars PROVE TimelyInv'
  BY ZenonT(40)
<1>0. timely_gen_requests \in Nat /\ startedReqs \in Nat /\ numReqsCompleted \in Nat
  BY ZenonT(40) DEF TimeInv, TimeTypeOK, IndInv, TypeOK, ClientTypeOK
<1>1. [Next]_vars
  BY TimedStepIsStep, Zenon
<1>2. startedReqs' \in {startedReqs, startedReqs + 1}
  <2>1. ASSUME NEW t \in Threads, Sender(t) PROVE startedReqs' \in {startedReqs, startedReqs + 1}
    BY <2>1, SenderMoves, Zenon
  <2>2. CASE \/ \E r \in Receivers : Receiver(r)
             \/ MainReturns \/ Environment \/ UNCHANGED vars
    BY <2>2, NoSenderFrame, Zenon DEF SendersKept
  <2> QED BY <1>1, <2>1, <2>2, Zenon DEF Next, Ended
<1>3. ASSUME NEW r \in Receivers, TimedFiniReq(r) PROVE TimelyInv'
  <2>1. CallFiniReq(r) /\ pc[r] = "fini"
    BY <1>3, ZenonT(60) DEF TimedFiniReq, CallFiniReq, finiReq, FiniStartsRoi, FiniCounts, FiniDumps, Goto
  <2>2. CASE StartsRoi
    <3>1. r \in FiniReceivers
      BY <2>1, Zenon DEF FiniReceivers
    <3>2. Cardinality(FiniReceivers) # 0
      BY <3>1, FiniFinite, FS_EmptySet, Zenon
    <3>3. numReqsCompleted + 1 <= startedReqs
      BY <1>0, <3>2, FiniFinite, GenBounds, SMTT(30)
    <3>4. numReqsCompleted + 1 = WarmupReqs
      BY <2>2, Zenon DEF StartsRoi, completedNow
    <3>5. timely_gen_requests' = 0
      BY <1>3, <2>2, Zenon DEF TimedFiniReq, timelyNow
    <3> QED BY <1>0, <1>2, <3>3, <3>4, <3>5, SMTT(30) DEF TimelyInv
  <2>3. CASE ~StartsRoi
    <3>1. status' = status
      BY <2>1, <2>3, ZenonT(60) DEF CallFiniReq, finiReq, FiniStartsRoi, FiniCounts, FiniDumps, IsLast
    <3>2. timely_gen_requests' = timely_gen_requests
      BY <1>3, <2>3, Zenon DEF TimedFiniReq, timelyNow
    <3> QED BY <1>0, <1>2, <3>1, <3>2, SMTT(30) DEF TimelyInv
  <2> QED BY <2>2, <2>3, ZenonT(40)
<1>4. ASSUME status' = "ROI" => status = "ROI",
             \/ timely_gen_requests' = timely_gen_requests
             \/ timely_gen_requests' = timely_gen_requests + 1 /\ startedReqs' = startedReqs + 1
      PROVE  TimelyInv'
  BY <1>0, <1>2, <1>4, SMTT(30) DEF TimelyInv
<1>5. ASSUME NEW t \in Threads, TimedSender(t) PROVE TimelyInv'
  <2> USE DEF initVars
  <2>1. ASSUME CallStartReq(t) PROVE status' = "ROI" => status = "ROI"
    <3>1. CASE StartReq(t) \/ CheckRoi(t) \/ GenReq(t, "send")
      BY <3>1, Zenon DEF StartReq, CheckRoi, GenReq
    <3>2. CASE BarrierWait(t) \/ VaryQps(t)
      BY <3>2, Zenon DEF BarrierWait, VaryQps
    <3>3. CASE InitDist(t)
      BY <3>3, Zenon DEF InitDist
    <3> QED BY <2>1, <3>1, <3>2, <3>3, ZenonT(40) DEF CallStartReq
  <2>2. CASE ReadStart(t) \/ StartSchedule(t)
    BY <1>4, <2>1, <2>2, Zenon DEF ReadStart, StartSchedule
  <2>3. CASE Schedule(t)
    <3>1. startedReqs' = startedReqs + 1
      BY <2>3, ZenonT(60) DEF Schedule, CallStartReq, StartReq, BarrierWait, InitDist, CheckRoi, VaryQps,
         GenReq, Goto
    <3>2. timely_gen_requests' \in {timely_gen_requests, timely_gen_requests + 1}
      BY <2>3, ZenonT(60) DEF Schedule
    <3>3. status' = "ROI" => status = "ROI"
      BY <2>1, <2>3, Zenon DEF Schedule
    <3> QED BY <1>4, <3>1, <3>2, <3>3, ZenonT(40)
  <2>4. CASE StampSent(t)
    BY <1>4, <2>4, ZenonT(40) DEF StampSent, LockSend
  <2>5. CASE RestOfSender(t)
    <3>1. timely_gen_requests' = timely_gen_requests
      BY <2>5, Zenon DEF RestOfSender, timeVars
    <3>2. status' = status
      <4>1. CASE CheckSent(t) \/ SkipSend(t) \/ SendOk(t) \/ SendFails(t)
        BY <4>1, ZenonT(40) DEF CheckSent, SkipSend, SendOk, SendFails
      <4>2. CASE SendKills(t) \/ CountSent(t) \/ ReadSentRequests(t) \/ WriteSentRequests(t)
        BY <4>2, Zenon DEF SendKills, CountSent, ReadSentRequests, WriteSentRequests
      <4> QED BY <2>5, <4>1, <4>2, ZenonT(40) DEF RestOfSender
    <3> QED BY <1>4, <3>1, <3>2, ZenonT(40)
  <2> QED BY <1>5, <2>2, <2>3, <2>4, <2>5, ZenonT(40) DEF TimedSender
<1>6. ASSUME NEW r \in Receivers, TimedReceiver(r), ~TimedFiniReq(r) PROVE TimelyInv'
  <2>1. status' = status
    BY <1>6, Zenon DEF TimedReceiver, LockRecv, ReadResponse, ReadFinish, RecvFails, ExitGroup,
       initVars
  <2>2. timely_gen_requests' = timely_gen_requests
    BY <1>6, Zenon DEF TimedReceiver, timeVars
  <2> QED BY <1>4, <2>1, <2>2, ZenonT(40)
<1>7. ASSUME \/ \E id \in atServer : TimedRespond(id)
             \/ (MainReturns \/ ServerFinish \/ ServerGoes) /\ UNCHANGED timeVars
             \/ Tick
             \/ UNCHANGED timedVars
             \/ Ended /\ UNCHANGED <<clock, timeVars>>
      PROVE  TimelyInv'
  <2>1. status' = status /\ timely_gen_requests' = timely_gen_requests
    BY <1>7, Zenon DEF TimedRespond, Respond, MainReturns, ServerFinish, ServerGoes, Tick, Ended,
       initVars, clientVars, vars, timeVars, timedVars
  <2> QED BY <1>4, <2>1, ZenonT(40)
<1> QED BY <1>3, <1>5, <1>6, <1>7, ZenonT(40) DEF TimedNext

\* dumpStats never counts more timely requests than maxreqs and one for each
\* sender but one.
THEOREM TimelyIsBounded == TimedSpec => []TimelyBounded
<1>1. TimedInit => TimelyInv
  BY Zenon DEF TimedInit, Init, InitClient, TimelyInv
<1>2. ASSUME IndInv, GenInv, TimeInv, TimelyInv PROVE TimelyBounded
  <2>1. /\ timely_gen_requests \in Nat /\ startedReqs \in Nat /\ Cardinality(Threads) \in Nat
        /\ WarmupReqs \in Nat /\ MaxReqs \in Nat
    BY <1>2, ThreadSets, ZenonT(40) DEF TimeInv, TimeTypeOK, IndInv, TypeOK, ClientTypeOK
  <2>2. startedReqs <= WarmupReqs + MaxReqs + Cardinality(Threads) - 1
    BY <1>2, GenBounds, Zenon DEF TotalReqs
  <2> QED BY <1>2, <2>1, <2>2, SMTT(30) DEF TimelyInv, TimelyBounded
<1>3. TimedSpec => []GenInv
  BY GenInit, GenStep, Invariance, TimedImplementsUntimed, PTL DEF Spec
<1> QED BY <1>1, <1>2, <1>3, TimelyStep, TimeInvariance, TimedImplementsUntimed, Invariance, PTL
   DEF TimedSpec

=============================================================================
