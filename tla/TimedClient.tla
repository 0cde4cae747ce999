----------------------------- MODULE TimedClient -----------------------------
(***************************************************************************)
(* The clock of NetworkedClient: the arrival times of harness/dist.h, the  *)
(* time stamps of a Request and what finiReq computes from them.  Every    *)
(* step of NetworkedClient is here with the clock it reads; Tick lets time *)
(* pass between steps, so that any thread may be late.                     *)
(*                                                                         *)
(* The clock is CLOCK_REALTIME; that nobody sets it back while a client    *)
(* runs is assumed, and that a response is later than its request.         *)
(***************************************************************************)
EXTENDS NetworkedClient

CONSTANTS
  Gaps,       \* times between two arrivals, any the distribution may draw
  Grain,      \* distance of the doubles next to the time, 256 ns since 2006
  MaxClock    \* bound of the clock

ASSUME TimedAssumption ==
  /\ Gaps \subseteq Nat
  /\ Grain \in Nat \ {0}
  /\ MaxClock \in Nat

VARIABLES
  clock,                \* getCurNs()
  startNs,              \* the local startNs of startReq, of each sender; 0 once used
  curNs,                \* the last arrival time of dist
  stamp,                \* startNs, genNs and sentNs_lock_ad of each Request
  timely_gen_requests

timeVars == <<startNs, curNs, stamp, timely_gen_requests>>
timedVars == <<vars, clock, timeVars>>

TimedInit ==
  /\ Init
  /\ clock = 0
  /\ startNs = [t \in Threads |-> 0]
  /\ curNs = 0
  /\ stamp = [id \in {} |-> 0]
  /\ timely_gen_requests = 0

-----------------------------------------------------------------------------
(* startReq.                                                               *)

\* The double next to x.
Nearest(x) == ((x + Grain \div 2) \div Grain) * Grain

\* ExpDist::nextArrivalNs adds a double to the uint64_t curNs: the sum is
\* computed in doubles and rounded twice.
nextArrivalNs(gap) == Nearest(Nearest(curNs) + gap)

\* startNs = getCurNs(), the first thing startReq does.
ReadStart(t) ==
  /\ pc[t] = "startReq"
  /\ CallStartReq(t)
  /\ startNs' = [startNs EXCEPT ![t] = clock]
  /\ UNCHANGED <<curNs, stamp, timely_gen_requests>>

\* new ExpDist(.., getCurNs()): arrivals are drawn from now on.
NewDist(t) ==
  \/ pc[t] = "init" /\ dist = 0
  \/ pc[t] = "qps" /\ qpsCounter = qpsInterval

StartSchedule(t) ==
  /\ pc[t] \in {"barrier1", "init", "barrier2", "roi", "qps"}
  /\ CallStartReq(t)
  /\ curNs' = IF NewDist(t) THEN clock ELSE curNs
  /\ UNCHANGED <<startNs, stamp, timely_gen_requests>>

\* The arrival time, and whether the client is in time for it.
Schedule(t) ==
  /\ pc[t] = "gen"
  /\ CallStartReq(t)
  /\ \E gap \in Gaps : curNs' = nextArrivalNs(gap)
  /\ stamp' = [id \in inFlightReqs' |->
                 IF id = startedReqs THEN [start |-> startNs[t], gen |-> curNs', sent |-> 0]
                 ELSE stamp[id]]
  /\ timely_gen_requests' =
       IF curNs' > startNs[t] THEN timely_gen_requests + 1 ELSE timely_gen_requests
  /\ startNs' = [startNs EXCEPT ![t] = 0]

-----------------------------------------------------------------------------
(* send: sleepUntil has returned, and sendLock is taken.                   *)

\* Faulty: the request is sent without waiting for its arrival time.
AwakeAtOnce(t) == TRUE

Awake(t) == clock >= stamp[req[t]].gen

sentNs_lock_ad(t) == clock

StampSent(t) ==
  /\ LockSend(t)
  /\ Awake(t)
  /\ stamp' = [stamp EXCEPT ![req[t]].sent = sentNs_lock_ad(t)]
  /\ UNCHANGED <<startNs, curNs, timely_gen_requests>>

RestOfSender(t) ==
  /\ \/ CheckSent(t) \/ SkipSend(t) \/ SendOk(t) \/ SendFails(t) \/ SendKills(t)
     \/ CountSent(t) \/ ReadSentRequests(t) \/ WriteSentRequests(t)
  /\ UNCHANGED timeVars

TimedSender(t) ==
  ReadStart(t) \/ StartSchedule(t) \/ Schedule(t) \/ StampSent(t) \/ RestOfSender(t)

-----------------------------------------------------------------------------
(* finiReq.  Its assertion on the clock holds by SojournCoversNic.         *)

\* Faulty: the warmup's timely requests are kept.
timelyKept == timely_gen_requests

\* _startRoi counts from 0 again.
timelyNow == IF StartsRoi THEN 0 ELSE timely_gen_requests

TimedFiniReq(r) ==
  /\ CallFiniReq(r)
  /\ stamp' = [id \in inFlightReqs' |-> stamp[id]]
  /\ timely_gen_requests' = timelyNow
  /\ UNCHANGED <<startNs, curNs>>

TimedReceiver(r) ==
  \/ TimedFiniReq(r)
  \/ /\ LockRecv(r) \/ ReadResponse(r) \/ ReadFinish(r) \/ RecvFails(r) \/ ExitGroup(r)
     /\ UNCHANGED timeVars

\* The way to the server and back takes time.
TimedRespond(id) ==
  /\ clock > stamp[id].sent
  /\ Respond(id)
  /\ UNCHANGED timeVars

Tick ==
  /\ clock < MaxClock
  /\ clock' = clock + 1
  /\ UNCHANGED <<vars, timeVars>>

TimedNext ==
  \/ /\ proc = "running"
     /\ \/ \E t \in Threads : TimedSender(t)
        \/ \E r \in Receivers : TimedReceiver(r)
        \/ \E id \in atServer : TimedRespond(id)
        \/ (MainReturns \/ ServerFinish \/ ServerGoes) /\ UNCHANGED timeVars
     /\ UNCHANGED clock
  \/ proc = "running" /\ Tick
  \/ Ended /\ UNCHANGED <<clock, timeVars>>

TimedSpec == TimedInit /\ [][TimedNext]_timedVars

-----------------------------------------------------------------------------
(* Properties.                                                             *)

\* Where finiReq counts the sojourn time from: the arrival time, or the time
\* startReq was called if the client was late for it.
Origin(s) == IF s.gen < s.start THEN s.start ELSE s.gen

\* finiReq's assertion that a request is answered after it was due, and the
\* latencies it computes: however sender and receiver were delayed, and with
\* arrivals of two distributions around a rate change, a request is sent when
\* it is due or later, so the sojourn time covers the time on the network.
SojournCoversNic ==
  \A r \in FiniReceivers :
    LET s == stamp[resp[r]]
    IN  s.gen < clock /\ Origin(s) <= s.sent /\ s.sent < clock

\* The timely requests dumpStats divides by maxreqs are at most one more for
\* each sender but one: those of the warmup are not among them.
TimelyBounded ==
  status = "ROI" => timely_gen_requests <= MaxReqs + Cardinality(Threads) - 1

-----------------------------------------------------------------------------
(* The inductive invariant behind SojournCoversNic.                        *)

Stamps == [start : Nat, gen : Nat, sent : Nat]

TimeTypeOK ==
  /\ {clock, curNs, timely_gen_requests} \subseteq Nat
  /\ startNs \in [Threads -> Nat]
  /\ stamp \in [inFlightReqs -> Stamps]

\* The request has been sent, at its time or later.
SentInTime(id) == Origin(stamp[id]) <= stamp[id].sent

\* No stamp is in the future but the arrival time, which is past once sendLock
\* has been taken; a reply is later than the request.
TimeInv ==
  /\ TimeTypeOK
  /\ \A t \in Threads : startNs[t] <= clock
  /\ \A id \in inFlightReqs : stamp[id].start <= clock /\ stamp[id].sent <= clock
  /\ \A t \in Threads : pc[t] = "sending" => SentInTime(req[t])
  /\ \A id \in atServer \cup replies : SentInTime(id)
  /\ \A id \in replies : stamp[id].sent < clock
  /\ \A r \in FiniReceivers : SentInTime(resp[r]) /\ stamp[resp[r]].sent < clock

\* The warmup's requests are generated and not among the timely ones.
TimelyInv == status = "ROI" => timely_gen_requests + WarmupReqs <= startedReqs

=============================================================================
