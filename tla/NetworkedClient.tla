--------------------------- MODULE NetworkedClient ---------------------------
(***************************************************************************)
(* The networked client process: class NetworkedClient of                  *)
(* harness/client.cpp and the program harness/tbench_client_networked.cpp, *)
(* with nthreads sender threads (Threads), nthreads receiver threads and   *)
(* the main thread that joins them.                                        *)
(*                                                                         *)
(* The server and the connection are the environment.  The server answers  *)
(* the requests it has in any order, once each; it may announce its end    *)
(* with a FINISH message, and it may go away.                              *)
(***************************************************************************)
EXTENDS Client

CONSTANTS Receivers,    \* the threads running recv()
          NoThread,     \* a free mutex
          ServerStops   \* whether the server may end before the client does

ASSUME NetworkedAssumption ==
  /\ IsFiniteSet(Receivers)
  /\ Receivers # {}
  /\ Threads \cap Receivers = {}
  /\ NoThread \notin Threads \cup Receivers
  /\ WarmupReqs # 0
  /\ MaxReqs # 0
  /\ ServerStops \in BOOLEAN

VARIABLES
  sendLock, recvLock,   \* owner, or NoThread
  sentTmp,              \* sent_requests as read by the owner of sendLock
  sendOk,               \* sent == len, of the owner of sendLock
  resp,                 \* id in the Response buffer of each receiver
  atServer,             \* ids the server has received and not answered
  replies,              \* ids answered and not yet received
  finishMsg,            \* a FINISH message follows the replies
  server                \* "up", "finishing" or "gone"

netVars == <<atServer, replies, finishMsg, server>>
lockVars == <<sendLock, recvLock, sentTmp, sendOk, resp>>
vars == <<clientVars, lockVars, netVars>>

TotalReqs == WarmupReqs + MaxReqs

Init ==
  /\ InitClient
  /\ pc = [t \in Threads \cup Receivers |-> IF t \in Threads THEN "check" ELSE "recv"]
  /\ sendLock = NoThread
  /\ recvLock = NoThread
  /\ sentTmp = 0
  /\ sendOk = TRUE
  /\ resp = [r \in Receivers |-> NoReq]
  /\ atServer = {}
  /\ replies = {}
  /\ finishMsg = FALSE
  /\ server = "up"

-----------------------------------------------------------------------------
(* The sender thread: void *send(void *c) and NetworkedClient::send.       *)

\* Faulty: the loop never stops.
CheckSentNever(t) ==
  /\ Goto(t, "check", "startReq")
  /\ UNCHANGED <<proc, initVars, reqVars, countVars, statVars, qpsVars, lockVars, netVars>>

\* The loop head: stop once enough requests have been sent.
CheckSent(t) ==
  /\ Goto(t, "check", IF numReqsSent >= TotalReqs THEN "done" ELSE "startReq")
  /\ UNCHANGED <<proc, initVars, reqVars, countVars, statVars, qpsVars, lockVars, netVars>>

\* client->startReq(), every step of it.
CallStartReq(t) ==
  /\ \/ StartReq(t)
     \/ BarrierWait(t)
     \/ InitDist(t)
     \/ CheckRoi(t)
     \/ VaryQps(t)
     \/ GenReq(t, "send")
  /\ UNCHANGED <<lockVars, netVars>>

\* Faulty: sendLock is taken although another sender holds it.
LockSendUnguarded(t) ==
  /\ sendLock' = t
  /\ Goto(t, "send", "sending")
  /\ UNCHANGED <<proc, initVars, reqVars, countVars, statVars, qpsVars,
                 recvLock, sentTmp, sendOk, resp, netVars>>

LockSend(t) ==
  /\ sendLock = NoThread
  /\ sendLock' = t
  /\ Goto(t, "send", "sending")
  /\ UNCHANGED <<proc, initVars, reqVars, countVars, statVars, qpsVars,
                 recvLock, sentTmp, sendOk, resp, netVars>>

\* Faulty: one request above the budget is sent.
MaySendUnlessAbove == numReqsSent <= TotalReqs

\* Whether the owner of sendLock still sends its request.
MaySend == numReqsSent # TotalReqs

\* The request is dropped and send() returns true, since 0 == 0.
SkipSend(t) ==
  /\ ~MaySend
  /\ Goto(t, "sending", "check")
  /\ sendLock' = NoThread
  /\ UNCHANGED <<proc, initVars, reqVars, countVars, statVars, qpsVars,
                 recvLock, sentTmp, sendOk, resp, netVars>>

\* Faulty: sendLock is released before the request is counted.
SendOkUnlocks(t) ==
  /\ MaySend
  /\ Goto(t, "sending", "sent")
  /\ sendOk' = TRUE
  /\ sendLock' = NoThread
  /\ atServer' = IF server = "gone" THEN atServer ELSE atServer \cup {req[t]}
  /\ UNCHANGED <<proc, initVars, reqVars, countVars, statVars, qpsVars,
                 recvLock, sentTmp, resp, replies, finishMsg, server>>

\* sendfull has handed the whole request to the socket.
SendOk(t) ==
  /\ MaySend
  /\ Goto(t, "sending", "sent")
  /\ sendOk' = TRUE
  /\ atServer' = IF server = "gone" THEN atServer ELSE atServer \cup {req[t]}
  /\ UNCHANGED <<proc, initVars, reqVars, countVars, statVars, qpsVars,
                 sendLock, recvLock, sentTmp, resp, replies, finishMsg, server>>

\* sendfull fails: the connection has been reset.
SendFails(t) ==
  /\ MaySend
  /\ server = "gone"
  /\ Goto(t, "sending", "sent")
  /\ sendOk' = FALSE
  /\ UNCHANGED <<proc, initVars, reqVars, countVars, statVars, qpsVars,
                 sendLock, recvLock, sentTmp, resp, netVars>>

\* A write on the reset connection raises SIGPIPE, which nothing handles.
SendKills(t) ==
  /\ MaySend
  /\ server = "gone"
  /\ pc[t] = "sending"
  /\ proc' = "killed"
  /\ UNCHANGED <<pc, initVars, reqVars, countVars, statVars, qpsVars, lockVars, netVars>>

\* Faulty: only successful sends are counted.
CountSentIfOk(t) ==
  /\ Goto(t, "sent", "stat_read")
  /\ numReqsSent' = IF sendOk THEN numReqsSent + 1 ELSE numReqsSent
  /\ UNCHANGED <<proc, initVars, reqVars, numReqsCompleted, statVars, qpsVars, lockVars, netVars>>

\* numReqsSent++, atomic; it follows the write, succeeded or not.
CountSent(t) ==
  /\ Goto(t, "sent", "stat_read")
  /\ numReqsSent' = numReqsSent + 1
  /\ UNCHANGED <<proc, initVars, reqVars, numReqsCompleted, statVars, qpsVars, lockVars, netVars>>

\* sent_requests++ under sendLock races with _startRoi, which resets
\* sent_requests under lock: a read and a write.
ReadSentRequests(t) ==
  /\ Goto(t, "stat_read", "stat_write")
  /\ sentTmp' = sent_requests
  /\ UNCHANGED <<proc, initVars, reqVars, countVars, statVars, qpsVars,
                 sendLock, recvLock, sendOk, resp, netVars>>

\* The write, the release of sendLock, and the test of send()'s result.
WriteSentRequests(t) ==
  /\ Goto(t, "stat_write", IF sendOk THEN "check" ELSE "done")
  /\ sent_requests' = sentTmp + 1
  /\ sendLock' = NoThread
  /\ UNCHANGED <<proc, initVars, reqVars, countVars, sjrnTimes, gen_requests,
                 latsFile, qpsVars, recvLock, sentTmp, sendOk, resp, netVars>>

Sender(t) ==
  \/ CheckSent(t) \/ CallStartReq(t) \/ LockSend(t) \/ SkipSend(t) \/ SendOk(t)
  \/ SendFails(t) \/ SendKills(t)
  \/ CountSent(t) \/ ReadSentRequests(t) \/ WriteSentRequests(t)

-----------------------------------------------------------------------------
(* The receiver thread: void *recv(void *c) and NetworkedClient::recv.     *)

LockRecv(r) ==
  /\ recvLock = NoThread
  /\ recvLock' = r
  /\ Goto(r, "recv", "reading")
  /\ UNCHANGED <<proc, initVars, reqVars, countVars, statVars, qpsVars,
                 sendLock, sentTmp, sendOk, resp, netVars>>

\* Faulty: recvLock is not released.
ReadResponseKeepingLock(r) ==
  /\ \E id \in replies :
       /\ resp' = [resp EXCEPT ![r] = id]
       /\ replies' = replies \ {id}
  /\ Goto(r, "reading", "fini")
  /\ UNCHANGED <<proc, initVars, reqVars, countVars, statVars, qpsVars,
                 sendLock, recvLock, sentTmp, sendOk, atServer, finishMsg, server>>

\* A complete response: header and data.
ReadResponse(r) ==
  /\ \E id \in replies :
       /\ resp' = [resp EXCEPT ![r] = id]
       /\ replies' = replies \ {id}
  /\ Goto(r, "reading", "fini")
  /\ recvLock' = NoThread
  /\ UNCHANGED <<proc, initVars, reqVars, countVars, statVars, qpsVars,
                 sendLock, sentTmp, sendOk, atServer, finishMsg, server>>

\* Faulty: recvLock is not released.
ReadFinishKeepingLock(r) ==
  /\ replies = {}
  /\ finishMsg
  /\ finishMsg' = FALSE
  /\ Goto(r, "reading", "done")
  /\ UNCHANGED <<proc, initVars, reqVars, countVars, statVars, qpsVars,
                 lockVars, atServer, replies, server>>

\* A FINISH message: an unknown response type for recv(), which returns.
ReadFinish(r) ==
  /\ replies = {}
  /\ finishMsg
  /\ finishMsg' = FALSE
  /\ Goto(r, "reading", "done")
  /\ recvLock' = NoThread
  /\ UNCHANGED <<proc, initVars, reqVars, countVars, statVars, qpsVars,
                 sendLock, sentTmp, sendOk, resp, atServer, replies, server>>

\* End of stream or error: recv() returns false without releasing recvLock.
RecvFails(r) ==
  /\ replies = {}
  /\ ~finishMsg
  /\ server = "gone"
  /\ Goto(r, "reading", "done")
  /\ UNCHANGED <<proc, initVars, reqVars, countVars, statVars, qpsVars, lockVars, netVars>>

CallFiniReq(r) ==
  /\ finiReq(r, resp[r], "recv")
  /\ UNCHANGED <<lockVars, netVars>>

\* syscall(SYS_exit_group), after lock has been released.
ExitGroup(r) ==
  /\ pc[r] = "exit_group"
  /\ proc' = "exited"
  /\ UNCHANGED <<pc, initVars, reqVars, countVars, statVars, qpsVars, lockVars, netVars>>

Receiver(r) ==
  \/ LockRecv(r) \/ ReadResponse(r) \/ ReadFinish(r) \/ RecvFails(r)
  \/ CallFiniReq(r) \/ ExitGroup(r)

\* main() has joined every sender and every receiver.
MainReturns ==
  /\ \A t \in Threads \cup Receivers : pc[t] = "done"
  /\ proc' = "returned"
  /\ UNCHANGED <<pc, initVars, reqVars, countVars, statVars, qpsVars, lockVars, netVars>>

-----------------------------------------------------------------------------
(* The environment: the server as its protocol promises it.                *)

Respond(id) ==
  /\ server = "up"
  /\ id \in atServer
  /\ atServer' = atServer \ {id}
  /\ replies' = replies \cup {id}
  /\ UNCHANGED <<clientVars, lockVars, finishMsg, server>>

\* The application ends its work and calls tBenchServerFinish().
ServerFinish ==
  /\ ServerStops
  /\ server = "up"
  /\ server' = "finishing"
  /\ finishMsg' = TRUE
  /\ UNCHANGED <<clientVars, lockVars, atServer, replies>>

\* The server process ends; what it had sent may be lost with the connection.
ServerGoes ==
  /\ ServerStops
  /\ server # "gone"
  /\ server' = "gone"
  /\ replies' \in SUBSET replies
  /\ finishMsg' = (finishMsg /\ replies' = replies)
  /\ UNCHANGED <<clientVars, lockVars, atServer>>

Environment ==
  \/ \E id \in atServer : Respond(id)
  \/ ServerFinish
  \/ ServerGoes

Ended ==
  /\ proc # "running"
  /\ UNCHANGED vars

Next ==
  \/ /\ proc = "running"
     /\ \/ \E t \in Threads : Sender(t)
        \/ \E r \in Receivers : Receiver(r)
        \/ MainReturns
        \/ Environment
  \/ Ended

Spec == Init /\ [][Next]_vars

(* Fairness: every thread that can run is scheduled, mutex acquisition and *)
(* socket reads included, and a server that is up answers what it has.     *)
Running(A) == proc = "running" /\ A

Fairness ==
  /\ \A t \in Threads : WF_vars(Running(Sender(t)))
  /\ \A r \in Receivers : WF_vars(Running(Receiver(r)))
  /\ WF_vars(Running(MainReturns))
  /\ WF_vars(Running(\E id \in atServer : Respond(id)))

FairSpec == Spec /\ Fairness

-----------------------------------------------------------------------------
(* Properties.                                                             *)

SenderPC ==
  {"check", "startReq", "barrier1", "init", "barrier2", "roi", "qps", "gen",
   "send", "sending", "sent", "stat_read", "stat_write", "done"}

ReceiverPC == {"recv", "reading", "fini", "exit_group", "done"}

PcTypeOK ==
  /\ proc \in {"running", "exited", "aborted", "killed", "returned"}
  /\ pc \in [Threads \cup Receivers -> SenderPC \cup ReceiverPC]
  /\ \A t \in Threads : pc[t] \in SenderPC
  /\ \A r \in Receivers : pc[r] \in ReceiverPC

ClientTypeOK ==
  /\ req \in [Threads -> Nat \cup {NoReq}]
  /\ status \in {"INIT", "WARMUP", "ROI"}
  /\ dist \in Nat
  /\ barrier \subseteq Threads
  /\ startedReqs \in Nat
  /\ inFlightReqs \subseteq Nat
  /\ {numReqsSent, numReqsCompleted, sjrnTimes} \subseteq Nat
  /\ gen_requests \in Int
  /\ sent_requests \in Nat
  /\ latsFile \in Nat \cup {NoFile}
  /\ qpsIni \in Nat \ {0}
  /\ qpsInterval \in Int
  /\ {qpsCounter, idxListQPS} \subseteq Nat

NetTypeOK ==
  /\ sendLock \in Threads \cup {NoThread}
  /\ recvLock \in Receivers \cup {NoThread}
  /\ sentTmp \in Nat
  /\ sendOk \in BOOLEAN
  /\ resp \in [Receivers -> Nat \cup {NoReq}]
  /\ atServer \subseteq Nat
  /\ replies \subseteq Nat
  /\ finishMsg \in BOOLEAN
  /\ server \in {"up", "finishing", "gone"}

\* Every variable keeps its type; pc ranges over the control points of
\* startReq, send and recv, and the counters never go negative.
TypeOK == PcTypeOK /\ ClientTypeOK /\ NetTypeOK

\* No assertion of finiReq or _startRoi fails: every response matches a
\* request still in inFlightReqs, and the region of interest begins once,
\* from WARMUP (client.cpp:266 and client.cpp:394; the assertion on the clock
\* in client.cpp:271 is a property of TimedClient).
AssertionsHold == proc # "aborted"

\* The file dumpStats writes holds exactly maxreqs tuples, although other
\* receivers run between the release of lock and exit_group.
PublishesMaxReqs == latsFile # NoFile => latsFile = MaxReqs

FiniReceivers == {r \in Receivers : pc[r] = "fini"}

\* Responses that are due, on their way, or in the hands of a receiver.
Due == Cardinality(atServer) + Cardinality(replies) + Cardinality(FiniReceivers)

\* At most warmupreqs + maxreqs requests ever reach the server, so no response
\* can follow the one that dumps the statistics; a sender that passed the loop
\* head before the budget was used up is stopped by the test in send().
BudgetKept == Due + numReqsCompleted <= TotalReqs

\* The threads of startReq that passed the loop head generate at most one
\* request each beyond the budget.
OverGenerationBounded == startedReqs <= TotalReqs + Cardinality(Threads) - 1

\* Faulty: send() reads the Request after the write, as it once did.
TouchesReqAfterWrite == {"send", "sending", "sent"}

\* The control points of send() from which the Request is still accessed.
TouchesReq == {"send", "sending"}

\* A sender never touches a Request that finiReq has deleted, although the
\* response may be processed before send() returns.
NoUseAfterDelete ==
  \A t \in Threads : pc[t] \in TouchesReq => req[t] \in inFlightReqs

\* numReqsCompleted overtakes numReqsSent by at most one, and only while a
\* sender is between the write and the increment of numReqsSent.
CompletedTrailsSent ==
  numReqsCompleted > numReqsSent =>
    /\ sendLock # NoThread
    /\ pc[sendLock] = "sent"
    /\ numReqsCompleted = numReqsSent + 1

\* The race of send() with _startRoi on sent_requests may bring back the sends
\* of the warmup, but the statistic never reports a send that was not made.
SentStatBounded == sent_requests <= numReqsSent

\* recvLock is only ever left locked by a finished receiver once the
\* connection has ended.
RecvLockOrphanedOnlyAtEnd ==
  recvLock # NoThread /\ pc[recvLock] = "done" => server = "gone"

\* A client whose server stays up ends through exit_group with its file
\* published, and never waits for a response that cannot come.
ServedClientPublishes ==
  [](server = "up") => <>(proc = "exited" /\ latsFile = MaxReqs)

\* A client whose server has gone ends, one way or another: main joins all
\* threads and asserts that it did (tbench_client_networked.cpp:150-158).
ClientEnds == server = "gone" ~> proc # "running"

-----------------------------------------------------------------------------
(* The inductive invariant behind the safety properties.                   *)

\* sendLock is held exactly from its acquisition in send() to its release.
SendLockInv ==
  \A t \in Threads :
    pc[t] \in {"sending", "sent", "stat_read", "stat_write"} <=> sendLock = t

\* Nothing is generated before the first thread through the barrier has made
\* the distribution, and the threads go through the first barrier together.
StartInv ==
  /\ \A t \in barrier : pc[t] \in {"barrier1", "barrier2"}
  /\ dist = 0 <=> status = "INIT"
  /\ dist # 0 => dist = (IF QpsVar = 0 THEN Qps ELSE qpsIni)
  /\ status = "INIT" =>
       /\ startedReqs = 0
       /\ numReqsSent = 0
       /\ \/ \A t \in Threads : pc[t] \in {"check", "startReq", "barrier1"}
          \/ barrier = {} /\ \A t \in Threads : pc[t] = "init"

\* A request is in one place at a time: with its sender, at the server, among
\* the replies, or with one receiver; and in flight all that time.
PlaceInv ==
  /\ \A id \in inFlightReqs : id < startedReqs
  /\ atServer \cup replies \subseteq inFlightReqs
  /\ atServer \cap replies = {}
  /\ \A t \in Threads : pc[t] \in TouchesReq =>
       /\ req[t] \in inFlightReqs \ (atServer \cup replies)
       /\ \A u \in Threads \ {t} : pc[u] \in TouchesReq => req[u] # req[t]
       /\ \A r \in FiniReceivers : resp[r] # req[t]
  /\ \A r \in FiniReceivers :
       /\ resp[r] \in inFlightReqs \ (atServer \cup replies)
       /\ \A q \in FiniReceivers \ {r} : resp[q] # resp[r]

\* A request written but not yet counted in numReqsSent.
SentPending == IF \E t \in Threads : pc[t] = "sent" THEN 1 ELSE 0

\* Responses, due or processed, never outnumber the writes, nor the writes the
\* budget.
CountInv ==
  /\ IsFiniteSet(atServer)
  /\ IsFiniteSet(replies)
  /\ Due + numReqsCompleted <= numReqsSent + SentPending
  /\ numReqsSent + SentPending <= TotalReqs

\* The counters determine the phase of the measurement.
PhaseInv ==
  /\ status # "ROI" =>
       numReqsCompleted < WarmupReqs /\ sjrnTimes = 0 /\ latsFile = NoFile
  /\ status = "ROI" =>
       /\ numReqsCompleted >= WarmupReqs
       /\ sjrnTimes = numReqsCompleted - WarmupReqs
       /\ IF latsFile = NoFile THEN numReqsCompleted < TotalReqs
                              ELSE numReqsCompleted = TotalReqs /\ latsFile = MaxReqs

\* Where every request is, how many there are and what has been measured, as
\* the steps of startReq, send, recv and finiReq preserve it.
IndInv ==
  /\ TypeOK
  /\ SendLockInv
  /\ StartInv
  /\ PlaceInv
  /\ CountInv
  /\ PhaseInv
  /\ AssertionsHold

-----------------------------------------------------------------------------
(* Inductive together with IndInv.                                         *)

\* The owner of sendLock has counted its send before it reads sent_requests.
SentStatInv ==
  /\ sent_requests <= numReqsSent
  /\ \A t \in Threads :
       /\ pc[t] \in {"stat_read", "stat_write"} => sent_requests < numReqsSent
       /\ pc[t] = "stat_write" => sentTmp < numReqsSent

\* recvLock is held while a receiver reads, and by one that failed to.
RecvLockInv ==
  \A r \in Receivers :
    /\ pc[r] = "reading" => recvLock = r
    /\ recvLock = r => pc[r] = "reading" \/ (pc[r] = "done" /\ server = "gone")

\* The interval of the rate in force, and the counter within it.
RateInv ==
  /\ qpsInterval \in Nat
  /\ qpsIni \in Nat \ {0}
  /\ QpsVar = 2 => \E i \in DOMAIN listQPS : qpsIni = listQPS[i]
  /\ CounterWithinInterval
  /\ StaysAtLeastAsLong

\* Threads on their way from the loop head to a request, and those that have
\* generated one and not yet counted it.
Coming ==
  {t \in Threads :
     pc[t] \in {"startReq", "barrier1", "init", "barrier2", "roi", "qps", "gen"}}
Holding == {t \in Threads : pc[t] \in {"send", "sending", "sent"}}

\* Until the budget is used up every generated request is sent or about to be;
\* the thread that uses it up is not among those that come after.
GenInv ==
  /\ startedReqs >= numReqsSent + Cardinality(Holding)
  /\ numReqsSent < TotalReqs => startedReqs = numReqsSent + Cardinality(Holding)
  /\ numReqsSent = TotalReqs =>
       startedReqs + Cardinality(Coming) <= TotalReqs + Cardinality(Threads) - 1

-----------------------------------------------------------------------------
\* The client keeps the promise of Measurement.
M == INSTANCE Measurement WITH
       Warmup <- WarmupReqs, Max <- MaxReqs,
       phase <- IF latsFile # NoFile THEN "published"
                ELSE IF status = "ROI" THEN "roi" ELSE "warmup",
       completed <- numReqsCompleted, recorded <- sjrnTimes

\* Exactly the first warmupreqs completions are unmeasured, each of the next
\* maxreqs adds one tuple, and nothing completes after the file is written.
MeasuresAsPromised == M!Spec

=============================================================================
