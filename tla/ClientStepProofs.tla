-------------------------- MODULE ClientStepProofs --------------------------
(***************************************************************************)
(* Proofs about NetworkedClient: facts about the counts and about steps    *)
(* that move no request, and that every step preserves IndInv: of a sender *)
(* (the loop head, Client::startReq, NetworkedClient::send), of a receiver *)
(* (the three outcomes of Client::finiReq, NetworkedClient::recv), of main *)
(* and of the server.                                                      *)
(***************************************************************************)
EXTENDS NetworkedClient, FiniteSetTheorems, TLAPS

USE ClientAssumption, NetworkedAssumption

\* A subset of a finite set.
LEMMA SubsetCounts ==
  ASSUME NEW S, IsFiniteSet(S), NEW T, T \subseteq S
  PROVE  IsFiniteSet(T) /\ Cardinality(T) \in Nat /\ Cardinality(T) <= Cardinality(S)
BY FS_Subset, FS_CardinalityType, Zenon

\* An element that joins a finite set counts for one.
LEMMA OneMore ==
  ASSUME NEW S, IsFiniteSet(S), NEW x, x \notin S
  PROVE  IsFiniteSet(S \cup {x}) /\ Cardinality(S \cup {x}) = Cardinality(S) + 1
BY FS_AddElement, Zenon

\* So does an element that leaves it.
LEMMA OneLess ==
  ASSUME NEW S, IsFiniteSet(S), NEW x \in S
  PROVE  IsFiniteSet(S \ {x}) /\ Cardinality(S \ {x}) = Cardinality(S) - 1
BY FS_RemoveElement, Zenon

\* The receivers inside finiReq are finitely many.
LEMMA FiniFinite ==
  IsFiniteSet(FiniReceivers) /\ Cardinality(FiniReceivers) \in Nat
<1>1. FiniReceivers \subseteq Receivers
  BY Zenon DEF FiniReceivers
<1> QED BY <1>1, SubsetCounts, Zenon

\* The quantities CountInv compares are natural numbers.
LEMMA CountsAreNat ==
  ASSUME IndInv
  PROVE  /\ Cardinality(atServer) \in Nat
         /\ Cardinality(replies) \in Nat
         /\ numReqsSent \in Nat
         /\ numReqsCompleted \in Nat
         /\ SentPending \in {0, 1}
         /\ TotalReqs \in Nat
<1>1. {Cardinality(atServer), Cardinality(replies)} \subseteq Nat
  BY FS_CardinalityType, Zenon DEF IndInv, CountInv
<1>2. {numReqsSent, numReqsCompleted} \subseteq Nat
  BY Zenon DEF IndInv, TypeOK, ClientTypeOK
<1>3. SentPending \in {0, 1}
  BY Zenon DEF SentPending
<1>4. TotalReqs \in Nat
  BY DEF TotalReqs
<1> QED BY <1>1, <1>2, <1>3, <1>4, Zenon

\* A step that moves no request and hands none to a thread keeps PlaceInv.
LEMMA PlaceFrame ==
  ASSUME PlaceInv,
         UNCHANGED <<startedReqs, inFlightReqs, atServer, replies, req, resp>>,
         FiniReceivers' = FiniReceivers,
         \A u \in Threads : pc'[u] \in TouchesReq => pc[u] \in TouchesReq
  PROVE  PlaceInv'
BY Zenon DEF PlaceInv

\* A step that moves no request and counts none keeps CountInv.
LEMMA CountFrame ==
  ASSUME CountInv, UNCHANGED <<atServer, replies, numReqsSent, numReqsCompleted>>,
         FiniReceivers' = FiniReceivers, SentPending' = SentPending
  PROVE  CountInv'
BY Zenon DEF CountInv, Due

\* Whether a step leaves every request where it is: it hands none to a thread,
\* and counts none.
RequestsStay ==
  /\ UNCHANGED <<startedReqs, inFlightReqs, atServer, replies, req, resp>>
  /\ UNCHANGED countVars
  /\ FiniReceivers' = FiniReceivers
  /\ SentPending' = SentPending
  /\ \A u \in Threads : pc'[u] \in TouchesReq => pc[u] \in TouchesReq

\* A step that leaves every request where it is keeps the places and the counts.
LEMMA PlacesKept ==
  ASSUME PlaceInv, CountInv, RequestsStay
  PROVE  PlaceInv' /\ CountInv'
<1>1. PlaceInv'
  BY PlaceFrame, Zenon DEF RequestsStay
<1>2. CountInv'
  BY CountFrame, Zenon DEF RequestsStay, countVars
<1> QED BY <1>1, <1>2, Zenon

\* A step that only moves threads and locks.
LEMMA QuietStep ==
  ASSUME IndInv, PcTypeOK', NetTypeOK', SendLockInv', StartInv', proc' # "aborted",
         RequestsStay, UNCHANGED <<initVars, reqVars, countVars, statVars, qpsVars>>
  PROVE  IndInv'
<1>1. ClientTypeOK' /\ PhaseInv'
  BY Zenon DEF IndInv, TypeOK, ClientTypeOK, PhaseInv, initVars, reqVars, countVars, statVars, qpsVars
<1>2. PlaceInv' /\ CountInv'
  BY PlacesKept, Zenon DEF IndInv
<1> QED BY <1>1, <1>2, Zenon DEF IndInv, TypeOK, AssertionsHold

-----------------------------------------------------------------------------
(* NetworkedClient::send. *)

\* Preserved by a send the server receives.
LEMMA StepSendOk ==
  ASSUME IndInv, NEW t \in Threads, SendOk(t)
  PROVE  IndInv'
<1> /\ PcTypeOK /\ ClientTypeOK /\ NetTypeOK /\ SendLockInv /\ StartInv
    /\ PlaceInv /\ CountInv /\ PhaseInv /\ AssertionsHold
  BY Zenon DEF IndInv, TypeOK
<1> USE DEF SendOk, MaySend, Goto, initVars, reqVars, countVars, statVars,
            qpsVars, lockVars, netVars, clientVars
<1>0. req[t] \in inFlightReqs \ (atServer \cup replies)
  BY Zenon DEF PlaceInv, TouchesReq
<1>1. TypeOK'
  <2>1. PcTypeOK'
    BY Zenon DEF PcTypeOK, SenderPC, ReceiverPC
  <2>2. ClientTypeOK'
    BY Zenon DEF ClientTypeOK
  <2>3. atServer' \subseteq Nat
    BY <1>0, Zenon DEF ClientTypeOK, NetTypeOK
  <2>4. NetTypeOK'
    BY <2>3, Zenon DEF NetTypeOK
  <2> QED BY <2>1, <2>2, <2>4, Zenon DEF TypeOK
<1>2. SendLockInv'
  BY Zenon DEF PcTypeOK, SendLockInv
<1>3. StartInv'
  BY SMTT(30) DEF PcTypeOK, StartInv
<1>4. PlaceInv'
  <2>1. FiniReceivers' = FiniReceivers
    BY Zenon DEF PcTypeOK, FiniReceivers
  <2>2. \A u \in Threads : pc'[u] \in TouchesReq => u # t /\ pc[u] \in TouchesReq
    BY Zenon DEF PcTypeOK, TouchesReq
  <2>3. pc[t] \in TouchesReq
    BY Zenon DEF TouchesReq
  <2>4. atServer' \subseteq atServer \cup {req[t]}
    BY Zenon
  <2>5. \A u \in Threads : pc'[u] \in TouchesReq => req[u] # req[t]
    BY <2>2, <2>3, Zenon DEF PlaceInv
  <2>6. \A r \in FiniReceivers : resp[r] # req[t]
    BY <2>3, Zenon DEF PlaceInv
  <2> QED BY <1>0, <2>1, <2>2, <2>4, <2>5, <2>6, SMTT(30) DEF PlaceInv
<1>5. CountInv'
  <2>1. FiniReceivers' = FiniReceivers
    BY Zenon DEF PcTypeOK, FiniReceivers
  <2>2. SentPending = 0 /\ SentPending' = 1
    BY Zenon DEF PcTypeOK, SentPending, SendLockInv
  <2>3. IsFiniteSet(atServer)
    BY Zenon DEF CountInv
  <2>4. IsFiniteSet(atServer \cup {req[t]}) /\ Cardinality(atServer \cup {req[t]}) = Cardinality(atServer) + 1
    BY <1>0, <2>3, OneMore, Zenon
  <2>5. /\ IsFiniteSet(atServer')
        /\ Cardinality(atServer') \in {Cardinality(atServer), Cardinality(atServer) + 1}
    BY <2>3, <2>4, Zenon
  <2>6. numReqsSent + 1 <= TotalReqs
    BY CountsAreNat, <2>2, SMTT(30) DEF CountInv
  <2> HIDE DEF SendOk
  <2>7. CountInv /\ UNCHANGED <<replies, numReqsSent, numReqsCompleted>>
    BY Zenon DEF SendOk
  <2> QED BY <2>1, <2>2, <2>5, <2>6, <2>7, FiniFinite, CountsAreNat, SMTT(30)
       DEF CountInv, Due
<1>6. PhaseInv' /\ AssertionsHold'
  BY Zenon DEF PhaseInv, StartInv, AssertionsHold
<1> QED BY <1>1, <1>2, <1>3, <1>4, <1>5, <1>6, Zenon DEF IndInv

\* Preserved by a send that fails.
LEMMA StepSendFails ==
  ASSUME IndInv, NEW t \in Threads, SendFails(t)
  PROVE  IndInv'
<1> /\ PcTypeOK /\ ClientTypeOK /\ NetTypeOK /\ SendLockInv /\ StartInv
    /\ PlaceInv /\ CountInv /\ PhaseInv /\ AssertionsHold
  BY Zenon DEF IndInv, TypeOK
<1> USE DEF SendFails, MaySend, Goto, initVars, reqVars, countVars, statVars,
            qpsVars, lockVars, netVars, clientVars
<1>1. TypeOK'
  <2>1. PcTypeOK'
    BY Zenon DEF PcTypeOK, SenderPC, ReceiverPC
  <2>2. ClientTypeOK'
    BY Zenon DEF ClientTypeOK
  <2>3. NetTypeOK'
    BY Zenon DEF NetTypeOK
  <2> QED BY <2>1, <2>2, <2>3, Zenon DEF TypeOK
<1>2. SendLockInv'
  BY Zenon DEF PcTypeOK, SendLockInv
<1>3. StartInv'
  BY DEF PcTypeOK, StartInv
<1>4. PlaceInv'
  <2>1. FiniReceivers' = FiniReceivers
    BY Zenon DEF PcTypeOK, FiniReceivers
  <2>2. \A u \in Threads : pc'[u] \in TouchesReq => pc[u] \in TouchesReq
    BY Zenon DEF PcTypeOK, TouchesReq
  <2> QED BY <2>1, <2>2, PlaceFrame, Zenon
<1>5. CountInv'
  <2>1. FiniReceivers' = FiniReceivers
    BY Zenon DEF PcTypeOK, FiniReceivers
  <2>2. SentPending = 0 /\ SentPending' = 1
    BY Zenon DEF PcTypeOK, SentPending, SendLockInv
  <2>3. numReqsSent + 1 <= TotalReqs
    BY CountsAreNat, <2>2, SMTT(30) DEF CountInv
  <2>4. CountInv /\ UNCHANGED <<atServer, replies, numReqsSent, numReqsCompleted>>
    BY Zenon
  <2> HIDE DEF SendFails
  <2> QED BY <2>1, <2>2, <2>3, <2>4, FiniFinite, CountsAreNat, SMTT(30)
       DEF CountInv, Due
<1>6. PhaseInv' /\ AssertionsHold'
  BY Zenon DEF PhaseInv, StartInv, AssertionsHold
<1> QED BY <1>1, <1>2, <1>3, <1>4, <1>5, <1>6, Zenon DEF IndInv

\* Preserved by ++numReqsSent.
LEMMA StepCountSent ==
  ASSUME IndInv, NEW t \in Threads, CountSent(t)
  PROVE  IndInv'
<1> /\ PcTypeOK /\ ClientTypeOK /\ NetTypeOK /\ SendLockInv /\ StartInv
    /\ PlaceInv /\ CountInv /\ PhaseInv /\ AssertionsHold
  BY Zenon DEF IndInv, TypeOK
<1> USE DEF CountSent, Goto, initVars, reqVars, countVars, statVars,
            qpsVars, lockVars, netVars, clientVars
<1>1. TypeOK'
  <2>1. PcTypeOK'
    BY ZenonT(40) DEF PcTypeOK, SenderPC, ReceiverPC
  <2>2. ClientTypeOK'
    BY SMTT(30) DEF ClientTypeOK
  <2>3. NetTypeOK'
    BY Zenon DEF NetTypeOK
  <2> QED BY <2>1, <2>2, <2>3, Zenon DEF TypeOK
<1>2. SendLockInv'
  BY Zenon DEF PcTypeOK, SendLockInv
<1>3. StartInv'
  BY DEF PcTypeOK, StartInv
<1>4. PlaceInv'
  <2>1. FiniReceivers' = FiniReceivers
    BY Zenon DEF PcTypeOK, FiniReceivers
  <2>2. \A u \in Threads : pc'[u] \in TouchesReq => pc[u] \in TouchesReq
    BY ZenonT(40) DEF PcTypeOK, TouchesReq
  <2> QED BY <2>1, <2>2, PlaceFrame, Zenon
<1>5. CountInv'
  <2>1. FiniReceivers' = FiniReceivers
    BY Zenon DEF PcTypeOK, FiniReceivers
  <2>2. SentPending = 1 /\ SentPending' = 0
    BY Zenon DEF PcTypeOK, SentPending, SendLockInv
  <2> QED BY <2>1, <2>2, SMTT(30) DEF CountInv, Due, ClientTypeOK
<1>6. PhaseInv' /\ AssertionsHold'
  BY Zenon DEF PhaseInv, StartInv, AssertionsHold
<1> QED BY <1>1, <1>2, <1>3, <1>4, <1>5, <1>6, Zenon DEF IndInv

\* Preserved by the write of sent_requests.
LEMMA StepWriteSentRequests ==
  ASSUME IndInv, NEW t \in Threads, WriteSentRequests(t)
  PROVE  IndInv'
<1> /\ PcTypeOK /\ ClientTypeOK /\ NetTypeOK /\ SendLockInv /\ StartInv
    /\ PlaceInv /\ CountInv /\ PhaseInv /\ AssertionsHold
  BY Zenon DEF IndInv, TypeOK
<1> USE DEF WriteSentRequests, Goto, initVars, reqVars, countVars, statVars,
            qpsVars, lockVars, netVars, clientVars
<1>1. TypeOK'
  <2>1. PcTypeOK'
    BY Zenon DEF PcTypeOK, SenderPC, ReceiverPC
  <2>2. ClientTypeOK'
    <3>1. sentTmp + 1 \in Nat
      BY DEF NetTypeOK
    <3> QED BY <3>1, Zenon DEF ClientTypeOK
  <2>3. NetTypeOK'
    BY Zenon DEF NetTypeOK
  <2> QED BY <2>1, <2>2, <2>3, Zenon DEF TypeOK
<1>2. SendLockInv'
  BY Zenon DEF PcTypeOK, SendLockInv
<1>3. StartInv'
  BY DEF PcTypeOK, StartInv
<1>4. PlaceInv' /\ CountInv'
  <2>1. RequestsStay
    BY Zenon DEF RequestsStay, PcTypeOK, FiniReceivers, SentPending, TouchesReq
  <2> QED BY <2>1, PlacesKept, Zenon
<1>6. PhaseInv' /\ AssertionsHold'
  BY Zenon DEF PhaseInv, StartInv, AssertionsHold
<1> QED BY <1>1, <1>2, <1>3, <1>4, <1>6, ZenonT(40) DEF IndInv

\* Preserved by the entry of send.
LEMMA StepLockSend ==
  ASSUME IndInv, NEW t \in Threads, LockSend(t)
  PROVE  IndInv'
<1> /\ PcTypeOK /\ NetTypeOK /\ SendLockInv /\ StartInv /\ AssertionsHold
  BY Zenon DEF IndInv, TypeOK
<1> USE DEF LockSend, Goto, initVars, reqVars, countVars, statVars,
            qpsVars, lockVars, netVars, clientVars
<1>1. PcTypeOK'
  BY Zenon DEF PcTypeOK, SenderPC, ReceiverPC
<1>2. NetTypeOK'
  BY Zenon DEF NetTypeOK
<1>3. SendLockInv'
  BY ZenonT(40) DEF PcTypeOK, SendLockInv
<1>4. StartInv'
  BY DEF PcTypeOK, StartInv
<1>5. RequestsStay
  BY Zenon DEF RequestsStay, PcTypeOK, FiniReceivers, SentPending, TouchesReq
<1>6. proc' # "aborted" /\ UNCHANGED <<initVars, reqVars, countVars, statVars, qpsVars>>
  BY Zenon DEF AssertionsHold
<1> QED BY <1>1, <1>2, <1>3, <1>4, <1>5, <1>6, QuietStep, ZenonT(40)

\* Preserved by send over budget.
LEMMA StepSkipSend ==
  ASSUME IndInv, NEW t \in Threads, SkipSend(t)
  PROVE  IndInv'
<1> /\ PcTypeOK /\ NetTypeOK /\ SendLockInv /\ StartInv /\ AssertionsHold
  BY Zenon DEF IndInv, TypeOK
<1> USE DEF SkipSend, Goto, initVars, reqVars, countVars, statVars,
            qpsVars, lockVars, netVars, clientVars
<1>1. PcTypeOK'
  BY Zenon DEF PcTypeOK, SenderPC, ReceiverPC
<1>2. NetTypeOK'
  BY Zenon DEF NetTypeOK
<1>3. SendLockInv'
  BY Zenon DEF PcTypeOK, SendLockInv
<1>4. StartInv'
  BY DEF PcTypeOK, StartInv
<1>5. RequestsStay
  BY Zenon DEF RequestsStay, PcTypeOK, FiniReceivers, SentPending, TouchesReq
<1>6. proc' # "aborted" /\ UNCHANGED <<initVars, reqVars, countVars, statVars, qpsVars>>
  BY Zenon DEF AssertionsHold
<1> QED BY <1>1, <1>2, <1>3, <1>4, <1>5, <1>6, QuietStep, ZenonT(40)

\* Preserved by a send that raises SIGPIPE.
LEMMA StepSendKills ==
  ASSUME IndInv, NEW t \in Threads, SendKills(t)
  PROVE  IndInv'
<1> /\ PcTypeOK /\ NetTypeOK /\ SendLockInv /\ StartInv /\ AssertionsHold
  BY Zenon DEF IndInv, TypeOK
<1> USE DEF SendKills, Goto, initVars, reqVars, countVars, statVars,
            qpsVars, lockVars, netVars, clientVars
<1>1. PcTypeOK'
  BY Zenon DEF PcTypeOK, SenderPC, ReceiverPC
<1>2. NetTypeOK'
  BY Zenon DEF NetTypeOK
<1>3. SendLockInv'
  BY Zenon DEF PcTypeOK, SendLockInv
<1>4. StartInv'
  BY Zenon DEF PcTypeOK, StartInv
<1>5. RequestsStay
  BY Zenon DEF RequestsStay, PcTypeOK, FiniReceivers, SentPending, TouchesReq
<1>6. proc' # "aborted" /\ UNCHANGED <<initVars, reqVars, countVars, statVars, qpsVars>>
  BY Zenon DEF AssertionsHold
<1> QED BY <1>1, <1>2, <1>3, <1>4, <1>5, <1>6, QuietStep, ZenonT(40)

\* Preserved by the read of sent_requests.
LEMMA StepReadSentRequests ==
  ASSUME IndInv, NEW t \in Threads, ReadSentRequests(t)
  PROVE  IndInv'
<1> /\ PcTypeOK /\ ClientTypeOK /\ NetTypeOK /\ SendLockInv /\ StartInv /\ AssertionsHold
  BY Zenon DEF IndInv, TypeOK
<1> USE DEF ReadSentRequests, Goto, initVars, reqVars, countVars, statVars,
            qpsVars, lockVars, netVars, clientVars
<1>1. PcTypeOK'
  BY Zenon DEF PcTypeOK, SenderPC, ReceiverPC
<1>2. NetTypeOK'
  BY Zenon DEF NetTypeOK, ClientTypeOK
<1>3. SendLockInv'
  BY Zenon DEF PcTypeOK, SendLockInv
<1>4. StartInv'
  BY DEF PcTypeOK, StartInv
<1>5. RequestsStay
  BY Zenon DEF RequestsStay, PcTypeOK, FiniReceivers, SentPending, TouchesReq
<1>6. proc' # "aborted" /\ UNCHANGED <<initVars, reqVars, countVars, statVars, qpsVars>>
  BY Zenon DEF AssertionsHold
<1> QED BY <1>1, <1>2, <1>3, <1>4, <1>5, <1>6, QuietStep, ZenonT(40)

-----------------------------------------------------------------------------
(* The loop head of the senders and Client::startReq. *)

\* The interval of a new rate is an integer.
LEMMA IntervalIsInt ==
  ASSUME NEW a \in Int, NEW n \in Nat, NEW b \in Nat \ {0}
  PROVE  (a * n) \div b \in Int
<1>1. a * n \in Int
  OBVIOUS
<1>2. \A c \in Int : c \div b \in Int
  OBVIOUS
<1> QED BY <1>1, <1>2, Zenon

\* What startReq's rate section does to the rate, whichever branch it takes: the
\* distribution keeps its rate or is re-created with the new one.
LEMMA RateFacts ==
  ASSUME NEW t, VaryQps(t),
         qpsIni \in Nat \ {0}, qpsInterval \in Int, qpsCounter \in Nat, idxListQPS \in Nat
  PROVE  /\ UNCHANGED <<dist, qpsIni>> \/ (dist' = qpsIni' /\ QpsVar # 0)
         /\ qpsIni' \in Nat \ {0} /\ qpsInterval' \in Int
         /\ qpsCounter' \in Nat /\ idxListQPS' \in Nat
<1>1. CASE qpsCounter # qpsInterval
  BY <1>1 DEF VaryQps
<1>2. CASE ChangeRate /\ StepRate
  BY <1>2, SMTT(30) DEF ChangeRate, StepRate
<1>3. CASE ChangeRate /\ NextRate
  <2>1. listQPS \in Seq(Nat \ {0}) /\ Len(listQPS) \in Nat \ {0}
    BY DEF listQPS
  <2>2. (idxListQPS % Len(listQPS)) + 1 \in 1..Len(listQPS)
    BY <2>1
  <2>3. listQPS[(idxListQPS % Len(listQPS)) + 1] \in Nat \ {0}
    BY <2>1, <2>2, SMTT(30)
  <2>4. \A n \in Nat : ScaledInterval(n) \in Int
    BY IntervalIsInt DEF ScaledInterval
  <2>5. /\ qpsIni' = listQPS[(idxListQPS % Len(listQPS)) + 1]
        /\ qpsInterval' = ScaledInterval(listQPS[(idxListQPS % Len(listQPS)) + 1])
        /\ idxListQPS' = idxListQPS + 1
        /\ dist' = qpsIni' /\ qpsCounter' = 0 /\ QpsVar = 2
    BY <1>3, Zenon DEF ChangeRate, NextRate
  <2>6. qpsIni' \in Nat \ {0} /\ qpsInterval' \in Int
    BY <2>3, <2>4, <2>5, Zenon
  <2> QED BY <2>5, <2>6, SMTT(30)
<1>4. qpsCounter # qpsInterval \/ (ChangeRate /\ StepRate) \/ (ChangeRate /\ NextRate)
  BY Zenon DEF VaryQps, ChangeRate
<1> QED BY <1>1, <1>2, <1>3, <1>4, ZenonT(40)

\* Preserved by the rate section of startReq.
LEMMA StepVaryQps ==
  ASSUME IndInv, NEW t \in Threads, VaryQps(t), UNCHANGED <<lockVars, netVars>>
  PROVE  IndInv'
<1> /\ PcTypeOK /\ ClientTypeOK /\ NetTypeOK /\ SendLockInv /\ StartInv
    /\ PlaceInv /\ CountInv /\ PhaseInv /\ AssertionsHold
  BY Zenon DEF IndInv, TypeOK
<1> USE DEF VaryQps, Goto, initVars, reqVars, countVars, statVars,
            qpsVars, lockVars, netVars, clientVars
<1>0. /\ UNCHANGED <<dist, qpsIni>> \/ (dist' = qpsIni' /\ QpsVar # 0)
     /\ qpsIni' \in Nat \ {0} /\ qpsInterval' \in Int
     /\ qpsCounter' \in Nat /\ idxListQPS' \in Nat
  <2>1. /\ qpsIni \in Nat \ {0} /\ qpsInterval \in Int
        /\ qpsCounter \in Nat /\ idxListQPS \in Nat
    BY Zenon DEF ClientTypeOK
  <2> HIDE DEF VaryQps
  <2> QED BY <2>1, RateFacts, Zenon
<1>a. dist' \in Nat
  BY <1>0, Zenon DEF ClientTypeOK
<1>1. TypeOK'
  <2>1. PcTypeOK'
    BY Zenon DEF PcTypeOK, SenderPC, ReceiverPC
  <2>2. ClientTypeOK'
    BY <1>0, <1>a, Zenon DEF ClientTypeOK
  <2>3. NetTypeOK'
    BY Zenon DEF NetTypeOK
  <2> QED BY <2>1, <2>2, <2>3, Zenon DEF TypeOK
<1>2. SendLockInv'
  BY Zenon DEF PcTypeOK, SendLockInv
<1>3. StartInv'
  <2>1. status # "INIT"
    BY Zenon DEF StartInv
  <2> QED BY <2>1, <1>0, Zenon DEF PcTypeOK, ClientTypeOK, StartInv
<1>4. PlaceInv' /\ CountInv'
  <2>1. RequestsStay
    BY Zenon DEF RequestsStay, PcTypeOK, FiniReceivers, SentPending, TouchesReq
  <2> QED BY <2>1, PlacesKept, Zenon
<1>6. PhaseInv' /\ AssertionsHold'
  BY Zenon DEF PhaseInv, StartInv, AssertionsHold
<1> QED BY <1>1, <1>2, <1>3, <1>4, <1>6, ZenonT(40) DEF IndInv

\* Preserved by the generation of a request.
LEMMA StepGenReq ==
  ASSUME IndInv, NEW t \in Threads, GenReq(t, "send"), UNCHANGED <<lockVars, netVars>>
  PROVE  IndInv'
<1> /\ PcTypeOK /\ ClientTypeOK /\ NetTypeOK /\ SendLockInv /\ StartInv
    /\ PlaceInv /\ CountInv /\ PhaseInv /\ AssertionsHold
  BY Zenon DEF IndInv, TypeOK
<1> USE DEF GenReq, Goto, initVars, reqVars, countVars, statVars,
            qpsVars, lockVars, netVars, clientVars
<1>1. TypeOK'
  <2>1. PcTypeOK'
    BY ZenonT(40) DEF PcTypeOK, SenderPC, ReceiverPC
  <2>2. req' \in [Threads -> Nat \cup {NoReq}] /\ startedReqs' \in Nat
    BY DEF ClientTypeOK
  <2>a. inFlightReqs' \subseteq Nat
    BY ZenonT(40) DEF ClientTypeOK
  <2>b. gen_requests' \in Int
    BY DEF ClientTypeOK
  <2>3. ClientTypeOK'
    BY <2>2, <2>a, <2>b, Zenon DEF ClientTypeOK
  <2>4. NetTypeOK'
    BY Zenon DEF NetTypeOK
  <2> QED BY <2>1, <2>3, <2>4, Zenon DEF TypeOK
<1>2. SendLockInv'
  BY Zenon DEF PcTypeOK, SendLockInv
<1>3. StartInv'
  BY SMTT(30) DEF PcTypeOK, StartInv
<1>4. PlaceInv'
  <2>1. FiniReceivers' = FiniReceivers
    BY ZenonT(40) DEF PcTypeOK, FiniReceivers
  <2>2. startedReqs \in Nat /\ startedReqs \notin inFlightReqs
    BY DEF ClientTypeOK, PlaceInv
  <2>3. \A u \in Threads : /\ u # t => req'[u] = req[u] /\ pc'[u] = pc[u]
                           /\ u = t => req'[u] = startedReqs
    BY ZenonT(40) DEF PcTypeOK, ClientTypeOK
  <2>4. \A id \in inFlightReqs' : id < startedReqs'
    BY <2>2 DEF ClientTypeOK, PlaceInv
  <2>5. /\ inFlightReqs' = inFlightReqs \cup {startedReqs}
        /\ UNCHANGED <<atServer, replies, resp>>
        /\ PlaceInv
    BY Zenon
  <2> HIDE DEF GenReq
  <2> QED BY <2>1, <2>2, <2>3, <2>4, <2>5, SMTT(30) DEF PlaceInv
<1>5. CountInv'
  <2>1. FiniReceivers' = FiniReceivers
    BY Zenon DEF PcTypeOK, FiniReceivers
  <2>2. SentPending' = SentPending
    BY Zenon DEF PcTypeOK, SentPending
  <2> QED BY <2>1, <2>2, CountFrame, Zenon
<1>6. PhaseInv' /\ AssertionsHold'
  BY Zenon DEF PhaseInv, StartInv, AssertionsHold
<1> QED BY <1>1, <1>2, <1>3, <1>4, <1>5, <1>6, ZenonT(40) DEF IndInv

\* Preserved by pthread_barrier_wait in startReq.
LEMMA StepBarrierWait ==
  ASSUME IndInv, NEW t \in Threads, BarrierWait(t), UNCHANGED <<lockVars, netVars>>
  PROVE  IndInv'
<1> /\ PcTypeOK /\ ClientTypeOK /\ NetTypeOK /\ SendLockInv /\ StartInv
    /\ PlaceInv /\ CountInv /\ PhaseInv /\ AssertionsHold
  BY Zenon DEF IndInv, TypeOK
<1> USE DEF BarrierWait, AfterBarrier, Goto, initVars, reqVars, countVars, statVars,
            qpsVars, lockVars, netVars, clientVars
<1>0. \A u \in Threads : pc'[u] # pc[u] =>
         /\ barrier \cup {t} = Threads
         /\ pc[u] \in {"barrier1", "barrier2"}
         /\ pc'[u] = IF pc[u] = "barrier1" THEN "init" ELSE "roi"
  BY DEF PcTypeOK, StartInv
<1>a. \A r \in Receivers : pc'[r] = pc[r]
  BY Zenon DEF PcTypeOK
<1>b. DOMAIN pc' = Threads \cup Receivers /\ pc' = [u \in DOMAIN pc' |-> pc'[u]]
  BY Zenon DEF PcTypeOK
<1>1. TypeOK'
  <2>1. \A u \in Threads : pc'[u] \in SenderPC
    BY <1>0, Zenon DEF PcTypeOK, SenderPC
  <2>2. \A r \in Receivers : pc'[r] \in ReceiverPC
    BY <1>a, Zenon DEF PcTypeOK
  <2>3. pc' \in [Threads \cup Receivers -> SenderPC \cup ReceiverPC]
    BY <2>1, <2>2, <1>b, Zenon
  <2>4. PcTypeOK'
    BY <2>1, <2>2, <2>3, ZenonT(40) DEF PcTypeOK
  <2>5. ClientTypeOK'
    BY Zenon DEF ClientTypeOK
  <2>6. NetTypeOK'
    BY Zenon DEF NetTypeOK
  <2> QED BY <2>4, <2>5, <2>6, ZenonT(40) DEF TypeOK
<1>2. SendLockInv'
  BY <1>0, Zenon DEF PcTypeOK, SendLockInv
<1>3. StartInv'
  <2>1. CASE barrier \cup {t} = Threads
    BY <2>1, <1>0 DEF PcTypeOK, StartInv
  <2>2. CASE barrier \cup {t} # Threads
    BY <2>2, Zenon DEF PcTypeOK, StartInv
  <2> QED BY <2>1, <2>2, ZenonT(40)
<1>4. PlaceInv' /\ CountInv'
  <2>1. \A u \in Threads : pc'[u] \in TouchesReq \cup {"sent"} => pc'[u] = pc[u]
    BY <1>0, Zenon DEF TouchesReq
  <2>2. FiniReceivers' = FiniReceivers
    BY <1>a, Zenon DEF FiniReceivers
  <2>3. SentPending' = SentPending
    BY <1>0, Zenon DEF SentPending
  <2>4. RequestsStay
    BY <2>1, <2>2, <2>3, ZenonT(40) DEF RequestsStay
  <2> QED BY <2>4, PlacesKept, Zenon
<1>6. PhaseInv' /\ AssertionsHold'
  BY Zenon DEF PhaseInv, StartInv, AssertionsHold
<1> QED BY <1>1, <1>2, <1>3, <1>4, <1>6, ZenonT(40) DEF IndInv

\* Preserved by the start-up section of startReq.
LEMMA StepInitDist ==
  ASSUME IndInv, NEW t \in Threads, InitDist(t), UNCHANGED <<lockVars, netVars>>
  PROVE  IndInv'
<1> /\ PcTypeOK /\ ClientTypeOK /\ NetTypeOK /\ SendLockInv /\ StartInv
    /\ PlaceInv /\ CountInv /\ PhaseInv /\ AssertionsHold
  BY Zenon DEF IndInv, TypeOK
<1> USE DEF InitDist, Goto, initVars, reqVars, countVars, statVars,
            qpsVars, lockVars, netVars, clientVars
<1>1. TypeOK'
  <2>1. PcTypeOK'
    BY Zenon DEF PcTypeOK, SenderPC, ReceiverPC
  <2>2. ClientTypeOK'
    BY Zenon DEF ClientTypeOK
  <2>3. NetTypeOK'
    BY Zenon DEF NetTypeOK
  <2> QED BY <2>1, <2>2, <2>3, Zenon DEF TypeOK
<1>2. SendLockInv'
  BY Zenon DEF PcTypeOK, SendLockInv
<1>3. StartInv'
  <2>1. dist' = (IF QpsVar = 0 THEN Qps ELSE qpsIni') /\ dist' # 0 /\ status' # "INIT"
    BY Zenon DEF ClientTypeOK, StartInv
  <2>2. \A u \in barrier' : pc'[u] \in {"barrier1", "barrier2"}
    BY Zenon DEF PcTypeOK, ClientTypeOK, StartInv
  <2> QED BY <2>1, <2>2, Zenon DEF StartInv
<1>4. PlaceInv' /\ CountInv'
  <2>1. RequestsStay
    BY Zenon DEF RequestsStay, PcTypeOK, FiniReceivers, SentPending, TouchesReq
  <2> QED BY <2>1, PlacesKept, Zenon
<1>6. PhaseInv' /\ AssertionsHold'
  BY Zenon DEF PhaseInv, StartInv, AssertionsHold
<1> QED BY <1>1, <1>2, <1>3, <1>4, <1>6, ZenonT(40) DEF IndInv

\* Preserved by the sender's loop head.
LEMMA StepCheckSent ==
  ASSUME IndInv, NEW t \in Threads, CheckSent(t)
  PROVE  IndInv'
<1> /\ PcTypeOK /\ NetTypeOK /\ SendLockInv /\ StartInv /\ AssertionsHold
  BY Zenon DEF IndInv, TypeOK
<1> USE DEF CheckSent, Goto, initVars, reqVars, countVars, statVars,
            qpsVars, lockVars, netVars, clientVars
<1>1. PcTypeOK'
  BY Zenon DEF PcTypeOK, SenderPC, ReceiverPC
<1>2. NetTypeOK'
  BY Zenon DEF NetTypeOK
<1>3. SendLockInv'
  BY ZenonT(40) DEF PcTypeOK, SendLockInv
<1>4. StartInv'
  <2>1. status = "INIT" => ~(numReqsSent >= TotalReqs)
    BY SMTT(30) DEF StartInv, TotalReqs
  <2> QED BY <2>1, SMTT(30) DEF PcTypeOK, StartInv
<1>5. RequestsStay
  BY Zenon DEF RequestsStay, PcTypeOK, FiniReceivers, SentPending, TouchesReq
<1>6. proc' # "aborted" /\ UNCHANGED <<initVars, reqVars, countVars, statVars, qpsVars>>
  BY Zenon DEF AssertionsHold
<1> QED BY <1>1, <1>2, <1>3, <1>4, <1>5, <1>6, QuietStep, ZenonT(40)

\* Preserved by the entry of startReq.
LEMMA StepStartReq ==
  ASSUME IndInv, NEW t \in Threads, StartReq(t), UNCHANGED <<lockVars, netVars>>
  PROVE  IndInv'
<1> /\ PcTypeOK /\ NetTypeOK /\ SendLockInv /\ StartInv /\ AssertionsHold
  BY Zenon DEF IndInv, TypeOK
<1> USE DEF StartReq, Goto, initVars, reqVars, countVars, statVars,
            qpsVars, lockVars, netVars, clientVars
<1>1. PcTypeOK'
  BY Zenon DEF PcTypeOK, SenderPC, ReceiverPC
<1>2. NetTypeOK'
  BY Zenon DEF NetTypeOK
<1>3. SendLockInv'
  BY ZenonT(40) DEF PcTypeOK, SendLockInv
<1>4. StartInv'
  BY DEF PcTypeOK, StartInv
<1>5. RequestsStay
  BY Zenon DEF RequestsStay, PcTypeOK, FiniReceivers, SentPending, TouchesReq
<1>6. proc' # "aborted" /\ UNCHANGED <<initVars, reqVars, countVars, statVars, qpsVars>>
  BY Zenon DEF AssertionsHold
<1> QED BY <1>1, <1>2, <1>3, <1>4, <1>5, <1>6, QuietStep, ZenonT(40)

\* Preserved by startReq's test for a varying rate.
LEMMA StepCheckRoi ==
  ASSUME IndInv, NEW t \in Threads, CheckRoi(t), UNCHANGED <<lockVars, netVars>>
  PROVE  IndInv'
<1> /\ PcTypeOK /\ NetTypeOK /\ SendLockInv /\ StartInv /\ AssertionsHold
  BY Zenon DEF IndInv, TypeOK
<1> USE DEF CheckRoi, Goto, initVars, reqVars, countVars, statVars,
            qpsVars, lockVars, netVars, clientVars
<1>1. PcTypeOK'
  BY Zenon DEF PcTypeOK, SenderPC, ReceiverPC
<1>2. NetTypeOK'
  BY Zenon DEF NetTypeOK
<1>3. SendLockInv'
  BY ZenonT(40) DEF PcTypeOK, SendLockInv
<1>4. StartInv'
  BY DEF PcTypeOK, StartInv
<1>5. RequestsStay
  BY Zenon DEF RequestsStay, PcTypeOK, FiniReceivers, SentPending, TouchesReq
<1>6. proc' # "aborted" /\ UNCHANGED <<initVars, reqVars, countVars, statVars, qpsVars>>
  BY Zenon DEF AssertionsHold
<1> QED BY <1>1, <1>2, <1>3, <1>4, <1>5, <1>6, QuietStep, ZenonT(40)

-----------------------------------------------------------------------------
(* Client::finiReq. *)

\* What finiReq may rely on when it starts: its response matches a request in
\* flight, the client is past its start, and the budget is not used up.
LEMMA FiniFacts ==
  ASSUME IndInv, NEW r \in Receivers, pc[r] = "fini"
  PROVE  /\ resp[r] \in inFlightReqs
         /\ status # "INIT"
         /\ numReqsCompleted + 1 <= TotalReqs
<1>1. r \in FiniReceivers
  BY Zenon DEF FiniReceivers
<1>2. resp[r] \in inFlightReqs
  BY <1>1, Zenon DEF IndInv, PlaceInv
<1>3. status # "INIT"
  <2>1. resp[r] < startedReqs
    BY <1>2, ZenonT(40) DEF IndInv, PlaceInv
  <2>2. inFlightReqs \subseteq Nat
    BY Zenon DEF IndInv, TypeOK, ClientTypeOK
  <2>3. resp[r] \in Nat
    BY <1>2, <2>2, Zenon
  <2> QED BY <2>1, <2>3, SMTT(30) DEF IndInv, StartInv
<1>4. numReqsCompleted + 1 <= TotalReqs
  <2>1. Cardinality(FiniReceivers) # 0
    BY <1>1, FiniFinite, FS_EmptySet, Zenon
  <2>2. CountInv
    BY Zenon DEF IndInv
  <2>3. Cardinality(atServer) + Cardinality(replies) + Cardinality(FiniReceivers) + numReqsCompleted <= TotalReqs
    BY <2>2, FiniFinite, CountsAreNat, SMTT(30)
       DEF CountInv, Due
  <2> DEFINE a == Cardinality(atServer)
             b == Cardinality(replies)
             f == Cardinality(FiniReceivers)
  <2>4. a \in Nat /\ b \in Nat /\ f \in Nat
    BY FiniFinite, CountsAreNat, Zenon
  <2>5. numReqsCompleted \in Nat /\ TotalReqs \in Nat
    BY CountsAreNat, Zenon
  <2>6. a + b + f + numReqsCompleted <= TotalReqs /\ f # 0
    BY <2>1, <2>3, Zenon
  <2> HIDE DEF a, b, f
  <2> QED BY <2>4, <2>5, <2>6
<1> QED BY <1>2, <1>3, <1>4, Zenon

\* What every outcome of finiReq does: the request leaves inFlightReqs and the
\* receiver's hands, and is counted.
LEMMA RetireKeeps ==
  ASSUME IndInv, NEW r \in Receivers, NEW to \in {"recv", "exit_group"},
         Goto(r, "fini", to), Retire(resp[r]), UNCHANGED <<lockVars, netVars>>
  PROVE  /\ pc' \in [Threads \cup Receivers -> SenderPC \cup ReceiverPC]
         /\ \A t \in Threads : pc'[t] \in SenderPC
         /\ \A q \in Receivers : pc'[q] \in ReceiverPC
         /\ inFlightReqs' \subseteq Nat
         /\ SendLockInv' /\ PlaceInv' /\ CountInv'
<1> /\ PcTypeOK /\ ClientTypeOK /\ SendLockInv /\ PlaceInv /\ CountInv
  BY Zenon DEF IndInv, TypeOK
<1> USE DEF Goto, Retire, completedNow, lockVars, netVars
<1>1. r \in FiniReceivers /\ FiniReceivers' = FiniReceivers \ {r}
  BY Zenon DEF PcTypeOK, FiniReceivers
<1>2. /\ pc' \in [Threads \cup Receivers -> SenderPC \cup ReceiverPC]
     /\ \A t \in Threads : pc'[t] = pc[t] /\ pc'[t] \in SenderPC
     /\ \A q \in Receivers : pc'[q] \in ReceiverPC
  BY Zenon DEF PcTypeOK, ReceiverPC
<1>3. inFlightReqs' \subseteq Nat
  BY Zenon DEF ClientTypeOK
<1>4. SendLockInv'
  BY <1>2, ZenonT(40) DEF SendLockInv
<1>5. PlaceInv'
  BY <1>1, <1>2, SMTT(30) DEF PlaceInv
<1>6. CountInv'
  <2>1. SentPending' = SentPending
    BY <1>2, Zenon DEF SentPending
  <2>2. /\ Cardinality(FiniReceivers') = Cardinality(FiniReceivers) - 1
        /\ Cardinality(FiniReceivers') \in Nat
    BY <1>1, FiniFinite, OneLess, FS_CardinalityType, Zenon
  <2>3. /\ CountInv
        /\ UNCHANGED <<atServer, replies, numReqsSent>>
        /\ numReqsCompleted' = numReqsCompleted + 1
    BY Zenon
  <2> HIDE DEF Retire
  <2> QED BY <2>1, <2>2, <2>3, FiniFinite, CountsAreNat, SMTT(30)
       DEF CountInv, Due
<1> QED BY <1>2, <1>3, <1>4, <1>5, <1>6, Zenon

\* Preserved by finiReq ending the warmup.
LEMMA StepFiniStartsRoi ==
  ASSUME IndInv, NEW r \in Receivers, FiniStartsRoi(r, resp[r], "recv"), UNCHANGED <<lockVars, netVars>>
  PROVE  IndInv'
<1> /\ PcTypeOK /\ ClientTypeOK /\ NetTypeOK /\ StartInv /\ PhaseInv /\ AssertionsHold
  BY Zenon DEF IndInv, TypeOK
<1>1. /\ resp[r] \in inFlightReqs
     /\ status # "INIT"
     /\ numReqsCompleted + 1 <= TotalReqs
  BY FiniFacts, Zenon DEF FiniStartsRoi, _startRoi, Goto
<1>2. Goto(r, "fini", "recv") /\ Retire(resp[r])
  BY Zenon DEF FiniStartsRoi, _startRoi
<1>3. /\ pc' \in [Threads \cup Receivers -> SenderPC \cup ReceiverPC]
     /\ \A t \in Threads : pc'[t] \in SenderPC
     /\ \A q \in Receivers : pc'[q] \in ReceiverPC
     /\ inFlightReqs' \subseteq Nat
     /\ SendLockInv' /\ PlaceInv' /\ CountInv'
  BY <1>2, RetireKeeps, Zenon
<1>4. /\ {numReqsCompleted, sjrnTimes} \subseteq Nat
     /\ status \in {"INIT", "WARMUP", "ROI"}
     /\ latsFile \in Nat \cup {NoFile}
  BY Zenon DEF ClientTypeOK
<1>5. status = "WARMUP" /\ numReqsCompleted + 1 = WarmupReqs /\ latsFile = NoFile
  BY <1>1, <1>4, SMTT(30) DEF FiniStartsRoi, StartsRoi, completedNow, PhaseInv
<1>6. proc' = proc
  BY <1>1, <1>5, Zenon DEF FiniStartsRoi, _startRoi, AssertElseAbort
<1>7. TypeOK'
  <2>1. PcTypeOK'
    BY <1>3, <1>6, Zenon DEF PcTypeOK
  <2>2. ClientTypeOK'
    <3>1. /\ {numReqsCompleted', sjrnTimes'} \subseteq Nat
          /\ latsFile' \in Nat \cup {NoFile}
          /\ status' \in {"WARMUP", "ROI"}
      BY <1>1, <1>2, <1>4, <1>5, SMTT(30) DEF Retire, completedNow, FiniStartsRoi, _startRoi
    <3>2. /\ gen_requests' \in Int
          /\ {sent_requests', qpsCounter'} \subseteq Nat
      BY <1>4 DEF ClientTypeOK, completedNow, FiniStartsRoi, _startRoi, qpsVars
    <3>3. UNCHANGED <<dist, barrier, req, startedReqs, numReqsSent, qpsIni, qpsInterval, idxListQPS>>
      BY <1>2, Zenon DEF Retire, FiniStartsRoi, _startRoi, qpsVars
    <3> QED BY <1>3, <3>1, <3>2, <3>3, ZenonT(40) DEF ClientTypeOK
  <2>3. NetTypeOK'
    BY Zenon DEF NetTypeOK, lockVars, netVars
  <2> QED BY <2>1, <2>2, <2>3, Zenon DEF TypeOK
<1>8. StartInv'
  <2>1. \A t \in Threads : pc'[t] = pc[t]
    BY <1>2, Zenon DEF Goto, PcTypeOK
  <2>2. status' # "INIT" /\ UNCHANGED <<dist, qpsIni, barrier>>
    BY <1>1, <1>2, ZenonT(40) DEF FiniStartsRoi, _startRoi, Retire, qpsVars
  <2> QED BY <1>1, <2>1, <2>2, ZenonT(40) DEF StartInv, ClientTypeOK
<1>9. PhaseInv'
  BY <1>1, <1>4, <1>5, SMTT(30) DEF PhaseInv, TotalReqs, NoFile, FiniStartsRoi, _startRoi, Retire, completedNow
<1> QED BY <1>3, <1>6, <1>7, <1>8, <1>9, ZenonT(40) DEF IndInv, AssertionsHold

\* Preserved by finiReq counting a response.
LEMMA StepFiniCounts ==
  ASSUME IndInv, NEW r \in Receivers, FiniCounts(r, resp[r], "recv"), UNCHANGED <<lockVars, netVars>>
  PROVE  IndInv'
<1> /\ PcTypeOK /\ ClientTypeOK /\ NetTypeOK /\ StartInv /\ PhaseInv /\ AssertionsHold
  BY Zenon DEF IndInv, TypeOK
<1>1. /\ resp[r] \in inFlightReqs
     /\ status # "INIT"
     /\ numReqsCompleted + 1 <= TotalReqs
  BY FiniFacts, Zenon DEF FiniCounts, Goto
<1>2. Goto(r, "fini", "recv") /\ Retire(resp[r])
  BY ZenonT(40) DEF FiniCounts
<1>3. /\ pc' \in [Threads \cup Receivers -> SenderPC \cup ReceiverPC]
     /\ \A t \in Threads : pc'[t] \in SenderPC
     /\ \A q \in Receivers : pc'[q] \in ReceiverPC
     /\ inFlightReqs' \subseteq Nat
     /\ SendLockInv' /\ PlaceInv' /\ CountInv'
  BY <1>2, RetireKeeps, Zenon
<1>4. /\ {numReqsCompleted, sjrnTimes} \subseteq Nat
     /\ status \in {"INIT", "WARMUP", "ROI"}
     /\ latsFile \in Nat \cup {NoFile}
  BY Zenon DEF ClientTypeOK
<1>5. /\ numReqsCompleted + 1 # WarmupReqs
     /\ numReqsCompleted + 1 < TotalReqs
     /\ sjrnTimes' = (IF status = "ROI" THEN sjrnTimes + 1 ELSE sjrnTimes)
     /\ sjrnTimes' \in Nat
  BY <1>4, SMTT(30) DEF FiniCounts, StartsRoi, IsLast, completedNow, recordedNow, TotalReqs
<1>6. proc' = proc
  BY <1>1, <1>5, Zenon DEF FiniCounts, AssertElseAbort
<1>7. TypeOK'
  <2>1. PcTypeOK'
    BY <1>3, <1>6, Zenon DEF PcTypeOK
  <2>2. ClientTypeOK'
    <3>1. /\ {numReqsCompleted', sjrnTimes'} \subseteq Nat
          /\ latsFile' \in Nat \cup {NoFile}
          /\ status' \in {"WARMUP", "ROI"}
      BY <1>1, <1>2, <1>4, <1>5, SMTT(30) DEF Retire, completedNow, FiniCounts
    <3>2. /\ gen_requests' \in Int
          /\ {sent_requests', qpsCounter'} \subseteq Nat
      BY <1>4, Zenon DEF ClientTypeOK, completedNow, FiniCounts, qpsVars
    <3>3. UNCHANGED <<dist, barrier, req, startedReqs, numReqsSent, qpsIni, qpsInterval, idxListQPS>>
      BY <1>2, ZenonT(40) DEF Retire, FiniCounts, qpsVars
    <3> QED BY <1>3, <3>1, <3>2, <3>3, Zenon DEF ClientTypeOK
  <2>3. NetTypeOK'
    BY Zenon DEF NetTypeOK, lockVars, netVars
  <2> QED BY <2>1, <2>2, <2>3, Zenon DEF TypeOK
<1>8. StartInv'
  <2>1. \A t \in Threads : pc'[t] = pc[t]
    BY <1>2, Zenon DEF Goto, PcTypeOK
  <2>2. status' # "INIT" /\ UNCHANGED <<dist, qpsIni, barrier>>
    BY <1>1, <1>2, Zenon DEF FiniCounts, Retire, qpsVars
  <2> QED BY <1>1, <2>1, <2>2, Zenon DEF StartInv, ClientTypeOK
<1>9. PhaseInv'
  BY <1>1, <1>4, <1>5, SMTT(30) DEF PhaseInv, TotalReqs, NoFile, FiniCounts, Retire, completedNow
<1> QED BY <1>3, <1>6, <1>7, <1>8, <1>9, Zenon DEF IndInv, AssertionsHold

\* Preserved by finiReq on the last response.
LEMMA StepFiniDumps ==
  ASSUME IndInv, NEW r \in Receivers, FiniDumps(r, resp[r]), UNCHANGED <<lockVars, netVars>>
  PROVE  IndInv'
<1> /\ PcTypeOK /\ ClientTypeOK /\ NetTypeOK /\ StartInv /\ PhaseInv /\ AssertionsHold
  BY Zenon DEF IndInv, TypeOK
<1>1. /\ resp[r] \in inFlightReqs
     /\ status # "INIT"
     /\ numReqsCompleted + 1 <= TotalReqs
  BY FiniFacts, Zenon DEF FiniDumps, dumpStats, Goto
<1>2. Goto(r, "fini", "exit_group") /\ Retire(resp[r])
  BY Zenon DEF FiniDumps, dumpStats
<1>3. /\ pc' \in [Threads \cup Receivers -> SenderPC \cup ReceiverPC]
     /\ \A t \in Threads : pc'[t] \in SenderPC
     /\ \A q \in Receivers : pc'[q] \in ReceiverPC
     /\ inFlightReqs' \subseteq Nat
     /\ SendLockInv' /\ PlaceInv' /\ CountInv'
  BY <1>2, RetireKeeps, Zenon
<1>4. /\ {numReqsCompleted, sjrnTimes} \subseteq Nat
     /\ status \in {"INIT", "WARMUP", "ROI"}
     /\ latsFile \in Nat \cup {NoFile}
  BY Zenon DEF ClientTypeOK
<1>5. /\ numReqsCompleted + 1 = TotalReqs
     /\ status = "ROI"
     /\ recordedNow = sjrnTimes + 1
     /\ recordedNow \in Nat
  <2>1. numReqsCompleted + 1 = TotalReqs
    BY <1>1, <1>4, SMTT(30) DEF FiniDumps, IsLast, completedNow, TotalReqs
  <2>2. status = "ROI"
    BY <2>1, <1>4, SMTT(30) DEF TotalReqs, PhaseInv
  <2> QED BY <2>1, <2>2, <1>4, SMTT(30) DEF recordedNow
<1>6. proc' = proc
  BY <1>1, <1>5, Zenon DEF FiniDumps, dumpStats, AssertElseAbort
<1>7. TypeOK'
  <2>1. PcTypeOK'
    BY <1>3, <1>6, Zenon DEF PcTypeOK
  <2>2. ClientTypeOK'
    <3>1. /\ {numReqsCompleted', sjrnTimes'} \subseteq Nat
          /\ latsFile' \in Nat \cup {NoFile}
          /\ status' \in {"WARMUP", "ROI"}
      BY <1>1, <1>2, <1>4, <1>5, SMTT(30) DEF Retire, completedNow, FiniDumps, dumpStats
    <3>2. /\ gen_requests' \in Int
          /\ {sent_requests', qpsCounter'} \subseteq Nat
      BY <1>4, SMTT(30) DEF ClientTypeOK, completedNow, FiniDumps, dumpStats, qpsVars
    <3>3. UNCHANGED <<dist, barrier, req, startedReqs, numReqsSent, qpsIni, qpsInterval, idxListQPS>>
      BY <1>2, Zenon DEF Retire, FiniDumps, dumpStats, qpsVars
    <3> QED BY <1>3, <3>1, <3>2, <3>3, ZenonT(40) DEF ClientTypeOK
  <2>3. NetTypeOK'
    BY Zenon DEF NetTypeOK, lockVars, netVars
  <2> QED BY <2>1, <2>2, <2>3, Zenon DEF TypeOK
<1>8. StartInv'
  <2>1. \A t \in Threads : pc'[t] = pc[t]
    BY <1>2, Zenon DEF Goto, PcTypeOK
  <2>2. status' # "INIT" /\ UNCHANGED <<dist, qpsIni, barrier>>
    BY <1>1, <1>2, Zenon DEF FiniDumps, dumpStats, Retire, qpsVars
  <2> QED BY <1>1, <2>1, <2>2, Zenon DEF StartInv, ClientTypeOK
<1>9. PhaseInv'
  <2>1. /\ numReqsCompleted' = numReqsCompleted + 1
        /\ sjrnTimes' = sjrnTimes + 1
        /\ latsFile' = sjrnTimes + 1
        /\ status' = "ROI"
    BY <1>1, <1>4, <1>5, SMTT(30) DEF FiniDumps, dumpStats, Retire, completedNow
  <2>2. numReqsCompleted >= WarmupReqs /\ sjrnTimes = numReqsCompleted - WarmupReqs
    BY <1>5, Zenon DEF PhaseInv
  <2>3. /\ numReqsCompleted' = TotalReqs /\ numReqsCompleted' >= WarmupReqs
        /\ sjrnTimes' = numReqsCompleted' - WarmupReqs
    BY <1>4, <1>5, <2>1, <2>2, SMTT(30)
  <2>4. latsFile' = MaxReqs
    <3>1. numReqsCompleted \in Nat /\ sjrnTimes \in Nat
      BY <1>4, Zenon
    <3>2. numReqsCompleted + 1 = WarmupReqs + MaxReqs
      BY <1>5, Zenon DEF TotalReqs
    <3>3. sjrnTimes + 1 = MaxReqs
      BY <3>1, <3>2, <2>2
    <3> QED BY <3>3, <2>1, Zenon
  <2>5. MaxReqs # NoFile
    BY DEF NoFile
  <2> QED BY <2>1, <2>3, <2>4, <2>5, ZenonT(40) DEF PhaseInv
<1> QED BY <1>3, <1>6, <1>7, <1>8, <1>9, ZenonT(60) DEF IndInv, AssertionsHold

-----------------------------------------------------------------------------
(* NetworkedClient::recv. *)

\* Preserved by a response.
LEMMA StepReadResponse ==
  ASSUME IndInv, NEW r \in Receivers, ReadResponse(r)
  PROVE  IndInv'
<1> /\ PcTypeOK /\ ClientTypeOK /\ NetTypeOK /\ SendLockInv /\ StartInv
    /\ PlaceInv /\ CountInv /\ PhaseInv /\ AssertionsHold
  BY Zenon DEF IndInv, TypeOK
<1> USE DEF ReadResponse, Goto, initVars, reqVars, countVars, statVars,
            qpsVars, lockVars, netVars, clientVars
<1>0. PICK id \in replies : /\ resp' = [resp EXCEPT ![r] = id]
                            /\ replies' = replies \ {id}
  BY Zenon
<1>a. r \notin FiniReceivers /\ FiniReceivers' = FiniReceivers \cup {r}
  BY ZenonT(40) DEF PcTypeOK, FiniReceivers
<1>1. TypeOK'
  <2>1. PcTypeOK'
    BY Zenon DEF PcTypeOK, SenderPC, ReceiverPC
  <2>2. ClientTypeOK'
    BY Zenon DEF ClientTypeOK
  <2>3. NetTypeOK'
    BY <1>0, Zenon DEF NetTypeOK
  <2> QED BY <2>1, <2>2, <2>3, Zenon DEF TypeOK
<1>2. SendLockInv'
  BY ZenonT(40) DEF PcTypeOK, SendLockInv
<1>b. /\ \A t \in Threads : pc'[t] = pc[t]
      /\ UNCHANGED <<initVars, reqVars, countVars, statVars, qpsVars, atServer>>
  BY Zenon DEF PcTypeOK
<1> HIDE DEF ReadResponse, Goto
<1>3. StartInv'
  BY <1>b, Zenon DEF StartInv, ClientTypeOK
<1>4. PlaceInv'
  <2>1. \A t \in Threads : pc'[t] \in TouchesReq => pc[t] \in TouchesReq /\ req[t] # id
    BY <1>0, <1>b, Zenon DEF PlaceInv
  <2>2. \A q \in FiniReceivers : resp'[q] = resp[q] /\ resp[q] # id
    BY <1>0, <1>a, Zenon DEF NetTypeOK, PlaceInv, FiniReceivers
  <2>3. resp'[r] = id /\ id \in inFlightReqs /\ id \notin atServer /\ id \notin replies'
    BY <1>0, Zenon DEF NetTypeOK, PlaceInv
  <2> QED BY <1>0, <1>a, <1>b, <2>1, <2>2, <2>3, SMTT(30) DEF PlaceInv
<1>5. CountInv'
  <2>1. SentPending' = SentPending
    BY <1>b, Zenon DEF SentPending
  <2>2. IsFiniteSet(replies') /\ Cardinality(replies') = Cardinality(replies) - 1
    BY <1>0, OneLess, Zenon DEF CountInv
  <2>3. Cardinality(FiniReceivers') = Cardinality(FiniReceivers) + 1
    BY <1>a, FiniFinite, OneMore, ZenonT(40)
  <2>4. {Cardinality(atServer), Cardinality(replies)} \subseteq Nat
    BY CountsAreNat, Zenon
  <2> QED BY <1>b, <2>1, <2>2, <2>3, <2>4, FiniFinite, SMTT(30) DEF CountInv, Due, ClientTypeOK
<1>6. PhaseInv' /\ AssertionsHold'
  <2>1. UNCHANGED proc
    BY Zenon DEF ReadResponse
  <2> QED BY <1>b, <2>1, Zenon DEF PhaseInv, StartInv, AssertionsHold
<1> QED BY <1>1, <1>2, <1>3, <1>4, <1>5, <1>6, ZenonT(40) DEF IndInv

\* Preserved by the entry of recv.
LEMMA StepLockRecv ==
  ASSUME IndInv, NEW r \in Receivers, LockRecv(r)
  PROVE  IndInv'
<1> /\ PcTypeOK /\ NetTypeOK /\ SendLockInv /\ StartInv /\ AssertionsHold
  BY Zenon DEF IndInv, TypeOK
<1> USE DEF LockRecv, Goto, initVars, reqVars, countVars, statVars,
            qpsVars, lockVars, netVars, clientVars
<1>1. PcTypeOK'
  BY Zenon DEF PcTypeOK, SenderPC, ReceiverPC
<1>2. NetTypeOK'
  BY Zenon DEF NetTypeOK
<1>3. SendLockInv'
  BY Zenon DEF PcTypeOK, SendLockInv
<1>4. StartInv'
  BY DEF PcTypeOK, StartInv
<1>5. RequestsStay
  BY Zenon DEF RequestsStay, PcTypeOK, FiniReceivers, SentPending, TouchesReq
<1>6. proc' # "aborted" /\ UNCHANGED <<initVars, reqVars, countVars, statVars, qpsVars>>
  BY Zenon DEF AssertionsHold
<1> QED BY <1>1, <1>2, <1>3, <1>4, <1>5, <1>6, QuietStep, ZenonT(40)

\* Preserved by a FINISH message.
LEMMA StepReadFinish ==
  ASSUME IndInv, NEW r \in Receivers, ReadFinish(r)
  PROVE  IndInv'
<1> /\ PcTypeOK /\ NetTypeOK /\ SendLockInv /\ StartInv /\ AssertionsHold
  BY Zenon DEF IndInv, TypeOK
<1> USE DEF ReadFinish, Goto, initVars, reqVars, countVars, statVars,
            qpsVars, lockVars, netVars, clientVars
<1>1. PcTypeOK'
  BY Zenon DEF PcTypeOK, SenderPC, ReceiverPC
<1>2. NetTypeOK'
  BY Zenon DEF NetTypeOK
<1>3. SendLockInv'
  BY Zenon DEF PcTypeOK, SendLockInv
<1>4. StartInv'
  BY DEF PcTypeOK, StartInv
<1>5. RequestsStay
  BY Zenon DEF RequestsStay, PcTypeOK, FiniReceivers, SentPending, TouchesReq
<1>6. proc' # "aborted" /\ UNCHANGED <<initVars, reqVars, countVars, statVars, qpsVars>>
  BY Zenon DEF AssertionsHold
<1> QED BY <1>1, <1>2, <1>3, <1>4, <1>5, <1>6, QuietStep, ZenonT(40)

\* Preserved by end of stream.
LEMMA StepRecvFails ==
  ASSUME IndInv, NEW r \in Receivers, RecvFails(r)
  PROVE  IndInv'
<1> /\ PcTypeOK /\ NetTypeOK /\ SendLockInv /\ StartInv /\ AssertionsHold
  BY Zenon DEF IndInv, TypeOK
<1> USE DEF RecvFails, Goto, initVars, reqVars, countVars, statVars,
            qpsVars, lockVars, netVars, clientVars
<1>1. PcTypeOK'
  BY Zenon DEF PcTypeOK, SenderPC, ReceiverPC
<1>2. NetTypeOK'
  BY Zenon DEF NetTypeOK
<1>3. SendLockInv'
  BY ZenonT(40) DEF PcTypeOK, SendLockInv
<1>4. StartInv'
  BY DEF PcTypeOK, StartInv
<1>5. RequestsStay
  BY Zenon DEF RequestsStay, PcTypeOK, FiniReceivers, SentPending, TouchesReq
<1>6. proc' # "aborted" /\ UNCHANGED <<initVars, reqVars, countVars, statVars, qpsVars>>
  BY Zenon DEF AssertionsHold
<1> QED BY <1>1, <1>2, <1>3, <1>4, <1>5, <1>6, QuietStep, ZenonT(40)

-----------------------------------------------------------------------------
(* main and the server. *)

\* Preserved by the server's response.
LEMMA StepRespond ==
  ASSUME IndInv, NEW id \in atServer, Respond(id)
  PROVE  IndInv'
<1> /\ PcTypeOK /\ ClientTypeOK /\ NetTypeOK /\ SendLockInv /\ StartInv
    /\ PlaceInv /\ CountInv /\ PhaseInv /\ AssertionsHold
  BY Zenon DEF IndInv, TypeOK
<1> USE DEF Respond, Goto, initVars, reqVars, countVars, statVars,
            qpsVars, lockVars, netVars, clientVars
<1>1. TypeOK'
  <2>1. PcTypeOK'
    BY Zenon DEF PcTypeOK, SenderPC, ReceiverPC
  <2>2. ClientTypeOK'
    BY Zenon DEF ClientTypeOK
  <2>3. NetTypeOK'
    BY Zenon DEF NetTypeOK
  <2> QED BY <2>1, <2>2, <2>3, ZenonT(40) DEF TypeOK
<1>2. SendLockInv'
  BY Zenon DEF PcTypeOK, SendLockInv
<1>3. StartInv'
  BY Zenon DEF PcTypeOK, StartInv
<1>4. PlaceInv'
  <2>1. FiniReceivers' = FiniReceivers
    BY Zenon DEF PcTypeOK, FiniReceivers
  <2>2. atServer' \cup replies' = atServer \cup replies /\ atServer' \cap replies' = {}
    BY ZenonT(40) DEF PlaceInv
  <2> QED BY <2>1, <2>2, ZenonT(40) DEF PlaceInv
<1>5. CountInv'
  <2>1. FiniReceivers' = FiniReceivers /\ SentPending' = SentPending
    BY Zenon DEF PcTypeOK, FiniReceivers, SentPending
  <2>2. IsFiniteSet(atServer') /\ Cardinality(atServer') = Cardinality(atServer) - 1
    BY OneLess, Zenon DEF CountInv
  <2>3. IsFiniteSet(replies') /\ Cardinality(replies') = Cardinality(replies) + 1
    BY OneMore, Zenon DEF CountInv, PlaceInv
  <2>4. {Cardinality(atServer), Cardinality(replies)} \subseteq Nat
    BY CountsAreNat, Zenon
  <2> QED BY <2>1, <2>2, <2>3, <2>4, FiniFinite, SMTT(30) DEF CountInv, Due, ClientTypeOK
<1>6. PhaseInv' /\ AssertionsHold'
  BY Zenon DEF PhaseInv, StartInv, AssertionsHold
<1> QED BY <1>1, <1>2, <1>3, <1>4, <1>5, <1>6, ZenonT(40) DEF IndInv

\* Preserved by the server's end.
LEMMA StepServerGoes ==
  ASSUME IndInv, ServerGoes
  PROVE  IndInv'
<1> /\ PcTypeOK /\ ClientTypeOK /\ NetTypeOK /\ SendLockInv /\ StartInv
    /\ PlaceInv /\ CountInv /\ PhaseInv /\ AssertionsHold
  BY Zenon DEF IndInv, TypeOK
<1> USE DEF ServerGoes, Goto, initVars, reqVars, countVars, statVars,
            qpsVars, lockVars, netVars, clientVars
<1>1. TypeOK'
  <2>1. PcTypeOK'
    BY Zenon DEF PcTypeOK, SenderPC, ReceiverPC
  <2>2. ClientTypeOK'
    BY Zenon DEF ClientTypeOK
  <2>3. NetTypeOK'
    BY Zenon DEF NetTypeOK
  <2> QED BY <2>1, <2>2, <2>3, Zenon DEF TypeOK
<1>2. SendLockInv'
  BY Zenon DEF PcTypeOK, SendLockInv
<1>3. StartInv'
  BY Zenon DEF PcTypeOK, StartInv
<1>4. PlaceInv'
  <2>1. FiniReceivers' = FiniReceivers
    BY Zenon DEF PcTypeOK, FiniReceivers
  <2>2. replies' \subseteq replies
    BY Zenon
  <2> QED BY <2>1, <2>2, Zenon DEF PlaceInv
<1>5. CountInv'
  <2>1. FiniReceivers' = FiniReceivers /\ SentPending' = SentPending
    BY Zenon DEF PcTypeOK, FiniReceivers, SentPending
  <2>2. /\ IsFiniteSet(replies')
        /\ Cardinality(replies') <= Cardinality(replies)
    BY SubsetCounts, Zenon DEF CountInv
  <2>3. Cardinality(replies') \in Nat
    BY SubsetCounts, Zenon DEF CountInv
  <2>4. CountInv /\ UNCHANGED <<atServer, numReqsSent, numReqsCompleted>>
    BY Zenon
  <2> HIDE DEF ServerGoes
  <2> QED BY <2>1, <2>2, <2>3, <2>4, FiniFinite, CountsAreNat, SMTT(30)
       DEF CountInv, Due
<1>6. PhaseInv' /\ AssertionsHold'
  BY Zenon DEF PhaseInv, StartInv, AssertionsHold
<1> QED BY <1>1, <1>2, <1>3, <1>4, <1>5, <1>6, ZenonT(40) DEF IndInv

\* Preserved by the server's FINISH.
LEMMA StepServerFinish ==
  ASSUME IndInv, ServerFinish
  PROVE  IndInv'
<1> /\ PcTypeOK /\ NetTypeOK /\ SendLockInv /\ StartInv /\ AssertionsHold
  BY Zenon DEF IndInv, TypeOK
<1> USE DEF ServerFinish, Goto, initVars, reqVars, countVars, statVars,
            qpsVars, lockVars, netVars, clientVars
<1>1. PcTypeOK'
  BY Zenon DEF PcTypeOK, SenderPC, ReceiverPC
<1>2. NetTypeOK'
  BY Zenon DEF NetTypeOK
<1>3. SendLockInv'
  BY Zenon DEF PcTypeOK, SendLockInv
<1>4. StartInv'
  BY Zenon DEF PcTypeOK, StartInv
<1>5. RequestsStay
  BY Zenon DEF RequestsStay, PcTypeOK, FiniReceivers, SentPending, TouchesReq
<1>6. proc' # "aborted" /\ UNCHANGED <<initVars, reqVars, countVars, statVars, qpsVars>>
  BY Zenon DEF AssertionsHold
<1> QED BY <1>1, <1>2, <1>3, <1>4, <1>5, <1>6, QuietStep, ZenonT(40)

\* Preserved by syscall(SYS_exit_group).
LEMMA StepExitGroup ==
  ASSUME IndInv, NEW r \in Receivers, ExitGroup(r)
  PROVE  IndInv'
<1> /\ PcTypeOK /\ NetTypeOK /\ SendLockInv /\ StartInv /\ AssertionsHold
  BY Zenon DEF IndInv, TypeOK
<1> USE DEF ExitGroup, Goto, initVars, reqVars, countVars, statVars,
            qpsVars, lockVars, netVars, clientVars
<1>1. PcTypeOK'
  BY Zenon DEF PcTypeOK, SenderPC, ReceiverPC
<1>2. NetTypeOK'
  BY Zenon DEF NetTypeOK
<1>3. SendLockInv'
  BY Zenon DEF PcTypeOK, SendLockInv
<1>4. StartInv'
  BY Zenon DEF PcTypeOK, StartInv
<1>5. RequestsStay
  BY Zenon DEF RequestsStay, PcTypeOK, FiniReceivers, SentPending, TouchesReq
<1>6. proc' # "aborted" /\ UNCHANGED <<initVars, reqVars, countVars, statVars, qpsVars>>
  BY Zenon DEF AssertionsHold
<1> QED BY <1>1, <1>2, <1>3, <1>4, <1>5, <1>6, QuietStep, ZenonT(40)

\* Preserved by main's return after the joins.
LEMMA StepMainReturns ==
  ASSUME IndInv, MainReturns
  PROVE  IndInv'
<1> /\ PcTypeOK /\ NetTypeOK /\ SendLockInv /\ StartInv /\ AssertionsHold
  BY Zenon DEF IndInv, TypeOK
<1> USE DEF MainReturns, Goto, initVars, reqVars, countVars, statVars,
            qpsVars, lockVars, netVars, clientVars
<1>1. PcTypeOK'
  BY Zenon DEF PcTypeOK, SenderPC, ReceiverPC
<1>2. NetTypeOK'
  BY Zenon DEF NetTypeOK
<1>3. SendLockInv'
  BY Zenon DEF PcTypeOK, SendLockInv
<1>4. StartInv'
  BY Zenon DEF PcTypeOK, StartInv
<1>5. RequestsStay
  BY Zenon DEF RequestsStay, PcTypeOK, FiniReceivers, SentPending, TouchesReq
<1>6. proc' # "aborted" /\ UNCHANGED <<initVars, reqVars, countVars, statVars, qpsVars>>
  BY Zenon DEF AssertionsHold
<1> QED BY <1>1, <1>2, <1>3, <1>4, <1>5, <1>6, QuietStep, ZenonT(40)

=============================================================================
