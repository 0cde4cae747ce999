---------------------------- MODULE ServerProofs ----------------------------
(* Proofs about NetworkedServer: answering requests, the steps of the       *)
(* clients, and the theorems.                                              *)
EXTENDS ReadProofs

-----------------------------------------------------------------------------
(* sendResp.                                                               *)

LEMMA SendRespStreams ==
  ASSUME ServerInv, NEW w \in Workers, SendResp(w)
  PROVE  StreamInv' /\ OwnerInv' /\ NoRequestLost'
<1> DEFINE c == peer[activeFds[w]]
<1>1. /\ UNCHANGED <<recvLock, clientFds, fd, got, reqbuf, reqInfo, activeFds, peer, sending, inbox>>
      /\ pc[w] = "serve" /\ pc' = [pc EXCEPT ![w] = "idle"]
  BY Zenon DEF SendResp, Goto, recvVars, reqVars
<1>2. /\ \/ conn[c] = "open" /\ outstanding' = [outstanding EXCEPT ![c] = @ \ {reqInfo[w]}] /\ conn' = conn
         \/ conn[c] = "closed" /\ conn' = [conn EXCEPT ![c] = "reset"] /\ outstanding' = outstanding
         \/ conn[c] = "reset" /\ conn' = conn /\ outstanding' = outstanding
  BY Zenon DEF SendResp, respFd
<1>3. c \in Clients /\ Answering(w, c)
  <2>1. activeFds[w] \in Fds /\ c # NoClient /\ Serving(w)
    BY <1>1, Zenon DEF ServerInv, UseInv, Serving
  <2> QED BY <2>1, Types, Zenon DEF Answering
<1>4. \A d \in Clients : Stream(d)' = Stream(d) /\ InStream(d)' = InStream(d)
  BY <1>1, Zenon DEF Stream, InStream
<1>5. \A v \in Workers, d \in Clients :
        /\ Inside(v, d)' <=> Inside(v, d)
        /\ Answering(v, d)' <=> Answering(v, d) /\ v # w
        /\ Inside(v, d) => LastTaken(v)' = LastTaken(v)
  BY <1>1, Types DEF Inside, Answering, Reading, Serving, LastTaken
<1>6. Answering(w, c) /\ \A d \in Clients : Answering(w, d) => d = c
  BY <1>3, Zenon DEF Answering
<1> HIDE DEF c
<1>7. \A d \in Clients : /\ conn'[d] = "open" <=> conn[d] = "open"
                         /\ conn'[d] = "new" <=> conn[d] = "new"
                         /\ outstanding'[d] = IF d = c /\ conn[c] = "open" THEN outstanding[c] \ {reqInfo[w]} ELSE outstanding[d]
  <2>1. conn \in [Clients -> {"new", "open", "closed", "reset"}] /\ outstanding \in [Clients -> SUBSET Ids]
    BY Types, Zenon
  <2>2. CASE conn[c] = "open" /\ outstanding' = [outstanding EXCEPT ![c] = @ \ {reqInfo[w]}] /\ conn' = conn
    BY <2>1, <2>2, <1>3, Zenon
  <2>3. CASE conn[c] = "closed" /\ conn' = [conn EXCEPT ![c] = "reset"] /\ outstanding' = outstanding
    BY <2>1, <2>3, <1>3, Zenon
  <2>4. CASE conn[c] = "reset" /\ conn' = conn /\ outstanding' = outstanding
    BY <2>4, Zenon
  <2> QED BY <2>2, <2>3, <2>4, <1>2, Zenon
<1>8. StreamInv'
  <2>1. ASSUME NEW d \in Clients
        PROVE  StreamOf(d)'
    <3>1. StreamOf(d)
      BY Zenon DEF ServerInv, StreamInv
    <3>2. inbox'[d] = inbox[d] /\ sending'[d] = sending[d] /\ (conn[d] # "open" => outstanding'[d] = outstanding[d])
      BY <1>1, <1>7, ZenonT(60)
    <3> QED BY <3>1, <3>2, <1>4, <1>5, <1>7, ZenonT(60) DEF StreamOf
  <2> QED BY <2>1, Zenon DEF StreamInv
<1>9. OwnerInv'
  <2>1. ASSUME NEW d \in Clients, conn[d] = "open"
        PROVE  OwnerOf(d)'
    <3>1. OwnerOf(d)
      BY <2>1, Zenon DEF ServerInv, OwnerInv
    <3>2. reqbuf' = reqbuf /\ reqInfo' = reqInfo
      BY <1>1, Zenon
    <3> QED BY <3>1, <3>2, <2>1, <1>4, <1>5, <1>6, <1>7, ZenonT(60) DEF OwnerOf
  <2> QED BY <2>1, <1>7, Zenon DEF OwnerInv
<1>10. NoRequestLost'
  <2>1. ASSUME NEW d \in Clients, NEW id, id \in outstanding'[d]
        PROVE  id \in InStream(d)' \/ Held(d, id)'
    <3>1. id \in outstanding[d] /\ (d = c => id # reqInfo[w])
      <4>1. conn[c] # "open" => outstanding[c] = {}
        BY <1>3, ZenonT(60) DEF ServerInv, StreamInv, StreamOf, c
      <4> QED BY <2>1, <4>1, <1>7, Zenon
    <3>2. id \in InStream(d) \/ Held(d, id)
      BY <3>1, ZenonT(60) DEF ServerInv, NoRequestLost
    <3>3. Held(d, id) => Held(d, id)'
      BY <3>1, <1>1, <1>5, <1>6, ZenonT(60) DEF Held
    <3> QED BY <3>2, <3>3, <1>4, Zenon
  <2> QED BY <2>1, Zenon DEF NoRequestLost
<1> QED BY <1>8, <1>9, <1>10, Zenon

\* A response takes its id from the client that waits for it.
LEMMA SendRespInv ==
  ASSUME ServerInv, NEW w \in Workers, SendResp(w), proc = "running"
  PROVE  ServerInv'
<1> DEFINE c == peer[activeFds[w]]
<1>1. /\ UNCHANGED <<recvLock, recvVars, reqVars, peer, backlog, sending, inbox>>
      /\ pc[w] = "serve" /\ pc' = [pc EXCEPT ![w] = "idle"]
  BY Zenon DEF SendResp, Goto
<1>2. /\ proc' \in {"running", "killed"}
      /\ conn' = conn \/ (conn' = [conn EXCEPT ![c] = "reset"] /\ conn[c] = "closed")
      /\ outstanding' = outstanding \/ outstanding' = [outstanding EXCEPT ![c] = @ \ {reqInfo[w]}]
  <2>1. \/ proc' = proc /\ conn' = conn /\ outstanding' = [outstanding EXCEPT ![c] = @ \ {reqInfo[w]}]
        \/ proc' = proc /\ outstanding' = outstanding /\ conn' = [conn EXCEPT ![c] = "reset"] /\ conn[c] = "closed"
        \/ proc' \in {"running", "killed"} /\ conn' = conn /\ outstanding' = outstanding
    BY Zenon DEF SendResp, respFd
  <2>2. proc' = proc => proc' \in {"running", "killed"}
    BY Zenon
  <2> HIDE DEF c
  <2> QED BY <2>1, <2>2, Zenon
<1>3. c \in Clients
  BY <1>1, Types, Zenon DEF ServerInv, UseInv, Serving
<1> HIDE DEF c
<1>4. TypeOK'
  <2>1. pc' \in [Workers -> {"idle", "select", "select2", "header", "body", "serve", "done"}]
    BY <1>1, Types, Zenon
  <2>2. conn' \in [Clients -> {"new", "open", "closed", "reset"}] /\ outstanding' \in [Clients -> SUBSET Ids]
    BY <1>2, <1>3, Types, SMTT(30)
  <2>3. proc' \in {"running", "exited", "aborted", "killed", "returned"}
    BY <1>2, Zenon
  <2> QED BY <1>1, <2>1, <2>2, <2>3, Zenon DEF ServerInv, TypeOK, recvVars, reqVars
<1>5. \A v \in Workers : /\ Reading(v)' <=> Reading(v)
                         /\ Serving(v)' => Serving(v)
                         /\ pc'[v] \in {"select", "select2", "header", "body"} \/ pc[v] \in {"select", "select2", "header", "body"} => pc'[v] = pc[v]
  BY <1>1, Types, Zenon DEF Reading, Serving
<1>6. RecvLockInv'
  BY <1>1, <1>5, Zenon DEF ServerInv, RecvLockInv
<1>7. \A d \in Clients : (conn'[d] = "new" => conn[d] = "new") /\ (Closed(d) => Closed(d)')
  BY <1>2, <1>3, Types, Zenon DEF Closed
<1>8. FdInv'
  BY <1>1, <1>7, ZenonT(60) DEF ServerInv, FdInv, recvVars
<1>9. UseInv'
  BY <1>1, <1>5, ZenonT(60) DEF ServerInv, UseInv, recvVars, reqVars, InVector
<1>10. GotInv'
  BY <1>1, <1>5, ZenonT(60) DEF ServerInv, GotInv, recvVars, reqVars
<1>11. RemovedOnlyIfExited'
  <2>1. ASSUME NEW f \in Fds, peer'[f] # NoClient, ~Closed(peer[f])'
        PROVE  InVector(f)'
    <3>1. peer[f] \in Clients /\ peer' = peer
      BY <2>1, <1>1, Types, Zenon
    <3>2. ~Closed(peer[f])
      BY <2>1, <3>1, <1>7, Zenon DEF Closed
    <3> QED BY <3>1, <3>2, <2>1, <1>1, ZenonT(60) DEF ServerInv, RemovedOnlyIfExited, InVector, recvVars
  <2> QED BY <2>1, Zenon DEF RemovedOnlyIfExited
<1> QED BY <1>4, <1>6, <1>8, <1>9, <1>10, <1>11, SendRespStreams, Zenon DEF ServerInv

-----------------------------------------------------------------------------
(* The clients.                                                            *)

\* The workers' side of a client's step, and the clients that take no part.
SameHolders ==
  /\ \A w \in Workers, d \in Clients : (Inside(w, d)' <=> Inside(w, d)) /\ (Answering(w, d)' <=> Answering(w, d))
  /\ \A w \in Workers : LastTaken(w)' = LastTaken(w) /\ reqbuf'[w] = reqbuf[w] /\ reqInfo'[w] = reqInfo[w]

OthersSame(c) ==
  \A d \in Clients \ {c} :
    conn'[d] = conn[d] /\ sending'[d] = sending[d] /\ inbox'[d] = inbox[d] /\ outstanding'[d] = outstanding[d]

NotLost(c) == \A id \in outstanding[c] : id \in InStream(c) \/ Held(c, id)

LEMMA ClientFrame ==
  ASSUME ServerInv, UNCHANGED <<pc, recvLock, recvVars, reqVars, peer>>
  PROVE  RecvLockInv' /\ UseInv' /\ GotInv' /\ SameHolders
<1>1. UNCHANGED <<pc, recvLock, clientFds, fd, got, reqbuf, reqInfo, activeFds, peer>>
  BY Zenon DEF recvVars, reqVars
<1>2. RecvLockInv' /\ UseInv' /\ GotInv'
  BY <1>1, Zenon DEF ServerInv, RecvLockInv, UseInv, GotInv, Reading, Serving, InVector
<1>3. SameHolders
  BY <1>1, Zenon DEF SameHolders, Inside, Answering, Reading, Serving, LastTaken
<1> QED BY <1>2, <1>3, Zenon

LEMMA ClientStreams ==
  ASSUME ServerInv, SameHolders, NEW c \in Clients, OthersSame(c),
         StreamOf(c)', conn'[c] = "open" => OwnerOf(c)', NotLost(c)'
  PROVE  StreamInv' /\ OwnerInv' /\ NoRequestLost'
<1>1. ASSUME NEW d \in Clients, d # c
      PROVE  /\ conn'[d] = conn[d] /\ sending'[d] = sending[d] /\ inbox'[d] = inbox[d]
             /\ outstanding'[d] = outstanding[d]
             /\ Stream(d)' = Stream(d) /\ InStream(d)' = InStream(d)
  <2>1. /\ conn'[d] = conn[d] /\ sending'[d] = sending[d] /\ inbox'[d] = inbox[d]
        /\ outstanding'[d] = outstanding[d]
    BY <1>1, Zenon DEF OthersSame
  <2>2. Stream(d)' = Stream(d)
    BY <2>1, Zenon DEF Stream
  <2> QED BY <2>1, <2>2, Zenon DEF InStream
<1>2. StreamInv'
  <2>1. ASSUME NEW d \in Clients, d # c
        PROVE  StreamOf(d)'
    <3>1. StreamOf(d)
      BY Zenon DEF ServerInv, StreamInv
    <3> QED BY <2>1, <3>1, <1>1, ZenonT(60) DEF StreamOf, SameHolders
  <2> QED BY <2>1, Zenon DEF StreamInv
<1>3. OwnerInv'
  <2>1. ASSUME NEW d \in Clients, d # c, conn[d] = "open"
        PROVE  OwnerOf(d)'
    <3>1. OwnerOf(d)
      BY <2>1, ZenonT(60) DEF ServerInv, OwnerInv
    <3> QED BY <2>1, <3>1, <1>1 DEF OwnerOf, SameHolders
  <2> QED BY <2>1, <1>1, Zenon DEF OwnerInv
<1>4. NoRequestLost'
  <2>1. ASSUME NEW d \in Clients, d # c, NEW id, id \in outstanding[d]
        PROVE  id \in InStream(d)' \/ Held(d, id)'
    <3>1. id \in InStream(d) \/ Held(d, id)
      BY <2>1, ZenonT(60) DEF ServerInv, NoRequestLost
    <3>2. Held(d, id) => Held(d, id)'
      BY Zenon DEF Held, SameHolders
    <3> QED BY <2>1, <3>1, <3>2, <1>1, ZenonT(60)
  <2> QED BY <2>1, <1>1, Zenon DEF NoRequestLost, NotLost
<1> QED BY <1>2, <1>3, <1>4, Zenon

\* The connections do not change, and no client that had ended is back.
LEMMA ClientFdsFrame ==
  ASSUME ServerInv, UNCHANGED <<recvVars, peer, backlog>>,
         \A d \in Clients : (conn'[d] = "new" => conn[d] = "new") /\ (Closed(d) => Closed(d)')
  PROVE  FdInv' /\ RemovedOnlyIfExited'
<1>1. UNCHANGED <<clientFds, peer, backlog>>
  BY Zenon DEF recvVars
<1>2. FdInv'
  BY <1>1, ZenonT(60) DEF ServerInv, FdInv
<1>3. ASSUME NEW f \in Fds, peer'[f] # NoClient, ~Closed(peer[f])'
      PROVE  InVector(f)'
  <2>1. peer[f] \in Clients /\ peer' = peer
    BY <1>1, <1>3, Types
  <2>2. ~Closed(peer[f])
    BY <1>3, <2>1, Zenon DEF Closed
  <2> QED BY <2>1, <2>2, <1>1, <1>3, ZenonT(60) DEF ServerInv, RemovedOnlyIfExited, InVector
<1> QED BY <1>2, <1>3, Zenon DEF RemovedOnlyIfExited

\* A client with nothing outstanding and nothing in its stream.
LEMMA EmptyStream ==
  ASSUME NEW c, Stream(c)' = <<>>, outstanding'[c] = {}, sending'[c] = <<>>, inbox'[c] = <<>>,
         \A w \in Workers : ~Inside(w, c)' /\ ~Answering(w, c)'
  PROVE  StreamOf(c)' /\ OwnerOf(c)' /\ NotLost(c)'
<1>1. WellFormed(<<>>)
  BY DEF WellFormed
<1>2. InStream(c)' = {}
  BY DEF InStream
<1> QED BY <1>1, <1>2, ZenonT(60) DEF StreamOf, OwnerOf, NotLost

\* A new client is in the backlog only.
LEMMA ConnectInv ==
  ASSUME ServerInv, NEW c \in Clients, Connect(c)
  PROVE  ServerInv'
<1>1. /\ UNCHANGED <<proc, pc, recvLock, recvVars, reqVars, peer, sending, inbox, outstanding>>
      /\ conn[c] = "new" /\ conn' = [conn EXCEPT ![c] = "open"] /\ backlog' = Append(backlog, c)
  BY Zenon DEF Connect
<1>2. RecvLockInv' /\ UseInv' /\ GotInv' /\ SameHolders
  BY <1>1, ClientFrame, Zenon
<1>3. conn'[c] = "open" /\ \A d \in Clients \ {c} : conn'[d] = conn[d]
  BY <1>1, Types, Zenon
<1>4. \A f \in Fds : peer[f] # c
  BY <1>1, ZenonT(60) DEF ServerInv, FdInv
<1>5. /\ backlog' \in Seq(Clients) /\ Len(backlog') = Len(backlog) + 1 /\ Len(backlog) \in Nat
      /\ DOMAIN backlog = 1..Len(backlog) /\ DOMAIN backlog' = 1..(Len(backlog) + 1)
      /\ \A i \in 1..Len(backlog) : backlog'[i] = backlog[i] /\ backlog[i] # c
      /\ backlog'[Len(backlog) + 1] = c
  <2>1. backlog \in Seq(Clients)
    BY Types, Zenon
  <2>2. \A i \in DOMAIN backlog : backlog[i] # c
    BY <1>1, Zenon DEF ServerInv, FdInv
  <2> QED BY <2>1, <2>2, <1>1
<1>6. FdInv'
  <2>1. clientFds' = clientFds /\ peer' = peer
    BY <1>1, Zenon DEF recvVars
  <2>2. \A i, j \in DOMAIN backlog' : backlog'[i] = backlog'[j] => i = j
    <3>1. \A i, j \in 1..Len(backlog) : backlog[i] = backlog[j] => i = j
      BY <1>5, ZenonT(60) DEF ServerInv, FdInv
    <3> QED BY <3>1, <1>5
  <2>3. ASSUME NEW i \in DOMAIN backlog'
        PROVE  backlog'[i] = c \/ \E j \in DOMAIN backlog : backlog'[i] = backlog[j]
    BY <1>5, SMTT(30)
  <2>4. \A i \in DOMAIN backlog' : \A f \in Fds : peer'[f] # backlog'[i]
    BY <2>1, <2>3, <1>4, SMTT(30) DEF ServerInv, FdInv
  <2>5. ASSUME NEW d \in Clients, conn'[d] = "new"
        PROVE  (\A i \in DOMAIN backlog' : backlog'[i] # d) /\ (\A f \in Fds : peer'[f] # d)
    BY <2>1, <2>3, <2>5, <1>3, SMTT(30) DEF ServerInv, FdInv
  <2> QED BY <2>1, <2>2, <2>4, <2>5, ZenonT(60) DEF ServerInv, FdInv
<1>7. RemovedOnlyIfExited'
  <2>1. clientFds' = clientFds /\ peer' = peer
    BY <1>1, Zenon DEF recvVars
  <2>2. ASSUME NEW f \in Fds, peer'[f] # NoClient, ~Closed(peer[f])'
        PROVE  InVector(f)'
    <3>1. peer[f] \in Clients \ {c}
      BY <2>1, <2>2, <1>4, Types, Zenon
    <3>2. ~Closed(peer[f])
      BY <2>1, <2>2, <3>1, <1>3, ZenonT(60) DEF Closed
    <3> QED BY <2>1, <2>2, <3>1, <3>2, ZenonT(40) DEF ServerInv, RemovedOnlyIfExited, InVector
  <2> QED BY <2>2, Zenon DEF RemovedOnlyIfExited
<1>8. StreamInv' /\ OwnerInv' /\ NoRequestLost'
  <2>1. OthersSame(c)
    BY <1>1, <1>3, Zenon DEF OthersSame
  <2>2. sending'[c] = <<>> /\ inbox'[c] = <<>> /\ outstanding'[c] = {} /\ Stream(c)' = <<>>
    <3>1. sending[c] = <<>> /\ inbox[c] = <<>> /\ outstanding[c] = {}
      BY <1>1, ZenonT(60) DEF ServerInv, StreamInv, StreamOf
    <3>2. Stream(c) = <<>>
      BY <3>1, StreamTypes, Zenon
    <3> QED BY <3>1, <3>2, <1>1, Zenon DEF Stream
  <2>3. \A w \in Workers : ~Inside(w, c)' /\ ~Answering(w, c)'
    <3>1. ASSUME NEW w \in Workers
          PROVE  ~Inside(w, c) /\ ~Answering(w, c)
      <4>1. Reading(w) => fd \in Fds
        BY ReaderFacts, Zenon
      <4>2. Serving(w) => activeFds[w] \in Fds
        BY Zenon DEF ServerInv, UseInv
      <4> QED BY <4>1, <4>2, <1>4, ZenonT(60) DEF Inside, Answering
    <3> QED BY <3>1, <1>2, ZenonT(60) DEF SameHolders
  <2>4. StreamOf(c)' /\ OwnerOf(c)' /\ NotLost(c)'
    BY <2>2, <2>3, EmptyStream, Zenon
  <2> QED BY <2>1, <2>4, <1>2, ClientStreams, Zenon
<1>9. TypeOK'
  <2>1. conn' \in [Clients -> {"new", "open", "closed", "reset"}]
    BY <1>1, Types, Zenon
  <2> QED BY <2>1, <1>1, <1>5, ZenonT(40) DEF ServerInv, TypeOK, recvVars, reqVars
<1> QED BY <1>2, <1>6, <1>7, <1>8, <1>9, Zenon DEF ServerInv

\* A unit of a new request stands behind the last unit z of the one before,
\* and so behind every unit u that z stands m places behind.
LEMMA BehindRequest ==
  ASSUME NEW u \in Unit, NEW z \in Unit, Left(z) = 0, NEW m \in Nat, m = 0 => z = u,
         m > 0 => Follows(u, z, m), NEW k \in Nat, k >= 1,
         NEW id, NEW n, id # u.id
  PROVE  Follows(u, [id |-> id, len |-> n, pos |-> k], m + k)
<1>1. /\ Left(u) \in Nat /\ u.len \in Nat /\ u.pos \in Nat /\ z.len \in Nat /\ z.pos \in Nat
      /\ HdrUnits \in Nat
  BY UnitFacts, ServerAssumption, Zenon
<1>2. Left(u) <= m
  <2>1. CASE m > 0 /\ m <= Left(u)
    <3>1. z = [id |-> u.id, len |-> u.len, pos |-> u.pos + m]
      BY <2>1, Zenon DEF Follows
    <3>2. z.len = u.len /\ z.pos = u.pos + m
      BY <3>1, Zenon
    <3> QED BY <3>2, <1>1 DEF Left
  <2> QED BY <2>1, <1>1
<1>3. ~(m + k <= Left(u)) /\ (m + k = Left(u) + 1 => k = 1)
  BY <1>1, <1>2
<1> QED BY <1>3, Zenon DEF Follows

\* The stream r of c when the request id of n units has been sent.
SentStream(c, id, n, r) ==
  /\ Units(id, n) \in Seq(Unit) /\ r = inbox[c] \o Units(id, n)
  /\ WellFormed(r)
  /\ \A w \in Workers : Inside(w, c) => \A i \in DOMAIN r : Follows(LastTaken(w), r[i], i)
  /\ r # <<>> /\ Left(r[Len(r)]) = 0
  /\ (\A w \in Workers : ~Inside(w, c)) => r[1].pos = 1
  /\ {r[i].id : i \in DOMAIN r} = InStream(c) \cup {id}

LEMMA SendsStream ==
  ASSUME ServerInv, NEW c \in Clients, conn[c] = "open", sending[c] = <<>>,
         NEW id \in Ids \ outstanding[c], NEW n \in BodyLens
  PROVE  SentStream(c, id, n, Stream(c) \o Units(id, n))
<1> DEFINE s == Stream(c)
           t == Units(id, n)
           r == s \o t
<1>1. StreamOf(c) /\ OwnerOf(c)
  BY Zenon DEF ServerInv, StreamInv, OwnerInv
<1>2. s \in Seq(Unit) /\ s = inbox[c] /\ Len(s) \in Nat /\ DOMAIN s = 1..Len(s)
  <2>1. inbox[c] \in Seq(Unit)
    BY StreamTypes, Zenon
  <2> QED BY <2>1 DEF Stream
<1>3. WellFormed(s) /\ (s # <<>> => Left(s[Len(s)]) = 0)
  BY <1>1, ZenonT(60) DEF StreamOf
<1>4. \A i \in DOMAIN s : s[i].id # id
  BY <1>1, Zenon DEF OwnerOf, InStream
<1>5. t \in Seq(Unit) /\ WellFormed(s \o t)
  BY <1>2, <1>3, <1>4, FormedAppend, ZenonT(60)
<1>6. n \in Nat \ {0} /\ HdrUnits \in Nat \ {0}
  BY ServerAssumption, Zenon
<1>7. Len(t) = HdrUnits + n /\ DOMAIN t = 1..Len(t) /\ \A i \in 1..Len(t) : t[i] = [id |-> id, len |-> n, pos |-> i]
  BY <1>6 DEF Units
<1>8. InStream(c) = {s[i].id : i \in DOMAIN s}
  BY Zenon DEF InStream
<1>9. ASSUME NEW w \in Workers, Inside(w, c)
      PROVE  /\ LastTaken(w) \in Unit /\ LastTaken(w).id # id
             /\ \A i \in DOMAIN s : Follows(LastTaken(w), s[i], i)
             /\ s = <<>> => Left(LastTaken(w)) = 0
  <2>1. reqbuf[w].id \in outstanding[c]
    BY <1>1, <1>9, Zenon DEF OwnerOf
  <2>2. LastTaken(w).id = reqbuf[w].id
    BY Zenon DEF LastTaken
  <2> QED BY <2>1, <2>2, <1>1, <1>9, ZenonT(60) DEF StreamOf
<1>10. (\A w \in Workers : ~Inside(w, c)) /\ s # <<>> => s[1].pos = 1
  BY <1>1, ZenonT(60) DEF StreamOf
<1>11. r = s \o t
  BY Zenon
<1> HIDE DEF s, t, r
<1>12. /\ r \in Seq(Unit) /\ Len(r) = Len(s) + Len(t) /\ DOMAIN r = 1..(Len(s) + Len(t))
       /\ \A i \in 1..Len(s) : r[i] = s[i]
       /\ \A i \in 1..Len(t) : r[Len(s) + i] = t[i]
  BY <1>2, <1>5, <1>11, ConcatFacts, SMTT(30)
<1> DEFINE l == Len(s)
           m == Len(t)
<1>0. l \in Nat /\ m \in Nat /\ m >= 1 /\ DOMAIN s = 1..l /\ DOMAIN r = 1..(l + m)
  BY <1>2, <1>6, <1>7, <1>12, SMTT(30)
<1> HIDE DEF l, m
<1>13. r # <<>> /\ Left(r[Len(r)]) = 0
  <2>1. Len(t) \in 1..Len(t) /\ Len(r) = Len(s) + Len(t) /\ r # <<>>
    BY <1>2, <1>6, <1>7, <1>12, SMTT(30)
  <2>2. r[Len(r)] = [id |-> id, len |-> n, pos |-> HdrUnits + n]
    BY <2>1, <1>7, <1>12
  <2> QED BY <2>1, <2>2, <1>6, SMTT(30) DEF Left
<1>14. (\A w \in Workers : ~Inside(w, c)) => r[1].pos = 1
  <2>1. CASE s = <<>>
    <3>1. Len(s) = 0 /\ 1 \in 1..Len(t)
      BY <2>1, <1>6, <1>7
    <3>2. r[1] = t[1]
      BY <3>1, <1>12
    <3> QED BY <3>1, <3>2, <1>7, SMTT(30)
  <2>2. CASE s # <<>>
    <3>1. 1 \in 1..Len(s)
      BY <2>2, <1>2, SMTT(30)
    <3> QED BY <2>2, <3>1, <1>10, <1>12, Zenon
  <2> QED BY <2>1, <2>2, Zenon
<1>15. ASSUME NEW w \in Workers, Inside(w, c), NEW i \in DOMAIN r
       PROVE  Follows(LastTaken(w), r[i], i)
  <2>1. CASE i <= Len(s)
    <3>1. i \in 1..Len(s)
      BY <2>1, <1>2, <1>12, SMTT(30)
    <3> QED BY <3>1, <1>2, <1>9, <1>12, <1>15, ZenonT(60)
  <2>2. CASE i > Len(s)
    <3> DEFINE k == i - Len(s)
               z == IF s = <<>> THEN LastTaken(w) ELSE s[Len(s)]
    <3>1. k \in 1..Len(t) /\ i = Len(s) + k
      <4>1. i - l \in 1..m /\ i = l + (i - l)
        BY <2>2, <1>0, SMTT(30) DEF l
      <4> QED BY <4>1, Zenon DEF l, m
    <3>2. r[i] = [id |-> id, len |-> n, pos |-> k] /\ k \in Nat /\ k >= 1
      BY <3>1, <1>7, <1>12, SMTT(30)
    <3>3. z \in Unit /\ Left(z) = 0 /\ (Len(s) = 0 => z = LastTaken(w)) /\ (Len(s) > 0 => Follows(LastTaken(w), z, Len(s)))
      BY <1>2, <1>3, <1>9, <1>15
    <3> HIDE DEF k, z
    <3> QED BY <3>1, <3>2, <3>3, <1>2, <1>9, <1>15, BehindRequest, SMTT(30)
  <2> QED BY <2>1, <2>2, <1>2, <1>12, SMTT(30)
<1>16. {r[i].id : i \in DOMAIN r} = InStream(c) \cup {id}
  <2>1. \A i \in DOMAIN r : r[i].id = id \/ \E j \in DOMAIN s : r[i].id = s[j].id
    <3>1. ASSUME NEW i \in DOMAIN r, i > Len(s)
          PROVE  r[i].id = id
      <4>0. i - l \in 1..m /\ i = l + (i - l)
        BY <3>1, <1>0 DEF l
      <4>1. i - Len(s) \in 1..Len(t) /\ i = Len(s) + (i - Len(s))
        BY <4>0, Zenon DEF l, m
      <4>2. r[i] = [id |-> id, len |-> n, pos |-> i - Len(s)]
        BY <4>1, <1>7, <1>12
      <4> QED BY <4>2
    <3>2. ASSUME NEW i \in DOMAIN r, i <= Len(s)
          PROVE  \E j \in DOMAIN s : r[i].id = s[j].id
      <4>1. i \in DOMAIN s /\ r[i] = s[i]
        BY <3>2, <1>2, <1>12
      <4> QED BY <4>1, Zenon
    <3> QED BY <3>1, <3>2, <1>2, <1>12
  <2>2. \A j \in DOMAIN s : \E i \in DOMAIN r : r[i].id = s[j].id
    <3>1. \A j \in 1..l : j \in 1..(l + m)
      BY <1>0
    <3>2. \A j \in DOMAIN s : j \in DOMAIN r /\ r[j] = s[j]
      BY <3>1, <1>0, <1>12, Zenon DEF l
    <3> QED BY <3>2, Zenon
  <2>3. \E i \in DOMAIN r : r[i].id = id
    <3>0. 1 \in 1..m /\ l + 1 \in DOMAIN r
      BY <1>0
    <3>1. 1 \in 1..Len(t) /\ Len(s) + 1 \in DOMAIN r
      BY <3>0, Zenon DEF l, m
    <3>2. r[Len(s) + 1] = [id |-> id, len |-> n, pos |-> 1]
      BY <3>1, <1>7, <1>12, Zenon
    <3>3. r[Len(s) + 1].id = id
      BY <3>2
    <3> QED BY <3>1, <3>3, Zenon
  <2>4. ASSUME NEW x
        PROVE  x \in {r[i].id : i \in DOMAIN r} <=> x \in InStream(c) \cup {id}
    <3>1. x \in {r[i].id : i \in DOMAIN r} <=> \E i \in DOMAIN r : x = r[i].id
      BY Zenon
    <3>2. x \in InStream(c) \cup {id} <=> x = id \/ \E i \in DOMAIN s : x = s[i].id
      BY <1>8, Zenon
    <3>3. ASSUME NEW i \in DOMAIN r, x = r[i].id
          PROVE  x = id \/ \E j \in DOMAIN s : x = s[j].id
      BY <3>3, <2>1, Zenon
    <3>4. x = id => \E i \in DOMAIN r : x = r[i].id
      BY <2>3, Zenon
    <3>5. ASSUME NEW j \in DOMAIN s, x = s[j].id
          PROVE  \E i \in DOMAIN r : x = r[i].id
      BY <3>5, <2>2, Zenon
    <3> QED BY <3>1, <3>2, <3>3, <3>4, <3>5, ZenonT(40)
  <2> QED BY <2>4, Zenon
<1>17. t \in Seq(Unit) /\ WellFormed(r) /\ r = inbox[c] \o t
  BY <1>2, <1>5, <1>11, Zenon
<1>18. SentStream(c, id, n, r)
  BY <1>13, <1>14, <1>15, <1>16, <1>17, ZenonT(60) DEF SentStream, t
<1> QED BY <1>18, Zenon DEF r, s, t

\* A client sends a request of an id it does not wait for.
LEMMA ClientSendsInv ==
  ASSUME ServerInv, NEW c \in Clients, ClientSends(c)
  PROVE  ServerInv'
<1>1. /\ UNCHANGED <<proc, pc, recvLock, recvVars, reqVars, peer, backlog, conn, inbox>>
      /\ conn[c] = "open" /\ sending[c] = <<>>
  BY ZenonT(60) DEF ClientSends
<1>2. PICK id \in Ids \ outstanding[c], n \in BodyLens :
        /\ sending' = [sending EXCEPT ![c] = Units(id, n)]
        /\ outstanding' = [outstanding EXCEPT ![c] = @ \cup {id}]
  BY Zenon, ZenonT(60) DEF ClientSends
<1>3. RecvLockInv' /\ UseInv' /\ GotInv' /\ SameHolders
  BY <1>1, ClientFrame, Zenon
<1>4. FdInv' /\ RemovedOnlyIfExited'
  <2>1. \A d \in Clients : (conn'[d] = "new" => conn[d] = "new") /\ (Closed(d) => Closed(d)')
    BY <1>1, ZenonT(60) DEF Closed
  <2> QED BY <1>1, <2>1, ClientFdsFrame, ZenonT(60)
<1>5. sending \in [Clients -> Seq(Unit)] /\ outstanding \in [Clients -> SUBSET Ids]
  BY Zenon DEF ServerInv, TypeOK
<1>6. /\ sending'[c] = Units(id, n) /\ outstanding'[c] = outstanding[c] \cup {id}
      /\ \A d \in Clients \ {c} : sending'[d] = sending[d] /\ outstanding'[d] = outstanding[d]
  BY <1>2, <1>5, Zenon
<1>7. OthersSame(c)
  BY <1>1, <1>6, ZenonT(60) DEF OthersSame
<1>8. PICK r : SentStream(c, id, n, r)
  BY <1>1, SendsStream, Zenon
<1>9. /\ Units(id, n) \in Seq(Unit) /\ r = inbox[c] \o Units(id, n)
      /\ WellFormed(r)
      /\ \A w \in Workers : Inside(w, c) => \A i \in DOMAIN r : Follows(LastTaken(w), r[i], i)
      /\ r # <<>> /\ Left(r[Len(r)]) = 0
      /\ (\A w \in Workers : ~Inside(w, c)) => r[1].pos = 1
      /\ {r[i].id : i \in DOMAIN r} = InStream(c) \cup {id}
  BY <1>8, ZenonT(60) DEF SentStream
<1>10. Stream(c)' = r
  BY <1>1, <1>6, <1>9, ZenonT(60) DEF Stream
<1>11. InStream(c)' = InStream(c) \cup {id}
  BY <1>9, <1>10, Zenon DEF InStream
<1>12. conn'[c] = "open" /\ inbox'[c] = inbox[c]
  BY <1>1, Zenon
<1>13. StreamOf(c)'
  <2>1. \A w \in Workers : Inside(w, c) => LastTaken(w) \in Unit
    BY ZenonT(60) DEF ServerInv, StreamInv, StreamOf
  <2> QED BY <2>1, <1>3, <1>9, <1>10, <1>12, ZenonT(60) DEF StreamOf, SameHolders
<1>14. OwnerOf(c)'
  <2>1. OwnerOf(c)
    BY <1>1, Zenon DEF ServerInv, OwnerInv
  <2> QED BY <2>1, <1>3, <1>6, <1>11 DEF OwnerOf, SameHolders
<1>15. NotLost(c)'
  <2>1. ASSUME NEW x \in outstanding[c]
        PROVE  x \in InStream(c)' \/ Held(c, x)'
    <3>1. x \in InStream(c) \/ Held(c, x)
      BY Zenon DEF ServerInv, NoRequestLost
    <3>2. Held(c, x) => Held(c, x)'
      BY <1>3, ZenonT(60) DEF Held, SameHolders
    <3> QED BY <3>1, <3>2, <1>11, Zenon
  <2> QED BY <2>1, <1>6, <1>11, Zenon DEF NotLost
<1>16. StreamInv' /\ OwnerInv' /\ NoRequestLost'
  BY <1>3, <1>7, <1>13, <1>14, <1>15, ClientStreams, ZenonT(40)
<1>17. TypeOK'
  <2>1. sending' \in [Clients -> Seq(Unit)] /\ outstanding' \in [Clients -> SUBSET Ids]
    BY <1>2, <1>5, <1>9, ZenonT(60)
  <2> QED BY <2>1, <1>1, ZenonT(60) DEF ServerInv, TypeOK, recvVars, reqVars
<1> QED BY <1>3, <1>4, <1>16, <1>17, ZenonT(40) DEF ServerInv

\* A unit arrives.
LEMMA ArriveInv ==
  ASSUME ServerInv, NEW c \in Clients, Arrive(c)
  PROVE  ServerInv'
<1>1. /\ UNCHANGED <<proc, pc, recvLock, recvVars, reqVars, peer, backlog, conn, outstanding>>
      /\ sending[c] # <<>>
      /\ inbox' = [inbox EXCEPT ![c] = Append(@, Head(sending[c]))]
      /\ sending' = [sending EXCEPT ![c] = Tail(@)]
  BY Zenon DEF Arrive
<1>2. RecvLockInv' /\ UseInv' /\ GotInv' /\ SameHolders
  BY <1>1, ClientFrame, Zenon
<1>3. FdInv' /\ RemovedOnlyIfExited'
  <2>1. \A d \in Clients : (conn'[d] = "new" => conn[d] = "new") /\ (Closed(d) => Closed(d)')
    BY <1>1, Zenon DEF Closed
  <2> QED BY <1>1, <2>1, ClientFdsFrame, Zenon
<1>4. inbox \in [Clients -> Seq(Unit)] /\ sending \in [Clients -> Seq(Unit)]
  BY Zenon DEF ServerInv, TypeOK
<1>5. inbox[c] \in Seq(Unit) /\ sending[c] \in Seq(Unit)
  BY <1>4, Zenon
<1>6. /\ Append(inbox[c], Head(sending[c])) \in Seq(Unit) /\ Tail(sending[c]) \in Seq(Unit)
      /\ Append(inbox[c], Head(sending[c])) \o Tail(sending[c]) = inbox[c] \o sending[c]
  BY <1>1, <1>5, ArriveKeepsStream, ZenonT(40)
<1>7. /\ inbox'[c] = Append(inbox[c], Head(sending[c])) /\ sending'[c] = Tail(sending[c])
      /\ \A d \in Clients \ {c} : inbox'[d] = inbox[d] /\ sending'[d] = sending[d]
  BY <1>1, <1>4, Zenon
<1>8. OthersSame(c)
  BY <1>1, <1>7, Zenon DEF OthersSame
<1>9. Stream(c)' = Stream(c)
  BY <1>6, <1>7, Zenon DEF Stream
<1>10. InStream(c)' = InStream(c)
  BY <1>9, Zenon DEF InStream
<1>11. StreamOf(c) /\ conn[c] = "open" /\ conn'[c] = "open" /\ outstanding' = outstanding
  BY <1>1, ZenonT(60) DEF ServerInv, StreamInv, StreamOf
<1>12. StreamOf(c)'
  BY <1>2, <1>9, <1>11, ZenonT(60) DEF StreamOf, SameHolders
<1>13. OwnerOf(c)'
  <2>1. OwnerOf(c)
    BY <1>11, ZenonT(60) DEF ServerInv, OwnerInv
  <2> QED BY <2>1, <1>2, <1>10, <1>11, ZenonT(60) DEF OwnerOf, SameHolders
<1>14. NotLost(c)'
  <2>1. ASSUME NEW x \in outstanding[c]
        PROVE  x \in InStream(c)' \/ Held(c, x)'
    <3>1. x \in InStream(c) \/ Held(c, x)
      BY Zenon DEF ServerInv, NoRequestLost
    <3>2. Held(c, x) => Held(c, x)'
      BY <1>2, ZenonT(60) DEF Held, SameHolders
    <3> QED BY <3>1, <3>2, <1>10, Zenon
  <2> QED BY <2>1, <1>11, Zenon DEF NotLost
<1>15. StreamInv' /\ OwnerInv' /\ NoRequestLost'
  BY <1>2, <1>8, <1>12, <1>13, <1>14, ClientStreams, ZenonT(40)
<1>16. TypeOK'
  <2>1. inbox' \in [Clients -> Seq(Unit)] /\ sending' \in [Clients -> Seq(Unit)]
    BY <1>1, <1>4, <1>6, ZenonT(40)
  <2> QED BY <2>1, <1>1, ZenonT(40) DEF ServerInv, TypeOK, recvVars, reqVars
<1> QED BY <1>2, <1>3, <1>15, <1>16, Zenon DEF ServerInv

\* A client with nothing outstanding ends: nothing of it is in its stream or
\* with a worker.
LEMMA ClientLeavesInv ==
  ASSUME ServerInv, NEW c \in Clients, ClientLeaves(c)
  PROVE  ServerInv'
<1>1. /\ UNCHANGED <<proc, pc, recvLock, recvVars, reqVars, peer, backlog, sending, inbox, outstanding>>
      /\ conn[c] = "open" /\ outstanding[c] = {} /\ conn' = [conn EXCEPT ![c] = "closed"]
  BY Zenon DEF ClientLeaves
<1>2. RecvLockInv' /\ UseInv' /\ GotInv' /\ SameHolders
  BY <1>1, ClientFrame, Zenon
<1>3. conn'[c] = "closed" /\ \A d \in Clients \ {c} : conn'[d] = conn[d]
  BY <1>1, Types, Zenon
<1>4. FdInv' /\ RemovedOnlyIfExited'
  <2>1. \A d \in Clients : (conn'[d] = "new" => conn[d] = "new") /\ (Closed(d) => Closed(d)')
    BY <1>3, Zenon DEF Closed
  <2> QED BY <1>1, <2>1, ClientFdsFrame, ZenonT(60)
<1>5. OthersSame(c)
  BY <1>1, <1>3, ZenonT(60) DEF OthersSame
<1>6. InStream(c) = {} /\ \A w \in Workers : ~Inside(w, c) /\ ~Answering(w, c)
  BY <1>1, ZenonT(60) DEF ServerInv, OwnerInv, OwnerOf
<1>7. Stream(c) = <<>> /\ inbox[c] = <<>> /\ sending[c] = <<>>
  <2>1. Stream(c) \in Seq(Unit)
    BY StreamTypes, Zenon
  <2>2. DOMAIN Stream(c) = {}
    BY <1>6, Zenon DEF InStream
  <2>3. Stream(c) = <<>>
    BY <2>1, <2>2
  <2> QED BY <2>3, StreamTypes, Zenon
<1>8. Stream(c)' = <<>> /\ outstanding'[c] = {} /\ sending'[c] = <<>> /\ inbox'[c] = <<>>
  BY <1>1, <1>7, ZenonT(60) DEF Stream
<1>9. \A w \in Workers : ~Inside(w, c)' /\ ~Answering(w, c)'
  BY <1>2, <1>6, ZenonT(60) DEF SameHolders
<1>10. StreamOf(c)' /\ OwnerOf(c)' /\ NotLost(c)'
  BY <1>8, <1>9, EmptyStream, Zenon
<1>11. StreamInv' /\ OwnerInv' /\ NoRequestLost'
  BY <1>2, <1>5, <1>10, ClientStreams, ZenonT(40)
<1>12. TypeOK'
  <2>1. conn' \in [Clients -> {"new", "open", "closed", "reset"}]
    BY <1>1, Types, Zenon
  <2> QED BY <2>1, <1>1, ZenonT(60) DEF ServerInv, TypeOK, recvVars, reqVars
<1> QED BY <1>2, <1>4, <1>11, <1>12, Zenon DEF ServerInv

PrefixOf(r, s) ==
  /\ r \in Seq(Unit)
  /\ \A i \in DOMAIN r : i \in DOMAIN s /\ r[i] = s[i]
  /\ r # <<>> => 1 \in DOMAIN r

\* What arrived of a stream when its client ended.
LEMMA PrefixOfStream ==
  ASSUME NEW s \in Seq(Unit), NEW t \in Seq(Unit), NEW k \in 0..Len(s)
  PROVE  SubSeq(s, 1, k) \in Seq(Unit) /\ PrefixOf(SubSeq(s, 1, k) \o <<>>, s \o t)
BY DEF PrefixOf

\* A client ends at any point.
LEMMA ClientCrashesInv ==
  ASSUME ServerInv, NEW c \in Clients, ClientCrashes(c)
  PROVE  ServerInv'
<1>1. /\ UNCHANGED <<proc, pc, recvLock, recvVars, reqVars, peer, backlog>>
      /\ conn[c] = "open"
      /\ sending' = [sending EXCEPT ![c] = <<>>] /\ outstanding' = [outstanding EXCEPT ![c] = {}]
  BY Zenon DEF ClientCrashes
<1>2. PICK end \in {"closed", "reset"} : conn' = [conn EXCEPT ![c] = end]
  BY Zenon DEF ClientCrashes
<1>3. PICK k \in 0..Len(inbox[c]) : inbox' = [inbox EXCEPT ![c] = SubSeq(@, 1, k)]
  BY Zenon DEF ClientCrashes
<1>4. RecvLockInv' /\ UseInv' /\ GotInv' /\ SameHolders
  BY <1>1, ClientFrame, Zenon
<1>5. conn'[c] \in {"closed", "reset"} /\ \A d \in Clients \ {c} : conn'[d] = conn[d]
  BY <1>2, Types, Zenon
<1>6. FdInv' /\ RemovedOnlyIfExited'
  <2>1. \A d \in Clients : (conn'[d] = "new" => conn[d] = "new") /\ (Closed(d) => Closed(d)')
    BY <1>5, Zenon DEF Closed
  <2> QED BY <1>1, <2>1, ClientFdsFrame, ZenonT(60)
<1>7. inbox \in [Clients -> Seq(Unit)] /\ sending \in [Clients -> Seq(Unit)] /\ outstanding \in [Clients -> SUBSET Ids]
  BY Zenon DEF ServerInv, TypeOK
<1>8. /\ inbox'[c] = SubSeq(inbox[c], 1, k) /\ sending'[c] = <<>> /\ outstanding'[c] = {}
      /\ \A d \in Clients \ {c} : inbox'[d] = inbox[d] /\ sending'[d] = sending[d] /\ outstanding'[d] = outstanding[d]
  BY <1>1, <1>3, <1>7, Zenon
<1>9. OthersSame(c)
  BY <1>5, <1>8, Zenon DEF OthersSame
<1>10. inbox[c] \in Seq(Unit) /\ sending[c] \in Seq(Unit)
  BY <1>7, Zenon
<1>11. SubSeq(inbox[c], 1, k) \in Seq(Unit) /\ PrefixOf(Stream(c)', Stream(c))
  <2>1. Stream(c)' = SubSeq(inbox[c], 1, k) \o <<>> /\ Stream(c) = inbox[c] \o sending[c]
    BY <1>8, Zenon DEF Stream
  <2>2. SubSeq(inbox[c], 1, k) \in Seq(Unit) /\ PrefixOf(SubSeq(inbox[c], 1, k) \o <<>>, inbox[c] \o sending[c])
    BY <1>10, PrefixOfStream, Zenon
  <2> QED BY <2>1, <2>2, Zenon
<1>12. /\ SubSeq(inbox[c], 1, k) \in Seq(Unit) /\ Stream(c)' \in Seq(Unit)
       /\ \A i \in DOMAIN Stream(c)' : i \in DOMAIN Stream(c) /\ Stream(c)'[i] = Stream(c)[i]
       /\ Stream(c)' # <<>> => 1 \in DOMAIN Stream(c)'
  BY <1>11, ZenonT(60) DEF PrefixOf
<1>13. StreamOf(c)'
  <2>1. StreamOf(c)
    BY Zenon DEF ServerInv, StreamInv
  <2>2. WellFormed(Stream(c))
    BY <2>1, ZenonT(60) DEF StreamOf
  <2>3. WellFormed(Stream(c)')
    BY <2>2, <1>12, ZenonT(60) DEF WellFormed
  <2>4. ASSUME NEW w \in Workers, Inside(w, c)
        PROVE  LastTaken(w) \in Unit /\ \A i \in DOMAIN Stream(c)' : Follows(LastTaken(w), Stream(c)'[i], i)
    BY <2>1, <2>4, <1>12, ZenonT(60) DEF StreamOf
  <2>5. Stream(c)' # <<>> /\ (\A w \in Workers : ~Inside(w, c)) => Stream(c)'[1].pos = 1
    <3>1. Stream(c)' # <<>> => Stream(c) # <<>> /\ Stream(c)'[1] = Stream(c)[1]
      BY <1>12
    <3> QED BY <2>1, <3>1, ZenonT(60) DEF StreamOf
  <2>6. conn'[c] # "open" /\ conn'[c] # "new"
    BY <1>5, Zenon
  <2> QED BY <2>3, <2>4, <2>5, <2>6, <1>4, <1>8, ZenonT(60) DEF StreamOf, SameHolders
<1>14. NotLost(c)' /\ conn'[c] # "open"
  BY <1>5, <1>8, Zenon DEF NotLost
<1>15. StreamInv' /\ OwnerInv' /\ NoRequestLost'
  BY <1>4, <1>9, <1>13, <1>14, ClientStreams, Zenon
<1>16. TypeOK'
  <2>1. conn' \in [Clients -> {"new", "open", "closed", "reset"}]
    BY <1>2, Types, Zenon
  <2>2. inbox' \in [Clients -> Seq(Unit)] /\ sending' \in [Clients -> Seq(Unit)] /\ outstanding' \in [Clients -> SUBSET Ids]
    BY <1>1, <1>3, <1>7, <1>12, SMTT(30)
  <2> QED BY <2>1, <2>2, <1>1, ZenonT(60) DEF ServerInv, TypeOK, recvVars, reqVars
<1> QED BY <1>4, <1>6, <1>15, <1>16, Zenon DEF ServerInv

-----------------------------------------------------------------------------
(* The theorems.                                                           *)

LEMMA InitInv == ASSUME Init PROVE ServerInv
<1> USE ServerAssumption
<1>1. \A c \in Clients : Stream(c) = <<>> /\ InStream(c) = {}
  BY DEF Init, Stream, InStream
<1>2. \A w \in Workers, c \in Clients : ~Inside(w, c) /\ ~Answering(w, c)
  BY Zenon DEF Init, Inside, Answering, Reading, Serving
<1>3. TypeOK
  <2>1. EmptyHdr \in Hdr
    BY Zenon DEF EmptyHdr, Hdr
  <2>2. reqbuf \in [Workers -> Hdr]
    BY <2>1, Zenon DEF Init
  <2>3. <<>> \in Seq(Fds) /\ <<>> \in Seq(Clients) /\ <<>> \in Seq(Unit)
    OBVIOUS
  <2>4. inbox \in [Clients -> Seq(Unit)] /\ sending \in [Clients -> Seq(Unit)] /\ outstanding \in [Clients -> SUBSET Ids]
    BY <2>3, Zenon DEF Init
  <2>5. /\ peer \in [Fds -> Clients \cup {NoClient}] /\ conn \in [Clients -> {"new", "open", "closed", "reset"}]
        /\ clientFds \in Seq(Fds) /\ backlog \in Seq(Clients)
    BY <2>3, Zenon DEF Init
  <2>6. /\ pc \in [Workers -> {"idle", "select", "select2", "header", "body", "serve", "done"}]
        /\ reqInfo \in [Workers -> Ids \cup {NoReq}] /\ activeFds \in [Workers -> Fds \cup {0}]
    BY Zenon DEF Init
  <2>7. /\ proc \in {"running", "exited", "aborted", "killed", "returned"} /\ start_file \in BOOLEAN
        /\ recvLock \in Workers \cup {NoThread} /\ fd \in Fds \cup {0} /\ got \in Nat /\ recvClientHead \in Nat
    BY ZenonT(60) DEF Init
  <2> QED BY <2>2, <2>4, <2>5, <2>6, <2>7, Zenon DEF TypeOK
<1>4. RecvLockInv /\ FdInv /\ UseInv /\ GotInv /\ RemovedOnlyIfExited
  BY DEF Init, RecvLockInv, FdInv, UseInv, GotInv, RemovedOnlyIfExited, Reading, Serving
<1>5. StreamInv /\ OwnerInv /\ NoRequestLost
  <2>1. WellFormed(<<>>)
    BY DEF WellFormed
  <2> QED BY <2>1, <1>1, <1>2, ZenonT(60) DEF Init, StreamInv, StreamOf, OwnerInv, OwnerOf, NoRequestLost
<1> QED BY <1>3, <1>4, <1>5, Zenon DEF ServerInv

LEMMA NextInv == ASSUME ServerInv, [Next]_vars PROVE ServerInv'
<1>1. ASSUME proc = "running", NEW w \in Workers, Worker(w)
      PROVE  ServerInv'
  <2>1. CASE LockRecv(w) \/ WorkerEnds(w)
    BY <2>1, LockRecvInv, Zenon
  <2>2. CASE ListenAccept(w) \/ SelectAccept(w)
    BY <2>2, AcceptInv, Zenon
  <2>3. CASE ListenRefuse(w) \/ SelectRead(w) \/ SecondSelect(w)
    BY <2>3, SelectInv, Zenon
  <2>4. CASE RecvHeader(w)
    BY <2>4, RecvHeaderInv, Zenon
  <2>5. CASE RecvBody(w)
    BY <2>5, RecvBodyInv, Zenon
  <2>6. CASE SendResp(w)
    BY <2>6, <1>1, SendRespInv, Zenon
  <2> QED BY <1>1, <2>1, <2>2, <2>3, <2>4, <2>5, <2>6, ZenonT(40) DEF Worker
<1>2. ASSUME NEW c \in Clients, Client(c)
      PROVE  ServerInv'
  BY <1>2, ConnectInv, ClientSendsInv, ArriveInv, ClientLeavesInv, ClientCrashesInv, Zenon DEF Client
<1>3. CASE finish
  BY <1>3, ProcInv, Zenon DEF finish
<1>4. CASE UNCHANGED vars
  <2>1. proc' \in {"running", "exited", "aborted", "killed", "returned"}
    BY <1>4, Zenon DEF vars, ServerInv, TypeOK
  <2> QED BY <2>1, <1>4, ProcInv, Zenon DEF vars
<1> QED BY <1>1, <1>2, <1>3, <1>4, Zenon DEF Next, Ended

\* For every number of workers, clients, descriptors and ids and every size of
\* header and body: ServerInv holds of every reachable state.
THEOREM ServerInvariance == Spec => []ServerInv
BY InitInv, NextInv, PTL DEF Spec

\* sendResp writes each response to the client that waits for it, and only one
\* worker has it: a response goes to no other client and is not sent twice.
THEOREM ResponsesReachTheirOwner == Spec => []AnswersItsOwner
<1>1. ASSUME ServerInv
      PROVE  AnswersItsOwner
  <2>1. ASSUME NEW w \in Workers, Serving(w)
        PROVE  LET c == peer[activeFds[w]]
               IN  /\ c # NoClient /\ c \in Clients /\ Answering(w, c)
                   /\ conn[c] = "open" => reqInfo[w] \in outstanding[c]
    <3>1. peer[activeFds[w]] # NoClient /\ peer[activeFds[w]] \in Clients
      BY <1>1, <2>1, Types, Zenon DEF ServerInv, UseInv
    <3>2. Answering(w, peer[activeFds[w]])
      BY <2>1, ZenonT(60) DEF Answering
    <3> QED BY <3>1, <3>2, <1>1, ZenonT(40) DEF ServerInv, OwnerInv, OwnerOf
  <2>2. ASSUME NEW v \in Workers, Serving(v), NEW w \in Workers, Serving(w), v # w,
               conn[peer[activeFds[v]]] = "open", activeFds[v] = activeFds[w]
        PROVE  reqInfo[v] # reqInfo[w]
    BY <2>1, <2>2, <1>1, ZenonT(60) DEF ServerInv, OwnerInv, OwnerOf
  <2> QED BY <2>1, <2>2, ZenonT(60) DEF AnswersItsOwner
<1> QED BY <1>1, ServerInvariance, PTL

\* recvReq drops no request of a connected client: what it waits for is in its
\* stream or with a worker.
THEOREM RequestsAreKept == Spec => []NoRequestLost
<1>1. ServerInv => NoRequestLost
  BY Zenon DEF ServerInv
<1> QED BY <1>1, ServerInvariance, PTL

\* recvfull stays in step with the requests of a stream, wherever the network
\* cuts it: headers are read as headers, and bodies follow their own header.
THEOREM StreamsStayInStep == Spec => []FramingKept
<1>1. ASSUME ServerInv, NEW w \in Workers, Reading(w), inbox[peer[fd]] # <<>>
      PROVE  LET u == Head(inbox[peer[fd]])
             IN  u.pos = Base(w) + got + 1 /\ (pc[w] = "body" => u.id = reqbuf[w].id)
  <2>1. got \in Nat /\ got < Asked(w) /\ Asked(w) \in Nat /\ peer[fd] \in Clients /\ Base(w) \in Nat
    BY <1>1, ReaderFacts, ZenonT(60)
  <2>2. 1 <= Len(inbox[peer[fd]])
    BY <1>1, <2>1, StreamTypes
  <2>3. /\ Stream(peer[fd])[1] = Head(inbox[peer[fd]])
        /\ Stream(peer[fd])[1] = [id |-> Stream(peer[fd])[1].id, len |-> Stream(peer[fd])[1].len, pos |-> Base(w) + got + 1]
        /\ Inside(w, peer[fd]) => Stream(peer[fd])[1].id = reqbuf[w].id
    <3>1. 1 \in Nat /\ 1 >= 1 /\ got + 1 <= Asked(w) /\ 1 \in 1..1
      BY <2>1
    <3> QED BY <1>1, <2>2, <3>1, InStep, ZenonT(60)
  <2>4. pc[w] = "body" => Inside(w, peer[fd])
    BY <1>1, Zenon DEF Inside
  <2>5. Head(inbox[peer[fd]]).pos = Base(w) + got + 1
    BY <2>3
  <2> QED BY <2>3, <2>4, <2>5, Zenon
<1>2. ASSUME ServerInv, NEW w \in Workers
      PROVE  LET in == inbox[peer[fd]]
             IN  /\ pc[w] = "header" /\ in # <<>> /\ got < HdrUnits => Head(in).pos = got + 1
                 /\ pc[w] = "body" /\ in # <<>> /\ got < reqbuf[w].len =>
                      Head(in).pos = HdrUnits + got + 1 /\ Head(in).id = reqbuf[w].id
  <2>1. CASE pc[w] = "header"
    <3>1. Reading(w) /\ Base(w) = 0 /\ got \in Nat
      BY <2>1, <1>2, Types, Zenon DEF Reading, Base
    <3> QED BY <3>1, <2>1, <1>1, <1>2
  <2>2. CASE pc[w] = "body"
    <3>1. Reading(w) /\ Base(w) = HdrUnits
      BY <2>2, Zenon DEF Reading, Base
    <3> QED BY <3>1, <2>2, <1>1, <1>2, Zenon
  <2> QED BY <2>1, <2>2, ZenonT(60)
<1>3. ServerInv => FramingKept
  BY <1>2, Zenon DEF FramingKept
<1> QED BY <1>3, ServerInvariance, PTL

\* checkRecv removes only clients that have ended.
THEOREM OnlyExitedAreRemoved == Spec => []RemovedOnlyIfExited
<1>1. ServerInv => RemovedOnlyIfExited
  BY Zenon DEF ServerInv
<1> QED BY <1>1, ServerInvariance, PTL

-----------------------------------------------------------------------------
(* Clients that end only when they are answered do not end the server.     *)

\* A client that has ended has left nothing behind.
LeftClean(c) ==
  /\ conn[c] # "reset"
  /\ conn[c] = "closed" => Stream(c) = <<>> /\ \A w \in Workers : ~Inside(w, c) /\ ~Answering(w, c)

CleanInv == ServerSurvives /\ \A c \in Clients : LeftClean(c)

\* Steps of workers that leave the clients alone and start no request.
LEMMA CleanFrame ==
  ASSUME CleanInv, UNCHANGED clientVars, UNCHANGED proc,
         \A w \in Workers, c \in Clients :
           (Inside(w, c)' => Inside(w, c)) /\ (Answering(w, c)' => Answering(w, c))
  PROVE  CleanInv'
<1>1. UNCHANGED <<conn, inbox, sending>>
  BY Zenon DEF clientVars
<1>2. \A c \in Clients : Stream(c)' = Stream(c)
  BY <1>1, Zenon DEF Stream
<1>3. ServerSurvives'
  BY Zenon DEF CleanInv, ServerSurvives
<1> QED BY <1>1, <1>2, <1>3, Zenon DEF CleanInv, LeftClean

LEMMA CleanSelect ==
  ASSUME ServerInv, CleanInv, NEW w \in Workers,
         \/ LockRecv(w) \/ WorkerEnds(w) \/ ListenAccept(w) \/ SelectAccept(w)
         \/ ListenRefuse(w) \/ SelectRead(w) \/ SecondSelect(w)
  PROVE  CleanInv'
<1>1. UNCHANGED <<proc, clientVars, got, reqbuf, reqInfo, activeFds>>
  BY Zenon DEF LockRecv, WorkerEnds, ListenAccept, SelectAccept, ListenRefuse, SelectRead, SecondSelect,
         PickClient, recvVars, reqVars
<1>2. /\ pc[w] \in {"idle", "select", "select2"}
      /\ pc' = pc \/ \E h \in {"select", "select2", "header", "done"} : pc' = [pc EXCEPT ![w] = h]
  BY Zenon DEF LockRecv, WorkerEnds, ListenAccept, SelectAccept, ListenRefuse, SelectRead, SecondSelect,
         PickClient, Goto
<1>3. \A v \in Workers \ {w} : pc'[v] = pc[v]
  BY <1>2, Types, Zenon
<1>4. pc'[w] \notin {"body", "serve"} /\ ~Reading(w) /\ ~Serving(w)
  BY <1>2, Types, Zenon DEF Reading, Serving
<1>5. CASE LockRecv(w) \/ WorkerEnds(w)
  <2>1. UNCHANGED <<fd, peer>> /\ pc'[w] \in {"select", "done"}
    BY <1>5, Types, Zenon DEF LockRecv, WorkerEnds, Goto, recvVars
  <2>2. \A v \in Workers, c \in Clients :
          (Inside(v, c)' => Inside(v, c)) /\ (Answering(v, c)' => Answering(v, c))
    BY <2>1, <1>1, <1>3, ZenonT(60) DEF Inside, Answering, Reading, Serving
  <2> QED BY <2>2, <1>1, CleanFrame, Zenon
<1>6. CASE ~(LockRecv(w) \/ WorkerEnds(w))
  <2>1. pc[w] \in {"select", "select2"}
    BY <1>6, Zenon DEF ListenAccept, SelectAccept, ListenRefuse, SelectRead, SecondSelect, PickClient, Goto
  <2>2. \A v \in Workers : ~Reading(v)
    BY <2>1, OneReceiver, Zenon DEF Reading
  <2>3. got = 0
    BY <2>2, ZenonT(60) DEF ServerInv, GotInv
  <2>4. \A v \in Workers : pc'[v] # "body" /\ (Serving(v)' => Serving(v))
    BY <2>2, <1>3, <1>4, ZenonT(60) DEF Reading, Serving
  <2>5. \A v \in Workers, c \in Clients : ~Inside(v, c)'
    BY <2>3, <2>4, <1>1 DEF Inside
  <2>6. \A v \in Workers : Serving(v) => peer'[activeFds[v]] = peer[activeFds[v]]
    <3>1. peer' = peer \/ \E f \in Fds : peer[f] = NoClient /\ peer' = [peer EXCEPT ![f] = Head(backlog)]
      BY <1>6, Zenon DEF ListenAccept, SelectAccept, ListenRefuse, SelectRead, SecondSelect, NewClient, FreeFds
    <3>2. \A v \in Workers : Serving(v) => activeFds[v] \in Fds /\ peer[activeFds[v]] # NoClient
      BY ZenonT(60) DEF ServerInv, UseInv
    <3> QED BY <3>1, <3>2, Types, Zenon
  <2>7. \A v \in Workers, c \in Clients : Answering(v, c)' => Answering(v, c)
    BY <2>4, <2>6, <1>1, ZenonT(60) DEF Answering
  <2> QED BY <2>5, <2>7, <1>1, CleanFrame, Zenon
<1> QED BY <1>5, <1>6, Zenon

\* Reading takes no step on a client that has ended but to remove it.
LEMMA CleanReader ==
  ASSUME ServerInv, CleanInv, NEW w \in Workers, Reading(w), NEW c \in Clients, c = peer[fd], Closed(c)
  PROVE  inbox[c] = <<>> /\ got = 0 /\ recvd(c, Asked(w)) = 0 /\ pc[w] = "header"
<1>1. Stream(c) = <<>> /\ ~Inside(w, c)
  BY Zenon DEF CleanInv, LeftClean, Closed
<1>2. inbox[c] = <<>>
  BY <1>1, StreamTypes, Zenon
<1>3. pc[w] = "header" /\ got = 0
  BY <1>1, Types DEF Inside, Reading
<1>4. Taken(c, Asked(w)) = 0
  BY <1>2, TakenFacts, ZenonT(60)
<1> QED BY <1>2, <1>3, <1>4 DEF recvd

\* A worker takes units of a client that is there.
LEMMA CleanTake ==
  ASSUME ServerInv, CleanInv, NEW w \in Workers, NEW c \in Clients, c = peer[fd], Reading(w),
         inbox[c] # <<>>, UNCHANGED <<proc, conn, sending, peer>>,
         \A d \in Clients \ {c} : inbox'[d] = inbox[d],
         \A v \in Workers \ {w} : pc'[v] = pc[v] /\ activeFds'[v] = activeFds[v],
         Reading(w)' => fd' = fd,
         Serving(w)' => activeFds'[w] = fd
  PROVE  CleanInv'
<1>1. ~Closed(c)
  BY CleanReader, ZenonT(60)
<1>2. ASSUME NEW d \in Clients, conn[d] = "closed"
      PROVE  Stream(d)' = <<>> /\ \A v \in Workers : ~Inside(v, d)' /\ ~Answering(v, d)'
  <2>1. d # c /\ Stream(d) = <<>> /\ \A v \in Workers : ~Inside(v, d) /\ ~Answering(v, d)
    BY <1>1, <1>2, ZenonT(60) DEF Closed, CleanInv, LeftClean
  <2>2. Stream(d)' = <<>>
    BY <2>1, ZenonT(60) DEF Stream
  <2>3. ASSUME NEW v \in Workers \ {w}
        PROVE  ~Inside(v, d)' /\ ~Answering(v, d)'
    <3>1. ~Reading(v)
      BY OneReceiver, ZenonT(60)
    <3> QED BY <2>1, <3>1, ZenonT(60) DEF Inside, Answering, Reading, Serving
  <2>4. ~Inside(w, d)' /\ ~Answering(w, d)'
    BY <2>1, Zenon DEF Inside, Answering
  <2> QED BY <2>2, <2>3, <2>4, ZenonT(60)
<1>3. ServerSurvives'
  BY ZenonT(60) DEF CleanInv, ServerSurvives
<1> QED BY <1>2, <1>3, ZenonT(60) DEF CleanInv, LeftClean

LEMMA CleanRecv ==
  ASSUME ServerInv, CleanInv, NEW w \in Workers, RecvHeader(w) \/ RecvBody(w)
  PROVE  CleanInv'
<1> DEFINE c == peer[fd]
           n == Asked(w)
<1>1. Reading(w) /\ n = IF pc[w] = "header" THEN HdrUnits ELSE reqbuf[w].len
  BY Zenon DEF RecvHeader, RecvBody, Reading, Asked
<1>2. c \in Clients /\ got \in Nat /\ n \in Nat /\ got < n
  BY <1>1, ReaderFacts, ZenonT(60)
<1>3. Taken(c, n) \in Nat /\ got + Taken(c, n) <= n /\ (Taken(c, n) = 0 <=> inbox[c] = <<>>)
  BY <1>1, <1>2, TakenFacts, ZenonT(60)
<1>4. CASE CheckRecvLeft(w, c, n)
  <2>1. Leaves(w, c)
    BY <1>1, <1>4, Zenon DEF Leaves
  <2>2. \A v \in Workers, d \in Clients : ~Inside(v, d)' /\ (Answering(v, d)' => Answering(v, d))
    BY <2>1, <1>2, LeavesFacts, ZenonT(60)
  <2>3. UNCHANGED clientVars /\ UNCHANGED proc
    BY <1>4, Zenon DEF CheckRecvLeft
  <2> QED BY <2>2, <2>3, CleanFrame, Zenon
<1>5. CASE CheckRecvPartial(w, c, n)
  <2>1. recvd(c, n) # 0 /\ (recvd(c, n) >= n \/ Closed(c)) /\ recvd(c, n) # n
    BY <1>5, Zenon DEF CheckRecvPartial, RecvReturns
  <2>2. Closed(c)
    BY <2>1, <1>2, <1>3 DEF recvd
  <2> QED BY <2>1, <2>2, <1>1, <1>2, CleanReader, ZenonT(60)
<1>6. CASE RecvSome(c, n) \/ CheckRecvOk(c, n)
  <2>1. inbox[c] # <<>> /\ Take(c, n)
    BY <1>2, <1>3, <1>6, SMTT(30) DEF RecvSome, CheckRecvOk, recvd
  <2>2. \A d \in Clients \ {c} : inbox'[d] = inbox[d]
    BY <2>1, Zenon DEF Take, ServerInv, TypeOK
  <2>3. ~CheckRecvLeft(w, c, n) /\ ~CheckRecvPartial(w, c, n)
    BY <1>2, <1>3, <1>6, <2>1, ZenonT(60) DEF CheckRecvLeft, CheckRecvPartial, RecvSome, CheckRecvOk, recvd
  <2>4. /\ UNCHANGED <<proc, conn, sending, peer>>
        /\ \/ UNCHANGED <<pc, fd, activeFds>>
           \/ pc' = [pc EXCEPT ![w] = "body"] /\ UNCHANGED <<fd, activeFds>>
           \/ pc' = [pc EXCEPT ![w] = "serve"] /\ activeFds' = [activeFds EXCEPT ![w] = fd]
    <3>1. CASE RecvHeader(w)
      <4>1. n = HdrUnits
        BY <3>1, <1>1, ZenonT(60) DEF RecvHeader
      <4> QED BY <3>1, <4>1, <2>3, ZenonT(60) DEF RecvHeader, Goto
    <3>2. CASE RecvBody(w)
      <4>1. n = reqbuf[w].len
        BY <3>2, <1>1, ZenonT(60) DEF RecvBody
      <4> QED BY <3>2, <4>1, <2>3, ZenonT(60) DEF RecvBody, Goto, StartService, reqVars
    <3> QED BY <3>1, <3>2, Zenon
  <2>5. /\ \A v \in Workers \ {w} : pc'[v] = pc[v] /\ activeFds'[v] = activeFds[v]
        /\ Reading(w)' => fd' = fd
        /\ Serving(w)' => activeFds'[w] = fd
    BY <2>4, <1>1, Types, ZenonT(60) DEF Reading, Serving
  <2> QED BY <2>1, <2>2, <2>4, <2>5, <1>1, <1>2, CleanTake, ZenonT(60)
<1> QED BY <1>1, <1>4, <1>5, <1>6, ZenonT(60) DEF RecvHeader, RecvBody

LEMMA CleanSendResp ==
  ASSUME ServerInv, CleanInv, NEW w \in Workers, SendResp(w)
  PROVE  CleanInv'
<1> DEFINE c == peer[activeFds[w]]
<1>1. c \in Clients /\ Answering(w, c)
  <2>1. activeFds[w] \in Fds /\ c # NoClient /\ Serving(w)
    BY Zenon DEF SendResp, Goto, ServerInv, UseInv, Serving
  <2> QED BY <2>1, Types, Zenon DEF Answering
<1>2. conn[c] \notin {"closed", "reset"}
  BY <1>1, Zenon DEF CleanInv, LeftClean
<1>3. /\ UNCHANGED <<proc, conn, fd, got, activeFds, peer, sending, inbox>>
      /\ pc' = [pc EXCEPT ![w] = "idle"]
  BY <1>2, ZenonT(60) DEF SendResp, respFd, Goto, recvVars, reqVars
<1>4. \A v \in Workers, d \in Clients : (Inside(v, d)' => Inside(v, d)) /\ (Answering(v, d)' => Answering(v, d))
  BY <1>3, Types, Zenon DEF Inside, Answering, Reading, Serving
<1>5. \A d \in Clients : Stream(d)' = Stream(d)
  BY <1>3, Zenon DEF Stream
<1>6. ServerSurvives'
  BY <1>3, Zenon DEF CleanInv, ServerSurvives
<1> QED BY <1>3, <1>4, <1>5, <1>6, Zenon DEF CleanInv, LeftClean

LEMMA CleanClient ==
  ASSUME ~ClientsCrash, ServerInv, CleanInv, NEW c \in Clients, Client(c)
  PROVE  CleanInv'
<1>1. UNCHANGED <<proc, pc, recvLock, recvVars, reqVars, peer>>
  BY Zenon DEF Client, Connect, ClientSends, Arrive, ClientLeaves, ClientCrashes
<1>2. SameHolders
  BY <1>1, ClientFrame, Zenon
<1>3. /\ conn'[c] # "reset"
      /\ \A d \in Clients \ {c} : conn'[d] = conn[d] /\ sending'[d] = sending[d] /\ inbox'[d] = inbox[d]
  <2>1. conn' = conn \/ conn' = [conn EXCEPT ![c] = "open"] \/ conn' = [conn EXCEPT ![c] = "closed"]
    BY Zenon DEF Client, Connect, ClientSends, Arrive, ClientLeaves, ClientCrashes
  <2>2. conn'[c] # "reset" /\ \A d \in Clients \ {c} : conn'[d] = conn[d]
    BY <2>1, Types, ZenonT(40) DEF CleanInv, LeftClean
  <2>3. \A d \in Clients \ {c} : sending'[d] = sending[d] /\ inbox'[d] = inbox[d]
    BY ZenonT(60) DEF Client, Connect, ClientSends, Arrive, ClientLeaves, ClientCrashes, ServerInv, TypeOK
  <2> QED BY <2>2, <2>3, ZenonT(60)
<1>4. ASSUME NEW d \in Clients \ {c}
      PROVE  LeftClean(d)'
  <2>1. LeftClean(d) /\ Stream(d)' = Stream(d)
    BY <1>3, Zenon DEF CleanInv, Stream
  <2> QED BY <2>1, <1>2, <1>3, ZenonT(60) DEF LeftClean, SameHolders
<1>5. ASSUME conn'[c] = "closed"
      PROVE  Stream(c)' = <<>> /\ \A w \in Workers : ~Inside(w, c)' /\ ~Answering(w, c)'
  <2>1. CASE ClientLeaves(c)
    <3>1. InStream(c) = {} /\ \A w \in Workers : ~Inside(w, c) /\ ~Answering(w, c)
      BY <2>1, ZenonT(60) DEF ClientLeaves, ServerInv, OwnerInv, OwnerOf
    <3>2. Stream(c) \in Seq(Unit)
      BY StreamTypes, Zenon
    <3>3. DOMAIN Stream(c) = {}
      BY <3>1, Zenon DEF InStream
    <3>4. Stream(c) = <<>>
      BY <3>2, <3>3
    <3>5. Stream(c)' = Stream(c)
      BY <2>1, Zenon DEF ClientLeaves, Stream
    <3> QED BY <3>1, <3>4, <3>5, <1>2, ZenonT(60) DEF SameHolders
  <2>2. CASE ~ClientLeaves(c)
    <3>1. Connect(c) => conn'[c] = "open"
      BY Types, Zenon DEF Connect
    <3>2. ClientSends(c) => conn'[c] = "open"
      BY Zenon DEF ClientSends
    <3>3. Arrive(c) => conn[c] = "open" /\ conn'[c] = conn[c]
      BY ZenonT(60) DEF Arrive, ServerInv, StreamInv, StreamOf
    <3> QED BY <2>2, <3>1, <3>2, <3>3, <1>5, Zenon DEF Client, ClientCrashes
  <2> QED BY <2>1, <2>2, Zenon
<1>6. ServerSurvives'
  BY <1>1, Zenon DEF CleanInv, ServerSurvives
<1> QED BY <1>3, <1>4, <1>5, <1>6, ZenonT(60) DEF CleanInv, LeftClean

\* "SERVER DOESNT DIE" (tbench_server_networked.cpp:270), for clients that end
\* only when their requests have been answered: recvReq meets no partial
\* request, sendResp and finish no connection that was reset.
THEOREM ServerOutlivesClients ==
  ASSUME ~ClientsCrash
  PROVE  Spec => []ServerSurvives
<1>1. Init => CleanInv
  BY Zenon DEF Init, CleanInv, LeftClean, ServerSurvives
<1>2. ASSUME ServerInv, CleanInv, [Next]_vars
      PROVE  CleanInv'
  <2>1. ASSUME NEW w \in Workers, Worker(w)
        PROVE  CleanInv'
    BY <1>2, <2>1, CleanSelect, CleanRecv, CleanSendResp, Zenon DEF Worker
  <2>2. ASSUME NEW c \in Clients, Client(c)
        PROVE  CleanInv'
    BY <1>2, <2>2, CleanClient, Zenon
  <2>3. CASE finish
    <3>1. \A i \in DOMAIN clientFds : conn[peer[clientFds[i]]] # "reset"
      <4>1. \A i \in DOMAIN clientFds : peer[clientFds[i]] \in Clients
        BY <1>2, Types, ZenonT(60) DEF ServerInv, FdInv
      <4> QED BY <4>1, <1>2, Zenon DEF CleanInv, LeftClean
    <3>2. proc' = "returned" /\ UNCHANGED <<pc, fd, got, activeFds, peer, conn, sending, inbox>>
      BY <2>3, <3>1, ZenonT(60) DEF finish, recvVars, reqVars, clientVars
    <3> QED BY <1>2, <3>2, Zenon DEF CleanInv, LeftClean, ServerSurvives, Stream, Inside, Answering, Reading, Serving
  <2>4. CASE UNCHANGED vars
    BY <1>2, <2>4, Zenon DEF vars, recvVars, reqVars, clientVars, CleanInv, LeftClean, ServerSurvives, Stream,
                      Inside, Answering, Reading, Serving
  <2> QED BY <1>2, <2>1, <2>2, <2>3, <2>4, Zenon DEF Next, Ended
<1>3. CleanInv => ServerSurvives
  BY Zenon DEF CleanInv
<1> QED BY <1>1, <1>2, <1>3, ServerInvariance, PTL DEF Spec

=============================================================================
