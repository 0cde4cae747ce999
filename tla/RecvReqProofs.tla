---------------------------- MODULE RecvReqProofs ----------------------------
(* Proofs about NetworkedServer: streams of units, and the part of recvReq   *)
(* around select.                                                            *)
EXTENDS NetworkedServer, TLAPS

-----------------------------------------------------------------------------
(* Sequences of units.                                                     *)

\* Arrive: a unit moves on, the stream stays.
LEMMA ArriveKeepsStream ==
  ASSUME NEW S, NEW s \in Seq(S), NEW t \in Seq(S), t # <<>>
  PROVE  /\ Append(s, Head(t)) \in Seq(S)
         /\ Tail(t) \in Seq(S)
         /\ Append(s, Head(t)) \o Tail(t) = s \o t
BY SMTT(30)

\* r is what is left of the stream s after its first k units.
SuffixOf(r, s, k) ==
  /\ s \in Seq(Unit) /\ r \in Seq(Unit) /\ k \in 0..Len(s)
  /\ Len(r) = Len(s) - k
  /\ \A i \in 1..Len(r) : r[i] = s[k + i]

\* recv: the first k units of the inbox are taken from the stream.
LEMMA TakeFromStream ==
  ASSUME NEW s \in Seq(Unit), NEW t \in Seq(Unit), NEW k \in 0..Len(s)
  PROVE  SuffixOf(SubSeq(s, k + 1, Len(s)) \o t, s \o t, k)
<1> DEFINE r == SubSeq(s, k + 1, Len(s))
<1>1. r \in Seq(Unit) /\ r \o t \in Seq(Unit) /\ s \o t \in Seq(Unit) /\ Len(s \o t) \in Nat /\ Len(s) <= Len(s \o t)
  OBVIOUS
<1>2. Len(r \o t) = Len(s \o t) - k
  OBVIOUS
<1>3. \A i \in 1..Len(r \o t) : (r \o t)[i] = (s \o t)[k + i]
  BY SMTT(30)
<1>4. k \in 0..Len(s \o t)
  BY <1>1
<1> QED BY <1>1, <1>2, <1>3, <1>4, Zenon DEF SuffixOf

\* erase: the elements before and after the one erased stay in order.
LEMMA EraseFacts ==
  ASSUME NEW S, NEW s \in Seq(S), NEW i \in 1..Len(s)
  PROVE  LET r == SubSeq(s, 1, i - 1) \o SubSeq(s, i + 1, Len(s))
         IN  /\ r \in Seq(S)
             /\ Len(r) = Len(s) - 1
             /\ \A j \in 1..Len(r) : r[j] = IF j < i THEN s[j] ELSE s[j + 1]
<1> DEFINE a == SubSeq(s, 1, i - 1)
           b == SubSeq(s, i + 1, Len(s))
<1>1. a \in Seq(S) /\ Len(a) = i - 1 /\ \A j \in 1..(i - 1) : a[j] = s[j]
  OBVIOUS
<1>2. b \in Seq(S) /\ Len(b) = Len(s) - i /\ \A j \in 1..(Len(s) - i) : b[j] = s[i + j]
  OBVIOUS
<1>3. Len(s) \in Nat /\ i \in 1..Len(s)
  OBVIOUS
<1> HIDE DEF a, b
<1>4. a \o b \in Seq(S) /\ Len(a \o b) = Len(s) - 1
  <2>0. a \in Seq(S) /\ b \in Seq(S)
    BY <1>1, <1>2, Zenon
  <2>1. a \o b \in Seq(S) /\ Len(a \o b) = Len(a) + Len(b)
    BY <2>0
  <2> QED BY <2>1, <1>1, <1>2, <1>3
<1>5. ASSUME NEW j \in 1..(Len(s) - 1)
      PROVE  (a \o b)[j] = IF j < i THEN s[j] ELSE s[j + 1]
  <2>1. CASE j < i
    BY <2>1, <1>1, <1>2, <1>3
  <2>2. CASE j >= i
    <3>1. (a \o b)[j] = b[j - (i - 1)]
      BY <2>2, <1>1, <1>2, <1>3, SMTT(30)
    <3>2. j - (i - 1) \in 1..(Len(s) - i) /\ i + (j - (i - 1)) = j + 1
      BY <2>2, <1>3
    <3> QED BY <3>1, <3>2, <2>2, <1>2
  <2>3. j < i \/ j >= i
    BY <1>3
  <2> QED BY <2>1, <2>2, <2>3, Zenon
<1>6. DOMAIN (a \o b) = 1..(Len(s) - 1)
  BY <1>4
<1> QED BY <1>4, <1>5, <1>6, Zenon DEF a, b

LEMMA UnitFacts ==
  ASSUME NEW u \in Unit
  PROVE  /\ u.id \in Ids /\ u.len \in BodyLens /\ u.len \in Nat \ {0} /\ u.pos \in Nat \ {0}
         /\ Left(u) \in Nat
         /\ u = [id |-> u.id, len |-> u.len, pos |-> u.pos]
<1>1. u \in [id : Ids, len : BodyLens, pos : Nat] /\ u.pos \in 1..(HdrUnits + u.len)
  BY Zenon DEF Unit
<1>2. u.id \in Ids /\ u.len \in BodyLens /\ u.pos \in Nat
  BY <1>1, Zenon
<1>3. u = [id |-> u.id, len |-> u.len, pos |-> u.pos]
  BY <1>1, Zenon
<1>4. u.len \in Nat \ {0} /\ HdrUnits \in Nat \ {0}
  BY <1>2, ServerAssumption, Zenon
<1> QED BY <1>1, <1>2, <1>3, <1>4 DEF Left

\* What is left of a well-formed stream after the first k units.
LEMMA FormedSuffix ==
  ASSUME NEW s, NEW r, NEW k, SuffixOf(r, s, k), WellFormed(s)
  PROVE  /\ WellFormed(r)
         /\ k > 0 => \A i \in DOMAIN r : Follows(s[k], r[i], i)
         /\ r # <<>> => r[Len(r)] = s[Len(s)]
<1> USE DEF SuffixOf
<1>1. ASSUME NEW i \in DOMAIN r, NEW j \in DOMAIN r, i < j
      PROVE  Follows(r[i], r[j], j - i)
  <2>1. k + i \in DOMAIN s /\ k + j \in DOMAIN s /\ k + i < k + j /\ (k + j) - (k + i) = j - i
    BY <1>1, SMTT(30)
  <2>2. Follows(s[k + i], s[k + j], (k + j) - (k + i))
    BY <2>1, Zenon DEF WellFormed
  <2>3. r[i] = s[k + i] /\ r[j] = s[k + j]
    BY <1>1
  <2> QED BY <2>1, <2>2, <2>3, Zenon
<1>2. ASSUME NEW i \in DOMAIN r, k > 0
      PROVE  Follows(s[k], r[i], i)
  <2>1. k \in DOMAIN s /\ k + i \in DOMAIN s /\ k < k + i /\ (k + i) - k = i
    BY <1>2
  <2>2. Follows(s[k], s[k + i], (k + i) - k)
    BY <2>1, Zenon DEF WellFormed
  <2> QED BY <2>1, <2>2
<1>3. r # <<>> => r[Len(r)] = s[Len(s)]
  BY SMTT(30)
<1> QED BY <1>1, <1>2, <1>3, Zenon DEF WellFormed

LEMMA GapFacts ==
  ASSUME NEW i \in Int, NEW j \in Int, NEW l \in Int, NEW m \in Int, m <= l - i, l < j
  PROVE  j - i > m /\ ~(j - i <= m) /\ (j - i = m + 1 => j - l = 1)
OBVIOUS

\* Where the elements of a concatenation come from.
LEMMA ConcatFacts ==
  ASSUME NEW S, NEW s \in Seq(S), NEW t \in Seq(S)
  PROVE  /\ s \o t \in Seq(S) /\ Len(s \o t) = Len(s) + Len(t)
         /\ Len(s) \in Nat /\ Len(t) \in Nat
         /\ DOMAIN (s \o t) = 1..(Len(s) + Len(t))
         /\ \A i \in 1..Len(s) : (s \o t)[i] = s[i]
         /\ \A i \in 1..Len(t) : (s \o t)[Len(s) + i] = t[i]
<1>1. s \o t \in Seq(S) /\ Len(s \o t) = Len(s) + Len(t)
  OBVIOUS
<1>2. \A i \in 1..Len(s) : (s \o t)[i] = s[i]
  OBVIOUS
<1>3. \A i \in 1..Len(t) : (s \o t)[Len(s) + i] = t[i]
  OBVIOUS
<1> QED BY <1>1, <1>2, <1>3

\* The units of one request follow one another.
LEMMA UnitsFollow ==
  ASSUME NEW id, NEW n \in Nat, HdrUnits \in Nat,
         NEW p \in Nat, NEW q \in Nat, p < q, q <= HdrUnits + n
  PROVE  Follows([id |-> id, len |-> n, pos |-> p], [id |-> id, len |-> n, pos |-> q], q - p)
<1>1. Left([id |-> id, len |-> n, pos |-> p]) = HdrUnits + n - p
  BY Zenon DEF Left
<1>2. p + (q - p) = q /\ q - p # HdrUnits + n - p + 1 /\ ~(q - p > HdrUnits + n - p)
  OBVIOUS
<1> QED BY <1>1, <1>2, Zenon DEF Follows

\* ClientSends: a stream that ends with a request takes another one, of an id
\* that is not in it.
LEMMA FormedAppend ==
  ASSUME NEW s \in Seq(Unit), WellFormed(s), s # <<>> => Left(s[Len(s)]) = 0,
         NEW id \in Ids, NEW n \in BodyLens, \A i \in DOMAIN s : s[i].id # id
  PROVE  /\ Units(id, n) \in Seq(Unit)
         /\ WellFormed(s \o Units(id, n))
<1> DEFINE t == Units(id, n)
<1>0. n \in Nat \ {0} /\ HdrUnits \in Nat \ {0}
  BY ServerAssumption, Zenon
<1>1. t \in Seq(Unit) /\ Len(t) = HdrUnits + n
  BY <1>0 DEF Units, Unit
<1>2. \A i \in 1..(HdrUnits + n) : t[i] = [id |-> id, len |-> n, pos |-> i]
  BY <1>0, Zenon DEF Units
<1> HIDE DEF t
<1>3. s \o t \in Seq(Unit) /\ DOMAIN (s \o t) = 1..(Len(s) + Len(t))
  BY <1>1, ConcatFacts, ZenonT(40)
<1>4. \A i \in 1..Len(s) : (s \o t)[i] = s[i]
  BY <1>1, ConcatFacts
<1>5. \A i \in 1..Len(t) : (s \o t)[Len(s) + i] = t[i]
  BY <1>1, ConcatFacts
<1>6. ASSUME NEW i \in DOMAIN (s \o t), NEW j \in DOMAIN (s \o t), i < j
      PROVE  Follows((s \o t)[i], (s \o t)[j], j - i)
  <2>0. i \in 1..(Len(s) + Len(t)) /\ j \in 1..(Len(s) + Len(t)) /\ Len(s) \in Nat /\ Len(t) \in Nat
    BY <1>3, <1>1, <1>0
  <2>1. CASE j <= Len(s)
    BY <2>1, <2>0, <1>4, <1>6 DEF WellFormed
  <2>2. CASE i > Len(s)
    <3>1. (s \o t)[i] = [id |-> id, len |-> n, pos |-> i - Len(s)]
      BY <2>0, <2>2, <1>1, <1>2, <1>5, SMTT(30)
    <3>2. (s \o t)[j] = [id |-> id, len |-> n, pos |-> j - Len(s)]
      BY <2>0, <2>2, <1>1, <1>2, <1>5, <1>6
    <3>3. /\ i - Len(s) \in Nat /\ j - Len(s) \in Nat /\ i - Len(s) < j - Len(s)
          /\ j - Len(s) <= HdrUnits + n /\ (j - Len(s)) - (i - Len(s)) = j - i
      BY <2>0, <2>2, <1>0, <1>1, <1>6, SMTT(30)
    <3>4. Follows([id |-> id, len |-> n, pos |-> i - Len(s)],
                  [id |-> id, len |-> n, pos |-> j - Len(s)], (j - Len(s)) - (i - Len(s)))
      BY <3>3, <1>0, UnitsFollow, Zenon
    <3> QED BY <3>1, <3>2, <3>3, <3>4, Zenon
  <2>3. CASE i <= Len(s) /\ j > Len(s)
    <3> DEFINE u == s[i]
               z == s[Len(s)]
    <3>1. (s \o t)[i] = u /\ u \in Unit /\ u.id # id
      BY <2>0, <2>3, <1>4
    <3>2. (s \o t)[j] = [id |-> id, len |-> n, pos |-> j - Len(s)]
      BY <2>0, <2>3, <1>1, <1>2, <1>5, SMTT(30)
    <3>3. z \in Unit /\ Left(z) = 0
      BY <2>0, <2>3
    <3>4. i < Len(s) => Follows(u, z, Len(s) - i)
      BY <2>0, <2>3 DEF WellFormed
    <3>5. /\ Left(u) \in Nat /\ u.len \in Nat /\ u.pos \in Nat
          /\ z.len \in Nat /\ z.pos \in Nat
      BY <3>1, <3>3, UnitFacts, Zenon
    <3> HIDE DEF u, z
    <3>6. Left(u) <= Len(s) - i
      <4>1. CASE i = Len(s)
        BY <4>1, <3>3, <2>0 DEF u, z
      <4>2. CASE i < Len(s) /\ Len(s) - i <= Left(u)
        <5>1. z = [id |-> u.id, len |-> u.len, pos |-> u.pos + (Len(s) - i)]
          BY <4>2, <3>4, Zenon DEF Follows
        <5>2. z.len = u.len /\ z.pos = u.pos + (Len(s) - i)
          BY <5>1, Zenon
        <5>3. HdrUnits + z.len - z.pos = 0 /\ Left(u) = HdrUnits + u.len - u.pos
          BY <3>3, Zenon DEF Left
        <5> QED BY <5>2, <5>3, <3>5, <2>0, <1>0, SMTT(30)
      <4> QED BY <4>1, <4>2, <3>5, <2>0, <2>3, SMTT(30)
    <3>7. i \in Int /\ j \in Int /\ Len(s) \in Int /\ Left(u) \in Int /\ Len(s) < j
      BY <3>5, <2>0, <2>3
    <3>8. j - i > Left(u) /\ ~(j - i <= Left(u)) /\ (j - i = Left(u) + 1 => j - Len(s) = 1)
      BY <3>6, <3>7, GapFacts, Zenon
    <3> QED BY <3>1, <3>2, <3>8 DEF Follows
  <2> QED BY <2>0, <2>1, <2>2, <2>3
<1> QED BY <1>1, <1>3, <1>6, Zenon DEF WellFormed, t

-----------------------------------------------------------------------------
(* Frames.                                                                 *)

LEMMA Types ==
  ASSUME ServerInv
  PROVE  /\ pc \in [Workers -> {"idle", "select", "select2", "header", "body", "serve", "done"}]
         /\ clientFds \in Seq(Fds) /\ DOMAIN clientFds = 1..Len(clientFds) /\ Len(clientFds) \in Nat
         /\ \A i \in DOMAIN clientFds : clientFds[i] \in Fds
         /\ backlog \in Seq(Clients)
         /\ peer \in [Fds -> Clients \cup {NoClient}]
         /\ conn \in [Clients -> {"new", "open", "closed", "reset"}]
         /\ outstanding \in [Clients -> SUBSET Ids]
         /\ reqInfo \in [Workers -> Ids \cup {NoReq}]
         /\ activeFds \in [Workers -> Fds \cup {0}]
         /\ reqbuf \in [Workers -> Hdr]
         /\ recvLock \in Workers \cup {NoThread}
         /\ fd \in Fds \cup {0} /\ got \in Nat /\ recvClientHead \in Nat
BY DEF ServerInv, TypeOK

LEMMA StreamTypes ==
  ASSUME ServerInv
  PROVE  /\ \A c \in Clients : inbox[c] \in Seq(Unit) /\ sending[c] \in Seq(Unit) /\ Stream(c) \in Seq(Unit)
         /\ \A c \in Clients : Stream(c) = <<>> <=> inbox[c] = <<>> /\ sending[c] = <<>>
BY DEF ServerInv, TypeOK, Stream

\* recvLock: one worker at most is in the loop of recvReq.
LEMMA OneReceiver ==
  ASSUME ServerInv, NEW v \in Workers, NEW w \in Workers,
         pc[v] \in {"select", "select2"} \/ Reading(v),
         pc[w] \in {"select", "select2"} \/ Reading(w)
  PROVE  v = w
BY Zenon DEF ServerInv, RecvLockInv

\* Steps that neither touch the clients nor what the workers hold of them.
LEMMA StreamsFrame ==
  ASSUME ServerInv, UNCHANGED clientVars,
         \A w \in Workers, c \in Clients :
           /\ Inside(w, c)' <=> Inside(w, c)
           /\ Answering(w, c)' <=> Answering(w, c)
           /\ Inside(w, c) => LastTaken(w)' = LastTaken(w) /\ reqbuf'[w] = reqbuf[w]
           /\ Answering(w, c) => reqInfo'[w] = reqInfo[w]
  PROVE  StreamInv' /\ OwnerInv' /\ NoRequestLost'
<1>1. UNCHANGED <<conn, sending, inbox, outstanding>>
  BY Zenon DEF clientVars
<1>2. ASSUME NEW c \in Clients
      PROVE  Stream(c)' = Stream(c) /\ InStream(c)' = InStream(c)
  BY <1>1, Zenon DEF Stream, InStream
<1>3. StreamInv'
  BY <1>1, <1>2 DEF ServerInv, StreamInv, StreamOf
<1>4. OwnerInv'
  BY <1>1, <1>2 DEF ServerInv, OwnerInv, OwnerOf
<1>5. NoRequestLost'
  BY <1>1, <1>2 DEF ServerInv, NoRequestLost, Held
<1> QED BY <1>3, <1>4, <1>5, Zenon

-----------------------------------------------------------------------------
(* recvReq: the loop around select, and the steps that leave it alone.     *)

\* A worker locks recvLock, or ends.
LEMMA LockRecvInv ==
  ASSUME ServerInv, NEW w \in Workers, LockRecv(w) \/ WorkerEnds(w)
  PROVE  ServerInv'
<1>1. /\ UNCHANGED <<proc, recvVars, reqVars, peer, backlog, clientVars>>
      /\ pc[w] = "idle"
      /\ \/ recvLock = NoThread /\ recvLock' = w /\ pc' = [pc EXCEPT ![w] = "select"]
         \/ recvLock' = recvLock /\ pc' = [pc EXCEPT ![w] = "done"]
  BY Zenon DEF LockRecv, WorkerEnds, Goto
<1>2. TypeOK'
  BY <1>1, Zenon DEF ServerInv, TypeOK, recvVars, reqVars, clientVars
<1>3. RecvLockInv'
  BY <1>1, Types, ServerAssumption DEF ServerInv, RecvLockInv, Reading
<1>4. \A v \in Workers : Reading(v)' = Reading(v) /\ Serving(v)' = Serving(v) /\ (pc'[v] = "select2" <=> pc[v] = "select2")
  BY <1>1, Types, SMTT(30) DEF Reading, Serving
<1>5. FdInv' /\ UseInv'
  BY <1>1, <1>4 DEF ServerInv, FdInv, UseInv, InVector, recvVars, reqVars, clientVars
<1>6. GotInv'
  BY <1>1, Types, ZenonT(40) DEF ServerInv, GotInv, Reading, recvVars, reqVars
<1>7. StreamInv' /\ OwnerInv' /\ NoRequestLost'
  <2>1. ASSUME NEW v \in Workers, NEW c \in Clients
        PROVE  /\ Inside(v, c)' <=> Inside(v, c)
               /\ Answering(v, c)' <=> Answering(v, c)
               /\ Inside(v, c) => LastTaken(v)' = LastTaken(v) /\ reqbuf'[v] = reqbuf[v]
               /\ Answering(v, c) => reqInfo'[v] = reqInfo[v]
    BY <1>1, Types, Zenon DEF Inside, Answering, LastTaken, Reading, Serving, recvVars, reqVars
  <2> QED BY <1>1, <2>1, StreamsFrame, Zenon
<1>8. RemovedOnlyIfExited'
  BY <1>1, Zenon DEF ServerInv, RemovedOnlyIfExited, Closed, InVector, recvVars, clientVars
<1> QED BY <1>2, <1>3, <1>5, <1>6, <1>7, <1>8, Zenon DEF ServerInv

\* A connection is accepted: a free descriptor gets a client that had none.
LEMMA AcceptInv ==
  ASSUME ServerInv, NEW w \in Workers, ListenAccept(w) \/ SelectAccept(w)
  PROVE  ServerInv'
<1>1. /\ UNCHANGED <<proc, recvLock, fd, got, reqVars, clientVars>>
      /\ recvClientHead' \in {0, recvClientHead}
      /\ pc[w] = "select"
      /\ pc' = pc \/ pc' = [pc EXCEPT ![w] = "select2"]
      /\ NewClient
  BY Zenon DEF ListenAccept, SelectAccept, Goto
<1>2. PICK f \in Fds :
        /\ peer[f] = NoClient
        /\ peer' = [peer EXCEPT ![f] = Head(backlog)]
        /\ clientFds' = Append(clientFds, f)
  BY <1>1, Zenon DEF NewClient, FreeFds
<1>3. /\ backlog \in Seq(Clients) /\ backlog # <<>> /\ Head(backlog) \in Clients
      /\ Head(backlog) = backlog[1] /\ 1 \in DOMAIN backlog
      /\ backlog' = Tail(backlog) /\ backlog' \in Seq(Clients)
      /\ \A i \in DOMAIN backlog' : i + 1 \in DOMAIN backlog /\ backlog'[i] = backlog[i + 1]
  BY <1>1, Types DEF NewClient
<1>4. /\ clientFds' \in Seq(Fds) /\ Len(clientFds') = Len(clientFds) + 1
      /\ \A i \in 1..Len(clientFds) : clientFds'[i] = clientFds[i]
      /\ clientFds'[Len(clientFds) + 1] = f
      /\ DOMAIN clientFds' = 1..(Len(clientFds) + 1)
  <2>1. clientFds \in Seq(Fds) /\ clientFds' = Append(clientFds, f)
    BY <1>2, Types, Zenon
  <2> QED BY <2>1
<1>5. \A g \in Fds : peer'[g] = IF g = f THEN Head(backlog) ELSE peer[g]
  BY <1>2, Types, Zenon
<1>6. TypeOK'
  <2>1. peer' \in [Fds -> Clients \cup {NoClient}]
    BY <1>2, <1>3, Types, Zenon
  <2>2. recvClientHead' \in Nat /\ pc' \in [Workers -> {"idle", "select", "select2", "header", "body", "serve", "done"}]
    BY <1>1, Types, SMTT(30)
  <2> QED BY <1>1, <1>3, <1>4, <2>1, <2>2, Zenon DEF ServerInv, TypeOK, reqVars, clientVars
<1>7. RecvLockInv'
  BY <1>1, Types, Zenon DEF ServerInv, RecvLockInv, Reading
<1>8. \A v \in Workers : Reading(v)' = Reading(v) /\ Serving(v)' = Serving(v)
  BY <1>1, Types DEF Reading, Serving
<1>9. FdInv'
  <2>1. \A i, j \in DOMAIN clientFds' : clientFds'[i] = clientFds'[j] => i = j
    <3>1. \A i \in 1..Len(clientFds) : clientFds[i] # f
      BY <1>2, Types, Zenon DEF ServerInv, FdInv
    <3>2. \A i, j \in 1..Len(clientFds) : clientFds[i] = clientFds[j] => i = j
      BY Types, Zenon DEF ServerInv, FdInv
    <3> QED BY <3>1, <3>2, <1>4, Types, SMTT(30)
  <2>2. \A i \in DOMAIN clientFds' : peer'[clientFds'[i]] # NoClient
    <3>1. \A i \in 1..Len(clientFds) : peer[clientFds[i]] # NoClient /\ clientFds[i] \in Fds
      BY Types, Zenon DEF ServerInv, FdInv
    <3>2. peer'[f] # NoClient
      BY <1>3, <1>5, ServerAssumption, Zenon
    <3>3. ASSUME NEW i \in DOMAIN clientFds'
          PROVE  clientFds'[i] = f \/ \E j \in 1..Len(clientFds) : clientFds'[i] = clientFds[j]
      BY <1>4, Types, SMTT(30)
    <3>4. \A j \in 1..Len(clientFds) : peer'[clientFds[j]] # NoClient
      BY <3>1, <3>2, <1>5, Zenon
    <3> QED BY <3>2, <3>3, <3>4, Zenon
  <2>3. \A g \in Fds : peer[g] # Head(backlog)
    BY <1>3 DEF ServerInv, FdInv
  <2>4. \A g, h \in Fds : peer'[g] # NoClient /\ peer'[g] = peer'[h] => g = h
    BY <1>5, <2>3, ZenonT(40) DEF ServerInv, FdInv
  <2>5. \A i, j \in DOMAIN backlog' : backlog'[i] = backlog'[j] => i = j
    BY <1>3 DEF ServerInv, FdInv
  <2>6. \A i \in DOMAIN backlog' : \A g \in Fds : peer'[g] # backlog'[i]
    BY <1>3, <1>5, SMTT(30) DEF ServerInv, FdInv
  <2>7. ASSUME NEW c \in Clients, conn'[c] = "new"
        PROVE  (\A i \in DOMAIN backlog' : backlog'[i] # c) /\ (\A g \in Fds : peer'[g] # c)
    BY <2>7, <1>1, <1>3, <1>5 DEF ServerInv, FdInv, clientVars
  <2> QED BY <2>1, <2>2, <2>4, <2>5, <2>6, <2>7, Zenon DEF FdInv
<1>10. \A g : InVector(g) => InVector(g)'
  BY <1>4, Types DEF InVector
<1>11. UseInv'
  <2>1. clientFds' # <<>>
    BY <1>4, Types
  <2>2. ASSUME NEW v \in Workers, Serving(v)
        PROVE  activeFds'[v] \in Fds /\ peer'[activeFds'[v]] # NoClient
    BY <2>2, <1>1, <1>3, <1>5, ServerAssumption DEF ServerInv, UseInv, reqVars
  <2>3. fd' = fd
    BY <1>1, Zenon
  <2> QED BY <2>1, <2>2, <2>3, <1>8, <1>10, Zenon DEF ServerInv, UseInv
<1>12. GotInv'
  BY <1>1, Types, Zenon DEF ServerInv, GotInv, Reading, reqVars
<1>13. StreamInv' /\ OwnerInv' /\ NoRequestLost'
  <2>1. ASSUME NEW v \in Workers, NEW c \in Clients
        PROVE  /\ Inside(v, c)' <=> Inside(v, c)
               /\ Answering(v, c)' <=> Answering(v, c)
               /\ Inside(v, c) => LastTaken(v)' = LastTaken(v) /\ reqbuf'[v] = reqbuf[v]
               /\ Answering(v, c) => reqInfo'[v] = reqInfo[v]
    <3>1. pc'[v] # pc[v] => pc[v] = "select" /\ pc'[v] = "select2"
      BY <1>1, Types, Zenon
    <3>2. Reading(v) => fd \in Fds /\ fd # f
      <4>1. Reading(v) => fd \in Fds /\ \E i \in DOMAIN clientFds : clientFds[i] = fd
        BY Zenon DEF ServerInv, UseInv, InVector
      <4> QED BY <4>1, <1>2, Zenon DEF ServerInv, FdInv
    <3>3. Serving(v) => activeFds[v] \in Fds /\ activeFds[v] # f
      BY <1>2, Zenon DEF ServerInv, UseInv
    <3> QED BY <3>1, <3>2, <3>3, <1>1, <1>5, Zenon DEF Inside, Answering, LastTaken, Reading, Serving, reqVars
  <2>2. UNCHANGED clientVars
    BY <1>1, Zenon
  <2> QED BY <2>1, <2>2, StreamsFrame, Zenon
<1>14. RemovedOnlyIfExited'
  <2>1. InVector(f)'
    BY <1>4, Types, SMTT(30) DEF InVector
  <2>2. ASSUME NEW g \in Fds, g # f, peer'[g] # NoClient, ~Closed(peer[g])'
        PROVE  InVector(g)
    <3>1. peer'[g] = peer[g] /\ conn' = conn
      BY <2>2, <1>1, <1>5, Zenon DEF clientVars
    <3> QED BY <2>2, <3>1, Zenon DEF ServerInv, RemovedOnlyIfExited, Closed
  <2> QED BY <2>1, <2>2, <1>10, Zenon DEF RemovedOnlyIfExited
<1> QED BY <1>6, <1>7, <1>9, <1>11, <1>12, <1>13, <1>14, Zenon DEF ServerInv

\* The scan finds a connection of the vector.
LEMMA ScanFacts ==
  ASSUME ServerInv, clientFds # <<>>
  PROVE  /\ (recvClientHead + 1) % Len(clientFds) \in Nat
         /\ \A i \in Nat : InVector(fromHead(i))
<1>1. Len(clientFds) \in Nat \ {0} /\ recvClientHead \in Nat /\ DOMAIN clientFds = 1..Len(clientFds)
  BY Types
<1>2. ASSUME NEW n \in Nat
      PROVE  n % Len(clientFds) \in Nat /\ (n % Len(clientFds)) + 1 \in 1..Len(clientFds)
  BY <1>1
<1>3. ASSUME NEW i \in Nat
      PROVE  InVector(fromHead(i))
  <2>1. recvClientHead + i \in Nat
    BY <1>1
  <2>2. ((recvClientHead + i) % Len(clientFds)) + 1 \in DOMAIN clientFds
    BY <2>1, <1>1, <1>2, Zenon
  <2> QED BY <2>2, Zenon DEF fromHead, InVector
<1> QED BY <1>1, <1>2, <1>3

\* The backlog is left alone or loses a connection, and a connection of the
\* vector may be picked.
LEMMA SelectInv ==
  ASSUME ServerInv, NEW w \in Workers,
         ListenRefuse(w) \/ SelectRead(w) \/ SecondSelect(w)
  PROVE  ServerInv'
<1>1. /\ UNCHANGED <<proc, recvLock, clientFds, got, reqVars, peer, clientVars>>
      /\ backlog' = backlog \/ (backlog # <<>> /\ backlog' = Tail(backlog))
      /\ pc[w] \in {"select", "select2"}
  BY Zenon DEF ListenRefuse, SelectRead, SecondSelect, PickClient, NoNewClient, Goto, recvVars
<1>2. /\ recvClientHead' \in Nat
      /\ \/ fd' = fd /\ (pc' = pc \/ pc' = [pc EXCEPT ![w] = "select"])
         \/ fd' \in Fds /\ InVector(fd') /\ pc' = [pc EXCEPT ![w] = "header"]
  <2>1. CASE ListenRefuse(w)
    BY <2>1, Types, Zenon DEF ListenRefuse, recvVars
  <2>2. CASE clientFds # <<>> /\ (PickClient(w, "select") \/ PickClient(w, "select2"))
    <3>1. recvClientHead' \in Nat
      BY <2>2, ScanFacts, Zenon DEF PickClient
    <3>2. ASSUME NEW f \in Fds, FirstReadable(f)
          PROVE  InVector(f)
      BY <2>2, <3>2, ScanFacts DEF FirstReadable
    <3> QED BY <2>2, <3>1, <3>2, Zenon DEF PickClient, Goto
  <2>3. SecondSelect(w) => clientFds # <<>>
    BY DEF SecondSelect, AnyReadable
  <2> QED BY <2>1, <2>2, <2>3, Zenon DEF SelectRead, SecondSelect
<1>3. got = 0
  BY <1>1, OneReceiver, Zenon DEF ServerInv, GotInv, Reading
<1>4. /\ backlog' \in Seq(Clients)
      /\ \/ \A i \in DOMAIN backlog' : backlog'[i] = backlog[i] /\ i \in DOMAIN backlog
         \/ \A i \in DOMAIN backlog' : backlog'[i] = backlog[i + 1] /\ i + 1 \in DOMAIN backlog
  <2>1. backlog \in Seq(Clients)
    BY Types, Zenon
  <2>2. CASE backlog # <<>> /\ backlog' = Tail(backlog)
    BY <2>1, <2>2
  <2> QED BY <1>1, <2>1, <2>2, Zenon
<1>5. /\ pc' \in [Workers -> {"idle", "select", "select2", "header", "body", "serve", "done"}]
      /\ fd' \in Fds \cup {0}
  <2>1. /\ pc \in [Workers -> {"idle", "select", "select2", "header", "body", "serve", "done"}]
        /\ fd \in Fds \cup {0}
    BY Types, Zenon
  <2>2. /\ pc' \in {pc, [pc EXCEPT ![w] = "select"], [pc EXCEPT ![w] = "header"]}
        /\ fd' \in {fd} \cup Fds
    BY <1>2, Zenon
  <2> QED BY <2>1, <2>2, Zenon
<1>6. \A v \in Workers \ {w} : pc'[v] = pc[v]
  BY <1>2, Types, Zenon
<1>7. \A v \in Workers : Serving(v)' = Serving(v)
  BY <1>1, <1>2, Types, Zenon DEF Serving
<1>8. pc[w] \in {"select", "select2"} /\ pc'[w] \in {"select", "select2", "header"}
  BY <1>1, <1>2, Types, Zenon
<1>9. \A v \in Workers \ {w} : ~Reading(v) /\ ~Reading(v)' /\ pc[v] # "select2" /\ pc'[v] # "select2"
  BY <1>1, <1>6, OneReceiver, Zenon DEF Reading
<1>10. TypeOK'
  BY <1>1, <1>2, <1>4, <1>5, Zenon DEF ServerInv, TypeOK, reqVars, clientVars
<1>11. RecvLockInv'
  BY <1>1, <1>6, <1>8, Zenon DEF ServerInv, RecvLockInv, Reading
<1>12. FdInv'
  <2>1. \A i, j \in DOMAIN backlog' : backlog'[i] = backlog'[j] => i = j
    BY <1>4, Types, SMTT(30) DEF ServerInv, FdInv
  <2>2. \A i \in DOMAIN backlog' : \E j \in DOMAIN backlog : backlog'[i] = backlog[j]
    BY <1>4, Zenon
  <2> QED BY <2>1, <2>2, <1>1, SMTT(30) DEF ServerInv, FdInv, clientVars
<1>13. UseInv'
  <2>1. \A g : InVector(g)' <=> InVector(g)
    BY <1>1, Zenon DEF InVector
  <2>2. ASSUME NEW v \in Workers
        PROVE  Serving(v)' => activeFds'[v] \in Fds /\ peer'[activeFds'[v]] # NoClient
    BY <1>1, <1>7, Zenon DEF ServerInv, UseInv, reqVars
  <2>3. Reading(w)' => fd' \in Fds /\ InVector(fd)'
    <3>1. Reading(w)' => pc' = [pc EXCEPT ![w] = "header"] /\ fd' \in Fds /\ InVector(fd')
      BY <1>1, <1>2, Types, Zenon DEF Reading
    <3>2. InVector(fd') => InVector(fd)'
      BY <1>1, Zenon DEF InVector
    <3> QED BY <3>1, <3>2, Zenon
  <2>4. pc'[w] = "select2" => clientFds' # <<>>
    BY <1>1, <1>2, Types, Zenon DEF ServerInv, UseInv
  <2> QED BY <2>2, <2>3, <2>4, <1>9, Zenon DEF UseInv
<1>14. GotInv'
  BY <1>1, <1>3, <1>6, <1>8, <1>9, ServerAssumption DEF GotInv, Reading
<1>15. StreamInv' /\ OwnerInv' /\ NoRequestLost'
  <2>1. ASSUME NEW v \in Workers, NEW c \in Clients
        PROVE  /\ ~Inside(v, c)' /\ ~Inside(v, c)
               /\ Answering(v, c)' <=> Answering(v, c)
               /\ Answering(v, c) => reqInfo'[v] = reqInfo[v]
    BY <1>1, <1>3, <1>7, <1>8, <1>9 DEF Inside, Answering, Reading, reqVars
  <2>2. UNCHANGED clientVars
    BY <1>1, Zenon
  <2> QED BY <2>1, <2>2, StreamsFrame, Zenon
<1>16. RemovedOnlyIfExited'
  BY <1>1, Zenon DEF ServerInv, RemovedOnlyIfExited, Closed, InVector, clientVars
<1> QED BY <1>10, <1>11, <1>12, <1>13, <1>14, <1>15, <1>16, Zenon DEF ServerInv

=============================================================================
