--------------------------- MODULE NetworkedServer ---------------------------
(***************************************************************************)
(* class NetworkedServer of harness/tbench_server_networked.cpp: worker    *)
(* threads that take turns, under recvLock, at accepting connections and   *)
(* reading one request with select/accept/recv, and answer it on the       *)
(* socket it came from.                                                    *)
(*                                                                         *)
(* The clients and the kernel's sockets are the environment.  A request is *)
(* a stream of HdrUnits header units followed by len body units, which     *)
(* arrive one by one.  A client's request ids are abstracted to the tokens *)
(* Ids, unique among that client's unanswered requests; clients do not     *)
(* stop sending, so that starvation would show.  All clients draw from the *)
(* same Ids, as all clients count their requests from 0.                   *)
(***************************************************************************)
EXTENDS Integers, Sequences, FiniteSets

CONSTANTS
  Workers,        \* the nthreads worker threads
  Clients,        \* client processes, one connection each
  Ids,            \* request ids
  FdLimit,        \* descriptors the process may hold for connections
  HdrUnits,       \* units of a request header
  BodyLens,       \* units a request body may have
  ClientsCrash,   \* whether clients may end at any point
  AppEnds,        \* whether the application may end its worker loops
  NoThread, NoClient, NoReq

ASSUME ServerAssumption ==
  /\ Workers # {} /\ IsFiniteSet(Workers) /\ NoThread \notin Workers
  /\ IsFiniteSet(Clients) /\ NoClient \notin Clients
  /\ NoReq \notin Ids
  /\ {FdLimit, HdrUnits} \subseteq Nat \ {0}
  /\ BodyLens \subseteq Nat \ {0}
  /\ {ClientsCrash, AppEnds} \subseteq BOOLEAN

Fds == 1..FdLimit

VARIABLES
  proc,            \* the server process: "running" or how it ended
  pc,              \* control point of each worker
  recvLock,        \* owner, or NoThread
  fd,              \* the local fd of the owner of recvLock, 0 when unset
  got,             \* units its current recvfull has taken: len - remaining
  clientFds,       \* the vector of connections select waits on
  recvClientHead,  \* index into clientFds, from 0
  reqbuf,          \* the header read last by each worker: id and len
  reqInfo,         \* id of the request each worker processes
  activeFds,       \* and the connection it came from
  start_file,
  peer,            \* the client at the other end of each open descriptor
  backlog,         \* connections not yet accepted
  conn,            \* each client's end: "new", "open", "closed" or "reset"
  sending,         \* units a client has still to hand to the network
  inbox,           \* units that have arrived at the server
  outstanding      \* ids a client waits for

recvVars == <<clientFds, recvClientHead, fd, got>>
reqVars == <<reqbuf, reqInfo, activeFds, start_file>>
clientVars == <<conn, sending, inbox, outstanding>>
vars == <<proc, pc, recvLock, recvVars, reqVars, peer, backlog, clientVars>>

EmptyHdr == [id |-> NoReq, len |-> 0]

Init ==
  /\ proc = "running"
  /\ pc = [w \in Workers |-> "idle"]
  /\ recvLock = NoThread
  /\ fd = 0
  /\ got = 0
  /\ clientFds = <<>>
  /\ recvClientHead = 0
  /\ reqbuf = [w \in Workers |-> EmptyHdr]
  /\ reqInfo = [w \in Workers |-> NoReq]
  /\ activeFds = [w \in Workers |-> 0]
  /\ start_file = FALSE
  /\ peer = [f \in Fds |-> NoClient]
  /\ backlog = <<>>
  /\ conn = [c \in Clients |-> "new"]
  /\ sending = [c \in Clients |-> <<>>]
  /\ inbox = [c \in Clients |-> <<>>]
  /\ outstanding = [c \in Clients |-> {}]

Goto(w, from, to) ==
  /\ pc[w] = from
  /\ pc' = [pc EXCEPT ![w] = to]

-----------------------------------------------------------------------------
(* recvReq: waiting for a connection or a request.                         *)

\* Faulty: recvLock is taken although another worker holds it.
LockRecvUnguarded(w) ==
  /\ recvLock' = w
  /\ Goto(w, "idle", "select")
  /\ UNCHANGED <<proc, recvVars, reqVars, peer, backlog, clientVars>>

LockRecv(w) ==
  /\ recvLock = NoThread
  /\ recvLock' = w
  /\ Goto(w, "idle", "select")
  /\ UNCHANGED <<proc, recvVars, reqVars, peer, backlog, clientVars>>

FreeFds == {f \in Fds : peer[f] = NoClient}

\* checkNewClient returns true: accept, setsockopt and push_back.  The kernel
\* hands out the lowest free descriptor.
NewClient ==
  /\ backlog # <<>>
  /\ \E f \in FreeFds :
       /\ \A g \in FreeFds : f <= g
       /\ peer' = [peer EXCEPT ![f] = Head(backlog)]
       /\ clientFds' = Append(clientFds, f)
  /\ backlog' = Tail(backlog)

\* checkNewClient returns false although the listener is readable: accept fails
\* for want of descriptors and the connection stays queued, or setsockopt fails
\* on a connection that was reset, which is then closed.
NoNewClient ==
  \/ /\ FreeFds = {}
     /\ UNCHANGED backlog
  \/ /\ FreeFds # {}
     /\ conn[Head(backlog)] = "reset"
     /\ backlog' = Tail(backlog)

Closed(c) == conn[c] \in {"closed", "reset"}

\* select() reports data or end of stream on the descriptor.
Readable(f) == inbox[peer[f]] # <<>> \/ Closed(peer[f])

AnyReadable == \E i \in DOMAIN clientFds : Readable(clientFds[i])

\* The connection the scan of clientFds looks at in its turn number i.
fromHead(i) == clientFds[((recvClientHead + i) % Len(clientFds)) + 1]

\* Faulty: the scan starts at the first connection every time.
FirstReadableFromZero(f) ==
  \E i \in DOMAIN clientFds :
    /\ f = clientFds[i]
    /\ Readable(f)
    /\ \A j \in 1..(i - 1) : ~Readable(clientFds[j])

\* The first readable connection from recvClientHead on.
FirstReadable(f) ==
  \E i \in 0..(Len(clientFds) - 1) :
    /\ f = fromHead(i)
    /\ Readable(f)
    /\ \A j \in 0..(i - 1) : ~Readable(fromHead(j))

\* The scan, and the advance of the head.
PickClient(w, from) ==
  /\ recvClientHead' = (recvClientHead + 1) % Len(clientFds)
  /\ \/ /\ \E f \in Fds : FirstReadable(f) /\ fd' = f
        /\ Goto(w, from, "header")
     \/ /\ ~AnyReadable
        /\ Goto(w, from, "select")
        /\ UNCHANGED fd
  /\ UNCHANGED <<clientFds, got>>

\* No connection: select on the listener alone.
ListenAccept(w) ==
  /\ pc[w] = "select"
  /\ clientFds = <<>>
  /\ NewClient
  /\ recvClientHead' = 0
  /\ UNCHANGED <<proc, pc, recvLock, fd, got, reqVars, clientVars>>

ListenRefuse(w) ==
  /\ pc[w] = "select"
  /\ clientFds = <<>>
  /\ backlog # <<>>
  /\ NoNewClient
  /\ UNCHANGED <<proc, pc, recvLock, recvVars, reqVars, peer, clientVars>>

\* select on listener and clients finds a new client: it is accepted, and a
\* second select, on the clients only, follows.
SelectAccept(w) ==
  /\ clientFds # <<>>
  /\ NewClient
  /\ Goto(w, "select", "select2")
  /\ UNCHANGED <<proc, recvLock, recvClientHead, fd, got, reqVars, clientVars>>

\* Faulty: data of the connected clients goes before a new client.
SelectReadFirst(w) ==
  /\ clientFds # <<>>
  /\ AnyReadable
  /\ PickClient(w, "select")
  /\ UNCHANGED <<proc, recvLock, reqVars, peer, backlog, clientVars>>

\* select finds no new client, or one that cannot be accepted.
SelectRead(w) ==
  /\ clientFds # <<>>
  /\ \/ /\ backlog = <<>>
        /\ AnyReadable
        /\ UNCHANGED backlog
     \/ /\ backlog # <<>>
        /\ NoNewClient
  /\ PickClient(w, "select")
  /\ UNCHANGED <<proc, recvLock, reqVars, peer, clientVars>>

SecondSelect(w) ==
  /\ AnyReadable
  /\ PickClient(w, "select2")
  /\ UNCHANGED <<proc, recvLock, reqVars, peer, backlog, clientVars>>

-----------------------------------------------------------------------------
(* recvReq: reading the header and the body with recvfull, and checkRecv.  *)

\* Faulty: recv is asked for the whole length every time.
remainingAll(n) == n

\* What recvfull still asks for, of n units.
remaining(n) == n - got

\* The units the next recv returns: what is there, up to what remains.
Taken(c, n) == IF remaining(n) < Len(inbox[c]) THEN remaining(n) ELSE Len(inbox[c])

\* Faulty: what arrived behind the request is thrown away with it.
TakeAll(c, n) == inbox' = [inbox EXCEPT ![c] = <<>>]

Take(c, n) == inbox' = [inbox EXCEPT ![c] = SubSeq(@, Taken(c, n) + 1, Len(@))]

recvd(c, n) == got + Taken(c, n)

\* recvfull returns: nothing remains, or recv returns 0 or -1 in the end.
RecvReturns(c, n) == recvd(c, n) >= n \/ Closed(c)

\* A turn of recvfull's loop that does not end it.
RecvSome(c, n) ==
  /\ ~RecvReturns(c, n)
  /\ inbox[c] # <<>>
  /\ Take(c, n)
  /\ got' = recvd(c, n)

\* Faulty: pop_back.
EraseFdLast(f) == clientFds' = SubSeq(clientFds, 1, Len(clientFds) - 1)

\* std::find and erase.
EraseFd(f) ==
  \E i \in DOMAIN clientFds :
    /\ clientFds[i] = f
    /\ \A j \in 1..(i - 1) : clientFds[j] # f
    /\ clientFds' = SubSeq(clientFds, 1, i - 1) \o SubSeq(clientFds, i + 1, Len(clientFds))

\* Faulty: the descriptor is closed while a worker may still answer on it.
removeClientAndClose(f) ==
  /\ EraseFd(f)
  /\ peer' = [peer EXCEPT ![f] = NoClient]

\* removeClient: the descriptor leaves the vector but is not closed.
removeClient(f) ==
  /\ EraseFd(f)
  /\ UNCHANGED peer

\* checkRecv with recvd == 0: the client is taken to have exited.
CheckRecvLeft(w, c, n) ==
  /\ RecvReturns(c, n)
  /\ recvd(c, n) = 0
  /\ removeClient(fd)
  /\ fd' = 0
  /\ Goto(w, pc[w], "select")
  /\ UNCHANGED <<proc, recvLock, recvClientHead, got, reqVars, backlog, clientVars>>

\* checkRecv with a partial read: exit(-1).
CheckRecvPartial(w, c, n) ==
  /\ RecvReturns(c, n)
  /\ recvd(c, n) \notin {0, n}
  /\ proc' = "exited"
  /\ UNCHANGED <<pc, recvLock, recvVars, reqVars, peer, backlog, clientVars>>

\* checkRecv returns true; the next recvfull starts from 0.
CheckRecvOk(c, n) ==
  /\ RecvReturns(c, n)
  /\ recvd(c, n) # 0
  /\ recvd(c, n) = n
  /\ Take(c, n)
  /\ got' = 0

\* The header: its units go to reqbuf.
RecvHeader(w) ==
  LET c == peer[fd]
  IN  /\ pc[w] = "header"
      /\ \/ CheckRecvLeft(w, c, HdrUnits)
         \/ CheckRecvPartial(w, c, HdrUnits)
         \/ /\ \/ RecvSome(c, HdrUnits) /\ UNCHANGED pc
               \/ CheckRecvOk(c, HdrUnits) /\ Goto(w, "header", "body")
            /\ reqbuf' = [reqbuf EXCEPT ![w] = [id |-> Head(inbox[c]).id, len |-> Head(inbox[c]).len]]
            /\ UNCHANGED <<proc, recvLock, clientFds, recvClientHead, fd, reqInfo, activeFds,
                           start_file, peer, backlog, conn, sending, outstanding>>

\* Faulty: the connection at the head of the scan is recorded.
StartServiceAtHead(w) ==
  /\ reqInfo' = [reqInfo EXCEPT ![w] = reqbuf[w].id]
  /\ activeFds' = [activeFds EXCEPT ![w] = fromHead(0)]
  /\ start_file' = TRUE

\* What sendResp will need, and the file that says the server has started.
StartService(w) ==
  /\ reqInfo' = [reqInfo EXCEPT ![w] = reqbuf[w].id]
  /\ activeFds' = [activeFds EXCEPT ![w] = fd]
  /\ start_file' = TRUE

\* The body, then the bookkeeping and the release of recvLock.
RecvBody(w) ==
  LET c == peer[fd]
      n == reqbuf[w].len
  IN  /\ pc[w] = "body"
      /\ \/ /\ RecvSome(c, n)
            /\ UNCHANGED <<proc, pc, recvLock, clientFds, recvClientHead, fd, reqVars,
                           peer, backlog, conn, sending, outstanding>>
         \/ CheckRecvLeft(w, c, n)
         \/ CheckRecvPartial(w, c, n)
         \/ /\ CheckRecvOk(c, n)
            /\ StartService(w)
            /\ recvLock' = NoThread
            /\ fd' = 0
            /\ Goto(w, "body", "serve")
            /\ UNCHANGED <<proc, clientFds, recvClientHead, reqbuf, peer, backlog, conn, sending, outstanding>>

-----------------------------------------------------------------------------
(* sendResp, one region under sendLock; clients read what they are sent.   *)

respFd(w) == activeFds[w]

\* Faulty: the worker is left to answer the same request once more.
SendRespAgain(w) ==
  LET c == peer[respFd(w)]
  IN  /\ Goto(w, "serve", "serve")
      /\ conn[c] = "open"
      /\ outstanding' = [outstanding EXCEPT ![c] = @ \ {reqInfo[w]}]
      /\ UNCHANGED <<proc, conn, recvLock, recvVars, reqVars, peer, backlog, sending, inbox>>

\* A write on a closed connection provokes a reset; on a reset connection it
\* fails, which sendResp ignores, or raises SIGPIPE, which nothing handles.
SendResp(w) ==
  LET c == peer[respFd(w)]
  IN  /\ Goto(w, "serve", "idle")
      /\ \/ /\ conn[c] = "open"
            /\ outstanding' = [outstanding EXCEPT ![c] = @ \ {reqInfo[w]}]
            /\ UNCHANGED <<proc, conn>>
         \/ /\ conn[c] = "closed"
            /\ conn' = [conn EXCEPT ![c] = "reset"]
            /\ UNCHANGED <<proc, outstanding>>
         \/ /\ conn[c] = "reset"
            /\ proc' \in {"running", "killed"}
            /\ UNCHANGED <<conn, outstanding>>
      /\ UNCHANGED <<recvLock, recvVars, reqVars, peer, backlog, sending, inbox>>

\* The application's worker loop ends; it calls neither function any more.
WorkerEnds(w) ==
  /\ AppEnds
  /\ Goto(w, "idle", "done")
  /\ UNCHANGED <<proc, recvLock, recvVars, reqVars, peer, backlog, clientVars>>

Worker(w) ==
  \/ LockRecv(w) \/ ListenAccept(w) \/ ListenRefuse(w) \/ SelectAccept(w)
  \/ SelectRead(w) \/ SecondSelect(w) \/ RecvHeader(w) \/ RecvBody(w)
  \/ SendResp(w) \/ WorkerEnds(w)

\* tBenchServerFinish, called once the workers have ended: a FINISH message to
\* every connection, with an assertion that it was sent.
finish ==
  /\ \A w \in Workers : pc[w] = "done"
  /\ proc' \in IF \E i \in DOMAIN clientFds : conn[peer[clientFds[i]]] = "reset"
               THEN {"returned", "aborted", "killed"}
               ELSE {"returned"}
  /\ UNCHANGED <<pc, recvLock, recvVars, reqVars, peer, backlog, clientVars>>

-----------------------------------------------------------------------------
(* The clients.                                                            *)

Connect(c) ==
  /\ conn[c] = "new"
  /\ conn' = [conn EXCEPT ![c] = "open"]
  /\ backlog' = Append(backlog, c)
  /\ UNCHANGED <<proc, pc, recvLock, recvVars, reqVars, peer, sending, inbox, outstanding>>

Units(id, n) ==
  [i \in 1..(HdrUnits + n) |-> [id |-> id, len |-> n, pos |-> i]]

ClientSends(c) ==
  /\ conn[c] = "open"
  /\ sending[c] = <<>>
  /\ \E id \in Ids \ outstanding[c], n \in BodyLens :
       /\ sending' = [sending EXCEPT ![c] = Units(id, n)]
       /\ outstanding' = [outstanding EXCEPT ![c] = @ \cup {id}]
  /\ UNCHANGED <<proc, pc, recvLock, recvVars, reqVars, peer, backlog, conn, inbox>>

Arrive(c) ==
  /\ sending[c] # <<>>
  /\ inbox' = [inbox EXCEPT ![c] = Append(@, Head(sending[c]))]
  /\ sending' = [sending EXCEPT ![c] = Tail(@)]
  /\ UNCHANGED <<proc, pc, recvLock, recvVars, reqVars, peer, backlog, conn, outstanding>>

\* A client ends when all its requests have been answered.
ClientLeaves(c) ==
  /\ conn[c] = "open"
  /\ outstanding[c] = {}
  /\ conn' = [conn EXCEPT ![c] = "closed"]
  /\ UNCHANGED <<proc, pc, recvLock, recvVars, reqVars, peer, backlog, sending, inbox, outstanding>>

\* A client ends at any point; what was on its way may be lost.
ClientCrashes(c) ==
  /\ ClientsCrash
  /\ conn[c] = "open"
  /\ \E end \in {"closed", "reset"} : conn' = [conn EXCEPT ![c] = end]
  /\ \E k \in 0..Len(inbox[c]) : inbox' = [inbox EXCEPT ![c] = SubSeq(@, 1, k)]
  /\ sending' = [sending EXCEPT ![c] = <<>>]
  /\ outstanding' = [outstanding EXCEPT ![c] = {}]
  /\ UNCHANGED <<proc, pc, recvLock, recvVars, reqVars, peer, backlog>>

Client(c) ==
  Connect(c) \/ ClientSends(c) \/ Arrive(c) \/ ClientLeaves(c) \/ ClientCrashes(c)

Ended ==
  /\ proc # "running"
  /\ UNCHANGED vars

Next ==
  \/ /\ proc = "running"
     /\ \/ \E w \in Workers : Worker(w)
        \/ finish
        \/ \E c \in Clients : Client(c)
  \/ Ended

Spec == Init /\ [][Next]_vars

(* Fairness: workers are scheduled; data on its way arrives; a connected   *)
(* client, whose rate is positive, sends again or leaves.  Nobody has to   *)
(* connect.                                                                *)
Running(A) == proc = "running" /\ A

Fairness ==
  /\ \A w \in Workers : WF_vars(Running(Worker(w)))
  /\ \A c \in Clients :
       /\ WF_vars(Running(Arrive(c)))
       /\ WF_vars(Running(ClientSends(c) \/ ClientLeaves(c)))

FairSpec == Spec /\ Fairness

-----------------------------------------------------------------------------
(* Properties.                                                             *)

Hdr == [id : Ids \cup {NoReq}, len : BodyLens \cup {0}]

Unit == {u \in [id : Ids, len : BodyLens, pos : Nat] : u.pos \in 1..(HdrUnits + u.len)}

\* Every variable keeps its type; recvClientHead may exceed the vector's size
\* after a removal, which the modulo of the scan allows for.
TypeOK ==
  /\ proc \in {"running", "exited", "aborted", "killed", "returned"}
  /\ pc \in [Workers -> {"idle", "select", "select2", "header", "body", "serve", "done"}]
  /\ recvLock \in Workers \cup {NoThread}
  /\ fd \in Fds \cup {0}
  /\ got \in Nat
  /\ clientFds \in Seq(Fds)
  /\ recvClientHead \in Nat
  /\ reqbuf \in [Workers -> Hdr]
  /\ reqInfo \in [Workers -> Ids \cup {NoReq}]
  /\ activeFds \in [Workers -> Fds \cup {0}]
  /\ start_file \in BOOLEAN
  /\ peer \in [Fds -> Clients \cup {NoClient}]
  /\ backlog \in Seq(Clients)
  /\ conn \in [Clients -> {"new", "open", "closed", "reset"}]
  /\ sending \in [Clients -> Seq(Unit)]
  /\ inbox \in [Clients -> Seq(Unit)]
  /\ outstanding \in [Clients -> SUBSET Ids]

Serving(w) == pc[w] = "serve"

\* The connection of every worker that is about to answer is that of a client
\* waiting for this very id, unless that client has ended: sendResp never
\* writes a response to another client or twice, although descriptors come
\* and go between recvReq and sendResp.
AnswersItsOwner ==
  /\ \A w \in {w \in Workers : Serving(w)} :
       LET c == peer[activeFds[w]]
       IN  c # NoClient /\ (conn[c] = "open" => reqInfo[w] \in outstanding[c])
  /\ \A v, w \in {w \in Workers : Serving(w)} :
       v # w /\ conn[peer[activeFds[v]]] = "open" =>
         <<activeFds[v], reqInfo[v]>> # <<activeFds[w], reqInfo[w]>>

\* The units of a client not yet taken by recvfull, arrived or not.
Stream(c) == inbox[c] \o sending[c]

InStream(c) == {Stream(c)[i].id : i \in DOMAIN Stream(c)}

Reading(w) == pc[w] \in {"header", "body"}

\* A worker has taken a part of a request of c.
Inside(w, c) == Reading(w) /\ peer[fd] = c /\ (pc[w] = "body" \/ got > 0)

\* A worker processes a request of c.
Answering(w, c) == Serving(w) /\ peer[activeFds[w]] = c

\* A worker has the request id of c.
Held(c, id) ==
  \E w \in Workers :
    \/ Inside(w, c) /\ reqbuf[w].id = id
    \/ Answering(w, c) /\ reqInfo[w] = id

\* No request is lost: what a client waits for is in its stream or with a
\* worker, so recvReq drops nothing of a connected client.
NoRequestLost ==
  \A c \in Clients : \A id \in outstanding[c] : id \in InStream(c) \/ Held(c, id)

\* recvReq reads each stream in step with the requests in it, however the
\* network cuts it up: the next unit of a header read is the one that follows
\* those already taken, and the body read belongs to that header.
FramingKept ==
  \A w \in Workers :
    LET in == inbox[peer[fd]]
    IN  /\ pc[w] = "header" /\ in # <<>> /\ got < HdrUnits => Head(in).pos = got + 1
        /\ pc[w] = "body" /\ in # <<>> /\ got < reqbuf[w].len =>
             Head(in).pos = HdrUnits + got + 1 /\ Head(in).id = reqbuf[w].id

\* "SERVER DOESNT DIE" (tbench_server_networked.cpp:270): clients that come and
\* go do not end the server.
ServerSurvives == proc \notin {"exited", "killed", "aborted"}

InVector(f) == \E i \in DOMAIN clientFds : clientFds[i] = f

\* Only a client that has ended is removed from clientFds; checkRecv takes
\* recvd == 0 for "Client exited" (tbench_server_networked.cpp:165).
RemovedOnlyIfExited ==
  \A f \in Fds : peer[f] # NoClient /\ ~Closed(peer[f]) => InVector(f)

-----------------------------------------------------------------------------
(* The inductive invariant behind the safety properties.                   *)

\* recvLock is held exactly in the loop of recvReq.
RecvLockInv ==
  \A w \in Workers : (pc[w] \in {"select", "select2"} \/ Reading(w)) <=> recvLock = w

\* The connections: a client has one descriptor at most, which stays its own,
\* and waits in the backlog before that; clientFds holds no descriptor twice.
FdInv ==
  /\ \A i, j \in DOMAIN clientFds : clientFds[i] = clientFds[j] => i = j
  /\ \A i \in DOMAIN clientFds : peer[clientFds[i]] # NoClient
  /\ \A f, g \in Fds : peer[f] # NoClient /\ peer[f] = peer[g] => f = g
  /\ \A i, j \in DOMAIN backlog : backlog[i] = backlog[j] => i = j
  /\ \A i \in DOMAIN backlog : \A f \in Fds : peer[f] # backlog[i]
  /\ \A c \in Clients : conn[c] = "new" =>
       /\ \A i \in DOMAIN backlog : backlog[i] # c
       /\ \A f \in Fds : peer[f] # c

\* The descriptors the workers use belong to connections.
UseInv ==
  \A w \in Workers :
    /\ pc[w] = "select2" => clientFds # <<>>
    /\ Reading(w) => fd \in Fds /\ InVector(fd)
    /\ Serving(w) => activeFds[w] \in Fds /\ peer[activeFds[w]] # NoClient

Left(u) == HdrUnits + u.len - u.pos

\* The unit v stands k places behind u: in the same request, at the start of
\* the next, or later; an id does not come back.
Follows(u, v, k) ==
  /\ k <= Left(u) => v = [id |-> u.id, len |-> u.len, pos |-> u.pos + k]
  /\ k = Left(u) + 1 => v.pos = 1
  /\ k > Left(u) => v.id # u.id

\* Whole requests, one after the other, but for the ends.
WellFormed(s) == \A i, j \in DOMAIN s : i < j => Follows(s[i], s[j], j - i)

\* The unit a worker inside a request took last.
LastTaken(w) ==
  [id |-> reqbuf[w].id, len |-> reqbuf[w].len,
   pos |-> IF pc[w] = "body" THEN HdrUnits + got ELSE got]

\* Each stream continues where its reader stopped, at the start of a request
\* if nobody is inside one, and ends with a request while its client is there.
StreamOf(c) ==
  LET s == Stream(c)
  IN  /\ WellFormed(s)
      /\ \A w \in Workers : Inside(w, c) =>
           /\ LastTaken(w) \in Unit
           /\ \A i \in DOMAIN s : Follows(LastTaken(w), s[i], i)
           /\ conn[c] = "open" /\ s = <<>> => Left(LastTaken(w)) = 0
      /\ s # <<>> /\ (\A w \in Workers : ~Inside(w, c)) => s[1].pos = 1
      /\ conn[c] = "open" /\ s # <<>> => Left(s[Len(s)]) = 0
      /\ conn[c] # "open" => outstanding[c] = {} /\ sending[c] = <<>>
      /\ conn[c] = "new" => inbox[c] = <<>>

StreamInv == \A c \in Clients : StreamOf(c)

\* got counts the units of an unfinished read only.
GotInv ==
  /\ got # 0 => \E w \in Workers : Reading(w)
  /\ \A w \in Workers :
       /\ pc[w] = "header" => got < HdrUnits
       /\ pc[w] = "body" => got < reqbuf[w].len

\* What a client sent and has no answer to is its stream and what the workers
\* hold, each id once.
OwnerOf(c) ==
  /\ InStream(c) \subseteq outstanding[c]
  /\ \A w \in Workers : Inside(w, c) => reqbuf[w].id \in outstanding[c]
  /\ \A w \in Workers : Answering(w, c) =>
       /\ reqInfo[w] \in outstanding[c]
       /\ reqInfo[w] \notin InStream(c)
       /\ \A v \in Workers : Inside(v, c) => reqbuf[v].id # reqInfo[w]
       /\ \A v \in Workers \ {w} : Answering(v, c) => reqInfo[v] # reqInfo[w]

OwnerInv == \A c \in Clients : conn[c] = "open" => OwnerOf(c)

\* Who holds recvLock, which connections exist, where every request of every
\* client is, and that readers and streams agree, as the steps of recvReq and
\* sendResp preserve it.
ServerInv ==
  /\ TypeOK
  /\ RecvLockInv
  /\ FdInv
  /\ UseInv
  /\ GotInv
  /\ StreamInv
  /\ OwnerInv
  /\ NoRequestLost
  /\ RemovedOnlyIfExited

-----------------------------------------------------------------------------
(* Liveness.                                                               *)

\* Every request of a client is answered, whatever the other clients do.
EveryRequestAnswered ==
  \A c \in Clients : \A id \in Ids :
    id \in outstanding[c] ~> id \notin outstanding[c]

Accepted(c) == \E f \in Fds : peer[f] = c

\* Every client that connects is accepted, although recvReq blocks in its
\* second select without the listener.
EveryClientAccepted == \A c \in Clients : conn[c] = "open" ~> Accepted(c)

=============================================================================
