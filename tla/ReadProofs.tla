----------------------------- MODULE ReadProofs -----------------------------
(* Proofs about NetworkedServer: the part of recvReq behind select, in which *)
(* recvfull reads a request or finds that the client has left.               *)
EXTENDS RecvReqProofs

-----------------------------------------------------------------------------
(* recvReq: recvfull.                                                      *)

\* The units a recvfull of worker w asks for in all, and those of the request
\* it has behind it when that recvfull starts.
Asked(w) == IF pc[w] = "header" THEN HdrUnits ELSE reqbuf[w].len
Base(w) == IF pc[w] = "header" THEN 0 ELSE HdrUnits

LEMMA FirstOfConcat ==
  ASSUME NEW S, NEW s \in Seq(S), NEW t \in Seq(S), NEW k \in Nat, k >= 1, k <= Len(s)
  PROVE  /\ s \o t \in Seq(S) /\ Len(s \o t) \in Nat /\ k <= Len(s \o t)
         /\ DOMAIN (s \o t) = 1..Len(s \o t)
         /\ (s \o t)[1] = Head(s) /\ (s \o t)[1] \in S
OBVIOUS

LEMMA ReaderFacts ==
  ASSUME ServerInv, NEW w \in Workers, Reading(w)
  PROVE  /\ fd \in Fds /\ InVector(fd) /\ peer[fd] \in Clients
         /\ \A v \in Workers \ {w} : ~Reading(v) /\ \A c \in Clients : ~Inside(v, c)
         /\ Asked(w) \in Nat /\ Base(w) \in Nat /\ HdrUnits \in Nat \ {0}
         /\ got \in Nat /\ got < Asked(w)
         /\ Inside(w, peer[fd]) => LastTaken(w) \in Unit
<1>1. fd \in Fds /\ InVector(fd)
  BY Zenon DEF ServerInv, UseInv
<1>2. peer[fd] \in Clients
  BY <1>1, Types DEF ServerInv, FdInv, InVector
<1>3. \A v \in Workers \ {w} : ~Reading(v) /\ \A c \in Clients : ~Inside(v, c)
  BY OneReceiver, Zenon DEF Inside
<1>4. HdrUnits \in Nat \ {0}
  BY ServerAssumption, Zenon
<1>5. Inside(w, peer[fd]) => LastTaken(w) \in Unit
  BY <1>2, Zenon DEF ServerInv, StreamInv, StreamOf
<1>6. pc[w] = "body" => reqbuf[w].len \in Nat
  <2>1. pc[w] = "body" => LastTaken(w) \in Unit /\ LastTaken(w).len = reqbuf[w].len
    BY <1>5, Zenon DEF Inside, Reading, LastTaken
  <2> QED BY <2>1, UnitFacts, Zenon
<1>7. got \in Nat
  BY Types, Zenon
<1> QED BY <1>1, <1>2, <1>3, <1>4, <1>5, <1>6, <1>7, Zenon DEF Asked, Base, Reading, ServerInv, GotInv

\* The k units taken next are those that follow in the request: the reader
\* stays in step with the stream.
LEMMA InStep ==
  ASSUME ServerInv, NEW w \in Workers, Reading(w), NEW k \in Nat,
         k >= 1, k <= Len(inbox[peer[fd]]), got + k <= Asked(w)
  PROVE  LET s == Stream(peer[fd])
         IN  /\ 1 \in DOMAIN s /\ s[1] = Head(inbox[peer[fd]])
             /\ \A j \in 1..k : /\ j \in DOMAIN s
                                /\ s[j] = [id |-> s[1].id, len |-> s[1].len, pos |-> Base(w) + got + j]
             /\ Inside(w, peer[fd]) => s[1].id = reqbuf[w].id /\ s[1].len = reqbuf[w].len
<1> DEFINE c == peer[fd]
           s == Stream(c)
           u == LastTaken(w)
<1>0. c \in Clients /\ Asked(w) \in Nat /\ Base(w) \in Nat /\ HdrUnits \in Nat \ {0} /\ got \in Nat
  BY ReaderFacts, Zenon
<1>1. /\ s \in Seq(Unit) /\ Len(s) \in Nat /\ k <= Len(s) /\ DOMAIN s = 1..Len(s)
      /\ s[1] = Head(inbox[c]) /\ s[1] \in Unit
  <2>1. inbox[c] \in Seq(Unit) /\ sending[c] \in Seq(Unit) /\ Len(inbox[c]) >= k
    BY <1>0, StreamTypes, Zenon
  <2> QED BY <2>1, FirstOfConcat, ZenonT(60) DEF Stream
<1>2. WellFormed(s)
  BY <1>0, Zenon DEF ServerInv, StreamInv, StreamOf
<1>3. s[1].len \in Nat \ {0} /\ s[1].pos \in Nat /\ s[1] = [id |-> s[1].id, len |-> s[1].len, pos |-> s[1].pos]
  BY <1>1, UnitFacts, Zenon
<1>4. CASE Inside(w, c)
  <2>1. u \in Unit /\ \A i \in DOMAIN s : Follows(u, s[i], i)
    BY <1>4, <1>0, Zenon DEF ServerInv, StreamInv, StreamOf
  <2>2. u.id = reqbuf[w].id /\ u.len = reqbuf[w].len /\ u.pos = Base(w) + got
    BY <1>4, <1>0 DEF LastTaken, Base, Inside, Reading
  <2>3. u.len \in Nat \ {0}
    BY <2>1, UnitFacts, Zenon
  <2>4. k <= Left(u) /\ Left(u) \in Nat
    BY <2>1, <2>2, <2>3, <1>0, <1>4, UnitFacts, SMTT(30) DEF Left, Asked, Base, Inside, Reading
  <2> HIDE DEF s, u, c
  <2>5. ASSUME NEW j \in 1..k
        PROVE  j \in DOMAIN s /\ s[j] = [id |-> u.id, len |-> u.len, pos |-> u.pos + j]
    BY <2>1, <2>4, <1>1 DEF Follows
  <2>6. 1 \in 1..k
    OBVIOUS
  <2>7. s[1].id = u.id /\ s[1].len = u.len
    <3>1. s[1] = [id |-> u.id, len |-> u.len, pos |-> u.pos + 1]
      BY <2>5, <2>6, ZenonT(40)
    <3> QED BY <3>1
  <2> QED BY <1>1, <2>2, <2>5, <2>6, <2>7, Zenon DEF s, c
<1>5. CASE ~Inside(w, c)
  <2>1. pc[w] = "header" /\ got = 0
    BY <1>5, <1>0 DEF Inside, Reading
  <2>2. s # <<>> /\ \A v \in Workers : ~Inside(v, c)
    BY <1>5, <1>0, <1>1, ReaderFacts, SMTT(30)
  <2>3. s[1].pos = 1
    BY <2>2, <1>0, Zenon DEF ServerInv, StreamInv, StreamOf
  <2>4. Base(w) = 0 /\ k <= HdrUnits
    BY <2>1, <1>0 DEF Base, Asked
  <2> HIDE DEF s, c
  <2>5. ASSUME NEW j \in 1..k
        PROVE  j \in DOMAIN s /\ s[j] = [id |-> s[1].id, len |-> s[1].len, pos |-> j]
    <3>1. j \in DOMAIN s /\ 1 \in DOMAIN s
      BY <1>1
    <3>2. CASE j = 1
      BY <3>1, <3>2, <2>3, <1>3, Zenon
    <3>3. CASE j > 1
      <4>1. Follows(s[1], s[j], j - 1)
        BY <3>1, <3>3, <1>2, Zenon DEF WellFormed
      <4>2. j - 1 <= Left(s[1]) /\ 1 + (j - 1) = j
        BY <2>3, <2>4, <1>0, <1>3 DEF Left
      <4> QED BY <4>1, <4>2, <2>3, <3>1, Zenon DEF Follows
    <3> QED BY <3>2, <3>3
  <2> QED BY <1>1, <1>5, <2>1, <2>4, <2>5 DEF s, c
<1> QED BY <1>4, <1>5, Zenon

LEMMA TakenFacts ==
  ASSUME ServerInv, NEW w \in Workers, Reading(w), NEW c \in Clients, c = peer[fd]
  PROVE  /\ Taken(c, Asked(w)) \in Nat
         /\ Taken(c, Asked(w)) <= Len(inbox[c])
         /\ got + Taken(c, Asked(w)) <= Asked(w)
         /\ Taken(c, Asked(w)) = 0 <=> inbox[c] = <<>>
<1>1. Asked(w) \in Nat /\ got \in Nat /\ got < Asked(w)
  BY ReaderFacts, Zenon
<1>2. Len(inbox[c]) \in Nat /\ (Len(inbox[c]) = 0 <=> inbox[c] = <<>>)
  BY StreamTypes
<1> QED BY <1>1, <1>2 DEF Taken, remaining

StartsWith(s, k, id) == \A j \in 1..k : s[j].id = id

\* The ids of a stream, and of what is left after the first k units, all of
\* one request.
LEMMA SuffixIds ==
  ASSUME NEW s, NEW r, NEW k, NEW id, SuffixOf(r, s, k), k > 0, StartsWith(s, k, id)
  PROVE  /\ \A i \in DOMAIN r : \E j \in DOMAIN s : r[i].id = s[j].id
         /\ \A i \in DOMAIN s : s[i].id = id \/ \E j \in DOMAIN r : s[i].id = r[j].id
         /\ \E j \in DOMAIN s : s[j].id = id
         /\ r = <<>> => k = Len(s)
<1> USE DEF SuffixOf, StartsWith
<1>1. \A i \in DOMAIN r : k + i \in DOMAIN s /\ r[i] = s[k + i]
  BY SMTT(30)
<1>2. ASSUME NEW i \in DOMAIN s
      PROVE  s[i].id = id \/ \E j \in DOMAIN r : s[i].id = r[j].id
  <2>1. CASE i <= k
    BY <2>1
  <2>2. CASE i > k
    <3>1. i - k \in DOMAIN r /\ k + (i - k) = i
      BY <2>2
    <3>2. r[i - k] = s[i]
      BY <3>1, <1>1, Zenon
    <3> QED BY <3>1, <3>2, Zenon
  <2> QED BY <2>1, <2>2
<1>3. k \in DOMAIN s /\ s[k].id = id
  <2>1. k \in DOMAIN s /\ k \in 1..k
    OBVIOUS
  <2> QED BY <2>1, Zenon
<1>4. r = <<>> => k = Len(s)
  OBVIOUS
<1> QED BY <1>1, <1>2, <1>3, <1>4, Zenon

\* A step after which the stream of c continues behind the unit z.
StreamAfter(c, z) ==
  /\ inbox' \in [Clients -> Seq(Unit)]
  /\ WellFormed(Stream(c)')
  /\ \A i \in DOMAIN Stream(c)' : Follows(z, Stream(c)'[i], i)
  /\ conn[c] = "open" /\ Stream(c)' = <<>> => Left(z) = 0
  /\ conn[c] = "open" /\ Stream(c)' # <<>> => Left(Stream(c)'[Len(Stream(c)')]) = 0

IdsAfter(c, z) ==
  /\ InStream(c)' \subseteq InStream(c)
  /\ z.id \in InStream(c)
  /\ InStream(c) \subseteq InStream(c)' \cup {z.id}

OthersAfter(c) ==
  \A d \in Clients \ {c} : inbox'[d] = inbox[d] /\ Stream(d)' = Stream(d) /\ InStream(d)' = InStream(d)

\* Worker w asks for n units of c, takes k, and z is the last of them.
TakesTo(w, c, n, k, z) ==
  /\ Reading(w) /\ c = peer[fd] /\ n = Asked(w)
  /\ k = Taken(c, n) /\ inbox[c] # <<>> /\ Take(c, n) /\ sending' = sending
  /\ z = Stream(c)[k]

\* It is a unit of the request w is inside, and the rest continues behind it.
Took(w, c, z) ==
  /\ Reading(w) /\ c = peer[fd]
  /\ z \in Unit
  /\ Inside(w, c) => z.id = reqbuf[w].id /\ z.len = reqbuf[w].len
  /\ StreamAfter(c, z) /\ IdsAfter(c, z) /\ OthersAfter(c)

LastUnit(w, c, k, z) ==
  /\ k \in Nat /\ k >= 1 /\ z.len \in Nat \ {0}
  /\ z.id = Head(inbox[c]).id /\ z.len = Head(inbox[c]).len /\ z.pos = Base(w) + got + k

\* recv: the units leave the stream, and the rest of it continues behind the
\* last one taken.
LEMMA TakeStep ==
  ASSUME ServerInv, NEW w \in Workers, NEW c \in Clients, NEW n, NEW k, NEW z, TakesTo(w, c, n, k, z)
  PROVE  LastUnit(w, c, k, z) /\ Took(w, c, z)
<1>0. /\ Reading(w) /\ c = peer[fd] /\ n = Asked(w) /\ sending' = sending
      /\ k = Taken(c, n) /\ inbox[c] # <<>> /\ Take(c, n) /\ z = Stream(c)[k]
  BY Zenon DEF TakesTo
<1> DEFINE s == Stream(c)
           r == Stream(c)'
<1>1. k \in Nat /\ k >= 1 /\ k <= Len(inbox[c]) /\ got + k <= n
  BY <1>0, TakenFacts
<1>2. /\ s[1] = Head(inbox[c])
      /\ \A j \in 1..k : j \in DOMAIN s /\ s[j] = [id |-> s[1].id, len |-> s[1].len, pos |-> Base(w) + got + j]
      /\ Inside(w, c) => s[1].id = reqbuf[w].id /\ s[1].len = reqbuf[w].len
  BY <1>0, <1>1, InStep, Zenon
<1>3. inbox[c] \in Seq(Unit) /\ sending[c] \in Seq(Unit) /\ s \in Seq(Unit) /\ DOMAIN s = 1..Len(s) /\ Len(s) \in Nat
  BY StreamTypes
<1>4. inbox' = [inbox EXCEPT ![c] = SubSeq(inbox[c], k + 1, Len(inbox[c]))]
  BY <1>0, Zenon DEF Take
<1>5. inbox \in [Clients -> Seq(Unit)]
  BY Zenon DEF ServerInv, TypeOK
<1>6. inbox'[c] = SubSeq(inbox[c], k + 1, Len(inbox[c]))
  BY <1>4, <1>5, ZenonT(60)
<1>7. SuffixOf(r, s, k)
  <2>1. k \in 0..Len(inbox[c])
    BY <1>1, <1>3
  <2>2. r = SubSeq(inbox[c], k + 1, Len(inbox[c])) \o sending[c] /\ s = inbox[c] \o sending[c]
    BY <1>0, <1>6, Zenon DEF Stream
  <2> HIDE DEF s, r
  <2> QED BY <2>1, <2>2, <1>3, TakeFromStream, Zenon
<1>8. inbox'[c] \in Seq(Unit)
  <2>1. \A a \in Seq(Unit), i \in Nat : i <= Len(a) => SubSeq(a, i + 1, Len(a)) \in Seq(Unit)
    OBVIOUS
  <2> QED BY <2>1, <1>1, <1>3, <1>6, Zenon
<1>9. k \in 1..k /\ 1 \in 1..k
  BY <1>1
<1>10. k \in DOMAIN s /\ z = [id |-> s[1].id, len |-> s[1].len, pos |-> Base(w) + got + k]
  BY <1>0, <1>2, <1>9, Zenon
<1>11. k \in 1..Len(s) /\ k \in 0..Len(s) /\ k > 0
  BY <1>1, <1>3, <1>10
<1>12. z \in Unit
  <2> HIDE DEF s
  <2>1. \A i \in 1..Len(s) : s[i] \in Unit
    BY <1>3
  <2> QED BY <2>1, <1>0, <1>11, Zenon DEF s
<1>13. WellFormed(s)
  BY Zenon DEF ServerInv, StreamInv, StreamOf
<1>14. \A d \in Clients \ {c} : inbox'[d] = inbox[d] /\ Stream(d)' = Stream(d)
  BY <1>0, <1>4, <1>5, ZenonT(60) DEF Stream
<1>15. \A d \in Clients \ {c} : InStream(d)' = InStream(d)
  BY <1>14, Zenon DEF InStream
<1>16. InStream(c) = {s[i].id : i \in DOMAIN s} /\ InStream(c)' = {r[i].id : i \in DOMAIN r}
  BY Zenon DEF InStream
<1>17. conn[c] = "open" /\ s # <<>> => Left(s[Len(s)]) = 0
  BY Zenon DEF ServerInv, StreamInv, StreamOf
<1>18. z.id = s[1].id /\ z.len = s[1].len /\ \A j \in 1..k : s[j].id = z.id
  <2>1. z.id = s[1].id /\ z.len = s[1].len
    BY <1>10, Zenon
  <2>2. ASSUME NEW j \in 1..k
        PROVE  s[j].id = s[1].id
    <3>1. s[j] = [id |-> s[1].id, len |-> s[1].len, pos |-> Base(w) + got + j]
      BY <1>2, Zenon
    <3> QED BY <3>1
  <2> QED BY <2>1, <2>2, Zenon
<1>19. z = s[k]
  BY <1>0, Zenon
<1> HIDE DEF s, r
<1>20. WellFormed(r) /\ (\A i \in DOMAIN r : Follows(z, r[i], i)) /\ (r # <<>> => r[Len(r)] = s[Len(s)])
  BY <1>7, <1>11, <1>13, <1>19, FormedSuffix, Zenon
<1>21. /\ \A i \in DOMAIN r : \E j \in DOMAIN s : r[i].id = s[j].id
       /\ \A i \in DOMAIN s : s[i].id = z.id \/ \E j \in DOMAIN r : s[i].id = r[j].id
       /\ \E j \in DOMAIN s : s[j].id = z.id
       /\ r = <<>> => k = Len(s)
  <2>1. StartsWith(s, k, z.id)
    BY <1>18, Zenon DEF StartsWith
  <2> QED BY <2>1, <1>7, <1>11, SuffixIds, Zenon
<1>22. /\ InStream(c)' \subseteq InStream(c)
       /\ z.id \in InStream(c)
       /\ InStream(c) \subseteq InStream(c)' \cup {z.id}
  BY <1>16, <1>21
<1>23. s # <<>>
  BY <1>3, <1>10
<1>24. /\ conn[c] = "open" /\ r = <<>> => Left(z) = 0
       /\ conn[c] = "open" /\ r # <<>> => Left(r[Len(r)]) = 0
  BY <1>17, <1>19, <1>20, <1>21, <1>23, Zenon
<1>25. inbox' \in [Clients -> Seq(Unit)]
  BY <1>4, <1>5, <1>6, <1>8, Zenon
<1>26. z = [id |-> Head(inbox[c]).id, len |-> Head(inbox[c]).len, pos |-> Base(w) + got + k]
  BY <1>2, <1>10, Zenon
<1>27. Inside(w, c) => z.id = reqbuf[w].id /\ z.len = reqbuf[w].len
  BY <1>2, <1>18, Zenon
<1>28. StreamAfter(c, z)
  BY <1>20, <1>24, <1>25, Zenon DEF StreamAfter, r
<1>29. IdsAfter(c, z) /\ OthersAfter(c)
  BY <1>14, <1>15, <1>22, Zenon DEF IdsAfter, OthersAfter
<1>30. Took(w, c, z)
  BY <1>0, <1>12, <1>27, <1>28, <1>29, Zenon DEF Took
<1>31. z.id = Head(inbox[c]).id /\ z.len = Head(inbox[c]).len /\ z.pos = Base(w) + got + k
  BY <1>26, Zenon
<1>32. z.len \in Nat \ {0}
  BY <1>12, UnitFacts, Zenon
<1> QED BY <1>1, <1>30, <1>31, <1>32, Zenon DEF LastUnit

\* Worker w takes units of c up to z, and is in recvfull h afterwards.
readOnVars == <<proc, recvLock, clientFds, recvClientHead, fd, reqInfo, activeFds,
                start_file, peer, backlog, conn, sending, outstanding>>

NowAt(w, z, h) ==
  /\ pc' = [pc EXCEPT ![w] = h]
  /\ reqbuf' = [reqbuf EXCEPT ![w] = [id |-> z.id, len |-> z.len]]
  /\ got' \in Nat
  /\ h = "body" \/ got' > 0
  /\ h = "header" => got' < HdrUnits /\ z.pos = got'
  /\ h = "body" => got' < z.len /\ z.pos = HdrUnits + got'

WorkersAfter(w, h) ==
  /\ pc'[w] = h /\ \A v \in Workers \ {w} : pc'[v] = pc[v]
  /\ Reading(w)' /\ \A v \in Workers \ {w} : ~Reading(v) /\ ~Reading(v)'
  /\ \A v \in Workers : Serving(v)' = Serving(v)

HoldersAfter(w, c) ==
  /\ \A v \in Workers, d \in Clients : Inside(v, d)' <=> v = w /\ d = c
  /\ \A v \in Workers, d \in Clients : Inside(v, d) => v = w /\ d = c
  /\ \A v \in Workers, d \in Clients : Answering(v, d)' <=> Answering(v, d)

LEMMA ReadOnWorkers ==
  ASSUME ServerInv, NEW w \in Workers, NEW c \in Clients, NEW z, NEW h \in {"header", "body"},
         Took(w, c, z), NowAt(w, z, h), UNCHANGED readOnVars
  PROVE  /\ WorkersAfter(w, h) /\ HoldersAfter(w, c)
         /\ LastTaken(w)' = z /\ reqbuf'[w].id = z.id /\ reqbuf'[w].len = z.len
         /\ reqbuf'[w] \in Hdr
<1>1. z.id \in Ids /\ z.len \in BodyLens /\ z = [id |-> z.id, len |-> z.len, pos |-> z.pos]
  BY UnitFacts, Zenon DEF Took
<1>2. pc'[w] = h /\ \A v \in Workers \ {w} : pc'[v] = pc[v]
  BY Types, Zenon DEF NowAt
<1>3. reqbuf'[w] = [id |-> z.id, len |-> z.len]
  BY Types, Zenon DEF NowAt
<1>4. Reading(w)' /\ \A v \in Workers \ {w} : ~Reading(v) /\ ~Reading(v)'
  BY <1>2, ReaderFacts, Zenon DEF Took, Reading
<1>5. \A v \in Workers : Serving(v)' = Serving(v)
  BY <1>2, Zenon DEF Took, Reading, Serving
<1>6. fd' = fd /\ peer' = peer /\ activeFds' = activeFds /\ peer[fd] = c
  BY Zenon DEF readOnVars, Took
<1>7. \A v \in Workers, d \in Clients : Inside(v, d)' <=> v = w /\ d = c
  BY <1>2, <1>4, <1>6, Zenon DEF Inside, NowAt
<1>8. \A v \in Workers, d \in Clients : Inside(v, d) => v = w /\ d = c
  BY <1>4, <1>6, Zenon DEF Inside
<1>9. \A v \in Workers, d \in Clients : Answering(v, d)' <=> Answering(v, d)
  BY <1>5, <1>6, Zenon DEF Answering
<1>10. LastTaken(w)' = z
  <2>1. LastTaken(w)' = [id |-> z.id, len |-> z.len, pos |-> z.pos]
    BY <1>2, <1>3, SMTT(30) DEF LastTaken, NowAt
  <2> QED BY <2>1, <1>1, Zenon
<1>11. reqbuf'[w].id = z.id /\ reqbuf'[w].len = z.len /\ reqbuf'[w] \in Hdr
  BY <1>1, <1>3 DEF Hdr
<1> QED BY <1>2, <1>4, <1>5, <1>7, <1>8, <1>9, <1>10, <1>11, ZenonT(40) DEF WorkersAfter, HoldersAfter

\* A turn of recvfull, or the end of the header's: the worker is inside the
\* request afterwards, right behind the last unit it took.
LEMMA ReadOnStreams ==
  ASSUME ServerInv, NEW w \in Workers, NEW c \in Clients, NEW z, NEW h \in {"header", "body"},
         Took(w, c, z), NowAt(w, z, h), UNCHANGED readOnVars
  PROVE  StreamInv' /\ OwnerInv' /\ NoRequestLost'
<1>1. UNCHANGED <<conn, sending, outstanding, reqInfo>>
  BY Zenon DEF readOnVars
<1>2. /\ \A v \in Workers, d \in Clients : Inside(v, d)' <=> v = w /\ d = c
      /\ \A v \in Workers, d \in Clients : Inside(v, d) => v = w /\ d = c
      /\ \A v \in Workers, d \in Clients : Answering(v, d)' <=> Answering(v, d)
      /\ LastTaken(w)' = z /\ reqbuf'[w].id = z.id
  BY ReadOnWorkers DEF HoldersAfter
<1>3. z \in Unit /\ StreamAfter(c, z) /\ IdsAfter(c, z) /\ OthersAfter(c)
  BY Zenon DEF Took
<1>4. Inside(w, c) => z.id = reqbuf[w].id
  BY Zenon DEF Took
<1>5. conn[c] # "new" /\ (conn[c] # "open" => outstanding[c] = {} /\ sending[c] = <<>>)
  BY ReaderFacts, ZenonT(60) DEF ServerInv, FdInv, StreamInv, StreamOf, Took
<1>6. ASSUME NEW d \in Clients, d # c
      PROVE  /\ inbox'[d] = inbox[d] /\ Stream(d)' = Stream(d) /\ InStream(d)' = InStream(d)
             /\ \A v \in Workers : ~Inside(v, d) /\ ~Inside(v, d)'
  BY <1>2, <1>3, <1>6, Zenon DEF OthersAfter
<1>7. StreamInv'
  <2>1. ASSUME NEW d \in Clients, d # c
        PROVE  /\ WellFormed(Stream(d)')
               /\ Stream(d)' # <<>> => Stream(d)'[1].pos = 1
               /\ conn'[d] = "open" /\ Stream(d)' # <<>> => Left(Stream(d)'[Len(Stream(d)')]) = 0
               /\ conn'[d] # "open" => outstanding'[d] = {} /\ sending'[d] = <<>>
               /\ conn'[d] = "new" => inbox'[d] = <<>>
    BY <2>1, <1>1, <1>6, ZenonT(60) DEF ServerInv, StreamInv, StreamOf
  <2>2. ASSUME NEW d \in Clients
        PROVE  LET s == Stream(d)'
               IN  /\ WellFormed(s)
                   /\ \A v \in Workers : Inside(v, d)' =>
                        /\ LastTaken(v)' \in Unit
                        /\ \A i \in DOMAIN s : Follows(LastTaken(v)', s[i], i)
                        /\ conn'[d] = "open" /\ s = <<>> => Left(LastTaken(v)') = 0
                   /\ s # <<>> /\ (\A v \in Workers : ~Inside(v, d)') => s[1].pos = 1
                   /\ conn'[d] = "open" /\ s # <<>> => Left(s[Len(s)]) = 0
                   /\ conn'[d] # "open" => outstanding'[d] = {} /\ sending'[d] = <<>>
                   /\ conn'[d] = "new" => inbox'[d] = <<>>
    <3>1. CASE d # c
      BY <3>1, <2>1, <1>6, Zenon
    <3>2. CASE d = c
      BY <3>2, <1>1, <1>2, <1>3, <1>5, ZenonT(60) DEF StreamAfter
    <3> QED BY <3>1, <3>2, ZenonT(60)
  <2> QED BY <2>2, ZenonT(60) DEF StreamInv, StreamOf, Follows, Left
<1>8. OwnerInv'
  <2>1. ASSUME NEW d \in Clients, conn[d] = "open"
        PROVE  /\ InStream(d)' \subseteq outstanding[d]
               /\ \A v \in Workers : Inside(v, d)' => reqbuf'[v].id \in outstanding[d]
               /\ \A v \in Workers : Answering(v, d) =>
                    /\ reqInfo[v] \in outstanding[d]
                    /\ reqInfo[v] \notin InStream(d)'
                    /\ \A x \in Workers : Inside(x, d)' => reqbuf'[x].id # reqInfo[v]
                    /\ \A x \in Workers \ {v} : Answering(x, d) => reqInfo[x] # reqInfo[v]
    <3>1. /\ InStream(d) \subseteq outstanding[d]
          /\ \A v \in Workers : Answering(v, d) =>
               /\ reqInfo[v] \in outstanding[d]
               /\ reqInfo[v] \notin InStream(d)
               /\ \A x \in Workers \ {v} : Answering(x, d) => reqInfo[x] # reqInfo[v]
      BY <2>1, Zenon DEF ServerInv, OwnerInv, OwnerOf
    <3>2. CASE d # c
      BY <3>1, <3>2, <1>6, Zenon
    <3>3. CASE d = c
      BY <3>1, <3>3, <1>2, <1>3, Zenon DEF IdsAfter
    <3> QED BY <3>2, <3>3, Zenon
  <2> QED BY <2>1, <1>1, <1>2, ZenonT(60) DEF OwnerInv, OwnerOf
<1>9. NoRequestLost'
  <2>1. ASSUME NEW d \in Clients, NEW id, id \in outstanding[d]
        PROVE  id \in InStream(d)' \/ Held(d, id)'
    <3>1. id \in InStream(d) \/ Held(d, id)
      BY <2>1, Zenon DEF ServerInv, NoRequestLost
    <3>2. Held(d, id) => Held(d, id)' \/ (Inside(w, c) /\ d = c /\ id = z.id)
      BY <1>1, <1>2, <1>4, Zenon DEF Held
    <3>3. Held(c, z.id)'
      <4>1. Inside(w, c)' /\ reqbuf'[w].id = z.id
        BY <1>2, Zenon
      <4> QED BY <4>1, Zenon DEF Held
    <3>4. d = c /\ id \in InStream(d) => id \in InStream(d)' \/ id = z.id
      BY <1>3, Zenon DEF IdsAfter
    <3> QED BY <3>1, <3>2, <3>3, <3>4, <1>6, Zenon
  <2> QED BY <2>1, <1>1, Zenon DEF NoRequestLost
<1> QED BY <1>7, <1>8, <1>9, Zenon

LEMMA ReadOn ==
  ASSUME ServerInv, NEW w \in Workers, NEW c \in Clients, NEW z, NEW h \in {"header", "body"},
         Took(w, c, z), NowAt(w, z, h), UNCHANGED readOnVars
  PROVE  ServerInv'
<1>1. /\ pc'[w] = h /\ \A v \in Workers \ {w} : pc'[v] = pc[v]
      /\ Reading(w)' /\ \A v \in Workers \ {w} : ~Reading(v) /\ ~Reading(v)'
      /\ \A v \in Workers : Serving(v)' = Serving(v)
      /\ reqbuf'[w].len = z.len /\ reqbuf'[w] \in Hdr
  BY ReadOnWorkers, Zenon DEF WorkersAfter
<1>2. UNCHANGED <<proc, recvLock, clientFds, recvClientHead, fd, reqInfo, activeFds,
                  start_file, peer, backlog, conn, sending, outstanding>>
  BY Zenon DEF readOnVars
<1>3. TypeOK'
  <2>1. pc' \in [Workers -> {"idle", "select", "select2", "header", "body", "serve", "done"}]
    BY Types, Zenon DEF NowAt
  <2>2. reqbuf' \in [Workers -> Hdr]
    BY <1>1, Types, Zenon DEF NowAt
  <2>3. inbox' \in [Clients -> Seq(Unit)] /\ got' \in Nat
    BY Zenon DEF Took, StreamAfter, NowAt
  <2> QED BY <1>2, <2>1, <2>2, <2>3, Zenon DEF ServerInv, TypeOK
<1>4. RecvLockInv'
  BY <1>1, <1>2, Zenon DEF ServerInv, RecvLockInv, Reading, Took
<1>5. FdInv' /\ RemovedOnlyIfExited'
  BY <1>2, ZenonT(40) DEF ServerInv, FdInv, RemovedOnlyIfExited, InVector, Closed
<1>6. UseInv'
  BY <1>1, <1>2, ReaderFacts, ZenonT(60) DEF ServerInv, UseInv, InVector, Reading, Took
<1>7. GotInv'
  BY <1>1, Zenon DEF GotInv, Reading, NowAt
<1> QED BY <1>3, <1>4, <1>5, <1>6, <1>7, ReadOnStreams, Zenon DEF ServerInv

\* A turn of recvfull's loop in the header or the body, and the end of the
\* header.
ReadsOn(w, c) ==
  \/ /\ pc[w] = "header"
     /\ \/ RecvSome(c, HdrUnits) /\ UNCHANGED pc
        \/ CheckRecvOk(c, HdrUnits) /\ Goto(w, "header", "body")
     /\ reqbuf' = [reqbuf EXCEPT ![w] = [id |-> Head(inbox[c]).id, len |-> Head(inbox[c]).len]]
  \/ /\ pc[w] = "body"
     /\ RecvSome(c, reqbuf[w].len)
     /\ UNCHANGED <<pc, reqbuf>>

LEMMA ReadOnInv ==
  ASSUME ServerInv, NEW w \in Workers, NEW c \in Clients, c = peer[fd],
         ReadsOn(w, c), UNCHANGED readOnVars
  PROVE  ServerInv'
<1> SUFFICES ASSUME NEW n, n = Asked(w), NEW k, k = Taken(c, n), NEW z, z = Stream(c)[k],
                    NEW h, h = IF pc[w] = "header" /\ pc' = pc THEN "header" ELSE "body"
             PROVE  ServerInv'
  BY Zenon
<1>1. Reading(w) /\ Take(c, n) /\ sending' = sending
  BY Zenon DEF ReadsOn, Reading, RecvSome, CheckRecvOk, Asked, readOnVars
<1>2. n \in Nat /\ got \in Nat /\ got < n /\ HdrUnits \in Nat \ {0} /\ got + k <= n /\ k \in Nat /\ (k = 0 <=> inbox[c] = <<>>)
  BY <1>1, ReaderFacts, TakenFacts, Zenon
<1>3. \/ ~(got + k >= n) /\ inbox[c] # <<>> /\ got' = got + k /\ pc' = pc
      \/ pc[w] = "header" /\ got + k = n /\ got' = 0 /\ pc' = [pc EXCEPT ![w] = "body"]
  BY Zenon DEF ReadsOn, RecvSome, CheckRecvOk, Goto, RecvReturns, recvd, Asked
<1>4. TakesTo(w, c, n, k, z)
  BY <1>1, <1>2, <1>3 DEF TakesTo
<1>5. /\ k >= 1 /\ z.len \in Nat \ {0}
      /\ z.pos = Base(w) + got + k /\ z.id = Head(inbox[c]).id /\ z.len = Head(inbox[c]).len
  <2>1. LastUnit(w, c, k, z)
    BY <1>4, TakeStep, Zenon
  <2> QED BY <2>1, Zenon DEF LastUnit
<1>6. Took(w, c, z)
  BY <1>4, TakeStep, Zenon
<1>7. Inside(w, c) => z.id = reqbuf[w].id /\ z.len = reqbuf[w].len
  BY <1>6, Zenon DEF Took
<1>8. /\ pc' = [pc EXCEPT ![w] = h]
      /\ \/ pc[w] = "header" /\ h = "header" /\ pc' = pc
         \/ pc[w] = "header" /\ h = "body" /\ pc' # pc
         \/ pc[w] = "body" /\ h = "body" /\ pc' = pc
  <2>1. pc = [pc EXCEPT ![w] = pc[w]] /\ pc[w] \in {"header", "body"}
    BY <1>1, Types, Zenon DEF Reading
  <2>2. [pc EXCEPT ![w] = "body"] # pc \/ pc[w] # "header"
    BY Types, Zenon
  <2> QED BY <1>3, <2>1, <2>2, Zenon
<1>9. reqbuf' = [reqbuf EXCEPT ![w] = [id |-> z.id, len |-> z.len]]
  <2>1. CASE pc[w] = "header"
    BY <2>1, <1>5, Zenon DEF ReadsOn
  <2>2. CASE pc[w] = "body"
    <3>1. Inside(w, c)
      BY <2>2, Zenon DEF Inside, Reading
    <3>2. reqbuf[w] \in Hdr
      BY Types, Zenon
    <3>3. reqbuf[w] = [id |-> reqbuf[w].id, len |-> reqbuf[w].len]
      BY <3>2, Zenon DEF Hdr
    <3>4. reqbuf[w] = [id |-> z.id, len |-> z.len]
      BY <3>1, <3>3, <1>7, Zenon
    <3>5. reqbuf' = reqbuf
      BY <2>2, Zenon DEF ReadsOn
    <3> QED BY <3>4, <3>5, Types, Zenon
  <2> QED BY <2>1, <2>2, <1>8, Zenon
<1>10. /\ got' \in Nat
       /\ h = "body" \/ got' > 0
       /\ h = "header" => got' < HdrUnits /\ z.pos = got'
       /\ h = "body" => got' < z.len /\ z.pos = HdrUnits + got'
  <2>1. CASE pc[w] = "header"
    <3>1. n = HdrUnits /\ Base(w) = 0
      BY <2>1, Zenon DEF Asked, Base
    <3>2. z.pos = got + k
      BY <3>1, <1>2, <1>5
    <3>3. \/ h = "header" /\ got' = got + k /\ ~(got + k >= n)
          \/ h = "body" /\ got' = 0 /\ got + k = n
      <4>1. [pc EXCEPT ![w] = "body"] # pc
        BY <2>1, Types, Zenon
      <4> QED BY <2>1, <4>1, <1>3, <1>8, Zenon
    <3>4. k >= 1 /\ z.len \in Nat \ {0}
      BY <1>5, Zenon
    <3> QED BY <3>1, <3>2, <3>3, <3>4, <1>2
  <2>2. CASE pc[w] = "body"
    <3>1. z.len = n /\ Base(w) = HdrUnits
      BY <2>2, <1>7, ZenonT(40) DEF Inside, Asked, Reading, Base
    <3>2. got' = got + k /\ got + k < n /\ h = "body"
      BY <2>2, <1>2, <1>3, <1>8
    <3>3. z.pos = HdrUnits + got + k
      BY <3>1, <1>5, Zenon
    <3> QED BY <3>1, <3>2, <3>3, <1>2
  <2> QED BY <2>1, <2>2, <1>8, Zenon
<1>11. h \in {"header", "body"}
  BY <1>8, Zenon
<1>12. NowAt(w, z, h)
  BY <1>8, <1>9, <1>10, Zenon DEF NowAt
<1> QED BY <1>6, <1>11, <1>12, ReadOn, Zenon

\* The body is complete: the worker leaves the stream at the end of the request
\* and processes it.
doneVars == <<proc, clientFds, recvClientHead, reqbuf, peer, backlog, conn, sending, outstanding>>

BodyDone(w, c) ==
  /\ pc[w] = "body" /\ c = peer[fd]
  /\ CheckRecvOk(c, reqbuf[w].len)
  /\ StartService(w)
  /\ recvLock' = NoThread
  /\ fd' = 0
  /\ Goto(w, "body", "serve")
  /\ UNCHANGED doneVars

LEMMA BodyDoneUnit ==
  ASSUME ServerInv, NEW w \in Workers, NEW c \in Clients, BodyDone(w, c)
  PROVE  \E z : Took(w, c, z) /\ Left(z) = 0 /\ z.id = reqbuf[w].id
<1> SUFFICES ASSUME NEW n, n = Asked(w), NEW k, k = Taken(c, n), NEW z, z = Stream(c)[k]
             PROVE  Took(w, c, z) /\ Left(z) = 0 /\ z.id = reqbuf[w].id
  BY Zenon
<1>1. Reading(w) /\ c = peer[fd] /\ n = reqbuf[w].len /\ Base(w) = HdrUnits /\ Inside(w, c)
  BY Zenon DEF BodyDone, Reading, Asked, Base, Inside
<1>2. Take(c, n) /\ got + k = n /\ sending' = sending
  BY <1>1, ZenonT(60) DEF BodyDone, CheckRecvOk, recvd, doneVars
<1>3. n \in Nat /\ got \in Nat /\ got < n /\ HdrUnits \in Nat \ {0} /\ k \in Nat /\ (k = 0 <=> inbox[c] = <<>>)
  BY <1>1, ReaderFacts, TakenFacts, ZenonT(60)
<1>4. TakesTo(w, c, n, k, z)
  BY <1>1, <1>2, <1>3, SMTT(30) DEF TakesTo
<1>5. LastUnit(w, c, k, z) /\ Took(w, c, z)
  BY <1>4, TakeStep, ZenonT(60)
<1>6. z.pos = HdrUnits + got + k /\ z.len = n /\ z.id = reqbuf[w].id
  BY <1>1, <1>5, Zenon DEF LastUnit, Took
<1> QED BY <1>2, <1>3, <1>5, <1>6, SMTT(30) DEF Left

LEMMA BodyDoneStreams ==
  ASSUME ServerInv, NEW w \in Workers, NEW c \in Clients, BodyDone(w, c)
  PROVE  StreamInv' /\ OwnerInv' /\ NoRequestLost'
<1>1. PICK z : Took(w, c, z) /\ Left(z) = 0 /\ z.id = reqbuf[w].id
  BY BodyDoneUnit, Zenon
<1>2. UNCHANGED <<conn, sending, outstanding, reqbuf, peer>>
  BY Zenon DEF BodyDone, doneVars
<1>3. pc[w] = "body" /\ pc'[w] = "serve" /\ \A v \in Workers \ {w} : pc'[v] = pc[v]
  BY Types, Zenon DEF BodyDone, Goto
<1>4. /\ reqInfo'[w] = z.id /\ activeFds'[w] = fd /\ c = peer[fd]
      /\ \A v \in Workers \ {w} : reqInfo'[v] = reqInfo[v] /\ activeFds'[v] = activeFds[v]
  BY <1>1, Types, Zenon DEF BodyDone, StartService
<1>5. \A v \in Workers \ {w} : ~Reading(v)
  BY <1>3, ReaderFacts, Zenon DEF Reading
<1>6. \A v \in Workers, d \in Clients : ~Inside(v, d)'
  BY <1>3, <1>5, Zenon DEF Inside, Reading
<1>7. \A v \in Workers, d \in Clients : Inside(v, d) => v = w /\ d = c
  BY <1>4, <1>5, Zenon DEF Inside
<1>8. \A d \in Clients : ~Answering(w, d) /\ (Answering(w, d)' <=> d = c)
  BY <1>2, <1>3, <1>4, Zenon DEF Answering, Serving
<1>9. \A v \in Workers \ {w}, d \in Clients : Answering(v, d)' <=> Answering(v, d)
  BY <1>2, <1>3, <1>4, Zenon DEF Answering, Serving
<1>10. StreamAfter(c, z) /\ IdsAfter(c, z) /\ OthersAfter(c)
  BY <1>1, Zenon DEF Took
<1>11. ASSUME NEW d \in Clients, d # c
       PROVE  /\ inbox'[d] = inbox[d] /\ Stream(d)' = Stream(d) /\ InStream(d)' = InStream(d)
              /\ \A v \in Workers : ~Inside(v, d)
  BY <1>7, <1>10, <1>11, Zenon DEF OthersAfter
<1>12. Stream(c)' \in Seq(Unit)
  <2>1. inbox'[c] \in Seq(Unit) /\ sending'[c] \in Seq(Unit)
    BY <1>2, <1>10, StreamTypes, ZenonT(40) DEF StreamAfter
  <2> QED BY <2>1 DEF Stream
<1>13. ASSUME NEW i \in DOMAIN Stream(c)'
       PROVE  Stream(c)'[i].id # z.id /\ (i = 1 => Stream(c)'[i].pos = 1)
  <2>1. Follows(z, Stream(c)'[i], i)
    BY <1>10, Zenon DEF StreamAfter
  <2>2. i \in Nat \ {0}
    BY <1>12
  <2> QED BY <2>1, <2>2, <1>1 DEF Follows
<1>14. Stream(c)' # <<>> => 1 \in DOMAIN Stream(c)'
  BY <1>12
<1>15. z.id \notin InStream(c)'
  BY <1>13, Zenon DEF InStream
<1>16. conn[c] # "new" /\ (conn[c] # "open" => outstanding[c] = {} /\ sending[c] = <<>>)
  BY <1>1, ReaderFacts, ZenonT(60) DEF ServerInv, FdInv, StreamInv, StreamOf, Took
<1>17. StreamInv'
  <2>1. ASSUME NEW d \in Clients
        PROVE  LET s == Stream(d)'
               IN  /\ WellFormed(s)
                   /\ s # <<>> => s[1].pos = 1
                   /\ conn'[d] = "open" /\ s # <<>> => Left(s[Len(s)]) = 0
                   /\ conn'[d] # "open" => outstanding'[d] = {} /\ sending'[d] = <<>>
                   /\ conn'[d] = "new" => inbox'[d] = <<>>
    <3>1. CASE d # c
      BY <3>1, <1>2, <1>11, ZenonT(60) DEF ServerInv, StreamInv, StreamOf
    <3>2. CASE d = c
      BY <3>2, <1>2, <1>10, <1>13, <1>14, <1>16, Zenon DEF StreamAfter
    <3> QED BY <3>1, <3>2, ZenonT(60)
  <2> QED BY <2>1, <1>6, ZenonT(60) DEF StreamInv, StreamOf, Follows, Left
<1>18. OwnerInv'
  <2>1. ASSUME NEW d \in Clients, conn[d] = "open"
        PROVE  /\ InStream(d) \subseteq outstanding[d]
               /\ \A v \in Workers : Answering(v, d) =>
                    /\ reqInfo[v] \in outstanding[d]
                    /\ reqInfo[v] \notin InStream(d)
                    /\ \A x \in Workers \ {v} : Answering(x, d) => reqInfo[x] # reqInfo[v]
    BY <2>1, Zenon DEF ServerInv, OwnerInv, OwnerOf
  <2>2. ASSUME NEW d \in Clients, conn[d] = "open"
        PROVE  /\ InStream(d)' \subseteq outstanding[d]
               /\ \A v \in Workers : Answering(v, d)' =>
                    /\ reqInfo'[v] \in outstanding[d]
                    /\ reqInfo'[v] \notin InStream(d)'
                    /\ \A x \in Workers \ {v} : Answering(x, d)' => reqInfo'[x] # reqInfo'[v]
    <3>1. CASE d # c
      BY <3>1, <2>1, <2>2, <1>4, <1>8, <1>9, <1>11, SMTT(30)
    <3>2. CASE d = c
      BY <3>2, <2>1, <2>2, <1>4, <1>8, <1>9, <1>10, <1>15, SMTT(30) DEF IdsAfter
    <3> QED BY <3>1, <3>2, Zenon
  <2> QED BY <2>2, <1>2, <1>6, Zenon DEF OwnerInv, OwnerOf
<1>19. NoRequestLost'
  <2>1. ASSUME NEW d \in Clients, NEW id, id \in outstanding[d]
        PROVE  id \in InStream(d)' \/ Held(d, id)'
    <3>1. id \in InStream(d) \/ Held(d, id)
      BY <2>1, Zenon DEF ServerInv, NoRequestLost
    <3>2. Held(d, id) => Held(d, id)' \/ (d = c /\ id = z.id)
      BY <1>1, <1>4, <1>7, <1>8, <1>9, SMTT(30) DEF Held
    <3>3. Held(c, z.id)'
      <4>1. Answering(w, c)' /\ reqInfo'[w] = z.id
        BY <1>4, <1>8, Zenon
      <4> QED BY <4>1, Zenon DEF Held
    <3>4. d = c /\ id \in InStream(d) => id \in InStream(d)' \/ id = z.id
      BY <1>10, Zenon DEF IdsAfter
    <3> QED BY <3>1, <3>2, <3>3, <3>4, <1>11, Zenon
  <2> QED BY <2>1, <1>2, Zenon DEF NoRequestLost
<1> QED BY <1>17, <1>18, <1>19, Zenon

LEMMA BodyDoneInv ==
  ASSUME ServerInv, NEW w \in Workers, NEW c \in Clients, BodyDone(w, c)
  PROVE  ServerInv'
<1>1. UNCHANGED <<proc, clientFds, recvClientHead, reqbuf, peer, backlog, conn, sending, outstanding>>
  BY Zenon DEF BodyDone, doneVars
<1>2. pc[w] = "body" /\ pc'[w] = "serve" /\ (\A v \in Workers \ {w} : pc'[v] = pc[v]) /\ recvLock' = NoThread
  BY Types, Zenon DEF BodyDone, Goto
<1>3. \A v \in Workers \ {w} : ~Reading(v) /\ pc[v] \notin {"select", "select2"} /\ (Serving(v)' <=> Serving(v))
  BY <1>2, OneReceiver, Zenon DEF Reading, Serving
<1>4. fd \in Fds /\ peer[fd] # NoClient /\ fd' = 0 /\ got' = 0 /\ reqbuf[w].id \in Ids
  <2>1. fd \in Fds /\ peer[fd] \in Clients
    BY <1>2, ReaderFacts, Zenon DEF Reading
  <2>2. PICK z : Took(w, c, z) /\ z.id = reqbuf[w].id
    BY BodyDoneUnit, Zenon
  <2>3. reqbuf[w].id \in Ids
    BY <2>2, UnitFacts, Zenon DEF Took
  <2> QED BY <2>1, <2>3, ServerAssumption, Zenon DEF BodyDone, CheckRecvOk
<1>5. TypeOK'
  <2>1. pc' \in [Workers -> {"idle", "select", "select2", "header", "body", "serve", "done"}]
    BY Types, Zenon DEF BodyDone, Goto
  <2>2. reqInfo' \in [Workers -> Ids \cup {NoReq}] /\ activeFds' \in [Workers -> Fds \cup {0}] /\ start_file' \in BOOLEAN
    BY <1>4, Types, Zenon DEF BodyDone, StartService
  <2>3. inbox' \in [Clients -> Seq(Unit)]
    BY BodyDoneUnit, Zenon DEF Took, StreamAfter
  <2>4. fd' \in Fds \cup {0} /\ got' \in Nat /\ recvLock' \in Workers \cup {NoThread}
    BY <1>2, <1>4, Zenon
  <2> QED BY <1>1, <2>1, <2>2, <2>3, <2>4, ZenonT(40) DEF ServerInv, TypeOK
<1>6. RecvLockInv'
  BY <1>2, <1>3, ServerAssumption, Zenon DEF RecvLockInv, Reading
<1>7. FdInv' /\ RemovedOnlyIfExited'
  BY <1>1, ZenonT(60) DEF ServerInv, FdInv, RemovedOnlyIfExited, InVector, Closed
<1>8. UseInv'
  <2>1. activeFds'[w] = fd /\ \A v \in Workers \ {w} : activeFds'[v] = activeFds[v]
    BY Types, Zenon DEF BodyDone, StartService
  <2> QED BY <2>1, <1>1, <1>2, <1>3, <1>4, ZenonT(60) DEF ServerInv, UseInv, Reading
<1>9. GotInv'
  BY <1>2, <1>3, <1>4, ZenonT(60) DEF GotInv, Reading
<1> QED BY <1>5, <1>6, <1>7, <1>8, <1>9, BodyDoneStreams, Zenon DEF ServerInv

-----------------------------------------------------------------------------
(* recvReq: the client has left.                                           *)

LEMMA EraseFdFacts ==
  ASSUME ServerInv, NEW f \in Fds, EraseFd(f)
  PROVE  /\ clientFds' \in Seq(Fds)
         /\ \A i, j \in DOMAIN clientFds' : clientFds'[i] = clientFds'[j] => i = j
         /\ \A i \in DOMAIN clientFds' : \E j \in DOMAIN clientFds : clientFds'[i] = clientFds[j]
         /\ \A g \in Fds \ {f} : InVector(g) => InVector(g)'
<1>1. PICK i \in DOMAIN clientFds :
        /\ clientFds[i] = f
        /\ clientFds' = SubSeq(clientFds, 1, i - 1) \o SubSeq(clientFds, i + 1, Len(clientFds))
  BY ZenonT(60) DEF EraseFd
<1>2. clientFds \in Seq(Fds) /\ Len(clientFds) \in Nat /\ DOMAIN clientFds = 1..Len(clientFds) /\ i \in 1..Len(clientFds)
  BY <1>1, Types, Zenon
<1>3. /\ clientFds' \in Seq(Fds) /\ Len(clientFds') = Len(clientFds) - 1
      /\ \A j \in 1..Len(clientFds') : clientFds'[j] = IF j < i THEN clientFds[j] ELSE clientFds[j + 1]
  BY <1>1, <1>2, EraseFacts, ZenonT(60)
<1>4. DOMAIN clientFds' = 1..(Len(clientFds) - 1)
  BY <1>2, <1>3
<1>5. \A k, j \in 1..Len(clientFds) : clientFds[k] = clientFds[j] => k = j
  BY <1>2, Zenon DEF ServerInv, FdInv
<1>6. \A k \in DOMAIN clientFds' : \E j \in DOMAIN clientFds : clientFds'[k] = clientFds[j] /\ j = IF k < i THEN k ELSE k + 1
  BY <1>2, <1>3, <1>4, SMTT(30)
<1>7. \A k, j \in DOMAIN clientFds' : clientFds'[k] = clientFds'[j] => k = j
  BY <1>2, <1>4, <1>5, <1>6, SMTT(30)
<1>8. ASSUME NEW g \in Fds \ {f}, InVector(g)
      PROVE  InVector(g)'
  <2>1. PICK k \in DOMAIN clientFds : clientFds[k] = g
    BY <1>8, Zenon DEF InVector
  <2>2. k # i
    BY <2>1, <1>1, Zenon
  <2>3. CASE k < i
    BY <2>1, <2>3, <1>2, <1>3, <1>4 DEF InVector
  <2>4. CASE k > i
    <3>1. k - 1 \in DOMAIN clientFds' /\ clientFds'[k - 1] = g
      BY <2>1, <2>4, <1>2, <1>3, <1>4
    <3> QED BY <3>1, Zenon DEF InVector
  <2> QED BY <2>2, <2>3, <2>4, <1>2
<1> QED BY <1>3, <1>6, <1>7, <1>8, Zenon

Leaves(w, c) ==
  /\ Reading(w) /\ c = peer[fd]
  /\ CheckRecvLeft(w, c, Asked(w))

LEMMA LeavesFacts ==
  ASSUME ServerInv, NEW w \in Workers, NEW c \in Clients, Leaves(w, c)
  PROVE  /\ got = 0 /\ Stream(c) = <<>> /\ Closed(c) /\ outstanding[c] = {}
         /\ \A v \in Workers, d \in Clients : ~Inside(v, d)' /\ (Inside(v, d) => v = w /\ d = c)
         /\ \A v \in Workers, d \in Clients : Answering(v, d)' <=> Answering(v, d)
         /\ pc'[w] = "select" /\ \A v \in Workers \ {w} : pc'[v] = pc[v] /\ ~Reading(v)
<1>1. /\ RecvReturns(c, Asked(w)) /\ recvd(c, Asked(w)) = 0
      /\ Goto(w, pc[w], "select") /\ UNCHANGED <<reqVars, clientVars, peer>>
  BY Zenon DEF Leaves, CheckRecvLeft, removeClient
<1>2. Reading(w) /\ c = peer[fd]
  BY Zenon DEF Leaves
<1>3. Taken(c, Asked(w)) \in Nat /\ (Taken(c, Asked(w)) = 0 <=> inbox[c] = <<>>) /\ got \in Nat /\ got < Asked(w) /\ Asked(w) \in Nat
  BY <1>2, TakenFacts, ReaderFacts, ZenonT(60)
<1>4. got = 0 /\ inbox[c] = <<>> /\ Closed(c)
  BY <1>1, <1>3 DEF recvd, RecvReturns
<1>5. outstanding[c] = {} /\ Stream(c) = <<>>
  <2>1. outstanding[c] = {} /\ sending[c] = <<>>
    BY <1>4, Zenon DEF ServerInv, StreamInv, StreamOf, Closed
  <2> QED BY <2>1, <1>4, StreamTypes, Zenon
<1>6. pc'[w] = "select" /\ \A v \in Workers \ {w} : pc'[v] = pc[v] /\ ~Reading(v)
  BY <1>1, <1>2, Types, ReaderFacts, Zenon DEF Goto
<1>7. \A v \in Workers, d \in Clients : ~Inside(v, d)' /\ (Inside(v, d) => v = w /\ d = c)
  BY <1>2, <1>6, Zenon DEF Inside, Reading
<1>8. \A v \in Workers, d \in Clients : Answering(v, d)' <=> Answering(v, d)
  BY <1>1, <1>2, <1>6, Zenon DEF Answering, Serving, Reading, reqVars
<1> QED BY <1>4, <1>5, <1>6, <1>7, <1>8, Zenon

LEMMA LeavesStreams ==
  ASSUME ServerInv, NEW w \in Workers, NEW c \in Clients, Leaves(w, c)
  PROVE  StreamInv' /\ OwnerInv' /\ NoRequestLost'
<1>1. UNCHANGED <<conn, sending, inbox, outstanding, reqbuf, reqInfo>>
  BY Zenon DEF Leaves, CheckRecvLeft, reqVars, clientVars
<1>2. \A d \in Clients : Stream(d)' = Stream(d) /\ InStream(d)' = InStream(d)
  BY <1>1, Zenon DEF Stream, InStream
<1>3. Stream(c) = <<>> /\ outstanding[c] = {} /\ conn[c] # "open"
  BY LeavesFacts, Zenon DEF Closed
<1>4. \A v \in Workers, d \in Clients : ~Inside(v, d)' /\ (Inside(v, d) => d = c)
  BY LeavesFacts, Zenon
<1>5. \A v \in Workers, d \in Clients : Answering(v, d)' <=> Answering(v, d)
  BY LeavesFacts, Zenon
<1>6. StreamInv'
  BY <1>1, <1>2, <1>3, <1>4, ZenonT(60) DEF ServerInv, StreamInv, StreamOf
<1>7. OwnerInv'
  BY <1>1, <1>2, <1>4, <1>5, ZenonT(60) DEF ServerInv, OwnerInv, OwnerOf
<1>8. NoRequestLost'
  <2>1. ASSUME NEW d \in Clients, NEW id, id \in outstanding[d]
        PROVE  id \in InStream(d)' \/ Held(d, id)'
    <3>1. d # c /\ (id \in InStream(d) \/ Held(d, id))
      BY <2>1, <1>3, Zenon DEF ServerInv, NoRequestLost
    <3>2. Held(d, id) => Held(d, id)'
      BY <3>1, <1>1, <1>4, <1>5, Zenon DEF Held
    <3> QED BY <3>1, <3>2, <1>2, Zenon
  <2> QED BY <2>1, <1>1, Zenon DEF NoRequestLost
<1> QED BY <1>6, <1>7, <1>8, Zenon

LEMMA LeavesInv ==
  ASSUME ServerInv, NEW w \in Workers, NEW c \in Clients, Leaves(w, c)
  PROVE  ServerInv'
<1>1. /\ UNCHANGED <<proc, recvLock, recvClientHead, got, reqVars, backlog, clientVars, peer>>
      /\ EraseFd(fd) /\ fd' = 0 /\ Goto(w, pc[w], "select") /\ Reading(w) /\ c = peer[fd]
  BY Zenon DEF Leaves, CheckRecvLeft, removeClient
<1>2. fd \in Fds
  BY <1>1, ReaderFacts, Zenon
<1>3. /\ clientFds' \in Seq(Fds)
      /\ \A i, j \in DOMAIN clientFds' : clientFds'[i] = clientFds'[j] => i = j
      /\ \A i \in DOMAIN clientFds' : \E j \in DOMAIN clientFds : clientFds'[i] = clientFds[j]
      /\ \A g \in Fds \ {fd} : InVector(g) => InVector(g)'
  BY <1>1, <1>2, EraseFdFacts, Zenon
<1>4. pc'[w] = "select" /\ (\A v \in Workers \ {w} : pc'[v] = pc[v] /\ ~Reading(v)) /\ got = 0 /\ Closed(c)
  BY LeavesFacts, Zenon
<1>5. \A v \in Workers : ~Reading(v)' /\ (Serving(v)' <=> Serving(v)) /\ pc'[v] # "select2"
  BY <1>1, <1>4, OneReceiver, Zenon DEF Reading, Serving
<1>6. TypeOK'
  <2>1. pc' \in [Workers -> {"idle", "select", "select2", "header", "body", "serve", "done"}]
    BY <1>1, Types, Zenon DEF Goto
  <2>2. fd' \in Fds \cup {0}
    BY <1>1, Zenon
  <2> QED BY <1>1, <1>3, <2>1, <2>2, ZenonT(40) DEF ServerInv, TypeOK, reqVars, clientVars
<1>7. RecvLockInv'
  BY <1>1, <1>4, <1>5, ZenonT(40) DEF ServerInv, RecvLockInv, Reading
<1>8. FdInv'
  BY <1>1, <1>3 DEF ServerInv, FdInv, clientVars
<1>9. UseInv'
  BY <1>1, <1>5, ZenonT(60) DEF ServerInv, UseInv, reqVars
<1>10. GotInv'
  BY <1>1, <1>4, <1>5, ZenonT(60) DEF GotInv, Reading
<1>11. RemovedOnlyIfExited'
  BY <1>1, <1>3, <1>4, Zenon DEF ServerInv, RemovedOnlyIfExited, Closed, clientVars
<1> QED BY <1>6, <1>7, <1>8, <1>9, <1>10, <1>11, LeavesStreams, ZenonT(40) DEF ServerInv

\* The process ends: nothing else changes.
LEMMA ProcInv ==
  ASSUME ServerInv, proc' \in {"running", "exited", "aborted", "killed", "returned"},
         UNCHANGED <<pc, recvLock, recvVars, reqVars, peer, backlog, clientVars>>
  PROVE  ServerInv'
<1>1. UNCHANGED <<pc, recvLock, clientFds, recvClientHead, fd, got, reqbuf, reqInfo, activeFds,
                  start_file, peer, backlog, conn, sending, inbox, outstanding>>
  BY Zenon DEF recvVars, reqVars, clientVars
<1>2. TypeOK'
  BY <1>1, ZenonT(40) DEF ServerInv, TypeOK
<1>3. RecvLockInv' /\ FdInv' /\ UseInv' /\ GotInv' /\ RemovedOnlyIfExited'
  BY <1>1 DEF ServerInv, RecvLockInv, FdInv, UseInv, GotInv, RemovedOnlyIfExited, Reading, Serving,
              InVector, Closed
<1>4. \A w \in Workers, c \in Clients :
        /\ Inside(w, c)' <=> Inside(w, c)
        /\ Answering(w, c)' <=> Answering(w, c)
        /\ LastTaken(w)' = LastTaken(w)
  BY <1>1, ZenonT(60) DEF Inside, Answering, Reading, Serving, LastTaken
<1>5. UNCHANGED clientVars
  BY <1>1, Zenon DEF clientVars
<1>6. StreamInv' /\ OwnerInv' /\ NoRequestLost'
  BY <1>1, <1>4, <1>5, StreamsFrame, ZenonT(60)
<1> QED BY <1>2, <1>3, <1>6, Zenon DEF ServerInv

LEMMA RecvHeaderInv ==
  ASSUME ServerInv, NEW w \in Workers, RecvHeader(w)
  PROVE  ServerInv'
<1> DEFINE c == peer[fd]
<1>1. pc[w] = "header" /\ Reading(w) /\ Asked(w) = HdrUnits
  BY Zenon DEF RecvHeader, Reading, Asked
<1>2. c \in Clients
  BY <1>1, ReaderFacts, Zenon
<1>3. CASE CheckRecvLeft(w, c, HdrUnits)
  <2>1. Leaves(w, c)
    BY <1>1, <1>3, Zenon DEF Leaves
  <2> QED BY <2>1, <1>2, LeavesInv, Zenon
<1>4. CASE CheckRecvPartial(w, c, HdrUnits)
  BY <1>4, ProcInv, Zenon DEF CheckRecvPartial
<1>5. CASE /\ \/ RecvSome(c, HdrUnits) /\ UNCHANGED pc
              \/ CheckRecvOk(c, HdrUnits) /\ Goto(w, "header", "body")
           /\ reqbuf' = [reqbuf EXCEPT ![w] = [id |-> Head(inbox[c]).id, len |-> Head(inbox[c]).len]]
           /\ UNCHANGED <<proc, recvLock, clientFds, recvClientHead, fd, reqInfo, activeFds,
                          start_file, peer, backlog, conn, sending, outstanding>>
  <2>1. ReadsOn(w, c) /\ UNCHANGED readOnVars
    BY <1>1, <1>5, ZenonT(60) DEF ReadsOn, readOnVars
  <2> QED BY <2>1, <1>2, ReadOnInv, Zenon
<1> QED BY <1>3, <1>4, <1>5, Zenon DEF RecvHeader

LEMMA RecvBodyInv ==
  ASSUME ServerInv, NEW w \in Workers, RecvBody(w)
  PROVE  ServerInv'
<1> DEFINE c == peer[fd]
           n == reqbuf[w].len
<1>1. pc[w] = "body" /\ Reading(w) /\ Asked(w) = n
  BY ZenonT(60) DEF RecvBody, Reading, Asked
<1>2. c \in Clients
  BY <1>1, ReaderFacts, ZenonT(60)
<1>3. CASE CheckRecvLeft(w, c, n)
  <2>1. Leaves(w, c)
    BY <1>1, <1>3, ZenonT(60) DEF Leaves
  <2> QED BY <2>1, <1>2, LeavesInv, Zenon
<1>4. CASE CheckRecvPartial(w, c, n)
  BY <1>4, ProcInv, Zenon DEF CheckRecvPartial
<1>5. CASE /\ RecvSome(c, n)
           /\ UNCHANGED <<proc, pc, recvLock, clientFds, recvClientHead, fd, reqVars,
                          peer, backlog, conn, sending, outstanding>>
  <2>1. ReadsOn(w, c) /\ UNCHANGED readOnVars
    BY <1>1, <1>5, ZenonT(60) DEF ReadsOn, readOnVars, reqVars
  <2> QED BY <2>1, <1>2, ReadOnInv, Zenon
<1>6. CASE /\ CheckRecvOk(c, n)
           /\ StartService(w)
           /\ recvLock' = NoThread
           /\ fd' = 0
           /\ Goto(w, "body", "serve")
           /\ UNCHANGED <<proc, clientFds, recvClientHead, reqbuf, peer, backlog, conn, sending, outstanding>>
  <2>1. BodyDone(w, c)
    BY <1>1, <1>6, ZenonT(60) DEF BodyDone, doneVars
  <2> QED BY <2>1, <1>2, BodyDoneInv, Zenon
<1> QED BY <1>3, <1>4, <1>5, <1>6, ZenonT(60) DEF RecvBody

=============================================================================
