------------------------ MODULE ApplicationsProofs -------------------------
(***************************************************************************)
(* Proofs about Applications, for any number of workers and requests and   *)
(* any quota: AppInv is inductive, and the safety properties follow.       *)
(***************************************************************************)
EXTENDS Applications, FiniteSetTheorems, TLAPS

-----------------------------------------------------------------------------
(* Counting the workers at a set of control points. *)

\* The workers at some control points are at most all the workers.
LEMMA InFacts ==
    ASSUME NEW S
    PROVE  /\ IsFiniteSet(At(S)) /\ In(S) \in Nat /\ In(S) <= NThreads
           /\ NThreads \in Nat \ {0}
<1>1. At(S) \in SUBSET Workers
    BY Zenon DEF At
<1>2. IsFiniteSet(At(S)) /\ In(S) <= NThreads
    BY <1>1, FS_Subset, WorkersAssumption, Zenon DEF In, NThreads
<1>3. In(S) \in Nat /\ NThreads \in Nat /\ NThreads # 0
    BY <1>2, FS_CardinalityType, FS_EmptySet, WorkersAssumption, Zenon DEF In, NThreads
<1> QED BY <1>2, <1>3

\* No worker enters or leaves the control points S.
Steady(S) == \A w \in Workers : pc'[w] \in S <=> pc[w] \in S

\* A set that workers neither enter nor leave.
LEMMA InKept ==
    ASSUME NEW S, Steady(S)
    PROVE  In(S)' = In(S)
<1>1. At(S)' = At(S)
    BY Zenon DEF At, Steady
<1> QED BY <1>1, Zenon DEF In

\* A worker's move within a set, or outside it.
LEMMA Stays ==
    ASSUME NEW S, AppTypeOK, NEW w \in Workers, NEW a, NEW b, Goto(w, a, b),
           a \in S <=> b \in S
    PROVE  Steady(S)
BY Zenon DEF Goto, AppTypeOK, Steady

\* A worker's move into a set.
LEMMA Enters ==
    ASSUME NEW S, AppTypeOK, NEW w \in Workers, NEW a, NEW b, Goto(w, a, b),
           a \notin S, b \in S
    PROVE  In(S)' = In(S) + 1 /\ In(S) + 1 <= NThreads
<1>1. /\ pc[w] = a /\ pc'[w] = b
      /\ \A v \in Workers \ {w} : pc'[v] = pc[v]
    BY Zenon DEF Goto, AppTypeOK
<1>2. w \notin At(S) /\ At(S)' = At(S) \cup {w} /\ At(S)' \subseteq Workers
    BY <1>1 DEF At
<1>3. In(S)' = In(S) + 1
    BY <1>2, InFacts, FS_AddElement, Zenon DEF In
<1>4. In(S)' <= NThreads
    BY <1>2, FS_Subset, WorkersAssumption, Zenon DEF In, NThreads
<1> QED BY <1>3, <1>4, Zenon

\* A worker's move out of a set.
LEMMA Leaves ==
    ASSUME NEW S, AppTypeOK, NEW w \in Workers, NEW a, NEW b, Goto(w, a, b),
           a \in S, b \notin S
    PROVE  In(S)' = In(S) - 1 /\ In(S) > 0
<1>1. /\ pc[w] = a /\ pc'[w] = b
      /\ \A v \in Workers \ {w} : pc'[v] = pc[v]
    BY Zenon DEF Goto, AppTypeOK
<1>2. w \in At(S) /\ At(S)' = At(S) \ {w}
    BY <1>1 DEF At
<1>3. In(S) \in Nat /\ In(S) # 0
    BY <1>2, InFacts, FS_EmptySet, Zenon DEF In
<1>4. In(S)' = In(S) - 1
    <2>1. Cardinality(At(S) \ {w}) = IF w \in At(S) THEN In(S) - 1 ELSE In(S)
        BY InFacts, FS_RemoveElement, Zenon DEF In
    <2> QED BY <1>2, <2>1, Zenon DEF In
<1> QED BY <1>3, <1>4

\* Joined threads are nowhere but at their end.
LEMMA InJoined ==
    ASSUME NEW S, "done" \notin S, Joined
    PROVE  In(S) = 0
<1>1. At(S) = {}
    BY Zenon DEF At, Joined
<1> QED BY <1>1, FS_EmptySet, Zenon DEF In

-----------------------------------------------------------------------------
(* The slots. *)

\* A thread that has started stays started.
SlotsKept ==
    /\ UNCHANGED <<curTid, tid>>
    /\ Steady(Before)

\* Steps that start no thread keep the slots.
LEMMA SlotFrame ==
    ASSUME SlotInv, SlotsKept
    PROVE  SlotInv'
<1>1. {w \in Workers : pc[w] \notin Before}' = {w \in Workers : pc[w] \notin Before}
    BY Zenon DEF SlotsKept, Steady
<1>2. curTid' = Cardinality({w \in Workers : pc[w] \notin Before})'
    BY <1>1, Zenon DEF SlotInv, SlotsKept
<1> QED BY <1>2, Zenon DEF SlotInv, SlotsKept, Steady

\* tBenchServerThreadStart gives out a number nobody has.
LEMMA SlotStart ==
    ASSUME AppTypeOK, SlotInv, NEW w \in Workers, NEW to, to \notin Before,
           tBenchServerThreadStart(w, to)
    PROVE  SlotInv'
<1> DEFINE On == {v \in Workers : pc[v] \notin Before}
<1>1. /\ pc[w] \in Before /\ pc'[w] \notin Before
      /\ tid[w] = NoTid /\ tid'[w] = curTid /\ tid' \in [Workers -> {curTid} \cup Int]
      /\ \A v \in Workers \ {w} : pc'[v] = pc[v] /\ tid'[v] = tid[v]
    BY Zenon DEF tBenchServerThreadStart, Goto, AppTypeOK, SlotInv, Before
<1>2. On \in SUBSET Workers /\ w \notin On /\ On' = On \cup {w}
    BY <1>1, Zenon
<1>3. IsFiniteSet(On) /\ curTid = Cardinality(On) /\ curTid \in Nat
    BY <1>2, FS_Subset, FS_CardinalityType, WorkersAssumption, Zenon DEF SlotInv
<1>4. Cardinality(On') = curTid + 1 /\ curTid' = curTid + 1
    BY <1>2, <1>3, FS_AddElement, Zenon DEF tBenchServerThreadStart, nextTid
<1> HIDE DEF On
<1>5. tid' \in [Workers -> Int]
    BY <1>1, <1>3
<1>6. ASSUME NEW v \in Workers
      PROVE  IF pc'[v] \in Before THEN tid'[v] = NoTid ELSE 0 <= tid'[v] /\ tid'[v] < curTid'
    <2>1. CASE v = w
        BY <1>1, <1>3, <1>4, <2>1
    <2>2. CASE v # w
        <3>1. tid[v] \in Int /\ (tid[v] < curTid => tid[v] < curTid')
            BY <1>3, <1>4 DEF SlotInv
        <3> QED BY <1>1, <2>2, <3>1, Zenon DEF SlotInv
    <2> QED BY <2>1, <2>2, Zenon
<1>7. ASSUME NEW u \in Workers, NEW v \in Workers, u # v, tid'[u] = tid'[v]
      PROVE  tid'[u] = NoTid
    <2>1. ASSUME NEW x \in Workers PROVE tid[x] # curTid
        <3>1. tid[x] \in Int /\ (tid[x] = -1 \/ tid[x] < curTid)
            BY Zenon DEF SlotInv, NoTid
        <3> QED BY <3>1, <1>3
    <2> QED BY <1>1, <1>7, <2>1, Zenon DEF SlotInv
<1> QED BY <1>4, <1>5, <1>6, <1>7, Zenon DEF SlotInv, On

\* A worker's move among the points before the start, or among those after it.
LEMMA SlotMove ==
    ASSUME AppTypeOK, SlotInv, NEW w \in Workers, NEW a, NEW b, Goto(w, a, b),
           a \in Before <=> b \in Before, UNCHANGED <<curTid, tid>>
    PROVE  SlotInv'
<1>1. Steady(Before)
    BY Stays, Zenon
<1> QED BY <1>1, SlotFrame, Zenon DEF SlotsKept

-----------------------------------------------------------------------------
(* What most steps leave alone. *)

\* A worker's move stays within the control points.
LEMMA PointsMove ==
    ASSUME AppTypeOK, NEW w \in Workers, NEW a, NEW b \in WorkerPoints, Goto(w, a, b)
    PROVE  pc' \in [Workers -> WorkerPoints]
BY Zenon DEF AppTypeOK, Goto

\* While a worker is not done, main has not joined it.
LEMMA MainMove ==
    ASSUME MainInv, NEW w \in Workers, pc[w] # "done",
           UNCHANGED <<program, running, finished>>, main' \in {main, "drain"}
    PROVE  MainInv'
<1>1. main \notin {"finish", "ended"} /\ ~finished
    BY Zenon DEF MainInv, Joined
<1> QED BY <1>1, Zenon DEF MainInv

\* The sets of control points that the counts of AppInv are about.
Counted == {{"work"}, {"recv"}, {"work", "count"}, {"recv", "work", "count"}}

\* A worker's move outside its service.
LEMMA CountedMove ==
    ASSUME AppTypeOK, NEW w \in Workers, NEW a, NEW b, Goto(w, a, b),
           a \notin {"recv", "work", "count"}, b \notin {"recv", "work", "count"}
    PROVE  \A S \in Counted : Steady(S)
<1>1. ASSUME NEW S \in Counted PROVE a \notin S /\ b \notin S
    BY Zenon DEF Counted
<1> QED BY <1>1, Stays, Zenon

\* At most NThreads * Quota requests are taken.
LEMMA TakenFinite ==
    IsFiniteSet(Taken) /\ Cardinality(Taken) <= NThreads * Quota
<1>1. IsFiniteSet(1 .. Quota) /\ Cardinality(1 .. Quota) = Quota
    BY QuotaAssumption, FS_Interval
<1>2. /\ IsFiniteSet(Workers \X (1 .. Quota))
      /\ Cardinality(Workers \X (1 .. Quota)) = NThreads * Quota
    BY <1>1, WorkersAssumption, FS_Product, Zenon DEF NThreads
<1>3. Taken \in SUBSET (Workers \X (1 .. Quota))
    BY Zenon DEF Taken
<1> QED BY <1>2, <1>3, FS_Subset, Zenon

\* The requests taken change only with the own counts and the workers at work.
LEMMA TakenKept ==
    ASSUME UNCHANGED own, Steady({"work"})
    PROVE  Taken' = Taken
<1>1. \A w \in Workers : pc'[w] = "work" <=> pc[w] = "work"
    BY Zenon DEF Steady
<1> QED BY <1>1 DEF Taken

\* Steps that move no worker into or out of its service.
LEMMA QuietStep ==
    ASSUME AppInv, UNCHANGED <<program, offered, received, answered, total, own>>,
           pc' \in [Workers -> WorkerPoints], main' \in MainPoints,
           m_tasks' \in Nat, submitted' \in Nat,
           \A S \in Counted : Steady(S),
           SlotInv', MainInv', program = "moses" => PoolInv'
    PROVE  AppInv'
<1>1. AppTypeOK'
    <2>1. {offered, received, answered, total, m_tasks, submitted}' \subseteq Nat
        BY DEF AppInv, AppTypeOK
    <2> QED BY <2>1, Zenon DEF AppInv, AppTypeOK
<1>2. \A S \in Counted : In(S)' = In(S)
    BY InKept, Zenon
<1>3. /\ In({"work"})' = In({"work"})
      /\ In({"recv"})' = In({"recv"})
      /\ In({"work", "count"})' = In({"work", "count"})
      /\ In({"recv", "work", "count"})' = In({"recv", "work", "count"})
    BY <1>2, Zenon DEF Counted
<1>4. ServeInv'
    BY <1>3, Zenon DEF AppInv, ServeInv
<1>5. program' = "xapian" => XapianInv'
    BY <1>3, Zenon DEF AppInv, XapianInv
<1>6. program' = "img-dnn" => ImgDnnInv'
    BY <1>3, Zenon DEF AppInv, ImgDnnInv
<1>7. program' \in {"silo", "shore"} => OwnInv'
    <2> SUFFICES ASSUME program \in {"silo", "shore"} PROVE OwnInv'
        BY Zenon
    <2>1. Steady({"work"}) /\ Steady({"recv"})
        BY Zenon DEF Counted
    <2>2. \A w \in Workers : /\ pc'[w] = "work" <=> pc[w] = "work"
                             /\ pc'[w] \in {"recv", "work"} <=> pc[w] \in {"recv", "work"}
        BY <2>1, Zenon DEF Steady
    <2>3. Taken' = Taken
        BY <2>1, TakenKept, Zenon
    <2> QED BY <2>2, <2>3, Zenon DEF AppInv, OwnInv
<1> QED BY <1>1, <1>4, <1>5, <1>6, <1>7, Zenon DEF AppInv

-----------------------------------------------------------------------------
(* The steps of the programs with a loop per thread. *)

\* Waiting for the other threads.
LEMMA StepRendezvous ==
    ASSUME AppInv, LoopsStep(Rendezvous)
    PROVE  AppInv'
<1>0. /\ AppTypeOK /\ SlotInv /\ MainInv /\ program # "moses"
      /\ UNCHANGED <<program, offered, received, answered, total, own, running, finished>>
      /\ UNCHANGED <<curTid, tid, main, m_tasks, submitted>>
    BY Zenon DEF AppInv, LoopsStep, Rendezvous, loopVars, poolVars
<1>1. main \in MainPoints /\ m_tasks \in Nat /\ submitted \in Nat
    BY <1>0, Zenon DEF AppTypeOK
<1>2. CASE \E w \in Workers : Arrive(w)
    <2>1. PICK w \in Workers : Goto(w, "born", "barrier")
        BY <1>2, Zenon DEF Arrive
    <2>2. pc' \in [Workers -> WorkerPoints]
        BY <1>0, <2>1, PointsMove, Zenon DEF WorkerPoints, Before
    <2>3. SlotInv'
        BY <1>0, <2>1, SlotMove, Zenon DEF Before
    <2>4. MainInv'
        BY <1>0, <2>1, MainMove, Zenon DEF Goto
    <2>5. \A S \in Counted : Steady(S)
        BY <1>0, <2>1, CountedMove, Zenon
    <2> QED BY <1>0, <1>1, <2>2, <2>3, <2>4, <2>5, QuietStep, Zenon
<1>3. CASE Release
    <2>1. \A w \in Workers : pc[w] = "barrier" /\ pc'[w] = "start"
        BY <1>3, Zenon DEF Release
    <2>2. pc' \in [Workers -> WorkerPoints]
        BY <1>3, Zenon DEF Release, WorkerPoints, Before
    <2>3. SlotInv'
        BY <1>0, <2>1, SlotFrame, Zenon DEF SlotsKept, Steady, Before
    <2>4. MainInv'
        <3>1. PICK w \in Workers : TRUE
            BY WorkersAssumption, Zenon
        <3> QED BY <1>0, <2>1, <3>1, MainMove, Zenon
    <2>5. \A S \in Counted : Steady(S)
        BY <2>1, Zenon DEF Counted, Steady
    <2> QED BY <1>0, <1>1, <2>2, <2>3, <2>4, <2>5, QuietStep, Zenon
<1> QED BY <1>2, <1>3, Zenon DEF LoopsStep, Rendezvous

\* tBenchServerThreadStart.
LEMMA StepStart ==
    ASSUME AppInv, NEW w \in Workers, LoopsStep(Start(w))
    PROVE  AppInv'
<1>0. /\ AppTypeOK /\ SlotInv /\ MainInv /\ program # "moses"
      /\ UNCHANGED <<program, offered, received, answered, total, own, running, finished>>
      /\ UNCHANGED <<main, m_tasks, submitted>>
      /\ tBenchServerThreadStart(w, "loop") /\ Goto(w, "start", "loop")
    BY Zenon DEF AppInv, LoopsStep, Start, tBenchServerThreadStart, loopVars, poolVars
<1>1. main \in MainPoints /\ m_tasks \in Nat /\ submitted \in Nat
    BY <1>0, Zenon DEF AppTypeOK
<1>2. pc' \in [Workers -> WorkerPoints]
    BY <1>0, PointsMove, Zenon DEF WorkerPoints
<1>3. SlotInv'
    BY <1>0, SlotStart, Zenon DEF Before
<1>4. MainInv'
    BY <1>0, MainMove, Zenon DEF Goto
<1>5. \A S \in Counted : Steady(S)
    BY <1>0, CountedMove, Zenon
<1> QED BY <1>0, <1>1, <1>2, <1>3, <1>4, <1>5, QuietStep, Zenon

\* What a thread that goes on has tested.
LEMMA GoesOnFacts ==
    ASSUME NEW w \in Workers, GoesOn(w)
    PROVE  /\ program = "xapian" => total < Quota
           /\ program = "img-dnn" => total + 1 <= Quota
           /\ program \in {"silo", "shore"} => own[w] < Quota
<1>1. program = "xapian" => XapianGoesOn
    BY DEF GoesOn, Silo
<1>2. program = "img-dnn" => ImgDnnGoesOn
    BY DEF GoesOn, Silo
<1>3. program = "silo" => SiloGoesOn(w)
    BY DEF GoesOn, Silo
<1>4. program = "shore" => ShoreGoesOn(w)
    BY DEF GoesOn, Silo
<1> QED
    BY <1>1, <1>2, <1>3, <1>4, Zenon DEF XapianGoesOn, ImgDnnGoesOn, SiloGoesOn, ShoreGoesOn

\* The loop's condition: a thread goes on to receive only within the quota.
LEMMA StepLoopHead ==
    ASSUME AppInv, NEW w \in Workers, LoopsStep(LoopHead(w))
    PROVE  AppInv'
<1> DEFINE b == IF GoesOn(w) THEN "recv" ELSE "done"
<1>0. /\ AppTypeOK /\ SlotInv /\ MainInv /\ program # "moses"
      /\ UNCHANGED <<program, offered, received, answered, own, running, finished>>
      /\ UNCHANGED <<curTid, tid, main, m_tasks, submitted>>
      /\ total' = IF program = "img-dnn" THEN total + 1 ELSE total
      /\ Goto(w, "loop", b)
    BY Zenon DEF AppInv, LoopsStep, LoopHead, poolVars
<1>1. b \in {"recv", "done"} /\ (b = "recv" => GoesOn(w))
    BY Zenon
<1> HIDE DEF b
<1>2. AppTypeOK'
    <2>1. {offered, received, answered, total, m_tasks, submitted}' \subseteq Nat
        BY <1>0 DEF AppTypeOK
    <2>2. pc' \in [Workers -> WorkerPoints]
        BY <1>0, <1>1, PointsMove, Zenon DEF WorkerPoints
    <2> QED BY <1>0, <2>1, <2>2, Zenon DEF AppTypeOK
<1>3. SlotInv'
    BY <1>0, <1>1, SlotMove, Zenon DEF Before
<1>4. MainInv'
    BY <1>0, MainMove, Zenon DEF Goto
<1>5. Steady({"work"}) /\ Steady({"work", "count"})
    BY <1>0, <1>1, Stays, Zenon
<1>6. ServeInv'
    BY <1>0, <1>5, InKept, Zenon DEF AppInv, ServeInv
<1>7. ASSUME program = "xapian" PROVE XapianInv'
    <2> DEFINE S == {"recv", "work", "count"}
    <2>1. In(S)' = In(S) \/ (In(S)' = In(S) + 1 /\ In(S) + 1 <= NThreads /\ total < Quota)
        <3>1. CASE b = "recv"
            <4>1. In(S)' = In(S) + 1 /\ In(S) + 1 <= NThreads
                BY <1>0, <3>1, Enters, Zenon
            <4> QED BY <1>1, <1>7, <3>1, <4>1, GoesOnFacts, Zenon
        <3>2. CASE b = "done"
            <4>1. Steady(S)
                BY <1>0, <3>2, Stays, Zenon
            <4> QED BY <4>1, InKept, Zenon
        <3> QED BY <1>1, <3>1, <3>2, Zenon
    <2>2. In(S) \in Nat /\ NThreads \in Nat /\ Quota \in Nat /\ total \in Nat
        BY <1>0, InFacts, QuotaAssumption, Zenon DEF AppTypeOK
    <2>3. In({"work", "count"})' = In({"work", "count"}) /\ total' = total
        BY <1>0, <1>5, <1>7, InKept, Zenon
    <2>4. received = total + In({"work", "count"}) /\ total + In(S) <= Quota + NThreads - 1
        BY <1>7, Zenon DEF AppInv, XapianInv
    <2>5. total + In(S)' <= Quota + NThreads - 1
        BY <2>1, <2>2, <2>4
    <2> QED BY <1>0, <2>3, <2>4, <2>5, Zenon DEF XapianInv
<1>8. ASSUME program = "img-dnn" PROVE ImgDnnInv'
    <2> DEFINE r == In({"recv"})
    <2>1. r' = r \/ (r' = r + 1 /\ total + 1 <= Quota)
        <3>1. CASE b = "recv"
            <4>1. In({"recv"})' = In({"recv"}) + 1
                BY <1>0, <3>1, Enters
            <4> QED BY <1>1, <1>8, <3>1, <4>1, GoesOnFacts, Zenon
        <3>2. CASE b = "done"
            <4>1. Steady({"recv"})
                BY <1>0, <3>2, Stays, Zenon
            <4> QED BY <4>1, InKept, Zenon
        <3> QED BY <1>1, <3>1, <3>2, Zenon
    <2>2. r \in Nat /\ Quota \in Nat /\ total \in Nat /\ received \in Nat
        BY <1>0, InFacts, QuotaAssumption, Zenon DEF AppTypeOK
    <2>3. total' = total + 1 /\ received' = received /\ received + r <= total /\ received + r <= Quota
        BY <1>0, <1>8, Zenon DEF AppInv, ImgDnnInv
    <2> HIDE DEF r
    <2>4. received' + r' <= total' /\ received' + r' <= Quota
        BY <2>1, <2>2, <2>3
    <2> QED BY <2>4, Zenon DEF ImgDnnInv, r
<1>9. ASSUME program \in {"silo", "shore"} PROVE OwnInv'
    <2>1. Taken' = Taken
        BY <1>0, <1>5, TakenKept, Zenon
    <2>2. /\ pc'[w] = b /\ \A v \in Workers \ {w} : pc'[v] = pc[v]
          /\ b = "recv" => own[w] < Quota
        BY <1>0, <1>1, <1>9, GoesOnFacts, Zenon DEF Goto, AppTypeOK
    <2>3. own \in [Workers -> Nat] /\ Quota \in Nat
          /\ \A v \in Workers : own[v] + (IF pc[v] \in {"recv", "work"} THEN 1 ELSE 0) <= Quota
          /\ pc[w] = "loop"
        BY <1>0, <1>9, QuotaAssumption, Zenon DEF AppTypeOK, AppInv, OwnInv, Goto
    <2>4. \A v \in Workers : own[v] + (IF pc'[v] \in {"recv", "work"} THEN 1 ELSE 0) <= Quota
        BY <1>1, <2>2, <2>3
    <2> QED BY <1>0, <1>9, <2>1, <2>4, Zenon DEF AppInv, OwnInv
<1> QED BY <1>0, <1>2, <1>3, <1>4, <1>6, <1>7, <1>8, <1>9, Zenon DEF AppInv

\* tBenchRecvReq, called by a loop or by a task: the request is the worker's.
LEMMA StepReceive ==
    ASSUME AppInv, NEW w \in Workers,
           LoopsStep(Receive(w)) \/ PoolStep(RunReceives(w))
    PROVE  AppInv'
<1>0. /\ AppTypeOK /\ SlotInv /\ MainInv
      /\ UNCHANGED <<program, answered, total, own, running, finished>>
      /\ UNCHANGED <<curTid, tid, main, m_tasks, m_stopped, submitted, drains>>
      /\ offered > 0 /\ offered' = offered - 1 /\ received' = received + 1
      /\ Goto(w, "recv", "work")
    BY Zenon DEF AppInv, LoopsStep, PoolStep, Receive, RunReceives, tBenchRecvReq,
                 loopVars, poolVars
<1>1. /\ offered \in Nat /\ received \in Nat /\ answered \in Nat /\ total \in Nat
      /\ m_tasks \in Nat /\ submitted \in Nat
    BY <1>0, Zenon DEF AppTypeOK
<1>2. AppTypeOK'
    <2>1. offered' \in Nat /\ received' \in Nat
        BY <1>0, <1>1
    <2>2. pc' \in [Workers -> WorkerPoints]
        BY <1>0, PointsMove, Zenon DEF WorkerPoints
    <2> QED BY <1>0, <1>1, <2>1, <2>2, Zenon DEF AppTypeOK
<1>3. SlotInv'
    BY <1>0, SlotMove, Zenon DEF Before
<1>4. MainInv'
    BY <1>0, MainMove, Zenon DEF Goto
<1>5. /\ In({"work"})' = In({"work"}) + 1
      /\ In({"work", "count"})' = In({"work", "count"}) + 1
    BY <1>0, Enters
<1>6. In({"recv"})' = In({"recv"}) - 1 /\ In({"recv"}) > 0
    BY <1>0, Leaves
<1>7. In({"recv", "work", "count"})' = In({"recv", "work", "count"})
    BY <1>0, Stays, InKept
<1>8. In({"recv"}) \in Nat /\ In({"work"}) \in Nat /\ In({"work", "count"}) \in Nat
    BY InFacts, Zenon
<1>9. ServeInv'
    <2>1. offered + received <= MaxOffered => offered' + received' <= MaxOffered
        BY <1>0, <1>1, WorkersAssumption
    <2>2. received = answered + In({"work"}) => received' = answered + In({"work"})'
        BY <1>0, <1>1, <1>5, <1>8
    <2> QED BY <1>0, <2>1, <2>2, Zenon DEF AppInv, ServeInv
<1>10. ASSUME program = "xapian" PROVE XapianInv'
    <2>1. received = total + In({"work", "count"}) => received' = total + In({"work", "count"})'
        BY <1>0, <1>1, <1>5, <1>8
    <2> QED BY <1>0, <1>7, <1>10, <2>1, Zenon DEF AppInv, XapianInv
<1>11. received' + In({"recv"})' = received + In({"recv"})
    BY <1>0, <1>1, <1>6, <1>8
<1>12. ASSUME program = "img-dnn" PROVE ImgDnnInv'
    BY <1>0, <1>11, <1>12, Zenon DEF AppInv, ImgDnnInv
<1>13. ASSUME program \in {"silo", "shore"} PROVE OwnInv'
    <2>1. /\ pc[w] = "recv" /\ pc'[w] = "work"
          /\ \A v \in Workers \ {w} : pc'[v] = pc[v]
          /\ own \in [Workers -> Nat] /\ Quota \in Nat
          /\ own[w] + 1 <= Quota
          /\ \A v \in Workers : own[v] + (IF pc[v] \in {"recv", "work"} THEN 1 ELSE 0) <= Quota
          /\ received = Cardinality(Taken)
        BY <1>0, <1>13, QuotaAssumption, Zenon DEF Goto, AppTypeOK, AppInv, OwnInv
    <2>2. \A v \in Workers : own[v] + (IF pc'[v] \in {"recv", "work"} THEN 1 ELSE 0) <= Quota
        BY <2>1, Zenon
    <2>3. <<w, own[w] + 1>> \notin Taken /\ Taken' = Taken \cup {<<w, own[w] + 1>>}
        BY <1>0, <2>1 DEF Taken
    <2>4. IsFiniteSet(Taken)
        BY TakenFinite, Zenon
    <2>5. Cardinality(Taken') = received + 1
        BY <2>1, <2>3, <2>4, FS_AddElement, Zenon
    <2> QED BY <1>0, <2>2, <2>5, Zenon DEF OwnInv
<1>14. ASSUME program = "moses" PROVE PoolInv'
    <2>1. received' + In({"recv"})' + m_tasks = submitted
        BY <1>11, <1>14, Zenon DEF AppInv, PoolInv
    <2> QED BY <1>0, <1>14, <2>1, Zenon DEF AppInv, PoolInv
<1> QED BY <1>0, <1>2, <1>3, <1>4, <1>9, <1>10, <1>12, <1>13, <1>14, Zenon DEF AppInv

\* tBenchSendResp, called by a loop or by a task: the request was the worker's.
LEMMA StepAnswer ==
    ASSUME AppInv, NEW w \in Workers,
           LoopsStep(Answer(w)) \/ PoolStep(RunAnswers(w))
    PROVE  AppInv'
<1> DEFINE b == IF program = "moses" THEN "notify"
                ELSE IF program = "xapian" THEN "count" ELSE "loop"
<1>0. /\ AppTypeOK /\ SlotInv /\ MainInv
      /\ UNCHANGED <<program, offered, received, total, running, finished>>
      /\ UNCHANGED <<curTid, tid, main, m_tasks, m_stopped, submitted, drains>>
      /\ answered' = answered + 1
      /\ own' = IF program \in {"silo", "silo-timed", "shore"}
                THEN [own EXCEPT ![w] = @ + 1] ELSE own
      /\ Goto(w, "work", b)
    <2>1. CASE LoopsStep(Answer(w))
        <3>1. Silo \cup {"shore"} = {"silo", "silo-timed", "shore"}
            BY Zenon DEF Silo
        <3> QED BY <2>1, <3>1, Zenon DEF AppInv, LoopsStep, Answer, tBenchSendResp, poolVars
    <2>2. CASE PoolStep(RunAnswers(w))
        BY <2>2, Zenon DEF AppInv, PoolStep, RunAnswers, tBenchSendResp, loopVars, poolVars
    <2> QED BY <2>1, <2>2, Zenon
<1>1. b \in {"notify", "count", "loop"} /\ (program = "xapian" => b = "count")
    BY Zenon
<1> HIDE DEF b
<1>2. answered \in Nat /\ received \in Nat /\ own \in [Workers -> Nat]
    BY <1>0, Zenon DEF AppTypeOK
<1>3. AppTypeOK'
    <2>1. answered' \in Nat
        BY <1>0, <1>2
    <2>2. own' \in [Workers -> Nat]
        BY <1>0, <1>2
    <2>3. pc' \in [Workers -> WorkerPoints]
        BY <1>0, <1>1, PointsMove, Zenon DEF WorkerPoints
    <2> QED BY <1>0, <2>1, <2>2, <2>3, Zenon DEF AppTypeOK
<1>4. SlotInv'
    BY <1>0, <1>1, SlotMove, Zenon DEF Before
<1>5. MainInv'
    BY <1>0, MainMove, Zenon DEF Goto
<1>6. In({"work"})' = In({"work"}) - 1 /\ In({"work"}) \in Nat
    BY <1>0, <1>1, Leaves, InFacts
<1>7. In({"recv"})' = In({"recv"})
    BY <1>0, <1>1, Stays, InKept
<1>8. ServeInv'
    <2>1. received = answered + In({"work"}) => received = answered' + In({"work"})'
        BY <1>0, <1>2, <1>6
    <2> QED BY <1>0, <2>1, Zenon DEF AppInv, ServeInv
<1>9. ASSUME program = "xapian" PROVE XapianInv'
    <2>1. /\ In({"work", "count"})' = In({"work", "count"})
          /\ In({"recv", "work", "count"})' = In({"recv", "work", "count"})
        BY <1>0, <1>1, <1>9, Stays, InKept
    <2> QED BY <1>0, <1>9, <2>1, Zenon DEF AppInv, XapianInv
<1>10. ASSUME program = "img-dnn" PROVE ImgDnnInv'
    BY <1>0, <1>7, <1>10, Zenon DEF AppInv, ImgDnnInv
<1>11. ASSUME program \in {"silo", "shore"} PROVE OwnInv'
    <2>1. /\ pc[w] = "work" /\ pc'[w] \in {"notify", "count", "loop"}
          /\ \A v \in Workers \ {w} : pc'[v] = pc[v]
          /\ own' = [own EXCEPT ![w] = own[w] + 1]
          /\ \A v \in Workers : own[v] + (IF pc[v] \in {"recv", "work"} THEN 1 ELSE 0) <= Quota
          /\ received = Cardinality(Taken)
        BY <1>0, <1>1, <1>11, Zenon DEF Goto, AppTypeOK, AppInv, OwnInv
    <2>2. /\ \A v \in Workers \ {w} : own'[v] = own[v]
          /\ own'[w] = own[w] + 1
        BY <1>2, <2>1, Zenon
    <2>3. own[w] + 1 <= Quota /\ own[w] + 1 + 0 = own[w] + 1
        BY <1>2, <2>1
    <2>4. \A v \in Workers : own'[v] + (IF pc'[v] \in {"recv", "work"} THEN 1 ELSE 0) <= Quota
        BY <2>1, <2>2, <2>3, Zenon
    <2>5. \A v \in Workers : own'[v] + (IF pc'[v] = "work" THEN 1 ELSE 0)
                           = own[v] + (IF pc[v] = "work" THEN 1 ELSE 0)
        BY <2>1, <2>2, <2>3, Zenon
    <2>6. Taken' = Taken
        BY <2>5 DEF Taken
    <2> QED BY <1>0, <2>1, <2>4, <2>6, Zenon DEF OwnInv
<1>12. ASSUME program = "moses" PROVE PoolInv'
    BY <1>0, <1>7, <1>12, Zenon DEF AppInv, PoolInv
<1> QED BY <1>0, <1>3, <1>4, <1>5, <1>8, <1>9, <1>10, <1>11, <1>12, Zenon DEF AppInv

\* An aborted transaction is tried again, except when the time is over.
LEMMA StepAbort ==
    ASSUME AppInv, NEW w \in Workers, LoopsStep(Abort(w))
    PROVE  AppInv'
<1> DEFINE b == IF running THEN "work" ELSE "loop"
<1>0. /\ AppTypeOK /\ SlotInv /\ MainInv /\ ServeInv /\ program \in Silo
      /\ UNCHANGED <<program, offered, received, answered, total, own, running, finished>>
      /\ UNCHANGED <<curTid, tid, main, m_tasks, submitted>>
      /\ Goto(w, "work", b)
    BY Zenon DEF AppInv, LoopsStep, Abort, loopVars, poolVars
<1>1. b \in {"work", "loop"} /\ (program = "silo" => b = "work")
    BY <1>0, Zenon DEF MainInv
<1> HIDE DEF b
<1>2. AppTypeOK'
    <2>1. pc' \in [Workers -> WorkerPoints]
        BY <1>0, <1>1, PointsMove, Zenon DEF WorkerPoints
    <2> QED BY <1>0, <2>1, Zenon DEF AppTypeOK
<1>3. SlotInv'
    BY <1>0, <1>1, SlotMove, Zenon DEF Before
<1>4. MainInv'
    BY <1>0, MainMove, Zenon DEF Goto
<1>5. program = "silo" => pc' = pc
    BY <1>0, <1>1, Zenon DEF Goto, AppTypeOK
<1>6. ServeInv'
    <2>1. program = "silo" => Steady({"work"})
        BY <1>5, Zenon DEF Steady
    <2> QED BY <1>0, <2>1, InKept, Zenon DEF ServeInv, Silo
<1>7. ASSUME program = "silo" PROVE OwnInv'
    <2>1. Taken' = Taken
        BY <1>0, <1>5, <1>7, Zenon DEF Taken
    <2> QED BY <1>0, <1>5, <1>7, <2>1, Zenon DEF AppInv, OwnInv
<1> QED BY <1>0, <1>2, <1>3, <1>4, <1>6, <1>7, Zenon DEF AppInv, Silo

\* xapian counts a request it has answered.
LEMMA StepCountProcessed ==
    ASSUME AppInv, NEW w \in Workers, LoopsStep(CountProcessed(w))
    PROVE  AppInv'
<1>0. /\ AppTypeOK /\ SlotInv /\ MainInv /\ program # "moses"
      /\ UNCHANGED <<program, offered, received, answered, own, running, finished>>
      /\ UNCHANGED <<curTid, tid, main, m_tasks, submitted>>
      /\ total' = total + 1 /\ Goto(w, "count", "loop")
    BY Zenon DEF AppInv, LoopsStep, CountProcessed, poolVars
<1>1. total \in Nat /\ received \in Nat
    BY <1>0, Zenon DEF AppTypeOK
<1>2. AppTypeOK'
    <2>1. total' \in Nat
        BY <1>0, <1>1
    <2>2. pc' \in [Workers -> WorkerPoints]
        BY <1>0, PointsMove, Zenon DEF WorkerPoints
    <2> QED BY <1>0, <2>1, <2>2, Zenon DEF AppTypeOK
<1>3. SlotInv'
    BY <1>0, SlotMove, Zenon DEF Before
<1>4. MainInv'
    BY <1>0, MainMove, Zenon DEF Goto
<1>5. Steady({"work"}) /\ Steady({"recv"})
    BY <1>0, Stays
<1>6. ServeInv'
    BY <1>0, <1>5, InKept, Zenon DEF AppInv, ServeInv
<1>7. ASSUME program = "xapian" PROVE XapianInv'
    <2> DEFINE c == In({"work", "count"})
               r == In({"recv", "work", "count"})
    <2>1. c' = c - 1 /\ r' = r - 1
        BY <1>0, Leaves
    <2>2. c \in Nat /\ r \in Nat
        BY InFacts, Zenon
    <2>3. received = total + c => received = total' + c'
        BY <1>0, <1>1, <2>1, <2>2
    <2>4. total' + r' = total + r
        BY <1>0, <1>1, <2>1, <2>2
    <2> QED BY <1>0, <1>7, <2>3, <2>4, Zenon DEF AppInv, XapianInv
<1>8. ASSUME program = "img-dnn" PROVE ImgDnnInv'
    <2> DEFINE r == In({"recv"})
    <2>1. r' = r /\ r \in Nat
        BY <1>5, InKept, InFacts, Zenon
    <2>2. received + r <= total => received + r <= total'
        BY <1>0, <1>1, <2>1
    <2> QED BY <1>0, <1>8, <2>1, <2>2, Zenon DEF AppInv, ImgDnnInv
<1>9. ASSUME program \in {"silo", "shore"} PROVE OwnInv'
    <2>1. Taken' = Taken
        BY <1>0, <1>5, TakenKept, Zenon
    <2>2. \A v \in Workers : pc'[v] \in {"recv", "work"} <=> pc[v] \in {"recv", "work"}
        BY <1>5, Zenon DEF Steady
    <2> QED BY <1>0, <1>9, <2>1, <2>2, Zenon DEF AppInv, OwnInv
<1> QED BY <1>0, <1>2, <1>3, <1>4, <1>6, <1>7, <1>8, <1>9, Zenon DEF AppInv

\* The steps of main: the time of silo, joining the threads, finishing.
LEMMA StepLoopsMain ==
    ASSUME AppInv,
           LoopsStep(TimeIsOver \/ MainJoins \/ (tBenchServerFinish /\ UNCHANGED loopVars))
    PROVE  AppInv'
<1>0. /\ AppTypeOK /\ SlotInv /\ MainInv /\ program # "moses"
      /\ UNCHANGED <<program, offered, received, answered, total, own>>
      /\ UNCHANGED <<curTid, tid, pc, m_tasks, submitted>>
    BY Zenon DEF AppInv, LoopsStep, TimeIsOver, MainJoins, tBenchServerFinish,
                 apiVars, loopVars, poolVars
<1>1. \A S : Steady(S)
    BY <1>0, Zenon DEF Steady
<1>2. /\ pc' \in [Workers -> WorkerPoints]
      /\ m_tasks' \in Nat /\ submitted' \in Nat
    BY <1>0, Zenon DEF AppTypeOK
<1>3. SlotInv'
    BY <1>0, <1>1, SlotFrame, Zenon DEF SlotsKept
<1>4. main' \in MainPoints /\ MainInv'
    <2>1. CASE TimeIsOver
        BY <1>0, <2>1, Zenon DEF TimeIsOver, apiVars, MainInv, AppTypeOK, Joined
    <2>2. CASE MainJoins
        BY <1>0, <2>2, Zenon DEF MainJoins, loopVars, MainInv, MainPoints, Stopped, JoinAll, Joined
    <2>3. CASE tBenchServerFinish /\ UNCHANGED loopVars
        BY <1>0, <2>3, Zenon DEF tBenchServerFinish, loopVars, MainInv, MainPoints, Stopped, Joined
    <2> QED BY <2>1, <2>2, <2>3, Zenon DEF LoopsStep
<1> QED BY <1>0, <1>1, <1>2, <1>3, <1>4, QuietStep, Zenon

-----------------------------------------------------------------------------
(* The steps of moses. *)

\* Steps of the pool's threads that take no task and receive no request.
LEMMA PoolKept ==
    ASSUME PoolInv, Steady({"recv"}),
           UNCHANGED <<received, finished, m_tasks, m_stopped, submitted, drains>>,
           main' = main \/ (main = "draining" /\ main' = "drain")
    PROVE  PoolInv'
<1>1. In({"recv"})' = In({"recv"})
    BY InKept, Zenon
<1> QED BY <1>1, Zenon DEF PoolInv, Stopped

\* What the steps of the pool leave alone.
LEMMA PoolIdle ==
    ASSUME AppInv, NEW w \in Workers, NEW a, NEW b \in WorkerPoints, Goto(w, a, b),
           program = "moses", a # "done",
           a \notin {"recv", "work", "count"}, b \notin {"recv", "work", "count"},
           SlotInv', main' = main \/ (main = "draining" /\ main' = "drain"),
           UNCHANGED <<program, offered, received, answered, finished, total, own, running>>,
           UNCHANGED <<m_tasks, m_stopped, submitted, drains>>
    PROVE  AppInv'
<1>0. /\ AppTypeOK /\ MainInv /\ PoolInv
      /\ m_tasks' \in Nat /\ submitted' \in Nat /\ main' \in MainPoints
    BY Zenon DEF AppInv, AppTypeOK, MainPoints
<1>1. \A S \in Counted : Steady(S)
    BY <1>0, CountedMove, Zenon
<1>2. pc' \in [Workers -> WorkerPoints]
    BY <1>0, PointsMove, Zenon
<1>3. MainInv'
    BY <1>0, MainMove, Zenon DEF Goto
<1>4. PoolInv'
    <2>1. Steady({"recv"})
        BY <1>1, Zenon DEF Counted
    <2> QED BY <1>0, <2>1, PoolKept, Zenon
<1> QED BY <1>0, <1>1, <1>2, <1>3, <1>4, QuietStep, Zenon

\* tBenchServerThreadStart, called by a thread of the pool.
LEMMA StepStartExecute ==
    ASSUME AppInv, NEW w \in Workers, PoolStep(StartExecute(w))
    PROVE  AppInv'
<1>0. /\ AppTypeOK /\ SlotInv /\ program = "moses" /\ main' = main
      /\ UNCHANGED <<program, offered, received, answered, finished, total, own, running>>
      /\ UNCHANGED <<m_tasks, m_stopped, submitted, drains>>
      /\ tBenchServerThreadStart(w, "take") /\ Goto(w, "start", "take")
    BY Zenon DEF AppInv, PoolStep, StartExecute, tBenchServerThreadStart, loopVars, poolVars
<1>1. SlotInv'
    BY <1>0, SlotStart, Zenon DEF Before
<1>2. "take" \in WorkerPoints
    BY Zenon DEF WorkerPoints
<1> QED BY <1>0, <1>1, <1>2, PoolIdle, Zenon

\* A thread waits for a task, or finds none.
LEMMA StepFindsNone ==
    ASSUME AppInv, NEW w \in Workers, NEW a \in {"take", "woken", "idle"},
           NEW b \in {"idle", "woken", "notify"}, Goto(w, a, b),
           program = "moses", main' = main,
           UNCHANGED <<curTid, tid, offered, received, answered, finished>>,
           UNCHANGED <<program, total, own, running, m_tasks, m_stopped, submitted, drains>>
    PROVE  AppInv'
<1>1. a \notin {"done", "recv", "work", "count"} /\ a \notin Before
    BY Zenon DEF Before
<1>2. b \notin {"done", "recv", "work", "count"} /\ b \notin Before /\ b \in WorkerPoints
    BY Zenon DEF Before, WorkerPoints
<1>3. SlotInv'
    BY <1>1, <1>2, SlotMove, Zenon DEF AppInv
<1> QED BY <1>1, <1>2, <1>3, PoolIdle, Zenon

\* A thread takes a task: it is no longer queued and will receive a request.
LEMMA StepTakes ==
    ASSUME AppInv, NEW w \in Workers, NEW a \in {"take", "woken"}, Goto(w, a, "recv"),
           program = "moses", main' = main, m_tasks > 0, m_tasks' = m_tasks - 1,
           UNCHANGED <<curTid, tid, offered, received, answered, finished>>,
           UNCHANGED <<program, total, own, running, m_stopped, submitted, drains>>
    PROVE  AppInv'
<1>0. AppTypeOK /\ SlotInv /\ MainInv /\ ServeInv /\ PoolInv
    BY Zenon DEF AppInv
<1>1. m_tasks \in Nat /\ m_tasks' \in Nat /\ received \in Nat /\ submitted \in Nat
    <2>1. m_tasks \in Nat /\ received \in Nat /\ submitted \in Nat
        BY <1>0, Zenon DEF AppTypeOK
    <2> QED BY <2>1
<1>2. AppTypeOK'
    <2>1. pc' \in [Workers -> WorkerPoints]
        BY <1>0, PointsMove, Zenon DEF WorkerPoints
    <2> QED BY <1>0, <1>1, <2>1, Zenon DEF AppTypeOK
<1>3. SlotInv'
    BY <1>0, SlotMove, Zenon DEF Before
<1>4. MainInv'
    BY <1>0, MainMove, Zenon DEF Goto
<1>5. ServeInv'
    <2>1. Steady({"work"})
        BY <1>0, Stays, Zenon
    <2> QED BY <1>0, <2>1, InKept, Zenon DEF ServeInv
<1>6. PoolInv'
    <2>1. In({"recv"})' = In({"recv"}) + 1 /\ In({"recv"}) \in Nat
        BY <1>0, Enters, InFacts
    <2>2. received + In({"recv"})' + m_tasks' = received + In({"recv"}) + m_tasks
        BY <1>1, <2>1
    <2>3. m_tasks # 0
        BY <1>1
    <2> QED BY <1>0, <2>2, <2>3, Zenon DEF PoolInv
<1> QED BY <1>2, <1>3, <1>4, <1>5, <1>6, Zenon DEF AppInv

\* FindJob and a spurious wake-up.
LEMMA StepFindJob ==
    ASSUME AppInv, NEW w \in Workers, PoolStep(FindJob(w) \/ Spurious(w))
    PROVE  AppInv'
<1>0. /\ program = "moses" /\ main' = main
      /\ UNCHANGED <<curTid, tid, offered, received, answered, finished>>
      /\ UNCHANGED <<program, total, own, running, m_stopped, submitted, drains>>
    BY Zenon DEF PoolStep, FindJob, Spurious, loopVars
<1>1. CASE WaitForTask(w)
    BY <1>0, <1>1, StepFindsNone, Zenon DEF WaitForTask
<1>2. CASE SpuriousWakeup(w)
    BY <1>0, <1>2, StepFindsNone, Zenon DEF SpuriousWakeup
<1>3. CASE TakeTask(w)
    <2> DEFINE a == pc[w]
    <2>1. a \in {"take", "woken"}
        BY <1>3, Zenon DEF TakeTask
    <2>2. \/ Goto(w, a, "recv") /\ m_tasks > 0 /\ m_tasks' = m_tasks - 1
          \/ Goto(w, a, "notify") /\ m_tasks' = m_tasks
        BY <1>3, Zenon DEF TakeTask, Goto
    <2> HIDE DEF a
    <2>3. CASE Goto(w, a, "recv") /\ m_tasks > 0 /\ m_tasks' = m_tasks - 1
        BY <1>0, <2>1, <2>3, StepTakes, Zenon
    <2>4. CASE Goto(w, a, "notify") /\ m_tasks' = m_tasks
        BY <1>0, <2>1, <2>4, StepFindsNone, Zenon
    <2> QED BY <2>2, <2>3, <2>4, Zenon
<1> QED BY <1>1, <1>2, <1>3, Zenon DEF PoolStep, FindJob, Spurious

\* The end of a turn of Execute's loop.
LEMMA StepLoopEnd ==
    ASSUME AppInv, NEW w \in Workers, PoolStep(NotifyAvailable(w) \/ LoopEnd(w))
    PROVE  AppInv'
<1>0. /\ AppTypeOK /\ SlotInv /\ program = "moses" /\ UNCHANGED <<curTid, tid>>
      /\ UNCHANGED <<program, offered, received, answered, finished, total, own, running>>
      /\ UNCHANGED <<m_tasks, m_stopped, submitted, drains>>
    BY Zenon DEF AppInv, PoolStep, NotifyAvailable, LoopEnd, loopVars, poolVars
<1>1. PICK a \in {"notify", "loop"}, b \in {"loop", "done", "take"} :
         /\ Goto(w, a, b)
         /\ main' = main \/ (main = "draining" /\ main' = "drain")
    <2>1. CASE NotifyAvailable(w)
        BY <2>1, Zenon DEF NotifyAvailable, ThreadAvailable
    <2>2. CASE LoopEnd(w)
        BY <2>2, Zenon DEF LoopEnd
    <2> QED BY <2>1, <2>2, Zenon DEF PoolStep
<1>2. a \notin {"done", "recv", "work", "count"} /\ a \notin Before
    BY Zenon DEF Before
<1>3. b \notin {"recv", "work", "count"} /\ b \notin Before /\ b \in WorkerPoints
    BY Zenon DEF Before, WorkerPoints
<1>4. SlotInv'
    BY <1>0, <1>1, <1>2, <1>3, SlotMove, Zenon
<1> QED BY <1>0, <1>1, <1>2, <1>3, <1>4, PoolIdle, Zenon

\* The main thread of moses: submitting, and Stop.
LEMMA StepPoolMain ==
    ASSUME AppInv, PoolStep(PoolMain \/ (SpuriousDrain
                     /\ UNCHANGED <<curTid, tid, offered, received, answered, finished>>))
    PROVE  AppInv'
<1>0. /\ AppTypeOK /\ SlotInv /\ MainInv /\ PoolInv /\ program = "moses"
      /\ UNCHANGED <<curTid, tid, offered, received, answered>>
      /\ UNCHANGED <<program, total, own, running>>
      /\ m_tasks \in Nat /\ submitted \in Nat /\ received \in Nat
      /\ pc \in [Workers -> WorkerPoints] /\ main \in MainPoints
    BY Zenon DEF AppInv, AppTypeOK, PoolStep, PoolMain, tBenchServerFinish, loopVars
<1>1. pc' = pc \/ ThreadNeeded
    BY Zenon DEF PoolStep, PoolMain, tBenchServerFinish, Submit, ReadInputFails, AllSubmitted,
                 Stopping, Drain, SetStopped, NotifyNeeded, JoinPool, SpuriousDrain
<1>2. /\ pc' \in [Workers -> WorkerPoints]
      /\ \A w \in Workers : pc'[w] = pc[w] \/ (pc[w] = "idle" /\ pc'[w] = "woken")
    BY <1>0, <1>1, Zenon DEF ThreadNeeded, WorkerPoints
<1>3. Steady(Before) /\ Steady({"recv"})
    BY <1>2, Zenon DEF Steady, Before
<1>4. ASSUME NEW S \in Counted PROVE Steady(S)
    <2>1. "idle" \notin S /\ "woken" \notin S
        BY Zenon DEF Counted
    <2> QED BY <1>2, <2>1, Zenon DEF Steady
<1>5. SlotInv'
    BY <1>0, <1>3, SlotFrame, Zenon DEF SlotsKept
<1>6. In({"recv"})' = In({"recv"}) /\ In({"recv"}) \in Nat
    BY <1>3, InKept, InFacts, Zenon
<1>7. ~(m_tasks > 0) => m_tasks = 0
    BY <1>0
<1>8. main \notin {"finish", "ended"} => ~finished /\ ~finished' /\ UNCHANGED finished
    <2>1. main # "finish" => UNCHANGED finished
        BY Zenon DEF PoolStep, PoolMain, tBenchServerFinish
    <2>2. main # "ended" => ~finished
        BY <1>0, Zenon DEF MainInv
    <2> QED BY <2>1, <2>2, Zenon
<1>9. /\ m_tasks' \in Nat /\ submitted' \in Nat /\ main' \in MainPoints
      /\ MainInv' /\ PoolInv'
    <2>1. CASE Submit
        <3>1. m_tasks' \in Nat /\ submitted' \in Nat /\ submitted' <= NumTasks
            BY <1>0, <2>1, NumTasksAssumption DEF Submit
        <3>2. received + In({"recv"}) + m_tasks = submitted
              => received + In({"recv"}) + m_tasks' = submitted'
            BY <1>0, <1>6, <2>1 DEF Submit
        <3>3. main = "submit" /\ UNCHANGED <<main, m_stopped, drains>>
            BY <2>1, Zenon DEF Submit
        <3>4. ~finished /\ UNCHANGED finished
            BY <1>0, <1>8, <3>3, Zenon DEF MainInv
        <3>5. MainInv'
            BY <1>0, <3>3, <3>4, Zenon DEF MainInv
        <3>6. PoolInv'
            BY <1>0, <1>6, <3>1, <3>2, <3>3, <3>4, Zenon DEF PoolInv, Stopped
        <3> QED BY <1>0, <3>1, <3>3, <3>5, <3>6, Zenon
    <2>2. CASE ReadInputFails
        <3>1. /\ m_tasks' = m_tasks /\ submitted' = submitted
              /\ main' \in MainPoints /\ ~finished'
            BY <1>8, <2>2, Zenon DEF ReadInputFails, poolVars, MainPoints, Stopped
        <3>2. MainInv'
            BY <1>0, <2>2, <3>1, Zenon DEF ReadInputFails, MainInv
        <3>3. PoolInv'
            BY <1>0, <1>6, <1>7, <2>2, <3>1, Zenon DEF ReadInputFails, poolVars, PoolInv, Stopped
        <3> QED BY <1>0, <3>1, <3>2, <3>3, Zenon
    <2>3. CASE AllSubmitted
        <3>1. /\ m_tasks' = m_tasks /\ submitted' = submitted
              /\ main' \in MainPoints /\ ~finished'
            BY <1>8, <2>3, Zenon DEF AllSubmitted, poolVars, MainPoints, Stopped
        <3>2. MainInv'
            BY <1>0, <2>3, <3>1, Zenon DEF AllSubmitted, MainInv
        <3>3. PoolInv'
            BY <1>0, <1>6, <1>7, <2>3, <3>1, Zenon DEF AllSubmitted, poolVars, PoolInv, Stopped
        <3> QED BY <1>0, <3>1, <3>2, <3>3, Zenon
    <2>4. CASE Stopping
        <3>1. /\ m_tasks' = m_tasks /\ submitted' = submitted
              /\ main' \in MainPoints /\ ~finished'
            BY <1>8, <2>4, Zenon DEF Stopping, poolVars, MainPoints, Stopped
        <3>2. MainInv'
            BY <1>0, <2>4, <3>1, Zenon DEF Stopping, MainInv
        <3>3. PoolInv'
            BY <1>0, <1>6, <1>7, <2>4, <3>1, Zenon DEF Stopping, poolVars, PoolInv, Stopped
        <3> QED BY <1>0, <3>1, <3>2, <3>3, Zenon
    <2>5. CASE Drain
        <3>1. /\ m_tasks' = m_tasks /\ submitted' = submitted
              /\ main' \in MainPoints /\ ~finished'
            BY <1>8, <2>5, Zenon DEF Drain, poolVars, MainPoints, Stopped
        <3>2. MainInv'
            BY <1>0, <2>5, <3>1, Zenon DEF Drain, MainInv
        <3>3. PoolInv'
            BY <1>0, <1>6, <1>7, <2>5, <3>1, Zenon DEF Drain, poolVars, PoolInv, Stopped
        <3> QED BY <1>0, <3>1, <3>2, <3>3, Zenon
    <2>6. CASE SetStopped
        <3>1. /\ m_tasks' = m_tasks /\ submitted' = submitted
              /\ main' \in MainPoints /\ ~finished'
            BY <1>8, <2>6, Zenon DEF SetStopped, poolVars, MainPoints, Stopped
        <3>2. MainInv'
            BY <1>0, <2>6, <3>1, Zenon DEF SetStopped, MainInv
        <3>3. PoolInv'
            BY <1>0, <1>6, <1>7, <2>6, <3>1, Zenon DEF SetStopped, poolVars, PoolInv, Stopped
        <3> QED BY <1>0, <3>1, <3>2, <3>3, Zenon
    <2>7. CASE NotifyNeeded
        <3>1. /\ m_tasks' = m_tasks /\ submitted' = submitted
              /\ main' \in MainPoints /\ ~finished'
            BY <1>8, <2>7, Zenon DEF NotifyNeeded, poolVars, MainPoints, Stopped
        <3>2. MainInv'
            BY <1>0, <2>7, <3>1, Zenon DEF NotifyNeeded, MainInv
        <3>3. PoolInv'
            BY <1>0, <1>6, <1>7, <2>7, <3>1, Zenon DEF NotifyNeeded, poolVars, PoolInv, Stopped
        <3> QED BY <1>0, <3>1, <3>2, <3>3, Zenon
    <2>8. CASE JoinPool
        <3>1. /\ m_tasks' = m_tasks /\ submitted' = submitted
              /\ main' \in MainPoints /\ ~finished'
            BY <1>8, <2>8, Zenon DEF JoinPool, poolVars, MainPoints, Stopped
        <3>2. MainInv'
            BY <1>0, <2>8, <3>1, Zenon DEF JoinPool, MainInv, Joined
        <3>3. PoolInv'
            BY <1>0, <1>6, <1>7, <2>8, <3>1, Zenon DEF JoinPool, poolVars, PoolInv, Stopped
        <3> QED BY <1>0, <3>1, <3>2, <3>3, Zenon
    <2>9. CASE tBenchServerFinish /\ UNCHANGED poolVars
        BY <1>0, <1>6, <2>9, Zenon
           DEF tBenchServerFinish, poolVars, MainInv, PoolInv, MainPoints, Stopped, Joined
    <2>10. CASE SpuriousDrain
        <3>1. /\ m_tasks' = m_tasks /\ submitted' = submitted
              /\ main' \in MainPoints /\ ~finished'
            BY <1>8, <2>10, Zenon DEF SpuriousDrain, poolVars, MainPoints, Stopped
        <3>2. MainInv'
            BY <1>0, <2>10, <3>1, Zenon DEF SpuriousDrain, MainInv
        <3>3. PoolInv'
            BY <1>0, <1>6, <1>7, <2>10, <3>1, Zenon DEF SpuriousDrain, poolVars, PoolInv, Stopped
        <3> QED BY <1>0, <3>1, <3>2, <3>3, Zenon
    <2> QED
        BY <2>1, <2>2, <2>3, <2>4, <2>5, <2>6, <2>7, <2>8, <2>9, <2>10, Zenon
           DEF PoolStep, PoolMain
<1> QED BY <1>0, <1>2, <1>4, <1>5, <1>9, QuietStep, Zenon

-----------------------------------------------------------------------------
(* The invariant and the properties. *)

\* The state in which a program starts.
LEMMA AppInit_Inv == AppInit => AppInv
<1> SUFFICES ASSUME AppInit PROVE AppInv
    OBVIOUS
<1>0. /\ program \in Loops \cup {"moses"}
      /\ curTid = 0 /\ tid = [w \in Workers |-> NoTid]
      /\ offered \in 0 .. MaxOffered /\ received = 0 /\ answered = 0 /\ finished = FALSE
      /\ total = 0 /\ own = [w \in Workers |-> 0] /\ running = TRUE
      /\ m_tasks = 0 /\ submitted = 0 /\ m_stopped = FALSE
      /\ program = "moses" => main = "submit" /\ drains = TRUE
      /\ program # "moses" => main = "join"
    BY ProgramsAssumption, Zenon DEF AppInit, tBenchServerInit, PoolInit, LoopsInit
<1>1. /\ pc \in [Workers -> WorkerPoints]
      /\ \A w \in Workers : pc[w] \in Before
    BY Zenon DEF AppInit, PoolInit, LoopsInit, WorkerPoints, Before
<1>2. AppTypeOK
    <2>1. {offered, received, answered, total, m_tasks, submitted} \subseteq Nat
        BY <1>0, WorkersAssumption
    <2>2. main \in MainPoints /\ own \in [Workers -> Nat]
        BY <1>0 DEF MainPoints
    <2> QED BY <1>0, <1>1, <2>1, <2>2, Zenon DEF AppTypeOK
<1>3. SlotInv
    <2>1. {w \in Workers : pc[w] \notin Before} = {}
        BY <1>1, Zenon
    <2>2. curTid = Cardinality({w \in Workers : pc[w] \notin Before})
        BY <1>0, <2>1, FS_EmptySet, Zenon
    <2>3. NoTid \in Int
        BY DEF NoTid
    <2> QED BY <1>0, <1>1, <2>2, <2>3, Zenon DEF SlotInv
<1>4. MainInv
    BY <1>0, Zenon DEF MainInv
<1>5. ASSUME NEW S \in Counted PROVE In(S) = 0
    <2>1. At(S) = {}
        BY <1>1, Zenon DEF At, Counted, Before
    <2> QED BY <2>1, FS_EmptySet, Zenon DEF In
<1>6. In({"work"}) = 0 /\ In({"recv"}) = 0 /\ In({"work", "count"}) = 0
      /\ In({"recv", "work", "count"}) = 0
    BY <1>5, Zenon DEF Counted
<1>7. ServeInv
    BY <1>0, <1>6, WorkersAssumption DEF ServeInv
<1>8. XapianInv
    BY <1>0, <1>6, InFacts, QuotaAssumption DEF XapianInv
<1>9. ImgDnnInv
    BY <1>0, <1>6, QuotaAssumption DEF ImgDnnInv
<1>10. OwnInv
    <2>1. \A w \in Workers : own[w] = 0 /\ pc[w] \notin {"recv", "work"}
        BY <1>0, <1>1, Zenon DEF Before
    <2>2. Taken = {}
        BY <2>1 DEF Taken
    <2>3. received = Cardinality(Taken)
        BY <1>0, <2>2, FS_EmptySet, Zenon
    <2> QED BY <2>1, <2>3, QuotaAssumption DEF OwnInv
<1>11. program = "moses" => PoolInv
    <2>1. 0 + 0 + 0 = 0 /\ 0 <= NumTasks
        BY NumTasksAssumption
    <2> QED BY <1>0, <1>6, <2>1, Zenon DEF PoolInv, Stopped
<1> QED BY <1>2, <1>3, <1>4, <1>7, <1>8, <1>9, <1>10, <1>11, Zenon DEF AppInv

\* Every step keeps the invariant.
LEMMA AppNext_Inv == AppInv /\ [AppNext]_appVars => AppInv'
<1> SUFFICES ASSUME AppInv, [AppNext]_appVars PROVE AppInv'
    OBVIOUS
<1>1. CASE LoopsStep(LoopsNext)
    <2>1. ASSUME NEW w \in Workers, LoopsStep(Worker(w)) PROVE AppInv'
        BY <2>1, StepStart, StepLoopHead, StepReceive, StepAnswer, StepAbort,
           StepCountProcessed, Zenon DEF Worker, LoopsStep
    <2> QED BY <1>1, <2>1, StepRendezvous, StepLoopsMain, Zenon DEF LoopsStep, LoopsNext
<1>2. CASE PoolStep(PoolNext)
    <2>1. ASSUME NEW w \in Workers, PoolStep(Execute(w) \/ Spurious(w)) PROVE AppInv'
        BY <2>1, StepStartExecute, StepFindJob, StepReceive, StepAnswer, StepLoopEnd,
           Zenon DEF Execute, PoolStep
    <2> QED BY <1>2, <2>1, StepPoolMain, Zenon DEF PoolStep, PoolNext
<1>3. CASE UNCHANGED appVars
    <2>1. /\ UNCHANGED <<program, pc, main, finished, running, curTid, tid>>
          /\ UNCHANGED <<offered, received, answered, total, own>>
          /\ UNCHANGED <<m_tasks, m_stopped, submitted, drains>>
        BY <1>3, Zenon DEF appVars, apiVars, loopVars, poolVars
    <2>2. \A S : Steady(S)
        BY <2>1, Zenon DEF Steady
    <2>3. SlotInv'
        BY <2>1, <2>2, SlotFrame, Zenon DEF SlotsKept, AppInv
    <2>4. MainInv'
        BY <2>1, Zenon DEF AppInv, MainInv, Joined
    <2>5. program = "moses" => PoolInv'
        BY <2>1, <2>2, PoolKept, Zenon DEF AppInv
    <2>6. /\ pc' \in [Workers -> WorkerPoints] /\ main' \in MainPoints
          /\ m_tasks' \in Nat /\ submitted' \in Nat
        BY <2>1, Zenon DEF AppInv, AppTypeOK
    <2> QED BY <2>1, <2>2, <2>3, <2>4, <2>5, <2>6, QuietStep, Zenon
<1> QED BY <1>1, <1>2, <1>3, Zenon DEF AppNext

\* AppInv is an invariant of every application, with any number of threads.
THEOREM AppInvariance == AppSpec => []AppInv
<1>1. AppInit => AppInv
    BY AppInit_Inv, Zenon
<1>2. AppInv /\ [AppNext]_appVars => AppInv'
    BY AppNext_Inv, Zenon
<1> QED BY <1>1, <1>2, PTL DEF AppSpec

\* No two threads share a number, and every number is below nthreads: the
\* arrays of the harness that are indexed by tid have room for every thread
\* (tBenchServerThreadStart).
THEOREM SlotsOwned == AppSpec => []SlotsAreOwn
<1>1. ASSUME AppInv PROVE SlotsAreOwn
    <2> DEFINE On == {w \in Workers : pc[w] \notin Before}
    <2>1. On \in SUBSET Workers
        BY Zenon
    <2>2. curTid = Cardinality(On) /\ tid \in [Workers -> Int]
        BY <1>1, Zenon DEF AppInv, SlotInv
    <2> HIDE DEF On
    <2>3. curTid <= NThreads /\ curTid \in Nat /\ NThreads \in Nat
        BY <2>1, <2>2, FS_Subset, FS_CardinalityType, WorkersAssumption, Zenon DEF NThreads
    <2>4. ASSUME NEW v \in Workers PROVE tid[v] < NThreads
        <3>1. tid[v] = -1 \/ tid[v] < curTid
            BY <1>1, Zenon DEF AppInv, SlotInv, NoTid
        <3> QED BY <2>2, <2>3, <3>1
    <2>5. ASSUME NEW v \in Workers, pc[v] \notin Before PROVE tid[v] >= 0
        <3>1. 0 <= tid[v]
            BY <1>1, <2>5, Zenon DEF AppInv, SlotInv
        <3> QED BY <2>2, <3>1
    <2> QED BY <1>1, <2>4, <2>5, Zenon DEF SlotsAreOwn, AppInv, SlotInv, Before
<1> QED BY <1>1, AppInvariance, PTL

\* When tBenchServerFinish was called, the threads are done and every request
\* they received is answered, except what silo gave up when its time was over.
THEOREM FinishesQuietly == AppSpec => []FinishIsQuiet
<1>1. ASSUME AppInv PROVE FinishIsQuiet
    <2> SUFFICES ASSUME finished
                 PROVE  Joined /\ (program # "silo-timed" => answered = received)
        BY Zenon DEF FinishIsQuiet, Joined
    <2>1. Joined
        BY <1>1, Zenon DEF AppInv, MainInv
    <2>2. In({"work"}) = 0
        BY <2>1, InJoined, Zenon
    <2>3. answered \in Nat
        BY <1>1, Zenon DEF AppInv, AppTypeOK
    <2>4. answered + 0 = answered
        BY <2>3
    <2> QED BY <1>1, <2>1, <2>2, <2>4, Zenon DEF AppInv, ServeInv
<1> QED BY <1>1, AppInvariance, PTL

\* No program serves more requests than the number it was given allows;
\* xapian serves at most one more for each of its other threads.
THEOREM ServesAtMost == AppSpec => []ServesNoMore
<1>1. ASSUME AppInv PROVE ServesNoMore
    <2>0. /\ offered \in Nat /\ received \in Nat /\ total \in Nat /\ m_tasks \in Nat
          /\ submitted \in Nat /\ program \in Loops \cup {"moses"}
        BY <1>1, Zenon DEF AppInv, AppTypeOK
    <2>1. In({"work", "count"}) <= In({"recv", "work", "count"})
        <3>1. At({"work", "count"}) \in SUBSET At({"recv", "work", "count"})
            BY Zenon DEF At
        <3> QED BY <3>1, FS_Subset, InFacts, Zenon DEF In
    <2>2. /\ In({"work", "count"}) \in Nat /\ In({"recv", "work", "count"}) \in Nat
          /\ In({"recv"}) \in Nat /\ NThreads \in Nat /\ Quota \in Nat /\ NumTasks \in Nat
        BY InFacts, QuotaAssumption, NumTasksAssumption, Zenon
    <2>3. ASSUME program = "xapian" PROVE received <= Quota + NThreads - 1
        <3>1. XapianInv
            BY <1>1, <2>3, Zenon DEF AppInv
        <3> QED BY <2>0, <2>1, <2>2, <3>1 DEF XapianInv
    <2>4. ASSUME program = "img-dnn" PROVE received <= Quota
        <3>1. ImgDnnInv
            BY <1>1, <2>4, Zenon DEF AppInv
        <3> QED BY <2>0, <2>2, <3>1 DEF ImgDnnInv
    <2>5. ASSUME program = "moses" PROVE received <= NumTasks
        <3>1. PoolInv
            BY <1>1, <2>5, Zenon DEF AppInv
        <3>2. received + In({"recv"}) + m_tasks = submitted /\ submitted <= NumTasks
            BY <3>1, Zenon DEF PoolInv
        <3> QED BY <2>0, <2>2, <3>2
    <2>6. ASSUME program \in {"silo", "shore"} PROVE received <= NThreads * Quota
        BY <1>1, <2>6, TakenFinite, Zenon DEF AppInv, OwnInv
    <2>7. received <= MaxOffered
        <3>1. offered + received <= MaxOffered
            BY <1>1, Zenon DEF AppInv, ServeInv
        <3> QED BY <2>0, <3>1, WorkersAssumption
    <2> QED BY <2>3, <2>4, <2>5, <2>6, <2>7 DEF ServesNoMore, MostServed
<1> QED BY <1>1, AppInvariance, PTL

\* When moses calls tBenchServerFinish each of its tasks has run once and the
\* queue is empty: Stop(true) waited for it.
THEOREM EveryTaskRuns == AppSpec => []StopRunsEveryTask
<1>1. ASSUME AppInv, finished, program = "moses"
      PROVE  answered = NumTasks /\ m_tasks = 0
    <2>1. main = "ended" /\ Joined
        BY <1>1, Zenon DEF AppInv, MainInv
    <2>2. In({"work"}) = 0 /\ In({"recv"}) = 0
        BY <2>1, InJoined, Zenon
    <2>3. m_tasks = 0 /\ submitted = NumTasks
        BY <1>1, <2>1, Zenon DEF AppInv, PoolInv, Stopped
    <2>4. /\ received = answered + In({"work"})
          /\ received + In({"recv"}) + m_tasks = submitted
        BY <1>1, Zenon DEF AppInv, ServeInv, PoolInv
    <2>5. received \in Nat /\ answered \in Nat
        BY <1>1, Zenon DEF AppInv, AppTypeOK
    <2> QED BY <2>2, <2>3, <2>4, <2>5
<1>2. AppInv => StopRunsEveryTask
    BY <1>1, Zenon DEF StopRunsEveryTask
<1> QED BY <1>2, AppInvariance, PTL

=============================================================================
