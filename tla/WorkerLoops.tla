---------------------------- MODULE WorkerLoops ----------------------------
(***************************************************************************)
(* The applications whose threads each call the harness in a loop of their *)
(* own.  They differ in when a thread counts the requests it serves, and   *)
(* so in when the program ends:                                            *)
(*   xapian   a shared count, raised after a request is answered           *)
(*   img-dnn  a shared count, raised before a request is awaited           *)
(*   silo     a count of commits per worker, or a time                     *)
(*   shore    a count of transactions per worker                           *)
(*   sphinx   no count                                                     *)
(***************************************************************************)
EXTENDS TBenchServer

CONSTANT Quota   \* requests to serve: of all workers, or of each

ASSUME QuotaAssumption == Quota \in Nat \ {0}

VARIABLES
    program,   \* the application that runs
    total,     \* numReqsProcessed of xapian, nReqsTotal of img-dnn
    own,       \* worker -> ntxn_commits of silo, trx_cnt of shore
    running    \* silo: the time is not over

loopVars == <<total, own, running>>

\* silo with a number of operations (as its script runs it) and with a time,
\* both with --retry-aborted-transactions.
Silo == {"silo", "silo-timed"}
Loops == {"xapian", "img-dnn", "shore", "sphinx"} \cup Silo

\* Programs whose threads wait for each other before they start.
Barriers == {"xapian"} \cup Silo

LoopsInit ==
    /\ total = 0
    /\ own = [w \in Workers |-> 0]
    /\ running = TRUE
    /\ pc = [w \in Workers |-> IF program \in Barriers THEN "born" ELSE "start"]
    /\ main = "join"

(* A thread reaches the barrier; when all have, all go on. *)
Arrive(w) == Goto(w, "born", "barrier")

Release ==
    /\ \A w \in Workers : pc[w] = "barrier"
    /\ pc' = [w \in Workers |-> "start"]

Rendezvous ==
    /\ (\E w \in Workers : Arrive(w)) \/ Release
    /\ UNCHANGED <<curTid, tid, offered, received, answered, finished, main>>
    /\ UNCHANGED loopVars

Start(w) == tBenchServerThreadStart(w, "loop") /\ UNCHANGED loopVars

(* The loop's condition: TRUE when the thread is to serve another request. *)
XapianGoesOn == total < Quota

(* Faulty: the count is compared before it is raised. *)
ImgDnnGoesOnPost == total <= Quota

ImgDnnGoesOn == total + 1 <= Quota

SiloGoesOn(w) == running /\ (program = "silo-timed" \/ own[w] < Quota)

ShoreGoesOn(w) == own[w] < Quota

GoesOn(w) ==
    CASE program = "xapian"  -> XapianGoesOn
      [] program = "img-dnn" -> ImgDnnGoesOn
      [] program \in Silo    -> SiloGoesOn(w)
      [] program = "shore"   -> ShoreGoesOn(w)
      [] program = "sphinx"  -> TRUE

LoopHead(w) ==
    /\ Goto(w, "loop", IF GoesOn(w) THEN "recv" ELSE "done")
    /\ total' = IF program = "img-dnn" THEN total + 1 ELSE total
    /\ UNCHANGED <<curTid, tid, offered, received, answered, finished, main, own, running>>

Receive(w) == tBenchRecvReq(w) /\ UNCHANGED loopVars

(* The request is served and answered.  silo and shore count it before     *)
(* they answer, in the thread's own count; xapian counts it afterwards.    *)
Answer(w) ==
    /\ tBenchSendResp(w, IF program = "xapian" THEN "count" ELSE "loop")
    /\ own' = IF program \in Silo \cup {"shore"} THEN [own EXCEPT ![w] = @ + 1] ELSE own
    /\ UNCHANGED <<total, running>>

(* A transaction of silo aborts: it is tried again (the thread stays where *)
(* it is), or, once the time is over, given up without an answer.          *)
Abort(w) ==
    /\ program \in Silo
    /\ Goto(w, "work", IF running THEN "work" ELSE "loop")
    /\ UNCHANGED <<curTid, tid, offered, received, answered, finished, main>>
    /\ UNCHANGED loopVars

CountProcessed(w) ==
    /\ Goto(w, "count", "loop")
    /\ total' = total + 1
    /\ UNCHANGED <<curTid, tid, offered, received, answered, finished, main, own, running>>

(* bench_runner::run with a time: sleep(runtime), after the barrier. *)
TimeIsOver ==
    /\ program = "silo-timed"
    /\ main = "join" /\ running
    /\ \A w \in Workers : pc[w] \notin {"born", "barrier"}
    /\ running' = FALSE
    /\ UNCHANGED <<total, own>>
    /\ UNCHANGED apiVars

Worker(w) ==
    \/ Start(w) \/ LoopHead(w) \/ Receive(w) \/ Answer(w) \/ Abort(w) \/ CountProcessed(w)

(* Faulty: the main thread waits until the requests have been counted and  *)
(* not for the threads.                                                    *)
JoinByCount == total >= Quota \/ Joined

JoinAll == Joined

(* main joins the threads and then finishes, except in img-dnn, which      *)
(* returns from main without tBenchServerFinish.                           *)
MainJoins ==
    /\ main = "join"
    /\ JoinAll
    /\ main' = IF program = "img-dnn" THEN "ended" ELSE "finish"
    /\ UNCHANGED <<curTid, tid, offered, received, answered, finished, pc>>
    /\ UNCHANGED loopVars

LoopsNext ==
    \/ Rendezvous
    \/ \E w \in Workers : Worker(w)
    \/ TimeIsOver
    \/ MainJoins
    \/ tBenchServerFinish /\ UNCHANGED loopVars
=============================================================================
