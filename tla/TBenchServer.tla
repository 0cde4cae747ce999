---------------------------- MODULE TBenchServer ----------------------------
(***************************************************************************)
(* The server API of the harness as the applications use it: the functions *)
(* at the end of tbench_server_networked.cpp.  Connections are left to     *)
(* NetworkedServer; here a request is offered, handed to a worker, and     *)
(* answered.                                                               *)
(***************************************************************************)
EXTENDS Integers, FiniteSets

CONSTANTS Workers,     \* the threads that call tBenchServerThreadStart
          MaxOffered   \* bound: most requests the clients send in a run

ASSUME WorkersAssumption ==
    /\ IsFiniteSet(Workers) /\ Workers # {}
    /\ MaxOffered \in Nat

VARIABLES
    curTid,     \* the atomic counter of thread numbers
    tid,        \* thread-local number, NoTid before tBenchServerThreadStart
    offered,    \* requests the clients will still send
    received,   \* requests tBenchRecvReq has returned
    answered,   \* requests tBenchSendResp was called for
    finished,   \* tBenchServerFinish was called
    pc,         \* worker -> control point
    main        \* control point of the main thread

apiVars == <<curTid, tid, offered, received, answered, finished, pc, main>>

NThreads == Cardinality(Workers)
NoTid == -1

(* Each thread's control point is set by the application that starts it.   *)
tBenchServerInit ==
    /\ curTid = 0
    /\ tid = [w \in Workers |-> NoTid]
    /\ offered \in 0 .. MaxOffered
    /\ received = 0
    /\ answered = 0
    /\ finished = FALSE

Goto(w, from, to) == pc[w] = from /\ pc' = [pc EXCEPT ![w] = to]

(* Faulty: the number is read and not counted up. *)
nextTidKept == curTid

nextTid == curTid + 1

tBenchServerThreadStart(w, to) ==
    /\ Goto(w, "start", to)
    /\ tid' = [tid EXCEPT ![w] = curTid]
    /\ curTid' = nextTid
    /\ UNCHANGED <<offered, received, answered, finished, main>>

(* Blocks until a client has sent a request. *)
tBenchRecvReq(w) ==
    /\ Goto(w, "recv", "work")
    /\ offered > 0
    /\ offered' = offered - 1
    /\ received' = received + 1
    /\ UNCHANGED <<curTid, tid, answered, finished, main>>

tBenchSendResp(w, to) ==
    /\ Goto(w, "work", to)
    /\ answered' = answered + 1
    /\ UNCHANGED <<curTid, tid, offered, received, finished, main>>

(* Every worker's thread has been joined. *)
Joined == \A w \in Workers : pc[w] = "done"

tBenchServerFinish ==
    /\ main = "finish"
    /\ finished' = TRUE
    /\ main' = "ended"
    /\ UNCHANGED <<curTid, tid, offered, received, answered, pc>>
=============================================================================
