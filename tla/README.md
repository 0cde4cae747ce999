# TLA+ models of the Tailbench++ harness

Tailbench++ measures the latency of eight server applications. Its own code is the
harness in `src/harness/`: a load generator that sends requests at a given rate and
records latencies, and a server library that hands requests to the application's worker
threads. This directory models the harness and the loops in which the applications call
it, checks the models with TLC and proves their safety properties with TLAPS.

## 1. The system

| Part | State | Operations | Module |
|---|---|---|---|
| `class Client` (`client.cpp`) | `status`, `dist`, `barrier`, `inFlightReqs`, counters, latency vectors, rate schedule | `startReq`, `finiReq`, `_startRoi`, `dumpStats` | `Client` |
| `class NetworkedClient` and the client program (`client.cpp`, `tbench_client_networked.cpp`) | `sendLock`, `recvLock`, the connection | sender loop, receiver loop, `send`, `recv`, `main` | `NetworkedClient` |
| `class NetworkedServer` (`tbench_server_networked.cpp`) | `clientFds`, `recvClientHead`, `reqbuf`, `reqInfo`, `activeFds` | `recvReq`, `checkNewClient`, `checkRecv`, `removeClient`, `sendResp`, `finish` | `NetworkedServer` |
| `class IntegratedServer` (`tbench_server_integrated.cpp`) | that of `Client`, `finishedReqs` | `recvReq`, `sendResp` | `IntegratedServer` |
| Arrival times and clocks (`dist.h`, `helpers.h`) | `curNs`, the time stamps of a `Request` | `nextArrivalNs`, `getCurNs`, `sleepUntil` | `TimedClient` |
| Framing (`helpers.h`, `msgs.h`) | `remaining` of a read | `recvfull`, `sendfull` | inside the server and client modules |
| Server API (end of `tbench_server_networked.cpp`) | `curTid`, `tid` | the five `tBench*` functions | `TBenchServer` |
| xapian, img-dnn, sphinx, silo, shore | their counts of requests | worker loops, `main` | `WorkerLoops` |
| moses (`ThreadPool.cpp`, `Main.cpp`) | `m_tasks`, `m_stopping`, `m_stopped` | `Execute`, `Submit`, `Stop`, `main` | `ThreadPool` |
| Options, Java binding, masstree, specjbb, scripts | | | not modelled |

A client process has `nthreads` senders and `nthreads` receivers on one connection. A
sender calls `startReq` (generate a request, register it in `inFlightReqs`, sleep until its
arrival time) and `send`; a receiver calls `recv` and `finiReq` (find the request, record
its latency, delete it, count it). Response number `warmupreqs` begins the region of
interest; response number `warmupreqs + maxreqs` writes `lats_<id>.bin` and ends the
process. The server's workers take turns at `recvReq`, which also accepts connections, and
answer with `sendResp` on the connection the request came from.

What makes this hard: a response may be processed before `send` has returned; three
mutexes (`lock`, `sendLock`, `recvLock`) guard overlapping counters; `status` is read without
a lock; a barrier is destroyed and re-initialised between two waits; connections come, go
and break in the middle of a request while workers hold their descriptors. `PROJECT.json`
lists these hazards line by line.

## 2. Modules

* `Measurement`: the abstract promise of a run. The first `Warmup` completions are not
  measured, each of the next `Max` adds one tuple, then the tuples are published, once,
  and nothing completes afterwards.
* `Client`: the class shared by both versions. A region guarded by `lock` is one step; the
  unlocked reads of `status` are steps of their own. `pc` holds each thread's control point.
* `NetworkedClient`: composes `Client` with the thread loops, `send` and `recv`. A send is
  split at each shared access: the lock, the write, `numReqsSent++`, and the read and the
  write of `sent_requests++`, which races with the reset in `_startRoi`. The server is the
  environment: it answers each request once, in any order, may send FINISH and may vanish
  with part of what it had sent. `MeasuresAsPromised` is the refinement of `Measurement`:
  `latsFile` and `status` give the phase, `numReqsCompleted` and `sjrnTimes` the counts.
* `TimedClient`: extends `NetworkedClient` with the clock. Every step of the untimed client is
  here together with the clock readings it makes, and `Tick` lets time pass between any two.
  `stamp` holds `startNs`, `genNs` and `sentNs_lock_ad` of each request in flight. Arrival
  times are rounded as in the code, which adds a double to a count of nanoseconds above 2^53.
* `NetworkedServer`: the workers, with kernel descriptors, an accept backlog and client
  byte streams as the environment. A request is `HdrUnits` header units and a body that
  arrive one by one; `recvfull` takes what is there, one `recv` per step, until nothing
  remains. A closed connection becomes a reset one when written to; a write on a reset
  connection fails or raises SIGPIPE.
* `IntegratedServer`: composes `Client` with `recvReq` and `sendResp` of the integrated
  version, which passes 0 for the client's own `warmupreq` and `maxreq`.
* `TBenchServer`, `WorkerLoops`, `ThreadPool`, `Applications`: the server programs on top of the
  harness. `TBenchServer` is the API: a request is offered by the clients, handed to a thread,
  answered. `WorkerLoops` has the programs whose threads loop on their own; they differ in
  when a request is counted. `ThreadPool` is moses, a region under `m_mutex` a step, with
  waits on condition variables that may also end for nothing. `Applications` picks a program
  when the process starts and states what holds for all.
* `MCNetworkedClient`, `MCTimedClient`, `MCNetworkedServer`, `MCIntegratedServer`,
  `MCApplications`: values and symmetry for TLC. Symmetry is used for safety runs only.
* `ClientStepProofs`, `NetworkedClientProofs`, `TimedClientProofs`: the proofs of the client;
  `RecvReqProofs`, `ReadProofs`, `ServerProofs`: those of the server; `IntegratedServerProofs`,
  `ApplicationsProofs`: those of the integrated server and of the applications.

Definitions headed "Faulty" are plausible mistakes in the definition that follows them.
No specification uses them. Each shows that a property notices the mistake.

### Abstractions

* Payloads and latencies are left out: the latency vectors are their common length, a file
  is its number of tuples. Request ids of the client are the real ones (`startedReqs`).
* Time is in `TimedClient` only. In the other modules a sleeping sender is one that has not
  taken its next step. `TimedImplementsUntimed` shows that the clock adds no behaviour. The
  `*_ns` sums, which are printed and never read back, and the service time of the server
  (`tbench_server_networked.cpp:428`) are left out.
* `TimedClient` assumes that `CLOCK_REALTIME` is not set back while a client runs, and that a
  response is later than its request by at least one tick.
* Rates are integers. The code scales intervals with doubles; where the ratio of two rates
  is a power of two the arithmetic is exact, and `RatesExact` restricts the rates to
  that. Of the proofs only `RatesAreHeld` uses it.
* Set-up that precedes the threads (sockets, options) is the initial state.
* An assertion that fails ends the process as `"aborted"`. `exit`, SIGPIPE and
  `exit_group` end it as `"exited"`, `"killed"` and `"exited"`.
* On the server, ids are tokens that are unique among a client's unanswered requests, and
  all clients use the same ones, as every client counts from 0.
* An application's work on a request is one step that answers it; only silo's transactions
  may fail.

## 3. Runs

Passing runs:

| Run | Instance | Shows |
|---|---|---|
| `client_safety` | 2 senders, 2 receivers, 2 warmup and 2 measured requests, `TBENCH_VARQPS=2` | no assertion fails, exactly `maxreqs` tuples are published, at most `warmupreqs + maxreqs` requests reach the server, over-generation is at most one request per extra sender, `send` never touches a deleted request, `numReqsCompleted` overtakes `numReqsSent` by at most one, no barrier waiter is forgotten, the schedule's counter is never past its interval and the time at a rate never gets shorter, `Measurement` is implemented |
| `client_server_stops` | the same threads, 1 + 1 requests, the server may end | the inductive invariant of the proofs, the bound of `sent_requests`, `recvLock` is left locked only after the connection has ended; a client whose server does stay up publishes and exits |
| `client_timed` | 2 senders, 1 receiver, 1 + 1 requests, a new distribution at every request of the region of interest, clock up to 4 | requests are sent when due or later, the assertion on the clock holds, sojourn times cover the time on the network, timely requests are those of the region of interest |
| `server_safety` | 2 workers, 2 clients, 2 ids, clients leave when answered | responses reach the client they belong to, no request is lost, streams stay in step, the server survives, only clients that ended are removed |
| `server_crashing_clients` | 2 workers, 3 clients that may crash, 2 descriptors, headers of 2 units | the same routing with short reads, resets and connections that cannot be accepted; the inductive invariant of the proofs |
| `server_liveness` | 1 worker, 3 clients that never stop sending, 3 descriptors | every connecting client is accepted and every request answered |
| `integrated_safety` | 3 threads, `TBENCH_VARQPS=1` | no thread's request is shared or lost, requests are generated at the rate in force, no barrier waiter is forgotten |
| `applications` | 3 threads, 7 program variants, 0 to 6 requests offered, quota 2, 3 tasks | threads use slots of their own; `tBenchServerFinish` finds every thread ended and every request answered; how many requests a program serves; moses runs every task; a program that counts ends if it is sent as many requests as it may serve |

Violation runs, each a disagreement between the code and what the repository says of it
(quoted in `PROJECT.json` under `findings`):

| Run | What happens |
|---|---|
| `integrated_roi` | with `warmupreq` 0 every response calls `_startRoi`; the second one fails its assertion |
| `client_hangs` | `recv` returns with `recvLock` held; with two receivers the client may never end |
| `server_dies` | a client that ends in the middle of a request ends the server |
| `server_fd_exhaustion` | descriptors are never closed, so a later client is not accepted |

Some smaller disagreements are noted here and have no run. Each change to a lower rate adds
1 to the interval even when the scaling is exact (`client.cpp:178`), so the time at a rate is
not "the same time" of `README.md:124` but drifts up; `StaysAtLeastAsLong` is the half that
holds. `numReqsSent` also counts sends that failed (`client.cpp:583`, against the comment in
`client.h:45`). A FINISH message is an unknown response type to the client, which can return
from `main` without publishing a file (`tbench_client_networked.cpp:100`). A request of length
0 makes `recvfull` return 0 for its body, and `checkRecv` removes its client as one that
"exited" (`tbench_server_networked.cpp:165`); `BodyLens` excludes 0. `TBENCH_NCLIENTS` is read
and not used (`src/README:85` describes it). xapian serves up to one request per further thread
beyond the number it was given, and waits for them; img-dnn never calls
`tBenchServerFinish`; silo run for a time (not as its script runs it) leaves requests
unanswered whose transactions abort after the time is over.

### Bounds

Two senders and two receivers are the least that show every race the code has between
equals (two senders at the loop head, a receiver behind the one that dumps the file), and
the proofs cover the other numbers. Two warmup and two measured requests make the first and
the last of each phase different requests, and let the cyclic schedule change its rate with
an interval of 2. The timed client needs few requests and a short clock to meet a late
sender, a late receiver and a request of the old distribution after a rate change; gaps of 0
and 2 and a grain of 2 give arrivals that coincide, lie ahead and are rounded up. On the
server, two workers and two clients show a response pending on one connection while another
is read; the third client finds no descriptor. Headers of 2 units give short reads; a body is
read by the same code. For liveness one worker is the hardest case, since nobody else can
serve meanwhile; the third client connects while the worker is in its second select. Three
threads show an application's thread that finds the count exhausted while two others race for
it, and a pool whose threads are idle, running and woken at once; 6 requests are the most any
of the programs that count may serve. `Doublings` bounds the powers of two `RatesExact`
considers to 1024, `MaxClock` the clock, `MaxOffered` the requests of `Applications`.

`CHECK_DEADLOCK FALSE` stands where a stop is part of the behaviour: when the server has
gone and a receiver kept `recvLock`, in the timed run, whose clock stops at its bound, in the
server runs, whose clients may all have left, and in `applications`, where programs end or wait
for requests that do not come.

### Fairness

Threads of one process are scheduled by the kernel: weak fairness for every sender, receiver,
worker and `main`. A server that is up answers the requests it has (weak fairness of
`Respond`); nothing makes it finish or go. Data on its way arrives. A connected client sends
again or leaves, because its rate is positive and its budget finite. Nobody is obliged to
connect. Mutexes are not assumed to be fair. In `Applications` every thread is scheduled, an
aborted transaction that is tried again for ever commits, and spurious wake-ups are never
relied on.

## 4. Proofs

### The client

The theorems are about `NetworkedClient` and `TimedClient`, for any finite sets of senders and
receivers, any positive `warmupreqs` and `maxreqs`, any rates, servers that may or may not
stop, any gaps, grain and clock bound. They use the named assumptions `ClientAssumption`,
`NetworkedAssumption` and `TimedAssumption`.

The invariants are not inductive alone. `IndInv` adds what they rest on:

* `SendLockInv`: `sendLock` is held exactly between its acquisition and its release in `send`,
  so at most one request is written and not yet counted;
* `StartInv`: the start-up barrier. While `status` is INIT nothing has been generated and the
  threads are all before the first barrier or all just past it; afterwards `dist` has the
  rate in force;
* `PlaceInv`: a request is in one place (with its sender, at the server, among the replies,
  with one receiver) and in `inFlightReqs` all that time;
* `CountInv`: responses due or processed <= writes <= budget;
* `PhaseInv`: the counters determine `status`, the number of tuples and the file.

`IndInv` is an invariant of the run `client_server_stops`, and `Invariance` proves it. The
proof has one lemma per action, in `ClientStepProofs`, after the finiteness, cardinality and
frame lemmas. From it follow `TypeCorrect`, `AssertionsNeverFail`, `FileIsComplete`,
`BudgetIsKept`, `NoAccessAfterDelete`, `CompletionsTrailSends`, `RateIsInForce`, the action
property `WaitersAreNotForgotten`, and `ImplementsMeasurement`: steps outside `finiReq` stutter
in `Measurement`, and the three cases of `finiReq` are its steps.

Five further theorems need invariants of their own, on top of `IndInv`:

* `SentStatIsBounded`: the owner of `sendLock` has counted its send before it reads
  `sent_requests`, so what it read, and writes back, is below `numReqsSent` (`SentStatInv`);
* `RecvLockOrphanedAtEnd`: an owner of `recvLock` that has left `recv` left it at the end of
  the connection (`RecvLockInv`);
* `CounterStaysWithinInterval`, `RatesAreHeld`: the counter restarts when the interval changes,
  and interval over rate never falls (`RateInv`). The arithmetic is that of `RatesDivide` and
  `ScalingKeepsTime`: one of two exact rates divides the other, and the code's + 1 covers the
  truncation;
* `OverGenerationIsBounded`: until the budget is used up, every generated request has been
  counted as sent or is held by a sender; the sender that uses the budget up is not among
  those that still come to generate one (`GenInv`).

`TimedClientProofs` shows that the timed client implements the untimed one
(`TimedImplementsUntimed`: `Tick` is a stutter), so that all of this carries over, and proves
`TimeInv`: no stamp but an arrival time is in the future, and a request that is with the
server, or past it, was sent at its origin or later. `LatenciesAreOrdered` and
`TimelyIsBounded` follow, the latter with the over-generation bound.

### The server

The theorems of `ServerProofs` are about `NetworkedServer`, for any finite sets of workers and
clients, any ids, descriptors and positive lengths, with and without crashes. They use
`ServerAssumption`. `ServerInv` is checked by the run `server_crashing_clients` and proved by
`ServerInvariance`. Its parts:

* `RecvLockInv`: `recvLock` is held exactly in the loop of `recvReq`, so there is one reader;
* `FdInv`, `UseInv`: a client has one descriptor for good (the code never closes one), and
  what readers and serving workers hold are descriptors of connections;
* `StreamInv`, `GotInv`: each stream consists of whole requests, but for its ends, and goes
  on where its reader stopped;
* `OwnerInv`: what a connected client waits for is in its stream, with the reader or with
  one serving worker, each id once.

From it follow `ResponsesReachTheirOwner`, `RequestsAreKept`, `StreamsStayInStep`,
`OnlyExitedAreRemoved`, and, when clients end only after they have been answered,
`ServerOutlivesClients`. The run `server_dies` shows that the last one needs its condition.

The lemmas about `recvReq` up to a chosen connection are in `RecvReqProofs`, those about
reading it in `ReadProofs`.

### The integrated server

`IntegratedServerProofs` is about `IntegratedServer`, for any finite set of threads and any
rates, from `ClientAssumption` and `IntegratedAssumption`. `IntegratedInv` consists of
`StartUpInv`, which is `StartInv` of the client without its counters, and `OwnerInv`: ids below
`startedReqs` only have been given out, no two threads hold the same, and what a thread
processes is in `inFlightReqs`. From it follow `OwnRequests`, `IntegratedRate` and the action
property `IntegratedBarrier`. That the assertion on `status` does fail is the run
`integrated_roi`.

### The applications

`ApplicationsProofs` is about `Applications`, for any finite set of threads, any quota, number
of tasks and number of requests offered, from the assumptions named in `TBenchServer`,
`WorkerLoops`, `ThreadPool` and `Applications`. `AppInv` counts, for each program, the threads
at some control points (`In`):

* `SlotInv`: `curTid` is the number of threads that have started, and the numbers given out
  are below it and distinct;
* `MainInv`, `ServeInv`: main finishes only after the threads have ended; a request received
  is being worked on or answered;
* `XapianInv`: the requests received are the counted ones and those in progress. A thread that
  passes the test of the count is not yet among the threads in progress, so these are at
  most all but one when it does;
* `ImgDnnInv`: the count was raised for every request received or awaited;
* `OwnInv`: the requests that silo and shore received are as many as pairs of a thread and a
  number within its quota (`Taken`);
* `PoolInv`: each task submitted is queued, awaits its request or has received it, and the
  queue is empty once `Stop(true)` has seen it drained.

`AppInvariance` proves it; `SlotsOwned`, `FinishesQuietly`, `ServesAtMost` and `EveryTaskRuns`
follow. For sphinx and for silo with a time, which count nothing, `ServesAtMost` says only
that they receive no more than was sent.

`AppInv` and `IntegratedInv` also hold on the instances of the runs `applications` and
`integrated_safety`, which check the properties and not these invariants.

### Only model-checked

Liveness (`ServedClientPublishes`, `EveryRequestAnswered`, `EveryClientAccepted`,
`ProgramEnds`), which is out of the prover's reach. Every safety property of the passing runs
is proved.

## 5. Not modelled

* Most of the lines of the repository: the eight applications are third-party programs (a
  search engine, databases, decoders, a Java benchmark) of which the harness sees only the
  calls of its API. Those calls, and the loops and pools around them, are modelled; indexes,
  storage managers, translation and inference are pure computation for this purpose and have
  no state the harness shares. The modules therefore cover the harness nearly completely and
  a small share of all the lines.
* masstree, whose loop never ends, as that of sphinx, and specjbb, whose loop ends with the phases
  of its own driver; shore's duration-based test, and the repetition of its test.
* Clock steps, the resolution of the clock, and the server's service time.
* Partial writes inside `sendfull`, and back pressure: a server that blocks in `sendResp`
  because a client does not read.
* `tBenchServerFinish` of the integrated version, which the assertion of `integrated_roi`
  keeps from being reached; `Client::startRoi`, which has no caller.
* Option parsing, the Java binding (it forwards calls), the generation of request data, the
  scripts and the parsing of results.

## 6. Plan

Possible extensions, in this order:

1. a composition of client and server over bounded connections, with back pressure, in place
   of the two environments;
2. a bound on how often the round-robin scan passes a waiting client.
