---------------------------- MODULE Measurement ----------------------------
(***************************************************************************)
(* What the harness promises about one measured run, in the terms of the   *)
(* environment variables: the first Warmup requests to complete are not    *)
(* measured, the next Max are, one latency tuple each, and the tuples are  *)
(* then published once.  Nothing completes after the publication.          *)
(***************************************************************************)
EXTENDS Naturals

CONSTANTS Warmup,   \* TBENCH_WARMUPREQS
          Max       \* TBENCH_MAXREQS

VARIABLES phase,      \* "warmup", "roi" or "published"
          completed,  \* requests whose response has been accounted for
          recorded    \* latency tuples held in memory

vars == <<phase, completed, recorded>>

Init ==
  /\ phase = "warmup"
  /\ completed = 0
  /\ recorded = 0

\* A warmup request completes; its latency is not kept.
WarmUp ==
  /\ phase = "warmup"
  /\ completed + 1 < Warmup
  /\ completed' = completed + 1
  /\ UNCHANGED <<phase, recorded>>

\* The last warmup request completes: the region of interest begins.
BeginRoi ==
  /\ phase = "warmup"
  /\ completed + 1 = Warmup
  /\ completed' = completed + 1
  /\ phase' = "roi"
  /\ recorded' = 0

\* A request completes in the region of interest and is measured.
Measure ==
  /\ phase = "roi"
  /\ completed + 1 < Warmup + Max
  /\ completed' = completed + 1
  /\ recorded' = recorded + 1
  /\ UNCHANGED phase

\* The last measured request completes and the tuples are published.
Publish ==
  /\ phase = "roi"
  /\ completed + 1 = Warmup + Max
  /\ completed' = completed + 1
  /\ recorded' = recorded + 1
  /\ phase' = "published"

Next == WarmUp \/ BeginRoi \/ Measure \/ Publish

Spec == Init /\ [][Next]_vars

=============================================================================
