----------------------------- MODULE BundleGate -----------------------------
(***************************************************************************)
(* The wrapper the daemon puts around the bundle: boot it at once when the *)
(* runtime has signalled that host.ui is ready, else poll for the signal   *)
(* and boot anyway after PollCap polls.  The script is evaluated in the    *)
(* page's global scope, so its function and its two variables are globals  *)
(* that a later evaluation finds again.                                    *)
(***************************************************************************)
EXTENDS Naturals

CONSTANTS
    PollCap,    \* polls the gate makes before it boots without the signal
    MaxEvals    \* bound: evaluations of the bundle in one page

ASSUME GateAssumption == PollCap \in Nat /\ MaxEvals \in Nat \ {0}

VARIABLES
    evals,    \* evaluations so far; the last one defined __shelvesBootBundle
    polls,    \* __bn
    named,    \* __biv: the evaluation whose interval it names, 0 for none
    live,     \* evaluations whose interval still fires
    mounted,  \* bundle instances whose unmount handlers have not run
    early,    \* an instance was booted without the signal
    crossed   \* (history) a teardown came while an interval still fired

gateVars == <<evals, polls, named, live, mounted, early, crossed>>

\* Three instances already tell "once more" from "again and again".
MaxMounted == 3
OneMore(n) == IF n < MaxMounted THEN n + 1 ELSE n

GateFresh == /\ evals = 0 /\ polls = 0 /\ named = 0 /\ live = {}
             /\ mounted = 0 /\ early = FALSE /\ crossed = FALSE
GateReset == /\ evals' = 0 /\ polls' = 0 /\ named' = 0 /\ live' = {}
             /\ mounted' = 0 /\ early' = FALSE /\ crossed' = FALSE

\* Evaluating the gated bundle.
EvalBundle(ready) ==
    /\ evals < MaxEvals
    /\ evals' = evals + 1
    /\ IF ready
       THEN /\ mounted' = OneMore(mounted)
            /\ UNCHANGED <<polls, named, live>>
       ELSE /\ polls' = 0
            /\ named' = evals + 1
            /\ live' = live \cup {evals + 1}
            /\ UNCHANGED mounted
    /\ UNCHANGED <<early, crossed>>

\* A slip for PollGate: the interval goes on after the boot.
PollGateAgain(i, ready) ==
    /\ i \in live
    /\ IF ready \/ polls + 1 > PollCap
       THEN /\ mounted' = OneMore(mounted)
            /\ early' = (early \/ ~ready)
            /\ UNCHANGED <<polls, live>>
       ELSE /\ polls' = polls + 1
            /\ UNCHANGED <<live, mounted, early>>
    /\ UNCHANGED <<evals, named, crossed>>

\* A slip for PollGate: the polls have no cap.
PollGateWaits(i, ready) ==
    /\ i \in live
    /\ ready
    /\ live' = live \ {named}
    /\ mounted' = OneMore(mounted)
    /\ UNCHANGED <<evals, polls, named, early, crossed>>

\* One poll of interval i.  It clears the interval that __biv names NOW and
\* calls the __shelvesBootBundle that is defined NOW.
PollGate(i, ready) ==
    /\ i \in live
    /\ IF ready \/ polls + 1 > PollCap
       THEN /\ live' = live \ {named}
            /\ mounted' = OneMore(mounted)
            /\ early' = (early \/ ~ready)
            /\ UNCHANGED polls
       ELSE /\ polls' = polls + 1
            /\ UNCHANGED <<live, mounted, early>>
    /\ UNCHANGED <<evals, named, crossed>>

\* soft_reinject runs the instances' unmount handlers, if a host is published that
\* has them, then clears the marker.  The interval of a waiting gate is none of them.
Teardown(hosts) ==
    /\ mounted' = IF hosts THEN 0 ELSE mounted
    /\ crossed' = (crossed \/ live # {})
    /\ UNCHANGED <<evals, polls, named, live, early>>
=============================================================================
