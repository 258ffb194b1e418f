----------------------------- MODULE DataService -----------------------------
(***************************************************************************)
(* What the data RPC promises, whatever carries it: a numbered request is  *)
(* run at most once, is answered only with its own result after it ran,    *)
(* and is never run once its caller has been told that it failed.          *)
(***************************************************************************)
EXTENDS Naturals

CONSTANT Requests   \* the request numbers

VARIABLES
    phase,          \* where each request stands
    runs            \* how often the backend ran each of them

vars == <<phase, runs>>

Phases == {"new", "open", "ran", "answered", "failed"}

Move(n, from, to) ==
    /\ phase[n] \in from
    /\ phase' = [phase EXCEPT ![n] = to]

Submit(n) == Move(n, {"new"}, "open") /\ UNCHANGED runs
Run(n)    == Move(n, {"open"}, "ran") /\ runs' = [runs EXCEPT ![n] = @ + 1]
Answer(n) == Move(n, {"ran"}, "answered") /\ UNCHANGED runs
Fail(n)   == Move(n, {"open", "ran"}, "failed") /\ UNCHANGED runs

Init ==
    /\ phase = [n \in Requests |-> "new"]
    /\ runs = [n \in Requests |-> 0]

Next == \E n \in Requests : Submit(n) \/ Run(n) \/ Answer(n) \/ Fail(n)

Spec == Init /\ [][Next]_vars
==============================================================================
