----------------------------- MODULE MCInjection -----------------------------
(* Model values of the injection loop's runs. *)
EXTENDS InjectionSpec

SoleEvents    == {"restart", "collapse", "desktop", "pause", "swap"}
CrashOnly     == {"crash"}
BreakerOnly   == {"breaker"}
LostReplies   == {"lost"}
ClaimEvents   == {"restart", "reload", "crash"}
CoopEvents    == {"collapse", "reload", "breaker"}
AllFaults     == {"refused", "lost"}
==============================================================================
