------------------------------ MODULE BootProofs ------------------------------
(***************************************************************************)
(* Proofs of what a page owes once it has booted, for any machine whose    *)
(* React is not among the modules that load late.  A bundle the gate did   *)
(* not let in by its cap finds the whole host.ui: the inductive invariant  *)
(* follows the signal back, the gate saw it, so the last augment task ran, *)
(* so the whole scan ran before it, and the scan began with every module   *)
(* of the first bundle in the cache.  And the native tab is in the menu    *)
(* once, in its place and under its key: what the cache knew when the      *)
(* patch was tried, and lists that our handler keeps tidy.                 *)
(***************************************************************************)
EXTENDS RuntimePage, SequenceTheorems, FiniteSetTheorems, TLAPS

ReactIsEarly == \A w \in Worlds : "react" \notin w.late

\* Steam's modules that are not late come together.
Together ==
    /\ world \in Worlds /\ late = world.late
    /\ loaded \cap (Modules \ late) = {} \/ (Modules \ late) \subseteq loaded

Fresh == mode = "none" => /\ scan = 0 /\ augment = 0 /\ ~ready
                          /\ mounted = 0 /\ live = {} /\ ~discovery

Counters == scan \in Nat /\ augment \in Nat /\ mounted \in Nat

\* What steps 1 to n of a search have found.
Found(steps, n) ==
    \A i \in DOMAIN steps : i <= n /\ steps[i].in \notin late => steps[i].gives \subseteq ui

Scanned ==
    mode = "sole" =>
        /\ scan > 0 => chunk /\ (Modules \ late) \subseteq loaded /\ uiReady
        /\ react => scan > 0
        /\ Found(UiSteps, scan)
        /\ augment > 0 => scan > Len(UiSteps)
        /\ Found(AugmentTasks, augment)
        /\ ready => augment > Len(AugmentTasks)

Gated == mode = "sole" /\ mounted > 0 /\ ~early => ready

Inv == Together /\ Fresh /\ Counters /\ Scanned /\ Gated

scanState == <<mode, late, react, ui, uiReady, scan, augment, ready>>

USE DEF pageVars, menuVars, homeVars, steamVars, scanVars, gateVars, tabVars, routerVars,
        navVars

------------------------------------------------------------------------------
(* Steps and tasks are sequences over the modules. *)

\* Each step of the scan looks in one module.
LEMMA UiStepsShape ==
    /\ Len(UiSteps) \in Nat \ {0} /\ DOMAIN UiSteps = 1..Len(UiSteps)
    /\ \A i \in DOMAIN UiSteps : UiSteps[i].in \in Modules
<1>1. /\ Len(WidgetSteps) = 4 /\ Len(ScreenSteps) = 4
      /\ DOMAIN WidgetSteps = 1..4 /\ DOMAIN ScreenSteps = 1..4
  BY DEF WidgetSteps, ScreenSteps
<1>2. /\ \A i \in 1..4 : WidgetSteps[i].in \in Modules
      /\ \A i \in 1..4 : ScreenSteps[i].in \in Modules
  BY DEF WidgetSteps, ScreenSteps, Modules
<1> DEFINE S == {WidgetSteps[i] : i \in 1..4} \cup {ScreenSteps[i] : i \in 1..4}
<1>3. WidgetSteps \in Seq(S) /\ ScreenSteps \in Seq(S)
  <2>1. /\ WidgetSteps = [i \in 1..4 |-> WidgetSteps[i]]
        /\ ScreenSteps = [i \in 1..4 |-> ScreenSteps[i]]
    BY DEF WidgetSteps, ScreenSteps
  <2> QED
    BY <2>1
<1>4. \A s \in S : s.in \in Modules
  BY <1>2
<1> HIDE DEF S
<1>5. UiSteps \in Seq(S) /\ Len(UiSteps) = 8
  <2>1. WidgetSteps \o ScreenSteps \in Seq(S)
    BY <1>3, ConcatProperties, Zenon
  <2>2. Len(WidgetSteps \o ScreenSteps) = Len(WidgetSteps) + Len(ScreenSteps)
    BY <1>3, ConcatProperties, Zenon
  <2> QED
    BY <1>1, <2>1, <2>2 DEF UiSteps
<1> QED
  BY <1>4, <1>5

\* Each augment task does.
LEMMA AugmentShape ==
    /\ Len(AugmentTasks) \in Nat \ {0} /\ DOMAIN AugmentTasks = 1..Len(AugmentTasks)
    /\ \A i \in DOMAIN AugmentTasks : AugmentTasks[i].in \in Modules
<1>1. Len(AugmentTasks) = 8 /\ DOMAIN AugmentTasks = 1..8
  BY DEF AugmentTasks
<1>2. \A i \in 1..8 : AugmentTasks[i].in \in Modules
  BY DEF AugmentTasks, Modules
<1> QED
  BY <1>1, <1>2
------------------------------------------------------------------------------
(* The parts of a step. *)

\* What a search or Steam does to the cache keeps the first bundle's modules
\* together, and takes nothing out.
LEMMA CacheGrows ==
    ASSUME Together, chunk => chunk', UNCHANGED <<world, late>>,
           \/ Find \/ UNCHANGED loaded
           \/ \E more \in {Modules \ late} \cup {{m} : m \in late} : loaded' = loaded \cup more
    PROVE  Together' /\ loaded \subseteq loaded'
<1>1. CASE Find
  BY <1>1 DEF Together, Find, Refreshed
<1>2. CASE UNCHANGED loaded
  BY <1>2 DEF Together
<1>3. CASE \E more \in {Modules \ late} \cup {{m} : m \in late} : loaded' = loaded \cup more
  BY <1>3 DEF Together
<1> QED
  BY <1>1, <1>2, <1>3

\* A search that follows one that found React knows every module that is not late.
LEMMA AllKnown ==
    ASSUME ReactIsEarly, Together, chunk, (Modules \ late) \subseteq loaded
    PROVE  Refreshed = loaded
<1>1. "react" \in Modules \ late
  BY DEF Together, ReactIsEarly, Modules
<1> QED
  BY <1>1 DEF Refreshed

\* What is found stays found, and a growing cache keeps the scan's findings.
LEMMA ScanKept ==
    ASSUME Scanned, loaded \subseteq loaded', chunk => chunk', UNCHANGED scanState
    PROVE  Scanned'
BY DEF Scanned, Found, scanState

\* A component that one more step resolves is added to those found.
LEMMA OneMoreFound ==
    ASSUME NEW steps, NEW n \in Nat, NEW found,
           DOMAIN steps \subseteq Nat,
           Found(steps, n),
           steps[n + 1].in \notin late => steps[n + 1].gives \subseteq found,
           ui' = ui \cup found, late' = late
    PROVE  Found(steps, n + 1)'
<1> SUFFICES ASSUME NEW i \in DOMAIN steps, i <= n + 1, steps[i].in \notin late
             PROVE  steps[i].gives \subseteq ui'
  BY DEF Found
<1>1. CASE i <= n
  BY <1>1 DEF Found
<1>2. CASE i = n + 1
  BY <1>2
<1> QED
  BY <1>1, <1>2
\* What an action that leaves the scan alone, searches apart, keeps.
LEMMA SearchKeeps ==
    ASSUME Together, Scanned, chunk => chunk', UNCHANGED <<world, mode, late, react, scanVars>>,
           \/ Find \/ UNCHANGED loaded
           \/ \E more \in {Modules \ late} \cup {{m} : m \in late} : loaded' = loaded \cup more
    PROVE  Together' /\ Scanned'
<1>1. Together' /\ loaded \subseteq loaded'
  BY CacheGrows
<1>2. UNCHANGED scanState
  BY DEF scanState
<1> QED
  BY <1>1, <1>2, ScanKept

\* If the gate is left alone as well, the whole invariant is kept.
LEMMA SearchInv ==
    ASSUME Inv, chunk => chunk', UNCHANGED <<world, mode, late, react, scanVars, gateVars>>,
           \/ Find \/ UNCHANGED loaded
           \/ \E more \in {Modules \ late} \cup {{m} : m \in late} : loaded' = loaded \cup more
    PROVE  Inv'
<1>1. Together' /\ Scanned'
  BY SearchKeeps DEF Inv
<1>2. Fresh' /\ Counters' /\ Gated'
  BY DEF Inv, Fresh, Counters, Gated
<1> QED
  BY <1>1, <1>2 DEF Inv

------------------------------------------------------------------------------
(* The steps: one lemma per action or group of actions that touch the same part. *)

\* The page starts with nothing scanned and nothing booted.
LEMMA InitInv == Init => Inv
<1> SUFFICES ASSUME Init PROVE Inv
  OBVIOUS
<1>1. Together
  BY DEF Init, SteamFresh, Together
<1>2. Fresh /\ Counters /\ Gated /\ Scanned
  BY DEF Init, SteamFresh, GateFresh, Fresh, Counters, Gated, Scanned
<1> QED
  BY <1>1, <1>2 DEF Inv

\* So does every page after it.
LEMMA NewPageInv == Inv /\ NewPage => Inv'
<1> SUFFICES ASSUME Inv, NewPage PROVE Inv'
  OBVIOUS
<1>1. Together'
  BY DEF Inv, NewPage, SteamReset, Together
<1>2. Fresh' /\ Counters' /\ Gated' /\ Scanned'
  BY DEF NewPage, SteamReset, GateReset, Fresh, Counters, Gated, Scanned
<1> QED
  BY <1>1, <1>2 DEF Inv

\* On a sole host the scan starts with React, that is with the first bundle's modules.
LEMMA EvalRuntimeInv == ReactIsEarly /\ Inv /\ EvalRuntime => Inv'
<1> SUFFICES ASSUME ReactIsEarly, Inv, EvalRuntime PROVE Inv'
  OBVIOUS
<1>1. /\ mode' = ModeOf(loader) /\ mode' # "none" /\ Find
      /\ react' = (Published \/ "react" \in Refreshed)
      /\ UNCHANGED <<world, late, chunk, augment, gateVars>>
  BY DEF EvalRuntime, ModeOf, TakeReact
<1>2. /\ scan = 0 /\ augment = 0 /\ ~ready /\ mounted = 0
  BY DEF Inv, Fresh, EvalRuntime
<1>3. Together'
  BY <1>1, CacheGrows DEF Inv
<1>4. Fresh' /\ Gated'
  BY <1>1, <1>2 DEF Fresh, Gated
<1>5. Counters'
  BY <1>1, <1>2 DEF Inv, Counters, EvalRuntime, StartScan, ModeOf
<1>6. CASE mode' = "sole" /\ react'
  <2>1. loader = "none"
    BY <1>1, <1>6 DEF ModeOf
  <2>2. "react" \in Refreshed
    BY <1>1, <1>6, <2>1 DEF Published
  <2>3. scan' = 1 /\ uiReady' = TRUE /\ ui' = ui \cup Resolved(1) /\ ready' = ready
    BY <1>1, <1>6, <2>2 DEF EvalRuntime, StartScan
  <2>4. chunk /\ (Modules \ late) \subseteq Refreshed /\ loaded' = Refreshed
    BY <1>1, <2>2 DEF Refreshed, Find, Inv, Together, ReactIsEarly, Modules
  <2>5. Found(UiSteps, 0 + 1)'
    <3>1. Found(UiSteps, 0)
      BY UiStepsShape DEF Found
    <3>2. UiSteps[0 + 1].in \notin late => UiSteps[0 + 1].gives \subseteq Resolved(1)
      BY <2>4, UiStepsShape DEF Resolved
    <3>3. 0 \in Nat /\ DOMAIN UiSteps \subseteq Nat
      BY UiStepsShape
    <3>4. ui' = ui \cup Resolved(1) /\ late' = late
      BY <1>1, <2>3
    <3> QED
      BY <3>1, <3>2, <3>3, <3>4, OneMoreFound
  <2>6. Found(AugmentTasks, 0)'
    BY AugmentShape DEF Found
  <2>7. Scanned'
    BY <1>1, <1>2, <2>3, <2>4, <2>5, <2>6 DEF Scanned
  <2> QED
    BY <1>3, <1>4, <1>5, <2>7 DEF Inv
<1>7. CASE mode' = "sole" /\ ~react'
  <2>1. UNCHANGED <<scan, ui, ready>>
    BY <1>1, <1>7 DEF EvalRuntime
  <2>2. Found(UiSteps, 0)' /\ Found(AugmentTasks, 0)'
    BY UiStepsShape, AugmentShape DEF Found
  <2>3. Scanned'
    BY <1>1, <1>2, <1>7, <2>1, <2>2 DEF Scanned
  <2> QED
    BY <1>3, <1>4, <1>5, <2>3 DEF Inv
<1>8. CASE mode' # "sole"
  BY <1>3, <1>4, <1>5, <1>8 DEF Inv, Scanned
<1> QED
  BY <1>6, <1>7, <1>8

\* A stand-down touches nothing, and nothing is booted in its page.
LEMMA EvalInertInv == Inv /\ EvalInert => Inv'
<1> SUFFICES ASSUME Inv, EvalInert PROVE Inv'
  OBVIOUS
<1>1. Together' /\ Counters'
  BY DEF Inv, EvalInert, Together, Counters
<1>2. Fresh' /\ Gated' /\ Scanned'
  BY DEF EvalInert, Fresh, Gated, Scanned
<1> QED
  BY <1>1, <1>2 DEF Inv
\* An evaluation of the bundle boots it at once only when the signal is there.
LEMMA InjectBundleInv == Inv /\ InjectBundle => Inv'
<1> SUFFICES ASSUME Inv, InjectBundle PROVE Inv'
  OBVIOUS
<1>1. /\ UNCHANGED <<world, mode, late, chunk, react, scanVars>>
      /\ Find \/ UNCHANGED loaded
  BY DEF InjectBundle, BootEffect, Registered
<1>2. Together' /\ Scanned'
  BY <1>1, SearchKeeps DEF Inv
<1>3. /\ mode # "none" /\ early' = early
      /\ mounted' = mounted \/ (ready /\ mounted' = OneMore(mounted))
  BY DEF InjectBundle, EvalBundle, TickHosts
<1>4. Fresh' /\ Counters' /\ Gated'
  BY <1>1, <1>3 DEF Inv, Fresh, Counters, Gated, OneMore
<1> QED
  BY <1>2, <1>4 DEF Inv

\* A gate that gives up without the signal leaves a mark.
LEMMA GatePollInv == Inv /\ GatePoll => Inv'
<1> SUFFICES ASSUME Inv, GatePoll PROVE Inv'
  OBVIOUS
<1>1. /\ UNCHANGED <<world, mode, late, chunk, react, scanVars>>
      /\ Find \/ UNCHANGED loaded
  BY DEF GatePoll, BootEffect, Registered
<1>2. Together' /\ Scanned'
  BY <1>1, SearchKeeps DEF Inv
<1>3. PICK i \in live : PollGate(i, ready)
  BY DEF GatePoll
<1>4. \/ UNCHANGED <<mounted, early>>
      \/ mounted' = OneMore(mounted) /\ (ready \/ early') /\ (early => early')
  BY <1>3, Zenon DEF PollGate
<1>5. Fresh' /\ Counters'
  BY <1>1, <1>3, <1>4 DEF Inv, Fresh, Counters, OneMore
<1>6. Gated'
  BY <1>1, <1>4 DEF Inv, Gated
<1> QED
  BY <1>2, <1>5, <1>6 DEF Inv

\* After a teardown nothing is mounted.
LEMMA SoftReinjectInv == Inv /\ SoftReinject => Inv'
<1> SUFFICES ASSUME Inv, SoftReinject PROVE Inv'
  OBVIOUS
<1>1. Together' /\ Scanned'
  BY SearchKeeps DEF Inv, SoftReinject
<1>2. Fresh' /\ Counters' /\ Gated'
  BY DEF Inv, SoftReinject, Teardown, Fresh, Counters, Gated
<1> QED
  BY <1>1, <1>2 DEF Inv

\* The scan and the augment tasks add what their modules give, in order, and the
\* signal comes after the last.
LEMMA ScanInv == ReactIsEarly /\ Inv /\ Scan => Inv'
<1> SUFFICES ASSUME ReactIsEarly, Inv, Scan PROVE Inv'
  OBVIOUS
<1>1. /\ UNCHANGED <<world, mode, late, chunk, react, gateVars>>
      /\ Find \/ UNCHANGED loaded
      /\ ready => ready'
  BY DEF Scan, ScanStep, ScanDone, AugmentStep, AugmentDone, DiscoveryTimer
<1>2. Together' /\ loaded \subseteq loaded'
  BY <1>1, CacheGrows DEF Inv
<1>3. mode # "none"
  BY UiStepsShape, AugmentShape
     DEF Inv, Fresh, Scan, ScanStep, ScanDone, AugmentStep, AugmentDone, DiscoveryTimer
<1>4. Fresh' /\ Gated'
  BY <1>1, <1>3 DEF Inv, Fresh, Gated
<1>5. Counters'
  BY <1>1 DEF Inv, Counters, Scan, ScanStep, ScanDone, AugmentStep, AugmentDone,
     DiscoveryTimer, StartScan
<1>6. ASSUME mode = "sole" PROVE Scanned'
  <2>1. /\ scan \in Nat /\ augment \in Nat /\ DOMAIN UiSteps \subseteq Nat
        /\ DOMAIN AugmentTasks \subseteq Nat
    BY UiStepsShape, AugmentShape DEF Inv, Counters
  <2>2. /\ scan > 0 => chunk /\ (Modules \ late) \subseteq loaded /\ uiReady
        /\ react => scan > 0
        /\ Found(UiSteps, scan) /\ Found(AugmentTasks, augment)
        /\ augment > 0 => scan > Len(UiSteps)
        /\ ready => augment > Len(AugmentTasks)
    BY <1>6 DEF Inv, Scanned
  <2>3. scan > 0 => (Modules \ late) \subseteq Refreshed
    BY <2>2, AllKnown DEF Inv
  <2>4. ASSUME NEW i \in DOMAIN UiSteps, scan > 0
        PROVE  UiSteps[i].in \notin late => UiSteps[i].gives \subseteq Resolved(i)
    BY <2>3, <2>4, UiStepsShape DEF Resolved
  <2>5. ASSUME NEW i \in DOMAIN AugmentTasks, scan > 0
        PROVE  AugmentTasks[i].in \notin late => AugmentTasks[i].gives \subseteq AugmentResolved(i)
    BY <2>3, <2>5, AugmentShape DEF AugmentResolved
  <2>6. CASE ScanStep
    <3>1. /\ scan' = scan + 1 /\ scan < Len(UiSteps) /\ scan + 1 \in DOMAIN UiSteps /\ scan > 0
          /\ ui' = ui \cup Resolved(scan + 1)
          /\ UNCHANGED <<augment, ready, uiReady>>
      BY <2>6, UiStepsShape DEF ScanStep
    <3>2. Found(UiSteps, scan)'
      BY <1>1, <2>1, <2>2, <2>4, <3>1 DEF Found
    <3>3. Found(AugmentTasks, augment)'
      BY <1>1, <2>2, <3>1 DEF Found
    <3> QED
      BY <1>1, <1>2, <2>1, <2>2, <3>1, <3>2, <3>3, UiStepsShape DEF Scanned
  <2>7. CASE ScanDone(mode = "sole")
    <3>1. /\ scan = Len(UiSteps) /\ scan' = scan + 1 /\ scan > 0
          /\ augment' = 1 /\ augment = 0 /\ ~ready
          /\ ui' = ui \cup Helpers \cup AugmentResolved(1)
          /\ UNCHANGED <<ready, uiReady>>
      BY <1>6, <2>1, <2>2, <2>7, UiStepsShape, AugmentShape DEF ScanDone
    <3>2. Found(UiSteps, scan)'
      BY <1>1, <2>2, <3>1, UiStepsShape DEF Found
    <3>3. Found(AugmentTasks, augment)'
      BY <1>1, <2>5, <3>1, AugmentShape DEF Found
    <3> QED
      BY <1>1, <1>2, <2>1, <2>2, <3>1, <3>2, <3>3, UiStepsShape DEF Scanned
  <2>8. CASE AugmentStep
    <3>1. /\ augment' = augment + 1 /\ augment + 1 \in DOMAIN AugmentTasks
          /\ augment > 0 /\ augment < Len(AugmentTasks) /\ scan > 0
          /\ ui' = ui \cup AugmentResolved(augment + 1)
          /\ UNCHANGED <<scan, ready, uiReady>>
      BY <2>1, <2>2, <2>8, UiStepsShape, AugmentShape DEF AugmentStep
    <3>2. Found(UiSteps, scan)'
      BY <1>1, <2>2, <3>1 DEF Found
    <3>3. Found(AugmentTasks, augment)'
      BY <1>1, <2>1, <2>2, <2>5, <3>1 DEF Found
    <3> QED
      BY <1>1, <1>2, <2>1, <2>2, <3>1, <3>2, <3>3, AugmentShape DEF Scanned
  <2>9. CASE AugmentDone
    <3>1. /\ augment = Len(AugmentTasks) /\ augment' = augment + 1
          /\ UNCHANGED <<scan, ui, uiReady>>
      BY <2>9 DEF AugmentDone
    <3>2. Found(UiSteps, scan)'
      BY <1>1, <2>2, <3>1 DEF Found
    <3>3. Found(AugmentTasks, augment)'
      BY <1>1, <2>2, <3>1, AugmentShape DEF Found
    <3> QED
      BY <1>1, <1>2, <2>1, <2>2, <3>1, <3>2, <3>3, AugmentShape DEF Scanned
  <2>10. CASE DiscoveryTimer
    <3>1. UNCHANGED <<scan, augment, ui, uiReady, ready>>
      BY <2>2, <2>10 DEF DiscoveryTimer
    <3> QED
      BY <1>1, <1>2, <3>1, ScanKept DEF Inv, scanState
  <2> QED
    BY <2>6, <2>7, <2>8, <2>9, <2>10 DEF Scan
<1>7. Scanned'
  BY <1>1, <1>6 DEF Scanned
<1> QED
  BY <1>2, <1>4, <1>5, <1>7 DEF Inv

\* Every other action leaves the scan and the gate alone.
LEMMA OthersInv ==
    ASSUME Inv,
           \/ PluginRegisters \/ RetryTimer \/ LoaderAdvances \/ Steam \/ Menu
           \/ TimePasses \/ Router \/ SteamRouter \/ Prune \/ Home \/ SideMenuTick
           \/ SteamMenu \/ UNCHANGED vars
    PROVE  Inv'
<1>1. /\ chunk => chunk'
      /\ UNCHANGED <<world, mode, late, react, scanVars, gateVars>>
  BY DEF PluginRegisters, Registered, RetryTimer, LoaderAdvances, Steam, ChunkAppears,
     ModuleLoads, Menu, TimePasses, Router, SteamRouter, Prune, Home, SideMenuTick,
     SteamMenu, vars
<1>2. \/ Find \/ UNCHANGED loaded
      \/ \E more \in {Modules \ late} \cup {{m} : m \in late} : loaded' = loaded \cup more
  <2>1. CASE PluginRegisters
    BY <2>1 DEF PluginRegisters, Registered
  <2>2. CASE RetryTimer
    BY <2>2 DEF RetryTimer
  <2>3. CASE Steam
    BY <2>3, Zenon DEF Steam, ChunkAppears, ModuleLoads
  <2>4. CASE ~(PluginRegisters \/ RetryTimer \/ Steam)
    BY <2>4 DEF LoaderAdvances, Menu, TimePasses, Router, SteamRouter, Prune, Home,
       SideMenuTick, SteamMenu, vars
  <2> QED
    BY <2>1, <2>2, <2>3, <2>4
<1> QED
  BY <1>1, <1>2, SearchInv

------------------------------------------------------------------------------
(* The theorem. *)

\* Every step of the page keeps the invariant.
LEMMA NextInv == ReactIsEarly /\ Inv /\ [Next]_vars => Inv'
BY NewPageInv, EvalInertInv, EvalRuntimeInv, InjectBundleInv, GatePollInv, SoftReinjectInv,
   ScanInv, OthersInv
   DEF Next

\* On every client whose React comes with the first modules, a bundle that a gate
\* booted on the signal, or that found it given, has all of host.ui that does not
\* load late, whatever Steam loads meanwhile and however timers interleave.
THEOREM FullSurface == ASSUME ReactIsEarly PROVE Spec => []FullSurfaceAtBoot
<1>1. Inv /\ [Next]_vars => Inv'
  BY NextInv
<1>2. ASSUME Inv PROVE FullSurfaceAtBoot
  <2> SUFFICES ASSUME mode = "sole", mounted > 0, ~early
               PROVE  /\ Found(UiSteps, scan) /\ scan > Len(UiSteps)
                      /\ Found(AugmentTasks, augment) /\ augment > Len(AugmentTasks)
    BY <1>2, UiStepsShape, AugmentShape DEF FullSurfaceAtBoot, Found, Inv, Counters
  <2>1. ready
    BY <1>2 DEF Inv, Gated
  <2> QED
    BY <1>2, <2>1, AugmentShape DEF Inv, Scanned, Counters
<1> QED
  BY InitInv, <1>1, <1>2, PTL DEF Spec

------------------------------------------------------------------------------
(* The tab.  The signal apart, the same cache decides on its key: a page that *)
(* has React, or a loader that publishes its enum, knows Steam's enum too.    *)

EnumIsEarly == \A w \in Worlds : "enum" \notin w.late

OnceAfterPerf(l) ==
    /\ Cardinality({i \in DOMAIN l : l[i] = "ours"}) = 1
    /\ \A i \in DOMAIN l : l[i] = "perf" => l[i + 1] = "ours"

\* A list of Steam's, or one we pushed our tab to.
Tidy(l) ==
    /\ l \in Seq(ToSet(l))
    /\ \A i, j \in DOMAIN l : l[i] = l[j] => i = j
    /\ "ours" \in ToSet(l) => OnceAfterPerf(l)

Known == react => Published \/ (chunk /\ (Modules \ late) \subseteq loaded)

Hooks ==
    /\ patched => enumKey
    /\ mount \in {"none", "before", "after"}
    /\ mount = "after" \/ inner => patched
    /\ stamped => confirmed /\ patched

Listed == Tidy(list) /\ ("ours" \in ToSet(list) => stamped)

Panels ==
    /\ panel = "pending" => ~bridge
    /\ Hosts /\ mounted > 0 => panel = "spec"

TabInv == Inv /\ Known /\ Hooks /\ Listed /\ Panels

hookState == <<patched, enumKey, mount, inner, stamped, confirmed>>

\* InsertAt() moves what was at the place and after it up by one.
LEMMA Insertion ==
    ASSUME NEW S, "ours" \in S, NEW l \in Seq(S), NEW k \in 1..(Len(l) + 1)
    PROVE  /\ InsertAt(l, k, "ours") \in Seq(S)
           /\ Len(InsertAt(l, k, "ours")) = Len(l) + 1
           /\ \A i \in 1..(Len(l) + 1) :
                InsertAt(l, k, "ours")[i] =
                    IF i < k THEN l[i] ELSE IF i = k THEN "ours" ELSE l[i - 1]
<1> DEFINE front == SubSeq(l, 1, k - 1)
           back == SubSeq(l, k, Len(l))
           ours == <<"ours">>
<1>1. front \in Seq(S) /\ Len(front) = k - 1 /\ \A i \in 1..(k - 1) : front[i] = l[i]
  BY SubSeqProperties
<1>2. /\ back \in Seq(S) /\ Len(back) = Len(l) - k + 1
      /\ \A i \in 1..(Len(l) - k + 1) : back[i] = l[k + i - 1]
  <2>1. k \in Int /\ Len(l) \in Int /\ \A i \in k..Len(l) : l[i] \in S
    OBVIOUS
  <2> QED
    BY <2>1, SubSeqProperties
<1>3. ours \in Seq(S) /\ Len(ours) = 1 /\ ours[1] = "ours"
  OBVIOUS
<1> HIDE DEF front, back, ours
<1>4. /\ front \o ours \in Seq(S) /\ Len(front \o ours) = k
      /\ \A i \in 1..k : (front \o ours)[i] = IF i < k THEN l[i] ELSE "ours"
  <2>1. /\ front \o ours \in Seq(S) /\ Len(front \o ours) = Len(front) + Len(ours)
        /\ \A i \in 1..(Len(front) + Len(ours)) : (front \o ours)[i] =
              IF i <= Len(front) THEN front[i] ELSE ours[i - Len(front)]
    BY <1>1, <1>3, ConcatProperties, Zenon
  <2> QED
    BY <1>1, <1>3, <2>1
<1>5. /\ (front \o ours) \o back \in Seq(S)
      /\ Len((front \o ours) \o back) = Len(l) + 1
      /\ \A i \in 1..(Len(l) + 1) : ((front \o ours) \o back)[i] =
            IF i <= k THEN (front \o ours)[i] ELSE back[i - k]
  <2> DEFINE head == front \o ours
  <2>1. head \in Seq(S) /\ Len(head) = k
    BY <1>4
  <2> HIDE DEF head
  <2>2. /\ head \o back \in Seq(S) /\ Len(head \o back) = Len(head) + Len(back)
        /\ \A i \in 1..(Len(head) + Len(back)) : (head \o back)[i] =
              IF i <= Len(head) THEN head[i] ELSE back[i - Len(head)]
    BY <1>2, <2>1, ConcatProperties, Zenon
  <2>3. Len(head) + Len(back) = Len(l) + 1
    BY <1>2, <2>1
  <2> QED
    BY <2>1, <2>2, <2>3 DEF head
<1>6. InsertAt(l, k, "ours") = (front \o ours) \o back
  BY DEF InsertAt, front, back, ours
<1>7. ASSUME NEW i \in 1..(Len(l) + 1)
      PROVE  ((front \o ours) \o back)[i] =
                IF i < k THEN l[i] ELSE IF i = k THEN "ours" ELSE l[i - 1]
  BY <1>2, <1>4, <1>5
<1> QED
  BY <1>5, <1>6, <1>7

\* pushTab() keeps the list tidy and leaves our tab in it.
LEMMA PushedTidy ==
    ASSUME NEW l, Tidy(l)
    PROVE  Tidy(Pushed(l)) /\ "ours" \in ToSet(Pushed(l))
<1>1. CASE "ours" \in ToSet(l)
  BY <1>1 DEF Pushed
<1>2. CASE "ours" \notin ToSet(l)
  <2> DEFINE k == InsertIndex(l)
             new == InsertAt(l, k, "ours")
  <2>1. /\ l \in Seq(ToSet(l) \cup {"ours"}) /\ \A i, j \in DOMAIN l : l[i] = l[j] => i = j
        /\ \A i \in DOMAIN l : l[i] # "ours"
        /\ DOMAIN l = 1..Len(l) /\ Len(l) \in Nat
    BY <1>2 DEF Tidy, ToSet
  <2>2. k \in 1..(Len(l) + 1) /\ \A i \in DOMAIN l : l[i] = "perf" => k = i + 1
    <3>1. CASE "perf" \in ToSet(l)
      <4>1. \E i \in DOMAIN l : l[i] = "perf"
        BY <3>1 DEF ToSet
      <4>2. (CHOOSE i \in DOMAIN l : l[i] = "perf") \in DOMAIN l
            /\ l[CHOOSE i \in DOMAIN l : l[i] = "perf"] = "perf"
        BY <4>1
      <4> QED
        BY <2>1, <3>1, <4>2 DEF InsertIndex
    <3>2. CASE "perf" \notin ToSet(l)
      BY <2>1, <3>2 DEF InsertIndex, ToSet
    <3> QED
      BY <3>1, <3>2
  <2> HIDE DEF k
  <2>3. /\ new \in Seq(ToSet(l) \cup {"ours"}) /\ Len(new) = Len(l) + 1
        /\ \A i \in 1..(Len(l) + 1) :
             new[i] = IF i < k THEN l[i] ELSE IF i = k THEN "ours" ELSE l[i - 1]
    BY <2>1, <2>2, Insertion
  <2> HIDE DEF new
  <2>0. new \in Seq(ToSet(new))
    <3>1. \A i \in 1..Len(new) : new[i] \in ToSet(new)
      BY <2>3 DEF ToSet
    <3> QED
      BY <2>3, <3>1
  <2>4. DOMAIN new = 1..(Len(l) + 1)
    BY <2>3
  <2>5. \A i \in DOMAIN new : new[i] = "ours" <=> i = k
    <3> TAKE i \in DOMAIN new
    <3>1. CASE i < k
      BY <2>1, <2>2, <2>3, <2>4, <3>1
    <3>2. CASE i = k
      BY <2>3, <2>4, <3>2
    <3>3. CASE i > k
      BY <2>1, <2>2, <2>3, <2>4, <3>3
    <3> QED
      BY <2>2, <2>4, <3>1, <3>2, <3>3
  <2>6. \A i, j \in DOMAIN new : new[i] = new[j] => i = j
    <3> DEFINE old(i) == IF i < k THEN i ELSE i - 1
    <3> SUFFICES ASSUME NEW i \in DOMAIN new, NEW j \in DOMAIN new, new[i] = new[j],
                        i # k, j # k
                 PROVE  i = j
      BY <2>5
    <3>1. \A n \in DOMAIN new : n # k => old(n) \in DOMAIN l /\ new[n] = l[old(n)]
      <4> TAKE n \in DOMAIN new
      <4>1. CASE n < k
        BY <2>1, <2>2, <2>3, <2>4, <4>1
      <4>2. CASE n > k
        BY <2>1, <2>2, <2>3, <2>4, <4>2
      <4> QED
        BY <2>2, <2>4, <4>1, <4>2
    <3>2. old(i) = old(j)
      <4> HIDE DEF old
      <4> QED
        BY <2>1, <3>1
    <3> QED
      BY <2>2, <2>4, <3>2
  <2>7. \A i \in DOMAIN new : new[i] = "perf" => new[i + 1] = "ours"
    <3> SUFFICES ASSUME NEW i \in DOMAIN new, new[i] = "perf" PROVE i + 1 = k
      BY <2>2, <2>4, <2>5
    <3>1. i # k
      BY <2>5
    <3>2. CASE i < k
      BY <2>1, <2>2, <2>3, <2>4, <3>2
    <3>3. CASE i > k
      <4>1. i - 1 \in DOMAIN l /\ l[i - 1] = "perf"
        BY <2>1, <2>2, <2>3, <2>4, <3>3
      <4> QED
        BY <2>1, <2>2, <2>4, <3>3, <4>1
    <3> QED
      BY <2>2, <2>4, <3>1, <3>2, <3>3
  <2>8. {i \in DOMAIN new : new[i] = "ours"} = {k}
    BY <2>2, <2>4, <2>5
  <2>9. Cardinality({k}) = 1
    BY FS_Singleton
  <2>10. Tidy(new) /\ "ours" \in ToSet(new)
    BY <2>0, <2>2, <2>3, <2>4, <2>5, <2>6, <2>7, <2>8, <2>9 DEF Tidy, OnceAfterPerf, ToSet
  <2> QED
    BY <1>2, <2>10 DEF Pushed, new, k
<1> QED
  BY <1>1, <1>2

\* A patch that is tried wraps the consumer and registers the key in the same go.
LEMMA TryPatchHooks ==
    ASSUME Hooks, NEW usable, NEW calls, NEW keep,
           usable => Published \/ "enum" \in Refreshed,
           TryPatch(Refreshed, Published, usable, calls, keep),
           UNCHANGED <<inner, stamped, confirmed>>
    PROVE  Hooks'
<1>1. CASE UNCHANGED <<patched, enumKey, mount>>
  BY <1>1 DEF Hooks
<1>2. CASE usable /\ InstallPatch(Refreshed, Published)
  <2>1. patched' = TRUE /\ mount' = Repointed(mount)
        /\ enumKey' = (Published \/ "enum" \in Refreshed)
    BY <1>2 DEF InstallPatch, TabEnum
  <2>2. enumKey'
    BY <1>2, <2>1
  <2>3. mount' \in {"none", "before", "after"}
    BY <2>1 DEF Repointed, Hooks
  <2> QED
    BY <2>1, <2>2, <2>3 DEF Hooks
<1> QED
  BY <1>1, <1>2 DEF TryPatch

\* Whoever has React, from the cache or from a loader, has the tab enum from there too.
LEMMA UsableKnowsEnum ==
    ASSUME ReactIsEarly, EnumIsEarly, Inv
    PROVE  /\ "react" \in Refreshed => "enum" \in Refreshed /\ chunk
                                       /\ (Modules \ late) \subseteq Refreshed
           /\ Known => (react => Published \/ "enum" \in Refreshed)
<1>1. /\ "react" \in Modules \ late /\ "enum" \in Modules \ late
      /\ loaded \cap (Modules \ late) = {} \/ (Modules \ late) \subseteq loaded
  BY DEF Inv, Together, ReactIsEarly, EnumIsEarly, Modules
<1>2. "react" \in Refreshed => chunk /\ (Modules \ late) \subseteq Refreshed
  BY <1>1 DEF Refreshed
<1>3. chunk /\ (Modules \ late) \subseteq loaded => Refreshed = loaded
  BY <1>1 DEF Refreshed
<1> QED
  BY <1>1, <1>2, <1>3 DEF Known

\* Nothing leaves the cache, and a loader that is all up stays up.
LEMMA KnownKept ==
    ASSUME Inv, Known, chunk => chunk', UNCHANGED <<world, late, react>>,
           Published => Published',
           \/ Find \/ UNCHANGED loaded
           \/ \E more \in {Modules \ late} \cup {{m} : m \in late} : loaded' = loaded \cup more
    PROVE  Known'
<1>1. loaded \subseteq loaded'
  BY CacheGrows DEF Inv
<1> QED
  BY <1>1 DEF Known

\* What leaves the patch and the panels alone keeps what is known of them.
LEMMA HooksKept ==
    ASSUME UNCHANGED hookState, Hooks
    PROVE  Hooks'
BY DEF hookState, Hooks

\* A registration patches with the enum, if it patches, and has the panel.
LEMMA RegisteredTab ==
    ASSUME ReactIsEarly, EnumIsEarly, Inv, Known, Hooks, Listed, Registered,
           UNCHANGED <<world, loader>>
    PROVE  Known' /\ Hooks' /\ Listed' /\ panel' = "spec"
<1>1. UNCHANGED <<late, chunk, react, list, inner, confirmed, stamped>>
      /\ (Find \/ UNCHANGED loaded) /\ panel' = "spec"
  BY DEF Registered
<1>2. Known'
  BY <1>1, KnownKept DEF Published
<1>3. CASE TryPatch(Refreshed, Published, react, 1, retries)
  <2>1. react => Published \/ "enum" \in Refreshed
    BY UsableKnowsEnum
  <2> QED
    BY <1>1, <1>2, <1>3, <2>1, TryPatchHooks DEF Listed
<1>4. CASE UNCHANGED <<patched, enumKey, mount>>
  BY <1>1, <1>2, <1>4, HooksKept DEF hookState, Listed
<1> QED
  BY <1>3, <1>4 DEF Registered

\* An instance that boots has its panel in the tab.
LEMMA BootTab ==
    ASSUME ReactIsEarly, EnumIsEarly, TabInv, BootEffect,
           UNCHANGED <<world, loader, mode>>
    PROVE  Known' /\ Hooks' /\ Listed' /\ Panels'
<1>1. CASE mounted' = mounted \/ ~Hosts
  <2>1. UNCHANGED <<steamVars, tabVars>>
    BY <1>1 DEF BootEffect
  <2> QED
    BY <1>1, <2>1 DEF TabInv, Known, Published, Hooks, Listed, Panels, Hosts
<1>2. CASE mounted' # mounted /\ Hosts
  <2>1. Registered
    BY <1>2 DEF BootEffect
  <2> QED
    BY <2>1, RegisteredTab DEF TabInv, Panels, Hosts
<1> QED
  BY <1>1, <1>2

\* The handler pushes to a list it found tidy, under a patch.
LEMMA PushTab ==
    ASSUME Hooks, NEW l, Tidy(l), "ours" \in ToSet(l) => stamped, NEW armed, Push(l, armed),
           patched, UNCHANGED patched
    PROVE  Listed' /\ (stamped' => confirmed' /\ patched')
<1>1. list' = Pushed(l) /\ Tidy(Pushed(l))
  BY PushedTidy DEF Push
<1>2. stamped' = (stamped \/ "ours" \notin ToSet(l))
  BY DEF Push
<1>3. stamped'
  BY <1>2
<1>4. confirmed'
  <2>1. CASE "ours" \in ToSet(l) \/ confirmed
    BY <2>1 DEF Push, Hooks
  <2>2. CASE ~("ours" \in ToSet(l) \/ confirmed)
    BY <2>2 DEF Push
  <2> QED
    BY <2>1, <2>2
<1> QED
  BY <1>1, <1>3, <1>4 DEF Listed

\* Steam renders a list of its own or the one it kept; only what the patch wraps has
\* the handler run on it.
LEMMA MenuTab ==
    ASSUME Hooks, Listed, Menu
    PROVE  Hooks' /\ Listed'
<1>1. UNCHANGED <<patched, enumKey>>
  BY DEF Menu, RenderMenu, RenderInner, CloseMenu
<1>2. CASE RenderMenu(mode = "sole", world.shape)
  <2>1. PICK l \in Lists \cup (IF list = <<>> THEN {} ELSE {list}) :
          /\ mount' = IF mount # "none" THEN mount ELSE TypeAtMount(patched)
          /\ \/ mount' = "before" /\ list' = l /\ inner' = FALSE
                /\ UNCHANGED <<confirmed, stamped>>
             \/ mount' # "before" /\ inner' = FALSE /\ Push(l, Armed(mode = "sole"))
             \/ mount' # "before" /\ list' = l /\ UNCHANGED <<confirmed, stamped>>
    BY <1>2 DEF RenderMenu
  <2>2. Tidy(l) /\ ("ours" \in ToSet(l) => stamped)
    BY QamAssumption DEF Listed, Tidy
  <2>3. /\ mount' \in {"none", "before", "after"} /\ (mount' = "after" => patched)
        /\ mount' # "before" => patched
    BY <2>1 DEF Hooks, TypeAtMount
  <2>4. CASE mount' = "before" /\ list' = l /\ inner' = FALSE /\ UNCHANGED <<confirmed, stamped>>
    BY <1>1, <2>2, <2>3, <2>4 DEF Hooks, Listed
  <2>5. CASE mount' # "before" /\ inner' = FALSE /\ Push(l, Armed(mode = "sole"))
    <3>1. Listed' /\ (stamped' => confirmed' /\ patched')
      BY <1>1, <2>2, <2>3, <2>5, PushTab
    <3> QED
      BY <1>1, <2>3, <2>5, <3>1 DEF Hooks
  <2>6. CASE mount' # "before" /\ list' = l /\ UNCHANGED <<confirmed, stamped>>
    BY <1>1, <2>2, <2>3, <2>6 DEF Hooks, Listed
  <2> QED
    BY <2>1, <2>4, <2>5, <2>6
<1>3. CASE RenderInner
  <2>1. Push(list, trip) /\ patched /\ UNCHANGED mount /\ inner' = FALSE
    BY <1>3 DEF RenderInner, Hooks
  <2>2. Listed' /\ (stamped' => confirmed' /\ patched')
    BY <1>1, <2>1, PushTab DEF Listed
  <2> QED
    BY <1>1, <2>1, <2>2 DEF Hooks
<1>4. CASE CloseMenu
  <2>1. Tidy(<<>>) /\ "ours" \notin ToSet(<<>>)
    BY DEF Tidy, ToSet
  <2>2. list' = <<>> /\ mount' = "none" /\ inner' = FALSE /\ UNCHANGED <<confirmed, stamped>>
    BY <1>4 DEF CloseMenu
  <2> QED
    BY <1>1, <2>1, <2>2 DEF Hooks, Listed
<1> QED
  BY <1>2, <1>3, <1>4 DEF Menu

\* A page starts with an empty menu.
LEMMA FreshTab ==
    /\ Init => Known /\ Hooks /\ Listed /\ Panels
    /\ NewPage => Known' /\ Hooks' /\ Listed' /\ Panels'
<1>1. Tidy(<<>>) /\ "ours" \notin ToSet(<<>>)
  BY DEF Tidy, ToSet
<1>2. ASSUME Init PROVE Known /\ Hooks /\ Listed /\ Panels
  BY <1>1, <1>2 DEF Init, SteamFresh, GateFresh, TabFresh, Known, Hooks, Listed, Panels
<1>3. ASSUME NewPage PROVE Known' /\ Hooks' /\ Listed' /\ Panels'
  BY <1>1, <1>3 DEF NewPage, SteamReset, GateReset, TabReset, Known, Hooks, Listed, Panels, Hosts
<1> QED
  BY <1>2, <1>3

\* The evaluation takes React, patches if it can, and drains the queue.
LEMMA EvalTab ==
    ASSUME ReactIsEarly, EnumIsEarly, TabInv, EvalRuntime
    PROVE  Known' /\ Hooks' /\ Listed' /\ Panels'
<1>1. /\ react' = (Published \/ "react" \in Refreshed) /\ Find
      /\ bridge' = TRUE /\ panel' = Drained
      /\ UNCHANGED <<world, loader, late, chunk, mounted, list, inner, confirmed, stamped>>
  BY DEF EvalRuntime, TakeReact
<1>2. "react" \in Refreshed => /\ "enum" \in Refreshed /\ chunk
                               /\ (Modules \ late) \subseteq Refreshed
  BY UsableKnowsEnum DEF TabInv
<1>3. Known'
  BY <1>1, <1>2 DEF Known, Published, Find
<1>4. Hooks'
  <2>1. CASE \E calls : TryPatch(Refreshed, Published, Published \/ "react" \in Refreshed, calls, 0)
    BY <1>1, <1>2, <2>1, TryPatchHooks DEF TabInv
  <2>2. CASE UNCHANGED <<patched, attempts, retries, enumKey, mount>>
    BY <1>1, <2>2, HooksKept DEF TabInv, hookState
  <2> QED
    BY <2>1, <2>2 DEF EvalRuntime
<1>5. mounted' = 0
  BY <1>1 DEF TabInv, Inv, Fresh, EvalRuntime
<1>6. Listed' /\ Panels'
  BY <1>1, <1>5 DEF TabInv, Listed, Panels, Drained
<1> QED
  BY <1>3, <1>4, <1>6

\* A panel registered before the bridge waits for it.
LEMMA PluginTab ==
    ASSUME ReactIsEarly, EnumIsEarly, TabInv, PluginRegisters
    PROVE  Known' /\ Hooks' /\ Listed' /\ Panels'
<1>1. UNCHANGED <<world, loader, mode, mounted>> /\ panel = "none"
  BY DEF PluginRegisters
<1>2. CASE bridge /\ Registered
  BY <1>1, <1>2, RegisteredTab DEF TabInv, Panels, Hosts
<1>3. CASE ~bridge
  <2>1. /\ panel' = "pending" /\ UNCHANGED bridge
        /\ UNCHANGED <<late, chunk, react, loaded, list, hookState>>
    BY <1>3 DEF PluginRegisters, hookState
  <2>2. Hooks'
    BY <2>1, HooksKept DEF TabInv
  <2>3. Known' /\ Listed'
    BY <1>1, <2>1 DEF TabInv, Known, Published, Listed, hookState
  <2> QED
    BY <1>1, <1>3, <2>1, <2>2, <2>3 DEF TabInv, Panels, Hosts
<1> QED
  BY <1>2, <1>3 DEF PluginRegisters

\* A retry does what the evaluation did.
LEMMA RetryTab ==
    ASSUME ReactIsEarly, EnumIsEarly, TabInv, RetryTimer
    PROVE  Known' /\ Hooks' /\ Listed' /\ Panels'
<1>1. /\ TryPatch(Refreshed, Published, react, 1, retries - 1) /\ Find
      /\ UNCHANGED <<world, loader, mode, late, chunk, react, list, inner, confirmed,
                     stamped, bridge, panel, mounted>>
  BY DEF RetryTimer
<1>2. react => Published \/ "enum" \in Refreshed
  BY UsableKnowsEnum DEF TabInv
<1>3. Hooks'
  BY <1>1, <1>2, TryPatchHooks DEF TabInv
<1>4. Known'
  BY <1>1, KnownKept DEF TabInv, Published
<1> QED
  BY <1>1, <1>3, <1>4 DEF TabInv, Listed, Panels, Hosts

\* The actions that neither patch nor render the menu.
LEMMA OthersTab ==
    ASSUME TabInv,
           \/ EvalInert \/ SoftReinject \/ Scan \/ LoaderAdvances \/ Steam \/ TimePasses
           \/ Router \/ SteamRouter \/ Prune \/ Home \/ SideMenuTick \/ SteamMenu
           \/ UNCHANGED vars
    PROVE  Known' /\ Hooks' /\ Listed' /\ Panels'
<1>1. /\ UNCHANGED <<world, late, react, list, bridge, panel, hookState>>
      /\ chunk => chunk'
      /\ mounted' \in {mounted, 0}
      /\ Published => Published'
  BY DEF EvalInert, SoftReinject, Teardown, Scan, ScanStep, ScanDone, AugmentStep,
     AugmentDone, DiscoveryTimer, LoaderAdvances, Steam, ChunkAppears, ModuleLoads,
     TimePasses, ArmAges, Router, SteamRouter, Prune, Home, SideMenuTick, SteamMenu, vars,
     hookState, Published
<1>2. \/ Find \/ UNCHANGED loaded
      \/ \E more \in {Modules \ late} \cup {{m} : m \in late} : loaded' = loaded \cup more
  <2>1. CASE Steam
    BY <2>1, Zenon DEF Steam, ChunkAppears, ModuleLoads
  <2>2. CASE Scan
    BY <2>2 DEF Scan, ScanStep, ScanDone, AugmentStep, AugmentDone, DiscoveryTimer
  <2>3. CASE ~(Steam \/ Scan)
    BY <2>3 DEF EvalInert, SoftReinject, LoaderAdvances, TimePasses, Router, SteamRouter,
       Prune, Home, SideMenuTick, SteamMenu, vars
  <2> QED
    BY <2>1, <2>2, <2>3
<1>3. Known'
  BY <1>1, <1>2, KnownKept DEF TabInv
<1>4. Hooks' /\ Listed'
  BY <1>1, HooksKept DEF TabInv, Listed, hookState
<1>5. Panels'
  <2>1. UNCHANGED mode \/ mounted' = 0
    BY DEF TabInv, Inv, Fresh, EvalInert, SoftReinject, Scan, LoaderAdvances, Steam, TimePasses,
       Router, SteamRouter, Prune, Home, SideMenuTick, SteamMenu, vars
  <2> QED
    BY <1>1, <2>1 DEF TabInv, Panels, Hosts
<1> QED
  BY <1>3, <1>4, <1>5

\* Every step of the page keeps the tab's invariant.
LEMMA NextTab ==
    ASSUME ReactIsEarly, EnumIsEarly, TabInv, [Next]_vars
    PROVE  TabInv'
<1>1. Inv'
  BY NextInv DEF TabInv
<1>2. CASE InjectBundle \/ GatePoll
  <2>1. BootEffect /\ UNCHANGED <<world, loader, mode>>
    BY <1>2 DEF InjectBundle, GatePoll
  <2> QED
    BY <1>1, <2>1, BootTab DEF TabInv
<1>3. CASE Menu
  <2>1. UNCHANGED <<world, loader, mode, late, chunk, loaded, react, mounted, bridge, panel>>
    BY <1>3 DEF Menu, RenderMenu, RenderInner, CloseMenu
  <2>2. Hooks' /\ Listed'
    BY <1>3, MenuTab DEF TabInv
  <2>3. Known' /\ Panels'
    BY <2>1 DEF TabInv, Known, Published, Panels, Hosts
  <2> QED
    BY <1>1, <2>2, <2>3 DEF TabInv
<1> QED
  BY <1>1, <1>2, <1>3, FreshTab, EvalTab, PluginTab, RetryTab, OthersTab DEF Next, TabInv

\* On every client whose React and tab enum come with the first modules, our tab is
\* in the menu at most once, right after Performance, under its own key and our name,
\* however often the menu renders, mounts and is patched, and every panel reaches it.
THEOREM FirstClassTab == ASSUME ReactIsEarly, EnumIsEarly PROVE Spec => []TabIsFirstClass
<1>1. Init => TabInv
  BY InitInv, FreshTab DEF TabInv
<1>2. TabInv /\ [Next]_vars => TabInv'
  BY NextTab
<1>3. TabInv => TabIsFirstClass
  BY DEF TabInv, Hooks, Listed, Tidy, OnceAfterPerf, Panels, TabIsFirstClass
<1> QED
  BY <1>1, <1>2, <1>3, PTL DEF Spec
==============================================================================
