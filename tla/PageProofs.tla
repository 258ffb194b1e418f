------------------------------ MODULE PageProofs ------------------------------
(***************************************************************************)
(* Proofs about RuntimePage for any set of machines, tab lists, sections   *)
(* and any caps of its timers.  The inductive invariant has four parts: a  *)
(* page whose runtime stood down has nothing of the native path in it (and *)
(* nothing that would bring it in), what the evaluation decided stays, and *)
(* where our host is and no teardown crossed a waiting gate, one gate or   *)
(* one instance is there and only under the marker, and the home on screen *)
(* went through the patches of one registration.                           *)
(***************************************************************************)
EXTENDS RuntimePage, FiniteSetTheorems, TLAPS

Modes ==
    /\ world \in Worlds /\ native \in BOOLEAN
    /\ mode = "none" => ~native /\ ~refused
    /\ refused => ~native
    /\ mode \in Beside => native = world.native

Quiet ==
    ~native => /\ ~patched /\ retries = 0
               /\ mount \in {"none", "before"} /\ ~inner
               /\ "ours" \notin ToSet(list)

Boots ==
    /\ mode = "none" => mounted = 0 /\ live = {} /\ ~marker
    /\ Hosts /\ ~crossed => /\ live \subseteq {named}
                            /\ mounted = 0 \/ (mounted = 1 /\ live = {})
                            /\ ~marker => live = {} /\ mounted = 0

AtMostOne(S) == \A v, w \in S : v = w

Owners ==
    ~crossed => /\ mounted = 0 \/ world.screens = <<>> \/ ~Hosts => patches = {}
                /\ AtMostOne(patches) /\ AtMostOne(home)
                /\ ~marked => home = {}

Inv == Modes /\ Quiet /\ Boots /\ Owners

\* What the parts of the invariant speak of, apart from the patched home.
tabState  == <<world, mode, refused, native, patched, retries, mount, inner, list>>
gateState == <<world, mode, marker, live, named, mounted, crossed, patches>>

USE PageAssumption

USE DEF pageVars, menuVars, homeVars, steamVars, scanVars, gateVars, tabVars, routerVars,
        navVars, registry, wrapper, screen

------------------------------------------------------------------------------
(* The parts of a step. *)

\* With no patch and no retry pending, a consumer's render adds no tab of ours
\* and a patch that is tried in vain leaves none: only what was "after" could.
LEMMA RenderQuiet ==
    ASSUME Quiet, ~native, NEW sole, NEW shape, RenderMenu(sole, shape)
    PROVE  Quiet'
<1>1. PICK l \in Lists \cup (IF list = <<>> THEN {} ELSE {list}) :
        /\ mount' = IF mount # "none" THEN mount ELSE TypeAtMount(patched)
        /\ mount' = "before" => list' = l /\ inner' = FALSE
        /\ UNCHANGED <<native, patched, retries>>
  BY Zenon DEF RenderMenu
<1>2. "ours" \notin ToSet(l)
  BY <1>1, QamAssumption DEF Quiet
<1>3. mount' = "before"
  BY <1>1 DEF Quiet, TypeAtMount
<1> QED
  BY <1>1, <1>2, <1>3 DEF Quiet

\* A page with no patches but those of one registration shows no second owner.
LEMMA ListsOneOwner ==
    ASSUME AtMostOne(patches), AtMostOne(home), ~marked => home = {},
           NEW last, NEW before, NEW done,
           \/ before = {} /\ done = FALSE
           \/ before = home /\ done = marked,
           ProcessLists(last, before, done)
    PROVE  AtMostOne(home') /\ (~marked' => home' = {})
BY DEF ProcessLists, ApplyPatches, AtMostOne
\* What leaves the tab's state alone keeps the parts about it.
LEMMA TabKept == Modes /\ Quiet /\ UNCHANGED tabState => Modes' /\ Quiet'
BY DEF tabState, Modes, Quiet, Beside

\* What leaves the gate's state alone keeps the one instance.
LEMMA GateKept == Boots /\ UNCHANGED gateState => Boots'
BY DEF gateState, Boots, Hosts

\* ... and with the home on screen left alone as well, its owner.
LEMMA OwnersKept ==
    Owners /\ UNCHANGED <<gateState, home, marked>> => Owners'
BY DEF gateState, Owners, AtMostOne, Hosts

\* An evaluation of the runtime comes to a page without gate or instance.
LEMMA EvaluatedKept ==
    ASSUME Boots, Owners, mode = "none", mode' # "none",
           UNCHANGED <<world, marker, gateVars, patches, home, marked>>
    PROVE  Boots' /\ Owners'
<1>1. mounted = 0 /\ live = {} /\ ~marker
  BY DEF Boots
<1>2. Boots'
  BY <1>1 DEF Boots
<1>3. Owners'
  BY <1>1 DEF Owners, AtMostOne
<1> QED
  BY <1>2, <1>3

------------------------------------------------------------------------------
(* The steps: one lemma per action or group of actions that touch the same part. *)

\* The page starts empty, with nothing of the native path in it.
LEMMA InitInv == Init => Inv
<1> SUFFICES ASSUME Init PROVE Inv
  OBVIOUS
<1>1. Modes
  BY DEF Init, TabFresh, Modes, Beside
<1>2. Quiet
  BY DEF Init, TabFresh, Quiet, ToSet
<1>3. Boots
  BY DEF Init, GateFresh, Boots, Hosts
<1>4. Owners
  BY DEF Init, RouterFresh, Owners, AtMostOne
<1> QED
  BY <1>1, <1>2, <1>3, <1>4 DEF Inv

\* A new page is as empty as the first one, whatever the breaker says.
LEMMA NewPageInv == Inv /\ NewPage => Inv'
<1> SUFFICES ASSUME Inv, NewPage PROVE Inv'
  OBVIOUS
<1>1. Modes'
  BY DEF Inv, NewPage, TabReset, Modes, Beside
<1>2. Quiet'
  BY DEF NewPage, TabReset, Quiet, ToSet
<1>3. Boots'
  BY DEF NewPage, GateReset, Boots, Hosts
<1>4. Owners'
  BY DEF NewPage, GateReset, RouterReset, Owners, AtMostOne
<1> QED
  BY <1>1, <1>2, <1>3, <1>4 DEF Inv

\* The evaluation decides on the native path: a sole host over a dead arm or a
\* trip has it off, a host beside a loader has what the daemon asked for.
LEMMA EvalRuntimeInv == Inv /\ EvalRuntime => Inv'
<1> SUFFICES ASSUME Inv, EvalRuntime PROVE Inv'
  OBVIOUS
<1>1. /\ mode = "none" /\ mode' = ModeOf(loader) /\ mode' # "none"
      /\ refused' = (mode' = "sole" /\ world.native /\ trip \in {"stale", "tripped"})
      /\ IF world.native THEN Breaker(mode' = "sole") ELSE UNCHANGED <<trip, native>>
      /\ UNCHANGED <<world, list, inner>>
  BY DEF EvalRuntime, ModeOf
<1>2. ~native /\ world \in Worlds /\ world.native \in BOOLEAN
  BY <1>1 DEF Inv, Modes
<1>3. native' \in BOOLEAN
  <2>1. CASE world.native
    BY <1>1, <2>1, Zenon DEF Breaker
  <2>2. CASE ~world.native
    BY <1>1, <1>2, <2>2 DEF Inv, Modes
  <2> QED
    BY <2>1, <2>2
<1>4. refused' => ~native'
  BY <1>1 DEF Breaker
<1>5. mode' \in Beside => native' = world.native
  <2> SUFFICES ASSUME mode' \in Beside PROVE native' = world.native
    OBVIOUS
  <2>1. mode' # "sole"
    BY DEF Beside
  <2>2. CASE world.native
    <3>1. native' = TRUE
      BY <1>1, <2>1, <2>2, Zenon DEF Breaker
    <3> QED
      BY <1>2, <2>2, <3>1
  <2>3. CASE ~world.native
    BY <1>1, <1>2, <2>3 DEF Inv, Modes
  <2> QED
    BY <2>2, <2>3
<1>6. Modes'
  BY <1>1, <1>2, <1>3, <1>4, <1>5 DEF Modes, Beside
<1>7. ~native' => UNCHANGED <<patched, retries, mount>>
  BY DEF EvalRuntime
<1>8. Quiet'
  BY <1>1, <1>2, <1>7 DEF Inv, Quiet
<1>9. UNCHANGED <<world, marker, gateVars, patches, home, marked>>
  BY DEF EvalRuntime
<1> QED
  BY <1>1, <1>6, <1>8, <1>9, EvaluatedKept DEF Inv

\* A stand-down touches nothing.
LEMMA EvalInertInv == Inv /\ EvalInert => Inv'
<1> SUFFICES ASSUME Inv, EvalInert PROVE Inv'
  OBVIOUS
<1>1. Modes'
  BY DEF Inv, EvalInert, Modes, Beside
<1>2. Quiet'
  BY DEF Inv, EvalInert, Quiet
<1>3. mode = "none" /\ mode' # "none" /\ UNCHANGED <<world, marker, gateVars, patches, home, marked>>
  BY DEF EvalInert
<1> QED
  BY <1>1, <1>2, <1>3, EvaluatedKept DEF Inv

\* A registration on the bridge patches nothing where the native path is off.
LEMMA RegisteredQuiet ==
    ASSUME Modes, Quiet, Registered
    PROVE  Quiet' /\ native' = native
<1>1. native' = native /\ UNCHANGED <<list, inner>>
  BY DEF Registered
<1>2. ~native => UNCHANGED <<patched, retries, mount>>
  BY DEF Registered
<1> QED
  BY <1>1, <1>2 DEF Quiet

\* Neither does an instance that boots, and its patch of the home is its own.
LEMMA BootKeeps ==
    ASSUME Modes, Quiet, BootEffect, UNCHANGED <<world, mode, refused>>
    PROVE  /\ Modes' /\ Quiet'
           /\ UNCHANGED <<home, marked>>
           /\ mounted' = mounted \/ world.screens = <<>> \/ ~Hosts => patches' = patches
           /\ patches' = patches \/ \E v : patches' = patches \cup {v}
<1>1. CASE mounted' = mounted \/ ~Hosts
  <2>1. UNCHANGED tabState /\ UNCHANGED <<home, marked, patches>>
    BY <1>1 DEF BootEffect, tabState
  <2> QED
    BY <2>1, TabKept
<1>2. CASE mounted' # mounted /\ Hosts
  <2>1. Quiet' /\ native' = native
    BY <1>2, RegisteredQuiet DEF BootEffect
  <2>2. Modes'
    BY <2>1 DEF Modes, Beside
  <2>3. UNCHANGED <<home, marked>>
    BY <1>2 DEF BootEffect, Mount
  <2>4. world.screens = <<>> => patches' = patches
    BY <1>2 DEF BootEffect
  <2>5. world.screens # <<>> => patches' = patches \cup {evals'}
    BY <1>2 DEF BootEffect, Mount
  <2> QED
    BY <1>2, <2>1, <2>2, <2>3, <2>4, <2>5
<1> QED
  BY <1>1, <1>2

\* The first evaluation, and the first after a teardown, finds neither a gate nor
\* an instance: it leaves one of the two.
LEMMA InjectBundleInv == Inv /\ InjectBundle => Inv'
<1> SUFFICES ASSUME Inv, InjectBundle PROVE Inv'
  OBVIOUS
<1>1. /\ Modes' /\ Quiet' /\ UNCHANGED <<home, marked, world, mode, crossed>>
      /\ mounted' = mounted \/ world.screens = <<>> \/ ~Hosts => patches' = patches
      /\ patches' = patches \/ \E v : patches' = patches \cup {v}
      /\ mode # "none"
  BY BootKeeps DEF Inv, InjectBundle, EvalBundle, TickHosts
<1>2. Hosts' = Hosts
  BY <1>1 DEF Hosts
<1>3. ASSUME Hosts, ~crossed PROVE Boots' /\ Owners'
  <2>1. live = {} /\ mounted = 0 /\ marker' = TRUE /\ patches = {}
    BY <1>3 DEF Inv, Boots, Owners, InjectBundle
  <2>2. \/ mounted' = 1 /\ live' = {}
        \/ mounted' = 0 /\ live' = {named'}
    BY <2>1 DEF InjectBundle, EvalBundle, OneMore, MaxMounted
  <2>3. Boots'
    BY <1>1, <2>1, <2>2 DEF Boots
  <2>4. Owners'
    BY <1>1, <1>2, <2>1, <2>2 DEF Inv, Owners, AtMostOne
  <2> QED
    BY <2>3, <2>4
<1>4. ASSUME crossed \/ ~Hosts PROVE Boots' /\ Owners'
  <2>1. Boots'
    BY <1>1, <1>2, <1>4 DEF Boots
  <2>2. Owners'
    BY <1>1, <1>2, <1>4 DEF Inv, Owners, AtMostOne
  <2> QED
    BY <2>1, <2>2
<1> QED
  BY <1>1, <1>3, <1>4 DEF Inv

\* The one gate that waits names its own interval, so its boot is the last.
LEMMA GatePollInv == Inv /\ GatePoll => Inv'
<1> SUFFICES ASSUME Inv, GatePoll PROVE Inv'
  OBVIOUS
<1>1. PICK i \in live : PollGate(i, ready)
  BY DEF GatePoll
<1>2. /\ Modes' /\ Quiet' /\ UNCHANGED <<home, marked, world, mode, marker, crossed>>
      /\ mounted' = mounted \/ world.screens = <<>> \/ ~Hosts => patches' = patches
      /\ patches' = patches \/ \E v : patches' = patches \cup {v}
  BY <1>1, BootKeeps DEF Inv, GatePoll, PollGate
<1>3. mode # "none" /\ Hosts' = Hosts
  BY <1>1, <1>2 DEF Inv, Boots, Hosts
<1>4. ASSUME Hosts, ~crossed PROVE Boots' /\ Owners'
  <2>1. live = {named} /\ mounted = 0 /\ marker /\ patches = {}
    BY <1>1, <1>4 DEF Inv, Boots, Owners
  <2>2. /\ named' = named
        /\ \/ mounted' = 1 /\ live' = {}
           \/ UNCHANGED <<mounted, live>>
    BY <1>1, <2>1 DEF PollGate, OneMore, MaxMounted
  <2>3. Boots'
    BY <1>2, <1>3, <2>1, <2>2 DEF Boots
  <2>4. Owners'
    BY <1>2, <1>3, <2>1, <2>2 DEF Inv, Owners, AtMostOne
  <2> QED
    BY <2>3, <2>4
<1>5. ASSUME crossed \/ ~Hosts PROVE Boots' /\ Owners'
  <2>1. Boots'
    BY <1>2, <1>3, <1>5 DEF Boots
  <2>2. Owners'
    BY <1>2, <1>3, <1>5 DEF Inv, Owners, AtMostOne
  <2> QED
    BY <2>1, <2>2
<1> QED
  BY <1>2, <1>4, <1>5 DEF Inv

\* The teardown of a host takes the instance and its patch away together; where a gate
\* still waits it leaves its mark, and where there is no host nothing is told of it.
LEMMA SoftReinjectInv == Inv /\ SoftReinject => Inv'
<1> SUFFICES ASSUME Inv, SoftReinject PROVE Inv'
  OBVIOUS
<1>1. UNCHANGED tabState
  BY DEF SoftReinject, tabState
<1>2. Modes' /\ Quiet'
  BY <1>1, TabKept DEF Inv
<1>3. /\ mode # "none" /\ Hosts' = Hosts /\ UNCHANGED <<world, mode>>
      /\ crossed' = (crossed \/ live # {}) /\ UNCHANGED live
      /\ Hosts => mounted' = 0
  BY DEF Inv, Boots, SoftReinject, Teardown, Hosts
<1>4. Boots'
  BY <1>3 DEF Boots
<1>5. Owners'
  <2> SUFFICES ASSUME ~crossed' PROVE Owners'
    BY DEF Owners
  <2>1. ~crossed
    BY <1>3
  <2>2. CASE Hosts /\ mounted > 0 /\ world.screens # <<>>
    <3>1. patches' = {} /\ UNCHANGED <<home, marked>>
      BY <2>2 DEF SoftReinject, Unmount
    <3> QED
      BY <2>1, <3>1 DEF Inv, Owners, AtMostOne
  <2>3. CASE ~(Hosts /\ mounted > 0 /\ world.screens # <<>>)
    <3>1. UNCHANGED <<patches, home, marked>>
      BY <2>3 DEF SoftReinject
    <3>2. patches = {}
      BY <2>1, <2>3 DEF Inv, Owners, Boots
    <3> QED
      BY <2>1, <3>1, <3>2 DEF Inv, Owners, AtMostOne
  <2> QED
    BY <2>2, <2>3
<1> QED
  BY <1>2, <1>4, <1>5 DEF Inv

\* The other loader's plugin registers with the bridge or joins the queue.
LEMMA PluginRegistersInv == Inv /\ PluginRegisters => Inv'
<1> SUFFICES ASSUME Inv, PluginRegisters PROVE Inv'
  OBVIOUS
<1>1. UNCHANGED <<world, mode, refused>>
  BY DEF PluginRegisters
<1>2. Quiet' /\ native' = native
  <2>1. CASE bridge
    BY <2>1, RegisteredQuiet DEF PluginRegisters, Inv
  <2>2. CASE ~bridge
    BY <2>2 DEF PluginRegisters, Inv, Quiet
  <2> QED
    BY <2>1, <2>2
<1>3. Modes'
  BY <1>1, <1>2 DEF Inv, Modes, Beside
<1>4. UNCHANGED gateState /\ UNCHANGED <<home, marked>>
  BY DEF PluginRegisters, gateState
<1> QED
  BY <1>2, <1>3, <1>4, GateKept, OwnersKept DEF Inv

\* Where the native path is off no retry is pending.
LEMMA RetryTimerInv == Inv /\ RetryTimer => Inv'
<1> SUFFICES ASSUME Inv, RetryTimer PROVE Inv'
  OBVIOUS
<1>1. UNCHANGED <<world, mode, refused, native>> /\ retries > 0
  BY DEF RetryTimer
<1>2. Modes'
  BY <1>1 DEF Inv, Modes, Beside
<1>3. native
  BY <1>1 DEF Inv, Quiet
<1>4. Quiet'
  BY <1>1, <1>3 DEF Quiet
<1>5. UNCHANGED gateState /\ UNCHANGED <<home, marked>>
  BY DEF RetryTimer, gateState
<1> QED
  BY <1>2, <1>4, <1>5, GateKept, OwnersKept DEF Inv

\* Steam renders and unmounts its menu; without the patch no handler of ours runs.
LEMMA MenuInv == Inv /\ Menu => Inv'
<1> SUFFICES ASSUME Inv, Menu PROVE Inv'
  OBVIOUS
<1>1. UNCHANGED <<world, mode, refused, native>>
  BY DEF Menu, RenderMenu, RenderInner, CloseMenu
<1>2. Modes'
  BY <1>1 DEF Inv, Modes, Beside
<1>3. Quiet'
  <2> SUFFICES ASSUME ~native PROVE Quiet'
    BY <1>1 DEF Quiet
  <2>1. CASE RenderMenu(mode = "sole", world.shape)
    BY <2>1, RenderQuiet DEF Inv
  <2>2. CASE RenderInner
    BY <2>2 DEF RenderInner, Inv, Quiet
  <2>3. CASE CloseMenu
    BY <2>3 DEF CloseMenu, Inv, Quiet, ToSet
  <2> QED
    BY <2>1, <2>2, <2>3 DEF Menu
<1>4. UNCHANGED gateState /\ UNCHANGED <<home, marked>>
  BY DEF Menu, gateState
<1> QED
  BY <1>2, <1>3, <1>4, GateKept, OwnersKept DEF Inv

\* The wrapper renders over the home it was given or over a fresh one.
LEMMA RouterInv == Inv /\ (Router \/ SteamRouter) => Inv'
<1> SUFFICES ASSUME Inv, Router \/ SteamRouter PROVE Inv'
  OBVIOUS
<1>1. UNCHANGED tabState
  BY DEF Router, SteamRouter, tabState
<1>2. UNCHANGED gateState
  BY DEF Router, SteamRouter, gateState, RouterTimer, DoForce, ForcedRender, EffectsRun, Rerender,
     RouterMounts, SteamRendersRouter
<1>3. Modes' /\ Quiet' /\ Boots'
  BY <1>1, <1>2, TabKept, GateKept DEF Inv
<1>4. CASE UNCHANGED <<home, marked>>
  BY <1>2, <1>3, <1>4, OwnersKept DEF Inv
<1>5. CASE ProcessLists(NoArray, {}, FALSE) \/ ProcessLists(slot, home, marked)
  <2>1. ~crossed => AtMostOne(home') /\ (~marked' => home' = {})
    BY <1>5, ListsOneOwner DEF Inv, Owners
  <2>2. Owners'
    BY <1>2, <2>1 DEF Inv, Owners, gateState, AtMostOne, Hosts
  <2> QED
    BY <1>3, <2>2 DEF Inv
<1> QED
  BY <1>4, <1>5 DEF Router, SteamRouter, RouterTimer, DoForce, ForcedRender, EffectsRun, Rerender,
     RouterMounts, SteamRendersRouter

\* The scan, the loader, Steam's chunks, the clock, the pruning and the side menu
\* touch none of it.
LEMMA OthersInv ==
    Inv /\ (Scan \/ LoaderAdvances \/ Steam \/ TimePasses \/ Prune \/ Home \/ SideMenuTick
            \/ SteamMenu \/ UNCHANGED vars) => Inv'
<1> SUFFICES ASSUME Inv,
                    Scan \/ LoaderAdvances \/ Steam \/ TimePasses \/ Prune \/ Home
                    \/ SideMenuTick \/ SteamMenu \/ UNCHANGED vars
             PROVE  Inv'
  OBVIOUS
<1>1. UNCHANGED tabState /\ UNCHANGED gateState /\ UNCHANGED <<home, marked>>
  BY DEF tabState, gateState, Scan, LoaderAdvances, Steam, TimePasses, ArmAges, Prune, Home,
     SideMenuTick, SteamMenu, vars
<1> QED
  BY <1>1, TabKept, GateKept, OwnersKept DEF Inv

------------------------------------------------------------------------------
(* The theorems. *)

\* Every step of the page keeps the invariant.
LEMMA NextInv == Inv /\ [Next]_vars => Inv'
BY NewPageInv, EvalInertInv, EvalRuntimeInv, InjectBundleInv, GatePollInv, SoftReinjectInv,
   PluginRegistersInv, RetryTimerInv, MenuInv, RouterInv, OthersInv
   DEF Next

\* In every reachable state the invariant holds.
LEMMA Invariance == Spec => []Inv
<1> QED
  BY InitInv, NextInv, PTL DEF Spec

\* On any machine, in a page that has our host and in which no teardown came while a
\* gate was waiting, every boot of a bundle, by a gate or at once, comes after the
\* teardown of the instance before it.
THEOREM OneBoot == Spec => []OneInstance
<1>1. Inv => OneInstance
  BY DEF Inv, Boots, OneInstance
<1> QED
  BY <1>1, Invariance, PTL

\* In any page in which no teardown came while a gate was waiting, the home on screen
\* has gone through the patch of one instance at most, however its renders, bumps and
\* swaps follow each other.
THEOREM OneOwner == Spec => []HomeHasOneOwner
<1>1. ASSUME Inv PROVE HomeHasOneOwner
  <2> SUFFICES ASSUME ~crossed PROVE Cardinality(home) <= 1
    BY DEF HomeHasOneOwner
  <2>1. AtMostOne(home)
    BY <1>1 DEF Inv, Owners
  <2>2. CASE home = {}
    BY <2>2, FS_EmptySet
  <2>3. CASE home # {}
    <3>1. PICK v \in home : \A w \in home : v = w
      BY <2>1, <2>3 DEF AtMostOne
    <3>2. home = {v}
      BY <3>1
    <3>3. Cardinality({v}) = 1
      BY FS_Singleton
    <3> QED
      BY <3>2, <3>3
  <2> QED
    BY <2>2, <2>3
<1> QED
  BY <1>1, Invariance, PTL

\* A page whose runtime was evaluated over a dead arm or a trip never has our tab
\* in its menu, whatever Steam renders and whoever registers a panel.
THEOREM TripIsKept == Spec => []TripStandsDown
<1>1. Inv => TripStandsDown
  BY DEF Inv, Modes, Quiet, TripStandsDown
<1> QED
  BY <1>1, Invariance, PTL

\* Beside another loader no page of ours arms or trips the breaker, and none takes
\* the native tab away.
THEOREM BreakerStaysAlone == Spec => BreakerEngagesAloneOnly
<1>1. Inv /\ Inv' /\ [Next]_vars =>
        [/\ mode' \in Beside /\ trip' # trip => trip' \in {"none", "stale"}
         /\ mode' \in Beside => native' = world.native]_vars
  <2> SUFFICES ASSUME Inv, Inv', Next, mode' \in Beside
               PROVE  /\ trip' # trip => trip' \in {"none", "stale"}
                      /\ native' = world.native
    OBVIOUS
  <2>1. world' = world
    BY DEF Next, NewPage, EvalInert, EvalRuntime, InjectBundle, GatePoll, SoftReinject,
       PluginRegisters, Scan, RetryTimer, LoaderAdvances, Steam, Menu, TimePasses, Router,
       SteamRouter, Prune, Home, SideMenuTick, SteamMenu
  <2>2. native' = world.native
    BY <2>1 DEF Inv, Modes
  <2>3. CASE EvalRuntime
    BY <2>2, <2>3 DEF EvalRuntime, Breaker, Beside
  <2>4. CASE Menu
    BY <2>2, <2>4 DEF Menu, RenderMenu, RenderInner, CloseMenu, Push, Armed, Beside
  <2>5. CASE TimePasses
    BY <2>2, <2>5 DEF TimePasses, ArmAges
  <2>6. CASE ~(EvalRuntime \/ Menu \/ TimePasses)
    <3>1. trip' = trip
      BY <2>6 DEF Next, NewPage, EvalInert, InjectBundle, GatePoll, SoftReinject,
         PluginRegisters, Scan, RetryTimer, LoaderAdvances, Steam, Router,
         SteamRouter, Prune, Home, SideMenuTick, SteamMenu
    <3> QED
      BY <2>2, <3>1
  <2> QED
    BY <2>2, <2>3, <2>4, <2>5, <2>6
<1> QED
  BY <1>1, Invariance, PTL DEF Spec, BreakerEngagesAloneOnly

------------------------------------------------------------------------------
(* What a settled page shows.                                              *)

\* Once the wrapper is inserted, what is registered is on screen or a bump is due;
\* and only an inserted wrapper listens.
Current ==
    ~RenderGap =>
        /\ subscribed => inserted
        /\ inserted /\ ~dirty => /\ bridgeShown = bridgeOf
                                 /\ routes # NoArray => DOMAIN slot = DOMAIN routes

currentState == <<inserted, subscribed, dirty, bridgeShown, bridgeOf, routes, slot>>

\* A step that leaves the hook alone keeps it.
LEMMA CurrentKept == Current /\ UNCHANGED currentState => Current'
BY DEF Current, currentState

\* A render of the wrapper shows all that is registered: the cached array of routes is
\* only used when it has the registered paths.
LEMMA ListsAreCurrent ==
    ASSUME Current, NEW last, NEW before, NEW done, ProcessLists(last, before, done),
           UNCHANGED registry, subscribed' = subscribed, inserted'
    PROVE  Current'
<1>1. bridgeShown' = bridgeOf' /\ routes' = routes
  BY DEF ProcessLists
<1>2. routes # NoArray => DOMAIN slot' = DOMAIN routes
  BY DEF ProcessLists, InjectRoutes, BuildOurRoutes
<1> QED
  BY <1>1, <1>2 DEF Current

\* A registration, or its undoing, finds no wrapper or one that listens, and bumps it.
LEMMA RegistrationBumps ==
    ASSUME Current, EffectsDone, NEW asked, NEW usable, RequestUpdate(asked, usable),
           UNCHANGED <<inserted, subscribed>>
    PROVE  Current'
<1>1. CASE ~inserted
  BY <1>1 DEF Current
<1>2. CASE inserted
  <2>1. ~RenderGap => subscribed
    BY <1>2 DEF EffectsDone
  <2>2. dirty' = (dirty \/ subscribed)
    BY <1>2 DEF RequestUpdate
  <2> QED
    BY <1>2, <2>1, <2>2 DEF Current
<1> QED
  BY <1>1, <1>2

\* An instance that boots with a wrapper on screen bumps it.
LEMMA BootBumps ==
    ASSUME Current, EffectsDone, BootEffect
    PROVE  Current'
<1>1. CASE UNCHANGED routerVars
  BY <1>1, CurrentKept DEF currentState
<1>2. CASE Mount(evals', world.screens[evals'], react)
  BY <1>2, RegistrationBumps DEF Mount
<1> QED
  BY <1>1, <1>2, CurrentKept DEF BootEffect, currentState

\* Every step of the page keeps the screen current.
LEMMA NextCurrent == Current /\ [Next]_vars => Current'
<1> SUFFICES ASSUME Current, [Next]_vars PROVE Current'
  OBVIOUS
<1>1. CASE NewPage
  BY <1>1 DEF NewPage, RouterReset, Current
<1>2. CASE InjectBundle \/ GatePoll
  BY <1>2, BootBumps DEF InjectBundle, GatePoll
<1>3. CASE SoftReinject
  <2>1. CASE Unmount(react)
    BY <1>3, <2>1, RegistrationBumps DEF SoftReinject, Unmount
  <2> QED
    BY <1>3, <2>1, CurrentKept DEF SoftReinject, currentState
<1>4. CASE Router \/ SteamRouter
  <2>1. CASE Rerender
    <3>1. CASE inserted
      BY <2>1, <3>1, ListsAreCurrent DEF Rerender
    <3>2. CASE ~inserted
      BY <2>1, <3>2 DEF Rerender, Current
    <3> QED
      BY <3>1, <3>2
  <2>2. CASE (SteamRendersRouter /\ fiber = "after") \/ ForcedRender
    BY <2>2, ListsAreCurrent DEF SteamRendersRouter, ForcedRender
  <2>3. CASE EffectsRun
    BY <2>3 DEF EffectsRun, Current
  <2> QED
    BY <1>4, <2>1, <2>2, <2>3, CurrentKept
       DEF Router, SteamRouter, RouterTimer, DoForce, RouterMounts, SteamRendersRouter,
           currentState
<1>5. CASE EvalInert \/ EvalRuntime \/ PluginRegisters \/ Scan \/ RetryTimer \/ LoaderAdvances
           \/ Steam \/ Menu \/ TimePasses \/ Prune \/ Home \/ SideMenuTick \/ SteamMenu
           \/ UNCHANGED vars
  BY <1>5, CurrentKept
     DEF EvalInert, EvalRuntime, PluginRegisters, Scan, RetryTimer, LoaderAdvances, Steam,
         Menu, TimePasses, Prune, Home, SideMenuTick, SteamMenu, vars, currentState
<1> QED
  BY <1>1, <1>2, <1>3, <1>4, <1>5 DEF Next

\* While no instance comes or goes between a render of the wrappers and their effects,
\* a page whose wrappers listen and wait for no bump shows the bridge of the last
\* registration and exactly the screens that are registered, whatever their order.
THEOREM SettledIsCurrent == ASSUME ~RenderGap PROVE Spec => []SettledPageIsCurrent
<1>1. Init => Current
  BY DEF Init, RouterFresh, Current
<1>2. Current => SettledPageIsCurrent
  BY DEF Current, SettledPageIsCurrent
<1> QED
  BY <1>1, <1>2, NextCurrent, PTL DEF Spec
==============================================================================
