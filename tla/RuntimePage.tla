------------------------------- MODULE RuntimePage -------------------------------
(***************************************************************************)
(* One renderer page after another: the daemon evaluates the host runtime, *)
(* then, unless it finds another loader's claim, the gated bundle; the     *)
(* scan, the gate, the native tab, the router hook and the pruning of the  *)
(* home run in timers and renders of the page; the page may die at any     *)
(* point and only localStorage outlives it.                                *)
(***************************************************************************)
EXTENDS SteamUi, BundleGate, QamTab, RouterHook, HomeNav, SideMenu

CONSTANTS
    Worlds,     \* machines: [native, force: what the daemon stamps, loaders, shape, late,
                \*   screens: paths each instance of the bundle registers with our hook,
                \*   <<>> when it only registers a panel or finds a loader's hook,
                \*   sections: of the home that it may hide,
                \*   sideMenu: Steam or the user may open the main side menu]
    RenderGap   \* an instance may come or go between the render of the wrappers and
                \* their effects

ASSUME PageAssumption == RenderGap \in BOOLEAN /\ \A w \in Worlds : w.native \in BOOLEAN

VARIABLES
    world,      \* the machine of this behaviour
    loader,     \* globals of another loader: "none", "early" ones only, "full" with its library
    mode,       \* of the evaluated runtime: "none", "inert", "sole", "coexist", "coop"
    marker,     \* window.__SHELVES_LOADER__, the daemon's mark of an injected bundle
    refused     \* (history) the runtime was evaluated as sole host over a dead arm or a trip

pageVars == <<world, loader, mode, marker, refused, menuVars>>
homeVars == <<routerVars, navVars>>
vars == <<pageVars, steamVars, gateVars, trip, tabVars, homeVars>>

Beside == {"coexist", "coop"}
LoaderLib == Borrowable \cup {"Menu", "Dropdown", "showModal", "Navigation"}

Init ==
    /\ world \in Worlds
    /\ loader \in world.loaders
    /\ late = world.late
    /\ mode = "none" /\ marker = FALSE /\ refused = FALSE
    /\ SteamFresh /\ GateFresh /\ TabFresh /\ RouterFresh /\ NavFresh /\ MenuFresh
    /\ trip = "none"

\* The page dies: a reload, a Steam restart, a collapse of the UI.
NewPage ==
    /\ mode # "none"
    /\ loader' \in world.loaders
    /\ mode' = "none" /\ marker' = FALSE /\ refused' = FALSE
    /\ SteamReset /\ GateReset /\ TabReset /\ RouterReset /\ NavReset /\ MenuReset
    /\ UNCHANGED <<world, trip>>

------------------------------------------------------------------------------
(* The daemon's evaluates. *)

\* COEXIST and COOP, and the stand-down that touches nothing.
ModeOf(l) ==
    IF l = "none" THEN "sole"
    ELSE IF world.force THEN "coop"
    ELSE IF world.native THEN "coexist" ELSE "inert"

\* window.SP_REACT and the loader's library come with a loader that is all up.
Published == loader = "full"

\* Closers are only followed in a world whose side menu moves.
Closer == IF world.sideMenu THEN StartCloser ELSE UNCHANGED menuVars

\* The runtime in a page whose loader leaves it nothing to do.
EvalInert ==
    /\ mode = "none"
    /\ ModeOf(loader) = "inert"
    /\ mode' = "inert"
    /\ Closer
    /\ UNCHANGED <<world, loader, marker, refused, steamVars, gateVars, trip, tabVars, homeVars>>

\* The wrappers that were rendered listen, or that gap is not looked away from.
EffectsDone == RenderGap \/ (inserted => subscribed)

\* The queue is drained into the bridge.
Drained == IF panel = "pending" THEN "spec" ELSE panel

\* The runtime from its first line to its last, one turn of the page's thread: React,
\* the scan or the borrowed UI, the breaker, the patch, the bridge and its queue, the
\* pruning of the home.  A page that has it keeps it.
EvalRuntime ==
    LET m == ModeOf(loader)
        usable == Published \/ "react" \in Refreshed
    IN /\ mode = "none"
       /\ m # "inert"
       /\ Closer
       /\ mode' = m
       /\ refused' = (m = "sole" /\ world.native /\ trip \in {"stale", "tripped"})
       /\ TakeReact(Published)
       /\ Find
       /\ IF m = "sole"
          THEN /\ IF usable THEN StartScan ELSE UNCHANGED <<uiReady, scan, ui>>
               /\ UNCHANGED ready
          ELSE /\ IF usable THEN Borrow(IF loader = "full" THEN LoaderLib ELSE {}, m = "coop")
                            ELSE UNCHANGED <<ui, uiReady, ready>>
               /\ UNCHANGED scan
       /\ IF world.native THEN Breaker(m = "sole") ELSE UNCHANGED <<trip, native>>
       /\ discovery' = native'
       /\ bridge' = TRUE
       /\ panel' = Drained
       /\ IF native'
          THEN TryPatch(Refreshed, Published, usable, IF panel = "pending" THEN 2 ELSE 1, 0)
          ELSE UNCHANGED <<patched, attempts, retries, enumKey, mount>>
       /\ IF m = "sole" THEN StartNavPrune ELSE UNCHANGED navVars
       /\ UNCHANGED <<world, loader, marker, late, chunk, augment, focusable, gateVars, list,
                      inner, confirmed, stamped, routerVars>>

\* registerPanel() on the bridge, which looks for the consumer again.
Registered ==
    /\ panel' = "spec"
    /\ IF native THEN TryPatch(Refreshed, Published, react, 1, retries)
                 ELSE UNCHANGED <<patched, attempts, retries, enumKey, mount>>
    /\ IF native /\ react /\ ~patched THEN Find ELSE UNCHANGED loaded
    /\ UNCHANGED <<late, chunk, react, scanVars, native, list, inner, confirmed, stamped, bridge>>

\* The pages that have window.__SHELVES_HOST__ from the runtime; beside a loader that
\* is not to be forced out the bundle finds none.
Hosts == mode \in {"sole", "coop"}

\* The tick takes the page for its own.  Before the runtime was evaluated it went by the
\* probes, which a loader may have outrun; after it, by the claim and the globals in
\* the page: our own claim, none at all (a runtime that stood down left no claim), or
\* force with no more of a loader than the tick's own probe overlooks.
TickHosts ==
    \/ mode \in {"sole", "inert"}
    \/ mode = "coop" /\ (evals = 0 \/ loader = "early")
    \/ mode = "coexist" /\ evals = 0

\* The bundle that boots registers its panel with the host it finds, and its screens,
\* its patch of the home and its bridge with the router hook.  One that finds no host
\* of ours has nothing here to register with.
BootEffect ==
    IF mounted' = mounted \/ ~Hosts THEN UNCHANGED <<steamVars, tabVars, routerVars>>
    ELSE /\ Registered
         /\ IF world.screens = <<>> THEN UNCHANGED routerVars
            ELSE Mount(evals', world.screens[evals'], react)

\* The tick evaluates the gated bundle in a page without the marker; before a new
\* instance it evaluates the runtime again, of which only the closer starts.
InjectBundle ==
    /\ TickHosts
    /\ ~marker
    /\ EffectsDone
    /\ EvalBundle(ready)
    /\ IF evals > 0 THEN Closer ELSE UNCHANGED menuVars
    /\ BootEffect
    /\ marker' = TRUE
    /\ UNCHANGED <<world, loader, mode, refused, trip, navVars>>

\* A poll of a waiting gate.
GatePoll ==
    /\ EffectsDone
    /\ \E i \in live : PollGate(i, ready)
    /\ BootEffect
    /\ UNCHANGED <<pageVars, trip, navVars>>

\* soft_reinject: run the unmount handlers of the host, if there is one, and clear the
\* marker, whatever has become of the bundle that it marks.
SoftReinject ==
    /\ marker
    /\ evals < MaxEvals
    /\ EffectsDone
    /\ Teardown(Hosts)
    /\ IF Hosts /\ mounted > 0 /\ world.screens # <<>> THEN Unmount(react)
                                                       ELSE UNCHANGED routerVars
    /\ IF Hosts THEN StopNavPrune ELSE UNCHANGED navVars
    /\ marker' = FALSE
    /\ UNCHANGED <<world, loader, mode, refused, menuVars, steamVars, trip, tabVars>>

\* A Deck Shelves under the other loader registers its panel, or queues it.
PluginRegisters ==
    /\ loader # "none"
    /\ panel = "none"
    /\ IF bridge THEN Registered
       ELSE /\ panel' = "pending"
            /\ UNCHANGED <<steamVars, native, patched, attempts, retries, enumKey,
                           mount, list, inner, confirmed, stamped, bridge>>
    /\ UNCHANGED <<pageVars, gateVars, trip, homeVars>>

------------------------------------------------------------------------------
(* Timers and renders of the page. *)

Scan == /\ \/ ScanStep
           \/ ScanDone(mode = "sole")
           \/ AugmentStep
           \/ AugmentDone
           \/ DiscoveryTimer
        /\ UNCHANGED <<pageVars, gateVars, trip, tabVars, homeVars>>

RetryTimer ==
    /\ retries > 0
    /\ TryPatch(Refreshed, Published, react, 1, retries - 1)
    /\ Find
    /\ UNCHANGED <<pageVars, late, chunk, react, scanVars, gateVars, trip, native, list,
                   inner, confirmed, stamped, bridge, panel, homeVars>>

\* The rest of the other loader's globals arrive.
LoaderAdvances ==
    /\ loader = "early"
    /\ loader' = "full"
    /\ UNCHANGED <<world, mode, marker, refused, menuVars, steamVars, gateVars, trip, tabVars,
                   homeVars>>

\* (Where the side menu is followed, Steam's modules are not.)
Steam == /\ ~world.sideMenu
         /\ \/ ChunkAppears
            \/ ModuleLoads
         /\ UNCHANGED <<pageVars, gateVars, trip, tabVars, homeVars>>

Menu == /\ \/ "qam" \in loaded /\ RenderMenu(mode = "sole", world.shape)
           \/ RenderInner
           \/ CloseMenu
        /\ UNCHANGED <<pageVars, steamVars, gateVars, homeVars>>

TimePasses == ArmAges /\ UNCHANGED <<pageVars, steamVars, gateVars, homeVars>>

Router == /\ \/ RouterTimer(react)
             \/ DoForce
             \/ ForcedRender
             \/ EffectsRun
             \/ Rerender
          /\ UNCHANGED <<pageVars, steamVars, gateVars, trip, tabVars, navVars>>

SteamRouter == /\ world.screens # <<>>
               /\ RouterMounts \/ SteamRendersRouter
               /\ UNCHANGED <<pageVars, steamVars, gateVars, trip, tabVars, navVars>>

Prune == /\ PruneHiddenNavNodes
         /\ UNCHANGED <<pageVars, steamVars, gateVars, trip, tabVars, routerVars>>

Home == /\ world.sections # {}
        /\ HomeChanges(world.sections)
        /\ UNCHANGED <<pageVars, steamVars, gateVars, trip, tabVars, routerVars>>

SideMenuTick == /\ CloserTick
                /\ UNCHANGED <<world, loader, mode, marker, refused, steamVars, gateVars, trip,
                               tabVars, homeVars>>

SteamMenu == /\ world.sideMenu
             /\ MenuMoves
             /\ UNCHANGED <<world, loader, mode, marker, refused, steamVars, gateVars, trip,
                            tabVars, homeVars>>

Next == \/ NewPage
        \/ EvalInert
        \/ EvalRuntime
        \/ InjectBundle
        \/ GatePoll
        \/ SoftReinject
        \/ PluginRegisters
        \/ Scan
        \/ RetryTimer
        \/ LoaderAdvances
        \/ Steam
        \/ Menu
        \/ TimePasses
        \/ Router
        \/ SteamRouter
        \/ Prune
        \/ Home
        \/ SideMenuTick
        \/ SteamMenu

\* The page's timers fire as long as the page lives, one after another in its one
\* thread; what Steam, the user and the daemon do is left to chance.
Timers == GatePoll \/ Scan \/ RetryTimer \/ Router
Fairness == WF_vars(Timers) /\ WF_vars(Prune) /\ WF_vars(SideMenuTick)

Spec == Init /\ [][Next]_vars /\ Fairness

------------------------------------------------------------------------------
(* What the page's boot owes the user. *)

\* A bundle that was not forced out by the gate's cap finds the whole host.ui:
\* every component of every step and task whose module was there in time.
FullSurfaceAtBoot ==
    mode = "sole" /\ mounted > 0 /\ ~early
        => /\ \A i \in DOMAIN UiSteps : UiSteps[i].in \notin late => UiSteps[i].gives \subseteq ui
           /\ \A i \in DOMAIN AugmentTasks :
                 AugmentTasks[i].in \notin late => AugmentTasks[i].gives \subseteq ui

\* Two instances of the bundle are never mounted together in a page that has our
\* host, in which no teardown came while a gate was waiting: every boot, at once or by
\* a poll, comes after the teardown of the instance before it.
OneInstance == Hosts /\ ~crossed => mounted <= 1

\* What lifecycle.teardown promises a hot swap, without those exceptions: the CURRENT
\* instance is disposed of before a new one is evaluated.
NeverTwoInstances == mounted <= 1

\* After a sole session that armed the breaker and never confirmed, or a trip,
\* the native path stays out of Steam's menu for the life of the page.
TripStandsDown == refused => "ours" \notin ToSet(list) /\ ~patched

\* Beside a loader the breaker never engages: no page of ours arms or trips it
\* there, and no trip takes the tab away.
BreakerEngagesAloneOnly ==
    [][/\ mode' \in Beside /\ trip' # trip => trip' \in {"none", "stale"}
       /\ mode' \in Beside => native' = world.native]_vars

\* Our tab is in the menu at most once, right after Performance or last, with
\* its key in Steam's enum, the owner of the tab is only claimed by a page whose
\* menu has carried it, and a panel registered on either side of the runtime's
\* evaluation, or by an instance that boots with our host, reaches the tab.
TabIsFirstClass ==
    /\ "ours" \in ToSet(list) =>
          /\ Cardinality({i \in DOMAIN list : list[i] = "ours"}) = 1
          /\ \A i \in DOMAIN list : list[i] = "perf" => list[i + 1] = "ours"
          /\ enumKey
          /\ stamped
    /\ stamped => confirmed /\ patched
    /\ panel = "pending" => ~bridge
    /\ Hosts /\ mounted > 0 => panel = "spec"

\* The intervals that close the side menu all end, also on a client that never
\* opens it or has no store for it: "bounded and self-limiting, so a later
\* user-opened menu is never fought" -- later than ten seconds after the last
\* evaluation of the runtime, that is.
MenuLeftAlone == closers # <<>> ~> closers = <<>>

\* A gate that waits ends in a booted bundle, also when the runtime never
\* signals (no React in the page's first moment).
BootsEventually == live # {} ~> (mounted > 0 \/ evals = 0)

\* The home on screen went through the patch of one instance at most, in a page in
\* which no teardown came while a gate was waiting.
HomeHasOneOwner == ~crossed => Cardinality(home) <= 1

\* Once the wrappers listen and no bump is due, the page shows the bridge and the
\* screens that are registered.
SettledPageIsCurrent ==
    subscribed /\ ~dirty => /\ bridgeShown = bridgeOf
                            /\ routes # NoArray => DOMAIN slot = DOMAIN routes

\* ... and each screen is the one of the instance that registered it: what a hot
\* swap in place promises.
ScreensAreCurrent ==
    subscribed /\ ~dirty => \A p \in DOMAIN routes \cap DOMAIN slot : slot[p] = routes[p]

\* A mounted bundle's screens reach Steam's router, if that comes up before the
\* hook gives up looking for it and has a class ancestor to force a render on.
ScreensArrive ==
    mounted > 0 /\ routes # NoArray /\ react /\ fiber # "none" /\ tries < RouterCap
        ~> mounted = 0 \/ DOMAIN slot = DOMAIN routes \/ forced = "missed"

\* However often a section of the home was hidden, taken out of the tree and mounted
\* anew: once it is shown it has a node in the tree again ("so re-enabling a section
\* still works"), if no game is in front, the page lives on and no hot swap has stopped
\* the pruning.  A node that is neither in the tree nor on record would be lost.
SectionsReturn ==
    \A s \in UNION {w.sections : w \in Worlds} :
        navTree /\ s \notin tree \cup hidden /\ pruning
            ~> s \in tree \cup hidden \/ away \/ ~pruning

\* ... and without that last exception, which is what the comment promises.
SectionsReturnAlways ==
    \A s \in UNION {w.sections : w \in Worlds} :
        s \in pruned \ hidden ~> s \notin pruned \/ s \in hidden \/ away
=============================================================================
