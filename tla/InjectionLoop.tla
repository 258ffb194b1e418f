---------------------------- MODULE InjectionLoop ----------------------------
(***************************************************************************)
(* The daemon's injection loop (src/src/loader/mod.rs: run and tick, with  *)
(* coop_safety.rs) over the renderer of SteamRenderer.  One iteration is   *)
(*   discover -> gate -> tick -> tally -> swap -> sleep                    *)
(* and the tick is cut at every DevTools round trip, so that Steam, the    *)
(* other loader, the RPC threads and the updater interleave with it.       *)
(***************************************************************************)
EXTENDS SteamRenderer, Integers

CONSTANTS
    ForceOwner,     \* config: SHELVES_FORCE_OWNER=shelveshub
    NativeQam,      \* config: native_qam
    DesktopUi,      \* config: desktop_ui
    CoopSafeMode,   \* config: coop_safe_mode
    RecoverCmd,     \* config: a recovery command is set (not "off")
    CollapseHalt,   \* COLLAPSE_HALT_THRESHOLD
    RecedeStrikes,  \* COOP_RECEDE_STRIKES
    Faults          \* DevTools failures: "refused" (no effect), "lost" (reply lost)

ASSUME LoopAssumption ==
    /\ {ForceOwner, NativeQam, DesktopUi, CoopSafeMode, RecoverCmd} \subseteq BOOLEAN
    /\ CollapseHalt \in Nat \ {0}
    /\ RecedeStrikes \in Nat \ {0}
    /\ Faults \subseteq {"refused", "lost"}

VARIABLES
    pc,         \* where the loop thread is
    t,          \* locals of the iteration in progress
    collapses,  \* consecutive_collapse
    coop,       \* CoopSafety: [strikes, receded]; receded = coexist_config is set
    clock,      \* empty_since: polls the renderer has been seen unclaimed, or NoClock
    wasPaused,  \* was_paused
    lastSeen,   \* last_bundle_mtime
    injected,   \* state: INJECTED, what isInjected reports
    paused,     \* state: HOSTING_PAUSED, set by the RPC threads
    boot,       \* which daemon process this is (its RPC token)
    disk        \* the bundle file

daemonVars == <<pc, t, collapses, coop, clock, wasPaused, lastSeen, injected>>
loopVars   == <<daemonVars, paused, boot, disk>>

NoClock == -1

Steps == {"discover", "gate", "probe", "owner", "loader", "tab", "stamp", "native", "read",
          "runtime", "bundle", "marker", "confirm", "tally", "swap", "sleep"}
Results == {"none", "active", "notConfirmed", "stoodDown", "coexistTab",
            "settling", "err"}

Bundle == [version: 0..MaxVersion, body: {"missing", "empty", "real"}]
NoBundle == [version |-> 0, body |-> "missing"]

Tick == [gamepad : BOOLEAN,   \* gamepad_active
         owner   : Owners,    \* the claim probe_owner returned
         coop    : BOOLEAN,   \* cooperative: forced and a loader is present
         coexist : BOOLEAN,   \* on the coexist path, not the host path
         churn   : BOOLEAN,   \* coop_churn
         source  : Bundle,    \* the bundle source read from disk
         result  : Results]

NoTick == [gamepad |-> TRUE, owner |-> "", coop |-> FALSE, coexist |-> FALSE,
           churn |-> FALSE, source |-> NoBundle, result |-> "none"]

LoopTypeOK ==
    /\ RendererTypeOK
    /\ pc \in Steps
    /\ t \in Tick
    /\ collapses \in 0..(CollapseHalt + 1)
    /\ coop \in [strikes: 0..RecedeStrikes, receded: BOOLEAN]
    /\ clock \in {NoClock} \cup 0..Settle
    /\ wasPaused \in BOOLEAN
    /\ lastSeen \in 0..MaxVersion
    /\ injected \in BOOLEAN
    /\ paused \in BOOLEAN
    /\ boot \in 0..MaxBoot
    /\ disk \in Bundle

\* bundle_mtime: versions stand for modification times, 0 for an unreadable file.
Mtime(bundle) == IF bundle.body = "missing" THEN 0 ELSE bundle.version

LoopInit ==
    /\ RendererInit
    /\ pc = "discover"
    /\ t = NoTick
    /\ collapses = 0
    /\ coop = [strikes |-> 0, receded |-> FALSE]
    /\ clock = NoClock
    /\ wasPaused = FALSE
    /\ injected = FALSE
    /\ paused = FALSE
    /\ boot = 0
    /\ disk \in {NoBundle, [version |-> 1, body |-> "real"]}
    /\ lastSeen = Mtime(disk)

------------------------------------------------------------------------------
(* CoopSafety. *)

\* A slip for Strike: the threshold is passed, not reached.
StrikeLate(c) ==
    IF ~CoopSafeMode \/ c.receded THEN c
    ELSE [strikes |-> c.strikes + 1, receded |-> c.strikes + 1 > RecedeStrikes]

\* A force-trouble strike; at the threshold force is stood down for the session.
Strike(c) ==
    IF ~CoopSafeMode \/ c.receded THEN c
    ELSE [strikes |-> c.strikes + 1, receded |-> c.strikes + 1 >= RecedeStrikes]

\* A healthy settled tick clears the streak, until receded.
SettledOk(c) == IF c.receded THEN c ELSE [c EXCEPT !.strikes = 0]

\* A slip for TickForce: the tick is handed the original config after a recede.
TickForceAnyway == ForceOwner

\* tick_config.force_owner: the force-cleared config once safe mode has receded.
TickForce == ForceOwner /\ ~coop.receded

\* A slip for IsForeign: the other loader's claim passes for a free renderer.
IsForeignMissesDecky(owner) == owner \notin {"", "shelveshub", "decky"}

IsForeign(owner) == owner \notin {"", "shelveshub"}

------------------------------------------------------------------------------
(* The head of an iteration. *)

Reachable == ui # "down"
MayRefuse == "refused" \in Faults

\* discover_targets failed: not a collapse; the tick reports the same and retries.
DiscoverFails ==
    /\ pc = "discover"
    /\ ~Reachable \/ MayRefuse
    /\ collapses' = 0
    /\ pc' = "gate"
    /\ UNCHANGED <<t, coop, clock, wasPaused, lastSeen, injected>>
    /\ UNCHANGED <<rendererVars, paused, boot, disk>>

\* Some window is up.  gamepad_ui_visible fails open.
DiscoverWindows ==
    /\ pc = "discover"
    /\ ui \in Windows
    /\ collapses' = 0
    /\ \/ t' = [t EXCEPT !.gamepad = (ui = "gamepad")]
       \/ MayRefuse /\ UNCHANGED t
    /\ pc' = "gate"
    /\ UNCHANGED <<coop, clock, wasPaused, lastSeen, injected>>
    /\ UNCHANGED <<rendererVars, paused, boot, disk>>

\* A slip for DiscoverCollapse: the counter starts over after the threshold.
DiscoverCollapseRearms ==
    /\ pc = "discover"
    /\ ui = "collapsed"
    /\ collapses' = IF collapses >= CollapseHalt THEN 1 ELSE collapses + 1
    /\ injected' = FALSE
    /\ coop' = IF collapses' = CollapseHalt /\ TickForce THEN Strike(coop) ELSE coop
    /\ pc' = "sleep"
    /\ UNCHANGED <<t, clock, wasPaused, lastSeen>>
    /\ UNCHANGED <<rendererVars, paused, boot, disk>>

\* Only SharedJSContext answers: injection pauses; on crossing the threshold the
\* recovery command runs, and a collapse while forced is a strike.
DiscoverCollapse ==
    /\ pc = "discover"
    /\ ui = "collapsed"
    /\ collapses' = IF collapses > CollapseHalt THEN collapses ELSE collapses + 1
    /\ injected' = FALSE
    /\ coop' = IF collapses' = CollapseHalt /\ TickForce THEN Strike(coop) ELSE coop
    /\ pc' = "sleep"
    /\ UNCHANGED <<t, clock, wasPaused, lastSeen>>
    /\ UNCHANGED <<rendererVars, paused, boot, disk>>

\* The recovery command is launched (a step of DiscoverCollapse).
RecoveryRuns == RecoverCmd /\ collapses # CollapseHalt /\ collapses' = CollapseHalt

\* A slip for GatePaused: standing down leaves the page as it is.
GatePausedKeepsPage ==
    /\ pc = "gate"
    /\ paused
    /\ wasPaused' = TRUE
    /\ injected' = FALSE
    /\ pc' = "sleep"
    /\ UNCHANGED <<t, collapses, coop, clock, lastSeen>>
    /\ UNCHANGED <<rendererVars, paused, boot, disk>>

\* setHostingPaused stands the loop down; the first paused iteration reloads the
\* renderer, best effort.
GatePaused ==
    /\ pc = "gate"
    /\ paused
    /\ IF wasPaused THEN UNCHANGED page
       ELSE \/ Reachable /\ page' = FreshPage
            \/ (~Reachable \/ MayRefuse) /\ UNCHANGED page
    /\ wasPaused' = TRUE
    /\ injected' = FALSE
    /\ pc' = "sleep"
    /\ UNCHANGED <<t, collapses, coop, clock, lastSeen>>
    /\ UNCHANGED <<ui, breaker, line, paused, boot, disk>>

\* A slip for GateOpen: standing down also moves the hot-swap watch on.
GateOpenMovesWatch ==
    /\ pc = "gate"
    /\ ~paused
    /\ wasPaused' = FALSE
    /\ IF ~DesktopUi /\ ~t.gamepad
       THEN injected' = FALSE /\ pc' = "sleep" /\ lastSeen' = Mtime(disk)
       ELSE pc' = "probe" /\ UNCHANGED <<injected, lastSeen>>
    /\ UNCHANGED <<t, collapses, coop, clock>>
    /\ UNCHANGED <<rendererVars, paused, boot, disk>>

\* Off the gamepad UI the loop stands down unless desktop_ui is on.
GateOpen ==
    /\ pc = "gate"
    /\ ~paused
    /\ wasPaused' = FALSE
    /\ IF ~DesktopUi /\ ~t.gamepad
       THEN injected' = FALSE /\ pc' = "sleep"
       ELSE pc' = "probe" /\ UNCHANGED injected
    /\ UNCHANGED <<t, collapses, coop, clock, lastSeen>>
    /\ UNCHANGED <<rendererVars, paused, boot, disk>>

------------------------------------------------------------------------------
(* tick: one action per DevTools round trip. *)

TickKeeps == UNCHANGED <<collapses, coop, wasPaused, lastSeen, injected,
                         paused, boot, disk, ui, breaker>>

Finish(result) ==
    /\ t' = [t EXCEPT !.result = result]
    /\ pc' = "tally"

\* connect_renderer, then probe_injected: the marker says the bundle is running.
ProbeMarker ==
    /\ pc = "probe"
    /\ Reachable
    /\ line' = TRUE
    /\ IF page.marker
       THEN Finish("active") /\ clock' = NoClock
       ELSE pc' = "owner" /\ UNCHANGED <<t, clock>>
    /\ UNCHANGED page
    /\ TickKeeps

ProbeOwner ==
    /\ pc = "owner"
    /\ line
    /\ t' = [t EXCEPT !.owner = page.owner]
    /\ pc' = "loader"
    /\ UNCHANGED <<page, line, clock>>
    /\ TickKeeps

\* Another host owns the renderer, or force is on and its loader is present:
\* coexist, or stand down when neither the tab nor the host is wanted there.
\* probe_coop_churn reads any stored breaker value; its failure reads as quiet.
ChooseCoexist ==
    LET cooperative == TickForce /\ LoaderSeenByDaemon(page) IN
    /\ pc = "loader"
    /\ line
    /\ IsForeign(t.owner) \/ cooperative
    /\ clock' = NoClock
    /\ \E heard \in (IF MayRefuse THEN BOOLEAN ELSE {TRUE}) :
        LET seen == [t EXCEPT !.coop = cooperative, !.coexist = TRUE,
                              !.churn = cooperative /\ heard /\ breaker # "clear"]
        IN  IF ~NativeQam /\ ~cooperative
            THEN t' = [seen EXCEPT !.result = "stoodDown"] /\ pc' = "tally"
            ELSE t' = seen /\ pc' = "tab"
    /\ UNCHANGED <<page, line>>
    /\ TickKeeps

\* A slip for ChooseHost: every settling tick starts the settle clock again.
ChooseHostRestartsClock ==
    LET settles == t.owner = "" /\ ~TickForce /\ clock < Settle IN
    /\ pc = "loader"
    /\ line
    /\ ~IsForeign(t.owner)
    /\ ~(TickForce /\ LoaderSeenByDaemon(page))
    /\ IF settles
       THEN Finish("settling") /\ clock' = NoClock
       ELSE pc' = "stamp" /\ clock' = NoClock /\ UNCHANGED t
    /\ UNCHANGED <<page, line>>
    /\ TickKeeps

\* Nobody else is known here: host, once an unclaimed renderer has settled.
ChooseHost ==
    LET waited  == IF clock = NoClock THEN 0 ELSE clock
        settles == t.owner = "" /\ ~TickForce /\ waited < Settle
    IN
    /\ pc = "loader"
    /\ line
    /\ ~IsForeign(t.owner)
    /\ ~(TickForce /\ LoaderSeenByDaemon(page))
    /\ IF settles
       THEN Finish("settling") /\ clock' = waited
       ELSE pc' = "stamp" /\ clock' = NoClock /\ UNCHANGED t
    /\ UNCHANGED <<page, line>>
    /\ TickKeeps

\* A slip for ProbeTab: any claim on the page passes for our tab.
ProbeTabByClaim ==
    /\ pc = "tab"
    /\ line
    /\ IF page.owner # "" THEN Finish("coexistTab")
       ELSE pc' = "stamp" /\ UNCHANGED t
    /\ UNCHANGED <<page, line, clock>>
    /\ TickKeeps

\* probe_coexist_tab: our tab is there already, or the runtime is still to go in.
ProbeTab ==
    /\ pc = "tab"
    /\ line
    /\ IF page.tab THEN Finish("coexistTab")
       ELSE pc' = "stamp" /\ UNCHANGED t
    /\ UNCHANGED <<page, line, clock>>
    /\ TickKeeps

\* A stamp is an evaluate of its own, and its failure is only logged.
Stamped(stamp) ==
    \/ line /\ page' = stamp
    \/ (~line \/ MayRefuse) /\ UNCHANGED page

\* stamp_force_owner.
StampForce ==
    LET force == IF t.coexist THEN t.coop ELSE TickForce
    IN
    /\ pc = "stamp"
    /\ IF force THEN Stamped([page EXCEPT !.force = TRUE]) ELSE UNCHANGED page
    /\ pc' = "native"
    /\ UNCHANGED <<t, line, clock>>
    /\ TickKeeps

\* stamp_native_qam.
StampNative ==
    /\ pc = "native"
    /\ IF NativeQam THEN Stamped([page EXCEPT !.native = TRUE]) ELSE UNCHANGED page
    /\ pc' = IF t.coexist THEN "runtime" ELSE "read"
    /\ UNCHANGED <<t, line, clock>>
    /\ TickKeeps

\* read_bundle, before the runtime is evaluated.
ReadBundle ==
    /\ pc = "read"
    /\ IF disk.body = "missing" THEN Finish("err")
       ELSE t' = [t EXCEPT !.source = disk] /\ pc' = "runtime"
    /\ UNCHANGED <<page, line, clock>>
    /\ TickKeeps

\* inject_host_runtime swallows every failure; the coexist path ends here, and an
\* empty bundle is never injected.
InjectRuntime ==
    /\ pc = "runtime"
    /\ \/ line /\ page' = EvalRuntime(page, boot)
       \/ (~line \/ MayRefuse) /\ UNCHANGED page
    /\ IF t.coexist THEN Finish("coexistTab")
       ELSE IF t.source.body = "empty" THEN Finish("notConfirmed")
       ELSE pc' = "bundle" /\ UNCHANGED t
    /\ UNCHANGED <<line, clock>>
    /\ TickKeeps

\* inject_bundle, first evaluate: the bundle; the reply may be lost.
InjectBundle ==
    /\ pc = "bundle"
    /\ line
    /\ page' = EvalBundle(page, t.source.version)
    /\ \/ pc' = "marker" /\ UNCHANGED t
       \/ "lost" \in Faults /\ Finish("err")
    /\ UNCHANGED <<line, clock>>
    /\ TickKeeps

\* inject_bundle, second evaluate: the marker.
StampMarker ==
    /\ pc = "marker"
    /\ line
    /\ page' = [page EXCEPT !.marker = TRUE]
    /\ \/ pc' = "confirm" /\ UNCHANGED t
       \/ "lost" \in Faults /\ Finish("err")
    /\ UNCHANGED <<line, clock>>
    /\ TickKeeps

ConfirmMarker ==
    /\ pc = "confirm"
    /\ line
    /\ Finish(IF page.marker THEN "active" ELSE "notConfirmed")
    /\ UNCHANGED <<page, line, clock>>
    /\ TickKeeps

\* A `?` of the tick: the connection is refused or gone; empty_since is kept.
TickFails ==
    /\ \/ pc = "probe" /\ (~Reachable \/ MayRefuse)
       \/ pc \in {"owner", "loader", "tab", "bundle", "marker", "confirm"}
          /\ (~line \/ MayRefuse)
    /\ Finish("err")
    /\ UNCHANGED <<page, line, clock>>
    /\ TickKeeps

------------------------------------------------------------------------------
(* The tail of an iteration. *)

Hosting == t.result = "active"

\* A slip for Tally: a settled tick clears the streak, churning or not.
TallyForgives ==
    LET settled     == t.result \in {"active", "coexistTab"}
        quiet       == IF settled THEN SettledOk(coop) ELSE coop
        cooperative == ForceOwner /\ ~quiet.receded /\ t.result = "coexistTab"
    IN
    /\ pc = "tally"
    /\ coop' = IF cooperative /\ t.churn THEN Strike(quiet) ELSE quiet
    /\ injected' = Hosting
    /\ line' = FALSE
    /\ pc' = "swap"
    /\ UNCHANGED <<t, collapses, clock, wasPaused, lastSeen>>
    /\ UNCHANGED <<ui, page, breaker, paused, boot, disk>>

\* Feed the outcome to the safe mode and publish the injected flag.
Tally ==
    LET settled     == t.result \in {"active", "coexistTab"}
        quiet       == IF settled /\ ~t.churn THEN SettledOk(coop) ELSE coop
        cooperative == ForceOwner /\ ~quiet.receded /\ t.result = "coexistTab"
    IN
    /\ pc = "tally"
    /\ coop' = IF cooperative /\ t.churn THEN Strike(quiet) ELSE quiet
    /\ injected' = Hosting
    /\ line' = FALSE
    /\ pc' = "swap"
    /\ UNCHANGED <<t, collapses, clock, wasPaused, lastSeen>>
    /\ UNCHANGED <<ui, page, breaker, paused, boot, disk>>

\* The hot-swap watch: a bundle that changed on disk under a hosted page is
\* re-injected in place by tearing the old one down and dropping the marker.
SwapWatch ==
    LET now     == Mtime(disk)
        changed == disk.body # "missing" /\ now # lastSeen
    IN
    /\ pc = "swap"
    /\ lastSeen' = now
    /\ \/ /\ Hosting /\ changed /\ Reachable
          /\ page' = EvalTeardown(page)
          /\ \/ injected' = FALSE
             \/ "lost" \in Faults /\ UNCHANGED injected
       \/ /\ ~(Hosting /\ changed) \/ ~Reachable \/ MayRefuse
          /\ UNCHANGED <<page, injected>>
    /\ pc' = "sleep"
    /\ UNCHANGED <<t, collapses, coop, clock, wasPaused>>
    /\ UNCHANGED <<ui, breaker, line, paused, boot, disk>>

\* One poll interval passes, for the settle clock and for the page.
Sleep ==
    /\ pc = "sleep"
    /\ pc' = "discover"
    /\ t' = NoTick
    /\ clock' = IF clock \in 0..(Settle - 1) THEN clock + 1 ELSE clock
    /\ page' = [page EXCEPT !.age = IF @ < Settle /\ Reachable THEN @ + 1 ELSE @]
    /\ UNCHANGED <<collapses, coop, wasPaused, lastSeen, injected>>
    /\ UNCHANGED <<ui, breaker, line, paused, boot, disk>>

------------------------------------------------------------------------------
(* The rest of the program, as far as the loop sees it. *)

\* An RPC thread serves setHostingPaused.
SetHostingPaused ==
    /\ "pause" \in Events
    /\ paused' = ~paused
    /\ UNCHANGED <<rendererVars, daemonVars, boot, disk>>

\* An update or a deploy replaces the bundle file.
ReplaceBundle ==
    /\ "swap" \in Events
    /\ disk.version < MaxVersion
    /\ \E body \in {"empty", "real"} :
        disk' = [version |-> disk.version + 1, body |-> body]
    /\ UNCHANGED <<rendererVars, daemonVars, paused, boot>>

\* The service restarts, or crashes and is restarted, at any point of the loop;
\* the page is untouched.
DaemonRestarts ==
    /\ "crash" \in Events
    /\ boot < MaxBoot
    /\ boot' = boot + 1
    /\ pc' = "discover"
    /\ t' = NoTick
    /\ collapses' = 0
    /\ coop' = [strikes |-> 0, receded |-> FALSE]
    /\ clock' = NoClock
    /\ wasPaused' = FALSE
    /\ lastSeen' = Mtime(disk)
    /\ injected' = FALSE
    /\ paused' = FALSE
    /\ line' = FALSE
    /\ UNCHANGED <<ui, page, breaker, disk>>

Environment == RendererNext /\ UNCHANGED loopVars

TickStep ==
    \/ ProbeMarker \/ ProbeOwner \/ ChooseCoexist \/ ChooseHost \/ ProbeTab
    \/ StampForce \/ StampNative \/ ReadBundle \/ InjectRuntime
    \/ InjectBundle \/ StampMarker \/ ConfirmMarker \/ TickFails

LoopStep ==
    \/ DiscoverFails \/ DiscoverWindows \/ DiscoverCollapse
    \/ GatePaused \/ GateOpen
    \/ TickStep
    \/ Tally \/ SwapWatch \/ Sleep

Commands == SetHostingPaused \/ ReplaceBundle
==============================================================================
