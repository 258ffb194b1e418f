---------------------------- MODULE SteamRenderer ----------------------------
(***************************************************************************)
(* The Steam CEF renderer as the daemon sees it over DevTools: which UI is *)
(* on screen, the globals of the JavaScript page (SharedJSContext), the    *)
(* localStorage breaker, and the other plugin loader that may share the    *)
(* page.  EvalRuntime and EvalBundle are what evaluating the two injected  *)
(* scripts does to the page; the actions are the environment's: Steam, the *)
(* user, the other loader and the page's own timers act on their own.      *)
(* BundleGate has the wrapper of the bundle in full; here it is one field. *)
(***************************************************************************)
EXTENDS Naturals

CONSTANTS
    LoaderInstalled,  \* another plugin loader runs on this machine
    Events,           \* what the environment may do, a subset of AllEvents
    Settle,           \* owner_settle_secs, in polls of the loop
    MaxVersion,       \* bound: bundle versions published on disk
    MaxBoot           \* bound: daemon restarts

AllEvents == {"restart", "reload", "collapse", "desktop", "breaker",
              "pause", "swap", "crash"}

ASSUME RendererAssumption ==
    /\ LoaderInstalled \in BOOLEAN
    /\ Events \subseteq AllEvents
    /\ Settle \in Nat
    /\ MaxVersion \in Nat \ {0}
    /\ MaxBoot \in Nat

VARIABLES
    ui,       \* what target discovery finds: "down", "collapsed", "desktop", "gamepad"
    page,     \* the globals of the live SharedJSContext page
    breaker,  \* localStorage 'ds-own-qam-tab-trip' (survives a page reload)
    line      \* the DevTools connection of the tick in progress is open

rendererVars == <<ui, page, breaker, line>>

\* Two copies already tell "one" from "several".
MaxCopies == 2

Screens == {"down", "collapsed", "desktop", "gamepad"}
Windows == {"desktop", "gamepad"}
Owners  == {"", "decky", "shelveshub"}

\* "early": only globals of the runtime's wider list are set (deckyHasLoaded);
\* "present": the daemon's list sees it too; "booted": its Deck Shelves runs;
\* "yielded": its Deck Shelves found the renderer claimed and stood down.
LoaderPhases == {"absent", "early", "present", "booted", "yielded"}

\* "waiting": the interval __biv names polls for the signal; "stray": so does one
\* that __biv no longer names, which nothing can clear.
Gates == {"idle", "waiting", "stray"}

Page == [marker  : BOOLEAN,                 \* __SHELVES_LOADER__.injected
         owner   : Owners,                  \* __DECK_SHELVES_OWNER__
         host    : {"none", "sole", "coop"},\* __SHELVES_HOST__ and its mode
         tab     : BOOLEAN,                 \* __SHELVES_QAM__
         force   : BOOLEAN,                 \* __SHELVES_FORCE_OWNER__
         native  : BOOLEAN,                 \* __SHELVES_NATIVE_QAM__
         token   : 0..MaxBoot,              \* RPC_TOKEN the runtime captured
         ready   : BOOLEAN,                 \* __SHELVES_UI_READY__
         gate    : Gates,                   \* intervals of the bundle's gate
         copies  : 0..MaxCopies,            \* live bundle instances the daemon evaluated
         version : 0..MaxVersion,           \* what __shelvesBootBundle boots
         crossed : BOOLEAN,                 \* (history) the gate was met again while waiting
         loader  : LoaderPhases,
         age     : 0..Settle]               \* polls since the page was born

FreshPage == [marker |-> FALSE, owner |-> "", host |-> "none", tab |-> FALSE,
              force |-> FALSE, native |-> FALSE, token |-> 0, ready |-> FALSE,
              gate |-> "idle", copies |-> 0, version |-> 0, crossed |-> FALSE,
              loader |-> "absent", age |-> 0]

\* A bundle of ours runs in the page, or is going to once its gate opens.
BundleIn(p) == p.copies > 0 \/ p.gate # "idle"

RendererTypeOK ==
    /\ ui \in Screens
    /\ page \in Page
    /\ breaker \in {"clear", "armed", "tripped"}
    /\ line \in BOOLEAN

RendererInit ==
    /\ ui \in {"down", "gamepad"}
    /\ page = FreshPage
    /\ breaker = "clear"
    /\ line = FALSE

------------------------------------------------------------------------------
(* The injected scripts. *)

\* probe_loader_present: the daemon's list of loader globals.
LoaderSeenByDaemon(p) == p.loader \notin {"absent", "early"}

\* otherLoaderPresent: the runtime's wider list of the same loader's globals.
LoaderSeenByRuntime(p) == p.loader # "absent"

\* A slip for EvalRuntime: joining a claimed page writes our own claim over it.
EvalRuntimeOverwrites(p, boot) ==
    LET coexist == LoaderSeenByRuntime(p)
        coop    == coexist /\ p.force
        inert   == p.host # "none" \/ (coexist /\ ~p.native /\ ~coop)
    IN  IF inert THEN p
        ELSE IF coexist /\ ~coop
             THEN [p EXCEPT !.tab = TRUE, !.token = boot, !.owner = "shelveshub"]
             ELSE [p EXCEPT !.tab = TRUE, !.token = boot,
                            !.host = IF coop THEN "coop" ELSE "sole",
                            !.owner = "shelveshub"]

\* The runtime returns at once when a host is published, stays inert under a
\* loader that it is asked neither to join nor to force, adds only the tab when
\* it coexists, and publishes the host when it is alone or forced.
EvalRuntime(p, boot) ==
    LET coexist == LoaderSeenByRuntime(p)
        coop    == coexist /\ p.force
        inert   == p.host # "none" \/ (coexist /\ ~p.native /\ ~coop)
        claimed == p.owner # ""
    IN  IF inert THEN p
        ELSE IF coexist /\ ~coop
             THEN [p EXCEPT !.tab = TRUE, !.token = boot,
                            !.owner = IF claimed THEN @ ELSE "decky"]
             ELSE [p EXCEPT !.tab = TRUE, !.token = boot,
                            !.host = IF coop THEN "coop" ELSE "sole",
                            !.owner = IF coop /\ claimed THEN @ ELSE "shelveshub"]

\* One more instance of the bundle runs.
OneMoreCopy(copies) == IF copies < MaxCopies THEN copies + 1 ELSE copies

\* The gated bundle: it boots at once under the signal, else an interval waits for
\* it.  A second evaluation takes the names __biv and __shelvesBootBundle over.
EvalBundle(p, version) ==
    [p EXCEPT !.version = version,
              !.copies  = IF p.ready THEN OneMoreCopy(@) ELSE @,
              !.gate    = IF p.ready THEN @
                          ELSE IF @ = "idle" THEN "waiting" ELSE "stray",
              !.crossed = @ \/ p.gate # "idle"]

\* A slip for EvalTeardown: the marker goes, the unmount handlers are not run.
EvalTeardownMarkerOnly(p) == [p EXCEPT !.marker = FALSE]

\* A slip for EvalTeardown: the handlers run but the marker stays.
EvalTeardownKeepsMarker(p) ==
    [p EXCEPT !.copies = IF p.host = "none" THEN @ ELSE 0,
              !.crossed = @ \/ p.gate # "idle"]

\* soft_reinject: run the published host's unmount handlers, drop the marker.
\* Without a published host there is no lifecycle to tear down; a gate that still
\* waits is not stopped either way.
EvalTeardown(p) ==
    [p EXCEPT !.marker = FALSE,
              !.copies = IF p.host = "none" THEN @ ELSE 0,
              !.crossed = @ \/ p.gate # "idle"]

------------------------------------------------------------------------------
(* Steam and the user. *)

\* Steam exits or restarts: the page is gone and so is the tick's connection.
SteamStops ==
    /\ "restart" \in Events
    /\ ui # "down"
    /\ ui' = "down"
    /\ page' = FreshPage
    /\ line' = FALSE
    /\ UNCHANGED breaker

\* SharedJSContext is up before the first window is.
SteamStarts ==
    /\ ui = "down"
    /\ ui' = "collapsed"
    /\ UNCHANGED <<page, breaker, line>>

WindowsOpen ==
    /\ ui = "collapsed"
    /\ ui' \in (IF "desktop" \in Events THEN Windows ELSE {"gamepad"})
    /\ UNCHANGED <<page, breaker, line>>

WindowsCollapse ==
    /\ "collapse" \in Events
    /\ ui \in Windows
    /\ ui' = "collapsed"
    /\ UNCHANGED <<page, breaker, line>>

SwitchDesktop ==
    /\ "desktop" \in Events
    /\ ui \in Windows
    /\ ui' \in Windows \ {ui}
    /\ UNCHANGED <<page, breaker, line>>

\* The page navigates (Steam or the loader reloads it): its globals are gone but
\* the target, and with it the DevTools connection, stays.
PageReloads ==
    /\ "reload" \in Events
    /\ ui # "down"
    /\ page # FreshPage
    /\ page' = FreshPage
    /\ UNCHANGED <<ui, breaker, line>>

------------------------------------------------------------------------------
(* The page's own timers. *)

\* The runtime that went in signals that host.ui is ready: beside a loader before
\* its evaluate returns, alone once its scan is done, without React never.
UiSignals ==
    /\ page.tab
    /\ ~page.ready
    /\ page' = [page EXCEPT !.ready = TRUE]
    /\ UNCHANGED <<ui, breaker, line>>

\* An interval of the gate sees the signal, or has polled 600 times without it: it
\* clears the one __biv names and boots what __shelvesBootBundle is by now.
GateBoots ==
    /\ page.gate # "idle"
    /\ page' = [page EXCEPT !.copies = OneMoreCopy(@),
                            !.gate = IF @ = "waiting" THEN "idle" ELSE @]
    /\ UNCHANGED <<ui, breaker, line>>

------------------------------------------------------------------------------
(* The other loader, external code. *)

LoaderAppears ==
    /\ LoaderInstalled
    /\ ui # "down"
    /\ \/ page.loader = "absent" /\ page' = [page EXCEPT !.loader = "early"]
       \/ page.loader = "early"  /\ page' = [page EXCEPT !.loader = "present"]
    /\ UNCHANGED <<ui, breaker, line>>

\* The first adapter to mount claims the renderer; under a published cooperative
\* host the loader's Deck Shelves binds to it; under a sole host it stands down.
LoaderBoots ==
    /\ page.loader = "present"
    /\ page' =
        IF page.host = "sole"
        THEN [page EXCEPT !.loader = "yielded"]
        ELSE [page EXCEPT !.loader = "booted",
                          !.owner = IF @ # "" THEN @
                                    ELSE IF page.host = "none" THEN "decky"
                                    ELSE "shelveshub"]
    /\ UNCHANGED <<ui, breaker, line>>

\* The bundle's own-tab breaker: armed while a render is unconfirmed, cleared by
\* a healthy insert, tripped when armed renders keep dying.
BreakerMoves ==
    /\ "breaker" \in Events
    /\ ui # "down"
    /\ \/ breaker = "clear" /\ breaker' = "armed"
       \/ breaker = "armed" /\ breaker' \in {"clear", "tripped"}
    /\ UNCHANGED <<ui, page, line>>

RendererNext ==
    \/ SteamStops \/ SteamStarts
    \/ WindowsOpen \/ WindowsCollapse \/ SwitchDesktop
    \/ PageReloads
    \/ UiSignals \/ GateBoots
    \/ LoaderAppears \/ LoaderBoots
    \/ BreakerMoves
==============================================================================
