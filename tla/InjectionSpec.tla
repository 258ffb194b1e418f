---------------------------- MODULE InjectionSpec ----------------------------
(***************************************************************************)
(* The specification of the injection loop in its environment, with the    *)
(* history its properties refer to, and those properties.                  *)
(***************************************************************************)
EXTENDS InjectionLoop

VARIABLES
    plainBorn,   \* history: the live page was born after this daemon receded
    recoveries   \* history: recovery commands since a window was last on screen

history == <<plainBorn, recoveries>>
vars == <<rendererVars, loopVars, history>>

\* Histories are capped where their properties stop telling values apart.
MaxRecoveries == 2

HistoryNext ==
    /\ plainBorn' = IF boot' # boot THEN FALSE
                    ELSE IF page' = FreshPage THEN coop'.receded
                    ELSE plainBorn
    /\ recoveries' = IF ui' \in Windows THEN 0
                     ELSE IF RecoveryRuns /\ recoveries < MaxRecoveries
                     THEN recoveries + 1 ELSE recoveries

Init ==
    /\ LoopInit
    /\ plainBorn = FALSE
    /\ recoveries = 0

Next ==
    /\ Environment \/ LoopStep \/ Commands \/ DaemonRestarts
    /\ HistoryNext

\* The loop thread never stops: every wait in it has a timeout.  The gate's
\* interval fires within its 600 polls.
Fairness ==
    /\ WF_vars(LoopStep /\ HistoryNext)
    /\ WF_vars(GateBoots /\ UNCHANGED loopVars /\ HistoryNext)

Spec == Init /\ [][Next]_vars /\ Fairness

TypeOK ==
    /\ LoopTypeOK
    /\ plainBorn \in BOOLEAN
    /\ recoveries \in 0..MaxRecoveries

------------------------------------------------------------------------------
(* Coexistence with another loader. *)

\* A claim the other loader made is never taken over: neither the runtime nor
\* the bundle path rewrites __DECK_SHELVES_OWNER__ once it reads "decky".
ForeignClaimStands ==
    [][page.owner = "decky" => page'.owner = "decky" \/ page' = FreshPage]_vars

\* The tick had already chosen to host when the claim arrived.
HostPathTaken ==
    /\ t.owner # page.owner
    /\ \/ pc = "loader"
       \/ pc \in {"stamp", "native", "read", "runtime", "bundle"} /\ ~t.coexist

\* Once a page is claimed by another host no later tick evaluates the bundle in it,
\* publishes the host there without force, or adds the tab when none is wanted:
\* only a tick that had passed its probes before the claim may still finish, and
\* only a gate that already waited may still boot its bundle.
ClaimShutsOut ==
    [][page.owner = "decky" /\ page' # FreshPage /\ ~HostPathTaken =>
        /\ page.gate = "idle" => page'.copies <= page.copies /\ page'.gate = "idle"
        /\ page'.host = page.host \/ ForceOwner
        /\ page'.tab = page.tab \/ NativeQam \/ ForceOwner]_vars

\* A tick that finds the other loader's Deck Shelves running, its claim read
\* fresh, never goes on to host the bundle itself.
NeverHostsOverRunningLoader ==
    [][pc = "loader" /\ page.loader = "booted" /\ t.owner = page.owner
        => ~(pc' = "stamp" /\ page' = page /\ ~t'.coexist)]_vars

\* Without force an unclaimed page is hosted only after it has been given the
\* whole settle time to be claimed by somebody else.
SettledBeforeHosting ==
    [][BundleIn(page') /\ ~BundleIn(page) /\ t.owner = "" /\ ~TickForce
        => page.age >= Settle]_vars

\* With native_qam on, a page the other loader keeps, and in which no marker says
\* that we host, does get our tab.
CoexistTabEventually ==
    <>[](/\ ui = "gamepad" /\ ~paused
         /\ page.loader = "booted" /\ ~page.marker) => <>[](page.tab)

------------------------------------------------------------------------------
(* Cooperative ownership and its safe mode. *)

\* Receding is final for the session: a page born afterwards is never stamped
\* with force and never gets a cooperative host.
PlainAfterRecede ==
    plainBorn => ~page.force /\ page.host # "coop"

\* A tripped breaker under lasting cooperation does stand force down.
ChurnRecedes ==
    <>[](/\ ui = "gamepad" /\ ~paused /\ breaker = "tripped"
         /\ page.loader = "booted" /\ ~page.marker)
        => <>(coop.receded)

------------------------------------------------------------------------------
(* Injection, hot swap, pause and recovery. *)

\* The daemon never leaves two instances of the bundle running in one page, unless a
\* hot swap or a second evaluation met a gate that still waited (MCGateTwice shows
\* what comes of that).
SingleCopy == ~page.crossed => page.copies <= 1

\* The marker is only written over a bundle that was evaluated in that page.
MarkerMeansBundle == page.marker => BundleIn(page)

\* A hosted page that runs an older bundle than the disk holds is still going
\* to be noticed: between iterations the watch has not consumed the change.
SwapStaysPending ==
    pc = "discover" /\ page.marker /\ BundleIn(page) /\ disk.body = "real"
        /\ page.version # disk.version
        => lastSeen # Mtime(disk)

\* Once Steam stays on the gamepad UI the hosted page ends up on the bundle the
\* disk holds, in one copy, and isInjected says so, in a page whose gate no hot swap
\* met while it waited.
HostedEventually ==
    <>[](ui = "gamepad" /\ ~paused /\ disk.body = "real" /\ ~page.crossed)
        => <>[](/\ page.marker /\ page.copies = 1 /\ injected
                /\ page.version = disk.version)

\* After the transition into pause the renderer carries no bundle of ours, nor
\* a gate that would boot one, and none is injected until the pause is lifted.
PausedPageIsClean == wasPaused => ~BundleIn(page)

\* A collapse of the Steam UI, however long, gets one recovery command.
OneRecoveryPerOutage == recoveries <= 1

\* The page that isInjected reports as hosted can call this daemon: the token
\* its runtime captured is the one this daemon process accepts.
HostedPageAuthenticates == injected /\ page.marker => page.token = boot
==============================================================================
