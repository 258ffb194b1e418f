--------------------------- MODULE InjectionProofs ---------------------------
(***************************************************************************)
(* Proofs about the injection loop for every configuration of the daemon,  *)
(* every behaviour of Steam, of the other loader and of DevTools that the  *)
(* model allows, and every value of the thresholds and of the bounds.      *)
(***************************************************************************)
EXTENDS InjectionSpec, TLAPS

USE RendererAssumption, LoopAssumption

------------------------------------------------------------------------------
(* What the injected scripts make of a page. *)

\* The runtime stays out, adds the tab, or publishes the host too.
RuntimeForm(p, b, q) ==
    \/ q = p
    \/ \E o \in Owners : q = [p EXCEPT !.tab = TRUE, !.token = b, !.owner = o]
    \/ \E h \in {"sole", "coop"}, o \in Owners :
          q = [p EXCEPT !.tab = TRUE, !.token = b, !.host = h, !.owner = o]

\* Whoever is in it, the page the runtime leaves has one of those forms.
LEMMA RuntimeForms ==
    ASSUME NEW p \in Page, NEW b, NEW q, q = EvalRuntime(p, b)
    PROVE  RuntimeForm(p, b, q)
<1> DEFINE beside == LoaderSeenByRuntime(p)
           forced == beside /\ p.force
           inert == p.host # "none" \/ (beside /\ ~p.native /\ ~forced)
           joined == IF p.owner # "" THEN p.owner ELSE "decky"
           made == IF forced THEN "coop" ELSE "sole"
           claim == IF forced /\ p.owner # "" THEN p.owner ELSE "shelveshub"
           tabbed == [p EXCEPT !.tab = TRUE, !.token = b, !.owner = joined]
           hosted == [p EXCEPT !.tab = TRUE, !.token = b, !.host = made, !.owner = claim]
<1>1. q = IF inert THEN p ELSE IF beside /\ ~forced THEN tabbed ELSE hosted
  BY DEF EvalRuntime
<1>2. joined \in Owners /\ claim \in Owners /\ made \in {"sole", "coop"}
  BY DEF Page, Owners
<1> HIDE DEF beside, forced, inert, joined, made, claim
<1>3. q \in {p, tabbed, hosted}
  BY <1>1, Zenon
<1> QED
  BY <1>2, <1>3, Zenon DEF RuntimeForm

\* What the runtime leaves of page p in page q.
SameBut(p, q) ==
    /\ q \in Page
    /\ q.marker = p.marker /\ q.force = p.force /\ q.native = p.native
    /\ q.ready = p.ready /\ q.gate = p.gate /\ q.copies = p.copies
    /\ q.version = p.version /\ q.crossed = p.crossed
    /\ q.loader = p.loader /\ q.age = p.age
    /\ p.host # "none" => q.host # "none"

\* Evaluating the runtime leaves a page, whoever is in it, and changes nothing of it
\* but the tab, its token, the host and the claim.
LEMMA RuntimeType ==
    ASSUME NEW p \in Page, NEW b \in 0..MaxBoot
    PROVE  SameBut(p, EvalRuntime(p, b))
<1>1. SameBut(p, p)
  BY DEF SameBut
<1>2. ASSUME NEW o \in Owners, NEW q,
             q = [p EXCEPT !.tab = TRUE, !.token = b, !.owner = o]
      PROVE  SameBut(p, q)
  BY <1>2 DEF SameBut, Page
<1>3. ASSUME NEW o \in Owners, NEW h \in {"sole", "coop"}, NEW q,
             q = [p EXCEPT !.tab = TRUE, !.token = b, !.host = h, !.owner = o]
      PROVE  SameBut(p, q)
  BY <1>3 DEF SameBut, Page
<1>4. PICK q : q = EvalRuntime(p, b)
  OBVIOUS
<1>5. RuntimeForm(p, b, q)
  BY <1>4, RuntimeForms
<1>6. SameBut(p, q)
  BY <1>1, <1>2, <1>3, <1>5 DEF RuntimeForm
<1> QED
  BY <1>4, <1>6

\* Evaluating the bundle leaves a page; the count of copies saturates.
LEMMA BundleType ==
    ASSUME NEW p \in Page, NEW v \in 0..MaxVersion
    PROVE  EvalBundle(p, v) \in Page
<1> DEFINE n == IF p.ready THEN OneMoreCopy(p.copies) ELSE p.copies
           g == IF p.ready THEN p.gate ELSE IF p.gate = "idle" THEN "waiting" ELSE "stray"
           c == p.crossed \/ p.gate # "idle"
<1>1. n \in 0..MaxCopies /\ g \in Gates /\ c \in BOOLEAN
  BY DEF Page, MaxCopies, OneMoreCopy, Gates
<1>2. EvalBundle(p, v) = [p EXCEPT !.version = v, !.copies = n, !.gate = g, !.crossed = c]
  BY DEF EvalBundle
<1> HIDE DEF n, g, c
<1>3. [p EXCEPT !.version = v, !.copies = n] \in Page
  BY <1>1 DEF Page
<1>4. \A q \in Page : [q EXCEPT !.gate = g, !.crossed = c] \in Page
  BY <1>1 DEF Page
<1>5. EvalBundle(p, v)
        = [[p EXCEPT !.version = v, !.copies = n] EXCEPT !.gate = g, !.crossed = c]
  BY <1>2, Zenon
<1> QED
  BY <1>3, <1>4, <1>5, Zenon

\* Tearing the bundle down leaves a page.
LEMMA TeardownType ==
    ASSUME NEW p \in Page
    PROVE  EvalTeardown(p) \in Page
<1> DEFINE n == IF p.host = "none" THEN p.copies ELSE 0
           c == p.crossed \/ p.gate # "idle"
<1>1. n \in 0..MaxCopies /\ c \in BOOLEAN
  BY DEF Page, MaxCopies
<1>2. EvalTeardown(p) = [p EXCEPT !.marker = FALSE, !.copies = n, !.crossed = c]
  BY DEF EvalTeardown
<1> HIDE DEF n, c
<1>3. [p EXCEPT !.marker = FALSE, !.copies = n] \in Page
  BY <1>1 DEF Page
<1>4. \A q \in Page : [q EXCEPT !.crossed = c] \in Page
  BY <1>1 DEF Page
<1>5. EvalTeardown(p) = [[p EXCEPT !.marker = FALSE, !.copies = n] EXCEPT !.crossed = c]
  BY <1>2, Zenon
<1> QED
  BY <1>3, <1>4, <1>5, Zenon

\* A page just born, and the locals of a tick not yet begun, have their types.
LEMMA FreshType == FreshPage \in Page /\ NoTick \in Tick
<1>1. FreshPage \in Page
  BY DEF FreshPage, Page, Owners, MaxCopies, LoaderPhases, Gates
<1>2. NoTick \in Tick
  BY DEF NoTick, Tick, NoBundle, Bundle, Owners, Results
<1> QED
  BY <1>1, <1>2

\* The loader's boot leaves a page.
LEMMA LoaderBootsType ==
    ASSUME page \in Page, LoaderBoots
    PROVE  page' \in Page
BY DEF LoaderBoots, Page, LoaderPhases, Owners

\* The page's own timers leave a page.
LEMMA TimersType ==
    ASSUME page \in Page, UiSignals \/ GateBoots
    PROVE  page' \in Page
<1>1. CASE UiSignals
  BY <1>1 DEF UiSignals, Page
<1>2. CASE GateBoots
  <2> DEFINE n == OneMoreCopy(page.copies)
             g == IF page.gate = "waiting" THEN "idle" ELSE page.gate
  <2>1. n \in 0..MaxCopies /\ g \in Gates
    BY DEF Page, MaxCopies, OneMoreCopy, Gates
  <2>2. page' = [page EXCEPT !.copies = n, !.gate = g]
    BY <1>2 DEF GateBoots
  <2> HIDE DEF n, g
  <2> QED
    BY <2>1, <2>2 DEF Page
<1> QED
  BY <1>1, <1>2

\* CoopSafety keeps its streak within the threshold.
LEMMA StrikeType ==
    ASSUME NEW c \in [strikes: 0..RecedeStrikes, receded: BOOLEAN],
           c.receded \/ c.strikes < RecedeStrikes
    PROVE  /\ Strike(c) \in [strikes: 0..RecedeStrikes, receded: BOOLEAN]
           /\ Strike(c).receded \/ Strike(c).strikes < RecedeStrikes
BY DEF Strike

\* A healthy tick only shortens the streak.
LEMMA SettledType ==
    ASSUME NEW c \in [strikes: 0..RecedeStrikes, receded: BOOLEAN],
           c.receded \/ c.strikes < RecedeStrikes
    PROVE  /\ SettledOk(c) \in [strikes: 0..RecedeStrikes, receded: BOOLEAN]
           /\ SettledOk(c).receded \/ SettledOk(c).strikes < RecedeStrikes
BY DEF SettledOk

\* A modification time is a version number, or 0.
LEMMA MtimeType ==
    ASSUME NEW b \in Bundle
    PROVE  Mtime(b) \in 0..MaxVersion
BY DEF Mtime, Bundle

------------------------------------------------------------------------------
(* Types. *)

Flags == wasPaused \in BOOLEAN /\ injected \in BOOLEAN /\ paused \in BOOLEAN
Numbers ==
    /\ collapses \in 0..(CollapseHalt + 1)
    /\ coop \in [strikes: 0..RecedeStrikes, receded: BOOLEAN]
    /\ clock \in {NoClock} \cup 0..Settle
    /\ lastSeen \in 0..MaxVersion
    /\ boot \in 0..MaxBoot

\* A streak at the threshold has already receded; without this the bound on the
\* strikes is not inductive.
StreakOK == coop.receded \/ coop.strikes < RecedeStrikes

\* Steam, the user and the other loader keep the renderer in its type.
LEMMA EnvironmentTyped ==
    ASSUME LoopTypeOK, Environment
    PROVE  LoopTypeOK'
<1>1. RendererTypeOK'
  <2>1. CASE SteamStops
    BY <2>1, FreshType, Zenon DEF LoopTypeOK, RendererTypeOK, SteamStops, Screens
  <2>2. CASE SteamStarts \/ WindowsCollapse
    BY <2>2 DEF LoopTypeOK, RendererTypeOK, SteamStarts, WindowsCollapse, Screens
  <2>3. CASE WindowsOpen \/ SwitchDesktop
    BY <2>3 DEF LoopTypeOK, RendererTypeOK, WindowsOpen, SwitchDesktop, Screens, Windows
  <2>4. CASE PageReloads
    BY <2>4, FreshType DEF LoopTypeOK, RendererTypeOK, PageReloads
  <2>5. CASE LoaderAppears \/ LoaderBoots
    <3>1. LoaderAppears => page' \in Page
      BY DEF LoopTypeOK, RendererTypeOK, LoaderAppears, Page, LoaderPhases
    <3>0. page \in Page
      BY DEF LoopTypeOK, RendererTypeOK
    <3>2. LoaderBoots => page' \in Page
      BY <3>0, LoaderBootsType
    <3> QED
      BY <2>5, <3>1, <3>2 DEF LoopTypeOK, RendererTypeOK, LoaderAppears, LoaderBoots
  <2>6. CASE BreakerMoves
    BY <2>6 DEF LoopTypeOK, RendererTypeOK, BreakerMoves
  <2>7. CASE UiSignals \/ GateBoots
    BY <2>7, TimersType, Zenon DEF LoopTypeOK, RendererTypeOK, UiSignals, GateBoots
  <2> QED
    BY <2>1, <2>2, <2>3, <2>4, <2>5, <2>6, <2>7 DEF Environment, RendererNext
<1>2. UNCHANGED loopVars
  BY DEF Environment
<1> QED
  BY <1>1, <1>2 DEF LoopTypeOK, loopVars, daemonVars

\* What no step of a tick touches.
LEMMA TickFrame == TickStep => TickKeeps
BY DEF TickStep, ProbeMarker, ProbeOwner, ChooseCoexist, ChooseHost, ProbeTab,
     StampForce, StampNative, Stamped,
       ReadBundle, InjectRuntime, InjectBundle, StampMarker, ConfirmMarker, TickFails

\* The locals of the tick keep their type.
LEMMA TickLocals ==
    ASSUME LoopTypeOK, TickStep
    PROVE  t' \in Tick
<1>1. CASE ProbeMarker \/ ProbeTab \/ StampForce \/ StampNative \/ InjectRuntime \/ InjectBundle
           \/ StampMarker \/ ConfirmMarker \/ TickFails \/ ChooseHost
  <2>1. UNCHANGED t \/ \E r \in Results : Finish(r)
    BY <1>1 DEF ProbeMarker, ProbeTab, StampForce, StampNative, Stamped, InjectRuntime,
       InjectBundle,
                StampMarker, ConfirmMarker, TickFails, ChooseHost, Results
  <2> QED
    BY <2>1 DEF LoopTypeOK, Finish, Tick
<1>2. CASE ProbeOwner
  BY <1>2 DEF LoopTypeOK, RendererTypeOK, ProbeOwner, Tick, Page
<1>3. CASE ChooseCoexist
  <2> DEFINE cooperative == TickForce /\ LoaderSeenByDaemon(page)
             quiet(heard) == cooperative /\ heard /\ breaker # "clear"
             seen(heard) == [t EXCEPT !.coop = cooperative, !.coexist = TRUE,
                                      !.churn = quiet(heard)]
  <2>1. PICK heard \in BOOLEAN : t' = seen(heard) \/ t' = [seen(heard) EXCEPT !.result = "stoodDown"]
    BY <1>3, Zenon DEF ChooseCoexist
  <2>2. cooperative \in BOOLEAN /\ quiet(heard) \in BOOLEAN
    OBVIOUS
  <2> HIDE DEF cooperative, quiet
  <2>3. seen(heard) \in Tick
    BY <2>2 DEF LoopTypeOK, Tick
  <2> QED
    BY <2>1, <2>3 DEF Tick, Results
<1>4. CASE ReadBundle
  BY <1>4 DEF LoopTypeOK, ReadBundle, Finish, Tick, Results
<1> QED
  BY <1>1, <1>2, <1>3, <1>4 DEF TickStep

\* Each round trip of a tick leaves a page.
LEMMA TickPage ==
    ASSUME LoopTypeOK, TickStep
    PROVE  page' \in Page
<1>1. CASE StampForce \/ StampNative
  <2>1. page \in Page
    BY DEF LoopTypeOK, RendererTypeOK
  <2>2. [page EXCEPT !.force = TRUE] \in Page /\ [page EXCEPT !.native = TRUE] \in Page
    BY <2>1 DEF Page
  <2>3. page' \in {page, [page EXCEPT !.force = TRUE], [page EXCEPT !.native = TRUE]}
    BY <1>1, Zenon DEF StampForce, StampNative, Stamped
  <2> QED
    BY <2>1, <2>2, <2>3, Zenon
<1>5. CASE StampMarker
  BY <1>5 DEF LoopTypeOK, RendererTypeOK, StampMarker, Page
<1>2. CASE InjectRuntime
  BY <1>2, RuntimeType DEF SameBut, LoopTypeOK, RendererTypeOK, InjectRuntime
<1>3. CASE InjectBundle
  BY <1>3, BundleType DEF LoopTypeOK, RendererTypeOK, InjectBundle, Tick, Bundle
<1>4. CASE ProbeMarker \/ ProbeOwner \/ ChooseCoexist \/ ChooseHost \/ ProbeTab
           \/ ReadBundle \/ ConfirmMarker \/ TickFails
  BY <1>4 DEF LoopTypeOK, RendererTypeOK, ProbeMarker, ProbeOwner, ChooseCoexist,
              ChooseHost, ProbeTab, ReadBundle, ConfirmMarker, TickFails
<1> QED
  BY <1>1, <1>2, <1>3, <1>4, <1>5 DEF TickStep

\* A tick keeps every type.
LEMMA TickTyped ==
    ASSUME LoopTypeOK, TickStep
    PROVE  LoopTypeOK'
<1>1. line' \in BOOLEAN
  BY Zenon DEF LoopTypeOK, RendererTypeOK, TickStep, ProbeMarker, ProbeOwner, ChooseCoexist,
       ChooseHost, ProbeTab, StampForce, StampNative, Stamped, ReadBundle, InjectRuntime,
       InjectBundle, StampMarker,
       ConfirmMarker, TickFails
<1>2. pc' \in Steps
  BY DEF TickStep, ProbeMarker, ProbeOwner, ChooseCoexist,
       ChooseHost, ProbeTab, StampForce, StampNative, Stamped, ReadBundle, InjectRuntime,
       InjectBundle, StampMarker,
       ConfirmMarker, TickFails, Finish, Steps
<1>3. clock' \in {NoClock} \cup 0..Settle
  <2>1. CASE ChooseHost
    <3>1. clock' \in {IF clock = NoClock THEN 0 ELSE clock, NoClock}
      BY <2>1 DEF ChooseHost
    <3> QED
      BY <3>1 DEF LoopTypeOK
  <2>2. clock' \in {clock, NoClock} \/ ChooseHost
    BY DEF TickStep, ProbeMarker, ProbeOwner, ChooseCoexist, ProbeTab, StampForce,
       StampNative, Stamped,
       ReadBundle, InjectRuntime, InjectBundle, StampMarker, ConfirmMarker, TickFails
  <2> QED
    BY <2>1, <2>2 DEF LoopTypeOK
<1>4. RendererTypeOK'
  BY <1>1, TickFrame, TickPage DEF LoopTypeOK, RendererTypeOK, TickKeeps
<1>5. Flags' /\ Numbers' /\ disk' \in Bundle
  BY <1>3, TickFrame DEF LoopTypeOK, Flags, Numbers, TickKeeps
<1> QED
  BY <1>2, <1>4, <1>5, TickLocals DEF LoopTypeOK, Flags, Numbers

\* The head of an iteration keeps every type.
LEMMA HeadTyped ==
    ASSUME LoopTypeOK, StreakOK,
           DiscoverFails \/ DiscoverWindows \/ DiscoverCollapse \/ GatePaused \/ GateOpen
    PROVE  LoopTypeOK'
<1>1. RendererTypeOK'
  BY FreshType DEF LoopTypeOK, RendererTypeOK, rendererVars, DiscoverFails,
     DiscoverWindows, DiscoverCollapse, GatePaused, GateOpen
<1>2. Flags'
  BY Zenon DEF LoopTypeOK, Flags, DiscoverFails, DiscoverWindows, DiscoverCollapse,
     GatePaused, GateOpen
<1>3. pc' \in Steps
  BY DEF Steps, DiscoverFails, DiscoverWindows, DiscoverCollapse, GatePaused, GateOpen
<1>4. t' \in Tick
  <2>1. UNCHANGED t \/ t' = [t EXCEPT !.gamepad = (ui = "gamepad")]
    BY DEF DiscoverFails, DiscoverWindows, DiscoverCollapse, GatePaused, GateOpen
  <2> QED
    BY <2>1 DEF LoopTypeOK, Tick
<1>5. collapses' \in 0..(CollapseHalt + 1)
  BY DEF LoopTypeOK, DiscoverFails, DiscoverWindows, DiscoverCollapse, GatePaused, GateOpen
<1>6. coop' \in [strikes: 0..RecedeStrikes, receded: BOOLEAN]
  <2>1. coop' \in {coop, Strike(coop)}
    BY DEF DiscoverFails, DiscoverWindows, DiscoverCollapse, GatePaused, GateOpen
  <2> QED
    BY <2>1, StrikeType DEF LoopTypeOK, StreakOK
<1>7. UNCHANGED <<clock, lastSeen, boot, disk>>
  BY DEF DiscoverFails, DiscoverWindows, DiscoverCollapse, GatePaused, GateOpen
<1> QED
  BY <1>1, <1>2, <1>3, <1>4, <1>5, <1>6, <1>7 DEF LoopTypeOK, Flags

\* The tail of an iteration keeps every type.
LEMMA TailTyped ==
    ASSUME LoopTypeOK, StreakOK, Tally \/ SwapWatch \/ Sleep
    PROVE  LoopTypeOK'
<1>1. page' \in Page
  <2>1. CASE Tally
    BY <2>1 DEF LoopTypeOK, RendererTypeOK, Tally
  <2>2. CASE SwapWatch
    BY <2>2, TeardownType DEF LoopTypeOK, RendererTypeOK, SwapWatch
  <2>3. CASE Sleep
    BY <2>3 DEF LoopTypeOK, RendererTypeOK, Sleep, Page
  <2> QED
    BY <2>1, <2>2, <2>3
<1>2. RendererTypeOK'
  BY <1>1 DEF LoopTypeOK, RendererTypeOK, Tally, SwapWatch, Sleep
<1>3. Flags'
  BY Zenon DEF LoopTypeOK, Flags, Tally, SwapWatch, Sleep, Hosting
<1>4. pc' \in Steps /\ t' \in Tick
  BY FreshType DEF LoopTypeOK, Tally, SwapWatch, Sleep, Steps
<1>5. coop' \in [strikes: 0..RecedeStrikes, receded: BOOLEAN]
  <2>1. coop' = coop \/ \E quiet \in {coop, SettledOk(coop)} : coop' \in {quiet, Strike(quiet)}
    BY DEF Tally, SwapWatch, Sleep
  <2> QED
    BY <2>1, StrikeType, SettledType DEF LoopTypeOK, StreakOK
<1>6. clock' \in {NoClock} \cup 0..Settle
  BY DEF LoopTypeOK, Tally, SwapWatch, Sleep
<1>7. lastSeen' \in 0..MaxVersion
  BY MtimeType DEF LoopTypeOK, Tally, SwapWatch, Sleep
<1>8. disk' \in Bundle /\ UNCHANGED <<collapses, boot>>
  BY DEF LoopTypeOK, Tally, SwapWatch, Sleep
<1> QED
  BY <1>2, <1>3, <1>4, <1>5, <1>6, <1>7, <1>8 DEF LoopTypeOK, Flags

\* The RPC command, a deploy and a restart of the daemon keep every type.
LEMMA CommandsTyped ==
    ASSUME LoopTypeOK, Commands \/ DaemonRestarts
    PROVE  LoopTypeOK'
<1>1. CASE SetHostingPaused
  <2>1. paused' \in BOOLEAN
    BY <1>1 DEF SetHostingPaused
  <2> QED
    BY <1>1, <2>1 DEF SetHostingPaused, LoopTypeOK, RendererTypeOK, rendererVars, daemonVars
<1>2. CASE ReplaceBundle
  <2>1. disk' \in Bundle
    BY <1>2 DEF LoopTypeOK, ReplaceBundle, Bundle
  <2> QED
    BY <1>2, <2>1 DEF ReplaceBundle, LoopTypeOK, RendererTypeOK, rendererVars, daemonVars
<1>3. CASE DaemonRestarts
  <2>1. RendererTypeOK' /\ Flags'
    BY <1>3, Zenon DEF LoopTypeOK, RendererTypeOK, Flags, DaemonRestarts
  <2>2. pc' \in Steps /\ t' \in Tick /\ disk' \in Bundle
    BY <1>3, FreshType DEF LoopTypeOK, DaemonRestarts, Steps
  <2>3. /\ collapses' \in 0..(CollapseHalt + 1) /\ boot' \in 0..MaxBoot
        /\ coop' \in [strikes: 0..RecedeStrikes, receded: BOOLEAN]
    BY <1>3 DEF LoopTypeOK, DaemonRestarts
  <2>4. clock' \in {NoClock} \cup 0..Settle /\ lastSeen' \in 0..MaxVersion
    BY <1>3, MtimeType DEF LoopTypeOK, DaemonRestarts
  <2> QED
    BY <2>1, <2>2, <2>3, <2>4 DEF LoopTypeOK, Flags
<1> QED
  BY <1>1, <1>2, <1>3 DEF Commands

\* The histories keep their types.
LEMMA HistoryTyped ==
    ASSUME TypeOK, LoopTypeOK', HistoryNext
    PROVE  TypeOK'
<1>1. plainBorn' \in BOOLEAN
  BY DEF TypeOK, LoopTypeOK, HistoryNext
<1>2. recoveries' \in 0..MaxRecoveries
  BY DEF TypeOK, HistoryNext, MaxRecoveries
<1> QED
  BY <1>1, <1>2 DEF TypeOK

\* The initial state is typed.
LEMMA InitTyped == Init => TypeOK
<1> SUFFICES ASSUME Init PROVE TypeOK
  OBVIOUS
<1>1. RendererTypeOK /\ Flags
  BY FreshType DEF Init, LoopInit, RendererInit, RendererTypeOK, Screens, Flags
<1>2. pc \in Steps /\ t \in Tick
  BY FreshType DEF Init, LoopInit, Steps
<1>3. disk \in Bundle
  BY DEF Init, LoopInit, NoBundle, Bundle
<1>4. lastSeen \in 0..MaxVersion
  BY <1>3, MtimeType DEF Init, LoopInit
<1>5. /\ collapses \in 0..(CollapseHalt + 1) /\ boot \in 0..MaxBoot
      /\ coop \in [strikes: 0..RecedeStrikes, receded: BOOLEAN]
      /\ clock \in {NoClock} \cup 0..Settle
  BY DEF Init, LoopInit
<1>6. recoveries \in 0..MaxRecoveries
  BY DEF Init, MaxRecoveries
<1>7. plainBorn \in BOOLEAN
  BY DEF Init
<1> QED
  BY <1>1, <1>2, <1>3, <1>4, <1>5, <1>6, <1>7 DEF TypeOK, LoopTypeOK, Flags

\* Every step keeps the types.
LEMMA NextTyped == TypeOK /\ StreakOK /\ [Next]_vars => TypeOK'
<1> SUFFICES ASSUME TypeOK, StreakOK, [Next]_vars PROVE TypeOK'
  OBVIOUS
<1>1. CASE Next
  <2>1. LoopTypeOK'
    BY <1>1, EnvironmentTyped, HeadTyped, TickTyped, TailTyped, CommandsTyped
       DEF TypeOK, Next, LoopStep
  <2> QED
    BY <1>1, <2>1, HistoryTyped DEF Next
<1>2. CASE UNCHANGED vars
  BY <1>2 DEF TypeOK, LoopTypeOK, RendererTypeOK, vars, rendererVars, loopVars,
              daemonVars, history
<1> QED
  BY <1>1, <1>2

------------------------------------------------------------------------------
(* The claim, force and the safe mode. *)

\* Only the other loader, or our runtime in its presence, claims for "decky".
ClaimedByLoader == page.owner = "decky" => page.loader # "absent"

\* The safe mode that had receded when the page was born is still receded.
RecededForGood == plainBorn => coop.receded

\* A tick that is going to stamp force does so on a verdict that still stands.
ForceVerdictStands ==
    t.coop => /\ t.coexist
              /\ \/ pc \in {"tab", "stamp", "native", "runtime"} /\ ~coop.receded
                 \/ pc \in {"tally", "swap", "sleep"}

Inv ==
    /\ TypeOK
    /\ StreakOK
    /\ ClaimedByLoader
    /\ RecededForGood
    /\ ForceVerdictStands
    /\ PlainAfterRecede

\* Who is in the page, as far as the claim, force and the host go.
SameStanding ==
    /\ page'.owner = page.owner /\ page'.loader = page.loader
    /\ page'.host = page.host /\ page'.force = page.force

\* The bundle says nothing of who is in the page.
LEMMA BundleKeeps ==
    ASSUME NEW p \in Page, NEW v
    PROVE  LET q == EvalBundle(p, v)
           IN  /\ q.owner = p.owner /\ q.loader = p.loader
               /\ q.host = p.host /\ q.force = p.force
<1> DEFINE n == IF p.ready THEN OneMoreCopy(p.copies) ELSE p.copies
           g == IF p.ready THEN p.gate ELSE IF p.gate = "idle" THEN "waiting" ELSE "stray"
           c == p.crossed \/ p.gate # "idle"
<1>1. EvalBundle(p, v) = [p EXCEPT !.version = v, !.copies = n, !.gate = g, !.crossed = c]
  BY DEF EvalBundle
<1> HIDE DEF n, g, c
<1> QED
  BY <1>1 DEF Page

\* Nor does tearing it down.
LEMMA TeardownKeeps ==
    ASSUME NEW p \in Page
    PROVE  LET q == EvalTeardown(p)
           IN  /\ q.owner = p.owner /\ q.loader = p.loader
               /\ q.host = p.host /\ q.force = p.force
<1> DEFINE n == IF p.host = "none" THEN p.copies ELSE 0
           c == p.crossed \/ p.gate # "idle"
<1>1. EvalTeardown(p) = [p EXCEPT !.marker = FALSE, !.copies = n, !.crossed = c]
  BY DEF EvalTeardown
<1> HIDE DEF n, c
<1> QED
  BY <1>1 DEF Page

\* The steps that change who is in the page.
LEMMA Standing ==
    ASSUME TypeOK, Next
    PROVE  \/ SameStanding
           \/ page' = FreshPage
           \/ LoaderAppears
           \/ LoaderBoots
           \/ StampForce
           \/ InjectRuntime /\ page' = EvalRuntime(page, boot)
<1>0. page \in Page
  BY DEF TypeOK, LoopTypeOK, RendererTypeOK
<1>1. CASE Environment
  <2>1. CASE UiSignals \/ GateBoots
    BY <1>0, <2>1 DEF UiSignals, GateBoots, SameStanding, Page
  <2> QED
    BY <1>1, <2>1 DEF Environment, RendererNext, SteamStops, SteamStarts, WindowsOpen,
              WindowsCollapse, SwitchDesktop, PageReloads, BreakerMoves, SameStanding
<1>8. CASE StampNative
  BY <1>0, <1>8 DEF StampNative, Stamped, SameStanding, Page
<1>2. CASE DiscoverFails \/ DiscoverWindows \/ DiscoverCollapse \/ GatePaused \/ GateOpen
  BY <1>2 DEF DiscoverFails, DiscoverWindows, DiscoverCollapse, GatePaused, GateOpen,
              rendererVars, SameStanding
<1>3. CASE InjectBundle
  BY <1>0, <1>3, BundleKeeps DEF InjectBundle, SameStanding
<1>9. CASE StampMarker
  BY <1>0, <1>9 DEF StampMarker, SameStanding, Page
<1>4. CASE SwapWatch
  BY <1>0, <1>4, TeardownKeeps DEF SwapWatch, SameStanding
<1>10. CASE Sleep
  BY <1>0, <1>10 DEF Sleep, SameStanding, Page
<1>5. CASE InjectRuntime
  BY <1>5 DEF InjectRuntime, SameStanding
<1>6. CASE ProbeMarker \/ ProbeOwner \/ ChooseCoexist \/ ChooseHost \/ ProbeTab
           \/ ReadBundle \/ ConfirmMarker \/ TickFails \/ Tally
  BY <1>6 DEF ProbeMarker, ProbeOwner, ChooseCoexist, ChooseHost, ProbeTab,
              ReadBundle, ConfirmMarker, TickFails, Tally, SameStanding
<1>7. CASE Commands \/ DaemonRestarts
  BY <1>7 DEF Commands, SetHostingPaused, ReplaceBundle, DaemonRestarts, rendererVars,
              SameStanding
<1> QED
  BY <1>1, <1>2, <1>3, <1>4, <1>5, <1>6, <1>7, <1>8, <1>9, <1>10 DEF Next, LoopStep, TickStep

\* A stamp touches force alone, and sets it only on a standing verdict.
LEMMA StampStanding ==
    ASSUME Inv, StampForce
    PROVE  /\ page'.owner = page.owner /\ page'.loader = page.loader
           /\ page'.host = page.host
           /\ coop.receded => page'.force = page.force
<1>1. page \in Page /\ t \in Tick /\ coop.receded \in BOOLEAN
  BY DEF Inv, TypeOK, LoopTypeOK, RendererTypeOK
<1>2. coop.receded => ~(IF t.coexist THEN t.coop ELSE TickForce)
  BY DEF Inv, ForceVerdictStands, StampForce, TickForce
<1>3. CASE UNCHANGED page
  BY <1>3
<1>4. CASE /\ page' = [page EXCEPT !.force = TRUE]
           /\ IF t.coexist THEN t.coop ELSE TickForce
  BY <1>1, <1>2, <1>4 DEF Page
<1> QED
  BY <1>3, <1>4 DEF StampForce, Stamped

\* Evaluating the runtime keeps a foreign claim, makes one only next to a loader,
\* and publishes a cooperative host only where force is stamped.
LEMMA RuntimeStanding ==
    ASSUME NEW p \in Page, NEW b, p.owner = "decky" => p.loader # "absent"
    PROVE  LET q == EvalRuntime(p, b)
           IN  /\ q.loader = p.loader /\ q.force = p.force
               /\ p.owner = "decky" => q.owner = "decky"
               /\ q.owner = "decky" => q.loader # "absent"
               /\ q.host = "coop" => p.host = "coop" \/ p.force
BY DEF EvalRuntime, Page, LoaderSeenByRuntime

\* The loader's own steps keep a foreign claim and leave force and a cooperative
\* host as they are.
LEMMA LoaderStanding ==
    ASSUME page \in Page, LoaderAppears \/ LoaderBoots
    PROVE  /\ page'.loader # "absent" /\ page'.force = page.force
           /\ page'.host = page.host
           /\ page.owner = "decky" => page'.owner = "decky"
<1>1. CASE LoaderAppears
  BY <1>1 DEF LoaderAppears, Page
<1>2. CASE LoaderBoots
  <2>1. PICK o \in {page.owner, "decky", "shelveshub"} :
          /\ \/ page' = [page EXCEPT !.loader = "yielded"]
             \/ page' = [page EXCEPT !.loader = "booted", !.owner = o]
          /\ page.owner # "" => o = page.owner
    BY <1>2 DEF LoaderBoots
  <2> QED
    BY <2>1 DEF Page
<1> QED
  BY <1>1, <1>2

\* Within one daemon a recede is never taken back.
LEMMA RecedeLasts ==
    ASSUME TypeOK, Next, boot' = boot, coop.receded
    PROVE  coop'.receded
<1>1. CASE Tally \/ DiscoverCollapse
  BY <1>1 DEF DiscoverCollapse, Tally, Strike, SettledOk, TypeOK, LoopTypeOK
<1>2. CASE DaemonRestarts
  BY <1>2 DEF DaemonRestarts, TypeOK, LoopTypeOK
<1>3. CASE TickStep
  BY <1>3, TickFrame DEF TickKeeps
<1>4. CASE Environment \/ Commands \/ DiscoverFails \/ DiscoverWindows \/ GatePaused
           \/ GateOpen \/ SwapWatch \/ Sleep
  BY <1>4 DEF Environment, loopVars, daemonVars, Commands, SetHostingPaused, ReplaceBundle,
              DiscoverFails, DiscoverWindows, GatePaused, GateOpen, SwapWatch, Sleep
<1> QED
  BY <1>1, <1>2, <1>3, <1>4 DEF Next, LoopStep

\* The streak stays below the threshold until the recede.
LEMMA StreakKept ==
    ASSUME TypeOK, StreakOK, Next
    PROVE  StreakOK'
<1>1. CASE Tally \/ DiscoverCollapse
  <2>1. coop' = coop \/ \E quiet \in {coop, SettledOk(coop)} : coop' \in {quiet, Strike(quiet)}
    BY <1>1 DEF Tally, DiscoverCollapse
  <2> QED
    BY <2>1, StrikeType, SettledType DEF TypeOK, LoopTypeOK, StreakOK
<1>2. CASE DaemonRestarts
  BY <1>2 DEF DaemonRestarts, StreakOK
<1>3. CASE TickStep
  BY <1>3, TickFrame DEF TickKeeps, StreakOK
<1>4. CASE Environment \/ Commands \/ DiscoverFails \/ DiscoverWindows \/ GatePaused
           \/ GateOpen \/ SwapWatch \/ Sleep
  BY <1>4 DEF Environment, loopVars, daemonVars, Commands, SetHostingPaused, ReplaceBundle,
              DiscoverFails, DiscoverWindows, GatePaused, GateOpen, SwapWatch, Sleep, StreakOK
<1> QED
  BY <1>1, <1>2, <1>3, <1>4 DEF Next, LoopStep

\* Once a tick has decided to force, nothing recedes before it has stamped.
LEMMA VerdictKept ==
    ASSUME TypeOK, ForceVerdictStands, Next
    PROVE  ForceVerdictStands'
<1>0. t \in Tick
  BY DEF TypeOK, LoopTypeOK
<1>1. CASE ChooseCoexist
  BY <1>0, <1>1 DEF Tick, ChooseCoexist, TickForce, TickKeeps, ForceVerdictStands
<1>2. CASE ChooseHost \/ ReadBundle \/ ProbeMarker \/ ProbeOwner \/ InjectBundle
           \/ StampMarker \/ ConfirmMarker
  <2>1. ~t.coop
    BY <1>2 DEF ForceVerdictStands, ChooseHost, ReadBundle, ProbeMarker, ProbeOwner,
                InjectBundle, StampMarker, ConfirmMarker
  <2>2. t'.coop = t.coop
    BY <1>0, <1>2 DEF Tick, Finish, ChooseHost, ReadBundle, ProbeMarker, ProbeOwner,
                      InjectBundle, StampMarker, ConfirmMarker
  <2> QED
    BY <2>1, <2>2 DEF ForceVerdictStands
<1>3. CASE ProbeTab \/ StampForce \/ StampNative \/ InjectRuntime \/ TickFails
  <2>1. t'.coop = t.coop /\ t'.coexist = t.coexist
    BY <1>0, <1>3 DEF Tick, Finish, ProbeTab, StampForce, StampNative, Stamped,
       InjectRuntime, TickFails
  <2>2. coop' = coop
    BY <1>3, TickFrame DEF TickStep, TickKeeps
  <2>3. \/ pc' = "tally"
        \/ pc = "tab" /\ pc' = "stamp"
        \/ pc = "stamp" /\ pc' = "native"
        \/ pc = "native" /\ (t.coexist => pc' = "runtime")
        \/ ~t.coexist
    BY <1>3 DEF Finish, ProbeTab, StampForce, StampNative, Stamped, InjectRuntime, TickFails
  <2> QED
    BY <2>1, <2>2, <2>3 DEF ForceVerdictStands
<1>4. CASE Sleep \/ DaemonRestarts
  <2>1. t' = NoTick
    BY <1>4 DEF Sleep, DaemonRestarts
  <2>2. ~NoTick.coop
    BY DEF NoTick
  <2> QED
    BY <2>1, <2>2 DEF ForceVerdictStands
<1>5. CASE DiscoverFails \/ DiscoverWindows \/ DiscoverCollapse \/ GatePaused \/ GateOpen
  <2>1. ~t.coop
    BY <1>5 DEF ForceVerdictStands, DiscoverFails, DiscoverWindows, DiscoverCollapse,
                GatePaused, GateOpen
  <2>2. t'.coop = t.coop
    BY <1>0, <1>5 DEF Tick, DiscoverFails, DiscoverWindows, DiscoverCollapse,
                      GatePaused, GateOpen
  <2> QED
    BY <2>1, <2>2 DEF ForceVerdictStands
<1>6. CASE Tally \/ SwapWatch
  BY <1>6 DEF Tally, SwapWatch, ForceVerdictStands
<1>7. CASE Environment \/ Commands
  BY <1>7 DEF Environment, loopVars, daemonVars, Commands, SetHostingPaused,
              ReplaceBundle, ForceVerdictStands
<1> QED
  BY <1>1, <1>2, <1>3, <1>4, <1>5, <1>6, <1>7 DEF Next, LoopStep, TickStep

\* Every step keeps the invariant.
LEMMA NextInv == Inv /\ [Next]_vars => Inv'
<1> SUFFICES ASSUME Inv, [Next]_vars PROVE Inv'
  OBVIOUS
<1>1. CASE Next
  <2>0. page \in Page
    BY DEF Inv, TypeOK, LoopTypeOK, RendererTypeOK
  <2>1. TypeOK' /\ StreakOK' /\ ForceVerdictStands'
    BY <1>1, NextTyped, StreakKept, VerdictKept DEF Inv
  <2>2. RecededForGood'
    <3>1. CASE boot' # boot \/ page' = FreshPage
      BY <1>1, <3>1 DEF Next, HistoryNext, RecededForGood
    <3>2. CASE boot' = boot /\ page' # FreshPage
      BY <1>1, <3>2, RecedeLasts DEF Inv, Next, HistoryNext, RecededForGood
    <3> QED
      BY <3>1, <3>2
  <2>3. ClaimedByLoader'
    <3>1. CASE SameStanding
      BY <3>1 DEF Inv, ClaimedByLoader, SameStanding
    <3>2. CASE page' = FreshPage
      BY <3>2 DEF FreshPage, ClaimedByLoader
    <3>3. CASE LoaderAppears \/ LoaderBoots
      BY <2>0, <3>3, LoaderStanding DEF ClaimedByLoader
    <3>4. CASE StampForce
      BY <3>4, StampStanding DEF Inv, ClaimedByLoader
    <3>5. CASE page' = EvalRuntime(page, boot)
      BY <2>0, <3>5, RuntimeStanding DEF Inv, ClaimedByLoader
    <3> QED
      BY <1>1, <3>1, <3>2, <3>3, <3>4, <3>5, Standing DEF Inv
  <2>4. PlainAfterRecede'
    <3> SUFFICES ASSUME plainBorn' PROVE ~page'.force /\ page'.host # "coop"
      BY DEF PlainAfterRecede
    <3>1. CASE page' = FreshPage
      BY <3>1 DEF FreshPage
    <3>2. CASE page' # FreshPage
      <4>1. plainBorn /\ coop.receded /\ ~page.force /\ page.host # "coop"
        BY <1>1, <3>2 DEF Next, HistoryNext, Inv, RecededForGood, PlainAfterRecede
      <4>2. CASE SameStanding
        BY <4>1, <4>2 DEF SameStanding
      <4>3. CASE LoaderAppears \/ LoaderBoots
        BY <2>0, <4>1, <4>3, LoaderStanding
      <4>4. CASE StampForce
        BY <4>1, <4>4, StampStanding
      <4>5. CASE page' = EvalRuntime(page, boot)
        BY <2>0, <4>1, <4>5, RuntimeStanding DEF Inv, ClaimedByLoader
      <4> QED
        BY <1>1, <3>2, <4>2, <4>3, <4>4, <4>5, Standing DEF Inv
    <3> QED
      BY <3>1, <3>2
  <2> QED
    BY <2>1, <2>2, <2>3, <2>4 DEF Inv
<1>2. CASE UNCHANGED vars
  <2>1. TypeOK'
    BY <1>2, NextTyped DEF Inv
  <2> QED
    BY <1>2, <2>1 DEF Inv, StreakOK, ClaimedByLoader, RecededForGood, ForceVerdictStands,
                      PlainAfterRecede, vars, rendererVars, loopVars, daemonVars, history
<1> QED
  BY <1>1, <1>2

\* The invariant holds initially.
LEMMA InitInv == Init => Inv
<1> SUFFICES ASSUME Init PROVE Inv
  OBVIOUS
<1>1. StreakOK
  BY DEF Init, LoopInit, StreakOK
<1>2. ClaimedByLoader /\ RecededForGood /\ ForceVerdictStands /\ PlainAfterRecede
  BY DEF Init, LoopInit, RendererInit, FreshPage, NoTick, ClaimedByLoader, RecededForGood,
         ForceVerdictStands, PlainAfterRecede
<1> QED
  BY <1>1, <1>2, InitTyped DEF Inv

------------------------------------------------------------------------------
(* The theorems. *)

\* The invariant holds in every reachable state.
THEOREM Invariance == Spec => []Inv
BY InitInv, NextInv, PTL DEF Spec

\* The loop's state, the page and the histories keep their types for ever: no
\* strike passes the threshold and no clock passes the settle time.
THEOREM TypeCorrect == Spec => []TypeOK
<1>1. Inv => TypeOK
  BY DEF Inv
<1> QED
  BY <1>1, Invariance, PTL

\* Receding is final for the session, in every page born after it, whatever tick
\* was in flight when the page was born.
THEOREM RecedeIsFinal == Spec => []PlainAfterRecede
<1>1. Inv => PlainAfterRecede
  BY DEF Inv
<1> QED
  BY <1>1, Invariance, PTL

\* No step of anybody takes a claim of the other loader over, forced or not.
THEOREM ClaimStands == Spec => ForeignClaimStands
<1>1. Inv /\ [Next]_vars =>
        [page.owner = "decky" => page'.owner = "decky" \/ page' = FreshPage]_vars
  <2> SUFFICES ASSUME Inv, Next, page.owner = "decky"
               PROVE  page'.owner = "decky" \/ page' = FreshPage
    OBVIOUS
  <2>0. page \in Page
    BY DEF Inv, TypeOK, LoopTypeOK, RendererTypeOK
  <2>1. CASE LoaderAppears \/ LoaderBoots
    BY <2>0, <2>1, LoaderStanding
  <2>2. CASE StampForce
    BY <2>2, StampStanding
  <2>3. CASE page' = EvalRuntime(page, boot)
    BY <2>0, <2>3, RuntimeStanding DEF Inv, ClaimedByLoader
  <2> QED
    BY <2>1, <2>2, <2>3, Standing DEF Inv, SameStanding
<1> QED
  BY <1>1, Invariance, PTL DEF Spec, ForeignClaimStands
==============================================================================
