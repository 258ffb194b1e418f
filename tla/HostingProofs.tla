---------------------------- MODULE HostingProofs ----------------------------
(***************************************************************************)
(* What the injection loop guarantees about the bundle it hosts: one copy, *)
(* a marker with a bundle beneath it, a clean page under pause, no change  *)
(* of the bundle forgotten, one recovery per outage, and no hosting beside *)
(* another host.  A theorem names the failures and events it excludes;     *)
(* each of them has a counterexample with that one thing allowed.          *)
(***************************************************************************)
EXTENDS InjectionProofs

USE RendererAssumption, LoopAssumption

------------------------------------------------------------------------------
(* What a step may do to the bundle of the page. *)

\* The page runs the bundle it ran, and a host published in it is still there.
SameBundle ==
    /\ page'.marker = page.marker
    /\ page'.copies = page.copies
    /\ page'.version = page.version
    /\ page'.gate = page.gate
    /\ page'.crossed = page.crossed
    /\ page.host # "none" => page'.host # "none"

Quiet ==
    \/ ProbeMarker \/ ProbeOwner \/ ChooseCoexist \/ ChooseHost \/ ProbeTab
    \/ StampForce \/ StampNative \/ ReadBundle \/ InjectRuntime \/ ConfirmMarker \/ TickFails

Head == DiscoverFails \/ DiscoverWindows \/ DiscoverCollapse \/ GatePaused \/ GateOpen

\* The invariant of the loop gives every variable its type.
LEMMA Typed ==
    ASSUME Inv
    PROVE  /\ page \in Page /\ t \in Tick /\ disk \in Bundle
           /\ line \in BOOLEAN /\ ui \in Screens /\ lastSeen \in Nat
           /\ wasPaused \in BOOLEAN
BY DEF Inv, TypeOK, LoopTypeOK, RendererTypeOK

\* A typed page is a record, and its counters are numbers.
LEMMA Numbered ==
    ASSUME NEW p \in Page
    PROVE  /\ p.copies \in Nat /\ p.version \in Nat
           /\ p.marker \in BOOLEAN /\ p.age \in Nat
           /\ p.crossed \in BOOLEAN /\ p.gate \in Gates
BY DEF Page, MaxCopies

\* A page just born runs nothing and has nobody in it.
LEMMA Fresh ==
    /\ ~FreshPage.marker /\ FreshPage.copies = 0
    /\ FreshPage.gate = "idle" /\ ~FreshPage.crossed
    /\ FreshPage.host = "none" /\ FreshPage.loader = "absent"
BY DEF FreshPage

\* A page whose gate no teardown and no second evaluation met while it waited has one
\* bundle at the most: it runs, or it waits behind the gate.
OneBundle(p) ==
    ~p.crossed => IF p.gate = "idle" THEN p.copies <= 1
                  ELSE p.gate = "waiting" /\ p.copies = 0

\* The gate opens on the bundle that was behind it, and on nothing else.
LEMMA GateOpens ==
    ASSUME page \in Page, GateBoots
    PROVE  /\ page'.marker = page.marker /\ page'.version = page.version
           /\ page'.crossed = page.crossed /\ page'.host = page.host
           /\ page'.owner = page.owner /\ page'.loader = page.loader
           /\ page'.force = page.force /\ page'.native = page.native
           /\ page'.tab = page.tab
           /\ BundleIn(page) /\ BundleIn(page')
           /\ OneBundle(page) => OneBundle(page')
           /\ UNCHANGED <<ui, line, breaker>>
<1> DEFINE n == OneMoreCopy(page.copies)
           g == IF page.gate = "waiting" THEN "idle" ELSE page.gate
<1>1. page' = [page EXCEPT !.copies = n, !.gate = g] /\ page.gate # "idle"
  BY DEF GateBoots
<1>2. n > 0 /\ (page.copies = 0 => n = 1)
  BY DEF OneMoreCopy, MaxCopies, Page
<1>3. page.gate = "waiting" => g = "idle"
  OBVIOUS
<1> HIDE DEF n, g
<1>4. page'.copies = n /\ page'.gate = g
  BY <1>1 DEF Page
<1>5. /\ page'.marker = page.marker /\ page'.version = page.version
      /\ page'.crossed = page.crossed /\ page'.host = page.host
      /\ page'.owner = page.owner /\ page'.loader = page.loader
      /\ page'.force = page.force /\ page'.native = page.native
      /\ page'.tab = page.tab
  BY <1>1 DEF Page
<1>6. BundleIn(page) /\ BundleIn(page')
  BY <1>1, <1>2, <1>4 DEF BundleIn
<1>7. OneBundle(page) => OneBundle(page')
  BY <1>1, <1>2, <1>3, <1>4, <1>5 DEF OneBundle
<1>8. UNCHANGED <<ui, line, breaker>>
  BY DEF GateBoots
<1> QED
  BY <1>5, <1>6, <1>7, <1>8

\* An evaluation puts its bundle in the page, over nothing in a page that was clean.
LEMMA Evaluated ==
    ASSUME NEW p \in Page, NEW v
    PROVE  LET q == EvalBundle(p, v)
           IN  /\ q.marker = p.marker /\ q.version = v /\ q.host = p.host
               /\ q.owner = p.owner /\ q.loader = p.loader
               /\ q.force = p.force /\ q.native = p.native
               /\ p.crossed => q.crossed
               /\ BundleIn(q)
               /\ ~BundleIn(p) => OneBundle(q)
<1> DEFINE n == IF p.ready THEN OneMoreCopy(p.copies) ELSE p.copies
           g == IF p.ready THEN p.gate ELSE IF p.gate = "idle" THEN "waiting" ELSE "stray"
           c == p.crossed \/ p.gate # "idle"
           q == EvalBundle(p, v)
<1>1. q = [p EXCEPT !.version = v, !.copies = n, !.gate = g, !.crossed = c]
  BY DEF EvalBundle
<1>2. n > 0 \/ g # "idle"
  BY DEF OneMoreCopy, MaxCopies, Page
<1>3. ~BundleIn(p) => IF g = "idle" THEN n <= 1 ELSE g = "waiting" /\ n = 0
  BY DEF BundleIn, OneMoreCopy, MaxCopies, Page
<1>4. p.crossed => c
  OBVIOUS
<1> HIDE DEF n, g, c, q
<1>5. q.copies = n /\ q.gate = g /\ q.crossed = c
  BY <1>1 DEF Page
<1>6. /\ q.marker = p.marker /\ q.version = v /\ q.host = p.host
      /\ q.owner = p.owner /\ q.loader = p.loader
      /\ q.force = p.force /\ q.native = p.native
  BY <1>1 DEF Page
<1>7. BundleIn(q) /\ (~BundleIn(p) => OneBundle(q))
  BY <1>2, <1>3, <1>5 DEF BundleIn, OneBundle
<1> QED
  BY <1>4, <1>5, <1>6, <1>7 DEF q

\* A teardown under a published host leaves a clean page, unless a gate still waits.
LEMMA TornDown ==
    ASSUME NEW p \in Page
    PROVE  LET q == EvalTeardown(p)
           IN  /\ ~q.marker /\ q.version = p.version /\ q.host = p.host
               /\ q.owner = p.owner /\ q.loader = p.loader /\ q.tab = p.tab
               /\ q.force = p.force /\ q.native = p.native
               /\ q.gate = p.gate
               /\ p.crossed => q.crossed
               /\ q.copies \in {p.copies, 0}
               /\ BundleIn(q) => BundleIn(p)
               /\ p.host # "none" => q.crossed \/ ~BundleIn(q)
               /\ OneBundle(p) => OneBundle(q)
<1> DEFINE n == IF p.host = "none" THEN p.copies ELSE 0
           c == p.crossed \/ p.gate # "idle"
           q == EvalTeardown(p)
<1>1. q = [p EXCEPT !.marker = FALSE, !.copies = n, !.crossed = c]
  BY DEF EvalTeardown
<1>2. /\ n \in {p.copies, 0} /\ n \in Nat /\ p.copies \in Nat
      /\ p.host # "none" => n = 0
  BY DEF Page, MaxCopies
<1>3. /\ p.crossed => c
      /\ p.gate # "idle" => c
  OBVIOUS
<1> HIDE DEF n, c, q
<1>4. q.copies = n /\ q.crossed = c /\ q.gate = p.gate
  BY <1>1 DEF Page
<1>5. /\ ~q.marker /\ q.version = p.version /\ q.host = p.host
      /\ q.owner = p.owner /\ q.loader = p.loader /\ q.tab = p.tab
      /\ q.force = p.force /\ q.native = p.native
  BY <1>1 DEF Page
<1>6. /\ BundleIn(q) => BundleIn(p)
      /\ p.host # "none" => q.crossed \/ ~BundleIn(q)
  BY <1>2, <1>3, <1>4 DEF BundleIn
<1>7. OneBundle(p) => OneBundle(q)
  BY <1>2, <1>3, <1>4 DEF OneBundle
<1> QED
  BY <1>2, <1>3, <1>4, <1>5, <1>6, <1>7 DEF q

\* Nothing that Steam or the other loader does changes the bundle of a page, short of
\* ending the page; its gate opens in its own time.
LEMMA EnvironmentFrame ==
    ASSUME Inv, Environment
    PROVE  /\ UNCHANGED loopVars
           /\ \/ SameBundle /\ line' = line
              \/ GateBoots
              \/ page' = FreshPage /\ line' = FALSE /\ ui' = "down"
              \/ page' = FreshPage /\ line' = line /\ ui' = ui /\ "reload" \in Events
<1>1. page \in Page
  BY Typed
<1>2. CASE LoaderAppears \/ LoaderBoots
  <2>1. CASE LoaderAppears
    BY <1>1, <2>1 DEF Environment, LoaderAppears, SameBundle, Page
  <2>2. CASE LoaderBoots
    BY <1>1, <2>2 DEF Environment, LoaderBoots, SameBundle, Page
  <2> QED
    BY <1>2, <2>1, <2>2
<1>5. CASE UiSignals
  BY <1>1, <1>5 DEF Environment, UiSignals, SameBundle, Page
<1>3. CASE SteamStops \/ SteamStarts \/ WindowsOpen \/ WindowsCollapse \/ SwitchDesktop
           \/ PageReloads \/ BreakerMoves
  BY <1>3 DEF Environment, SteamStops, SteamStarts, WindowsOpen, WindowsCollapse,
              SwitchDesktop, PageReloads, BreakerMoves, SameBundle
<1>4. CASE GateBoots
  BY <1>4 DEF Environment
<1> QED
  BY <1>2, <1>3, <1>4, <1>5 DEF Environment, RendererNext

\* Most round trips of a tick leave the bundle of the page alone; so does the
\* runtime, which only adds to what is published.
LEMMA QuietFrame ==
    ASSUME Inv, Quiet
    PROVE  SameBundle /\ UNCHANGED ui
<1>1. page \in Page
  BY Typed
<1>2. CASE InjectRuntime
  <2>1. boot \in 0..MaxBoot
    BY DEF Inv, TypeOK, LoopTypeOK
  <2>2. page' \in {page, EvalRuntime(page, boot)} /\ UNCHANGED ui
    BY <1>2 DEF InjectRuntime, TickKeeps
  <2>3. CASE page' = page
    BY <2>2, <2>3 DEF SameBundle
  <2>4. CASE page' = EvalRuntime(page, boot)
    BY <1>1, <2>1, <2>2, <2>4, RuntimeType DEF SameBut, SameBundle
  <2> QED
    BY <2>2, <2>3, <2>4
<1>3. CASE StampForce \/ StampNative
  BY <1>1, <1>3 DEF StampForce, StampNative, Stamped, Page, SameBundle, TickKeeps
<1>4. CASE ProbeMarker \/ ProbeOwner \/ ChooseCoexist \/ ChooseHost \/ ProbeTab
           \/ ReadBundle \/ ConfirmMarker \/ TickFails
  BY <1>4 DEF ProbeMarker, ProbeOwner, ChooseCoexist, ChooseHost, ProbeTab, ReadBundle,
              ConfirmMarker, TickFails, SameBundle, TickKeeps
<1> QED
  BY <1>2, <1>3, <1>4 DEF Quiet

\* The head of an iteration ends in another step of the head, in the tick or
\* asleep, and touches the page only to reload it.
LEMMA HeadFrame ==
    ASSUME Head
    PROVE  /\ pc \in {"discover", "gate"}
           /\ pc' \in {"gate", "probe", "sleep"}
           /\ \/ UNCHANGED page
              \/ page' = FreshPage /\ ui # "down"
           /\ UNCHANGED <<ui, line, lastSeen, disk, boot>>
BY DEF Head, DiscoverFails, DiscoverWindows, DiscoverCollapse, GatePaused, GateOpen,
       rendererVars, Reachable

\* Going to sleep ages the page and nothing else of it.
LEMMA SleepFrame ==
    ASSUME Inv, Sleep
    PROVE  /\ page' = page \/ Reachable
           /\ SameBundle
<1>1. page \in Page
  BY Typed
<1> QED
  BY <1>1 DEF Sleep, SameBundle, Page

\* The commands and a restart of the daemon leave the page alone.
LEMMA OutsideFrame ==
    ASSUME Commands \/ DaemonRestarts
    PROVE  UNCHANGED <<page, ui>>
BY DEF Commands, SetHostingPaused, ReplaceBundle, DaemonRestarts, rendererVars

\* Every step is of one of these kinds.
LEMMA Kinds ==
    ASSUME Next
    PROVE  \/ Environment \/ Head \/ Quiet \/ InjectBundle \/ StampMarker
           \/ Tally \/ SwapWatch \/ Sleep \/ Commands \/ DaemonRestarts
BY DEF Next, LoopStep, TickStep, Head, Quiet

\* The rest of a step: where it leaves the tick and its connection.
LEMMA QuietControl ==
    ASSUME Inv, Quiet
    PROVE  /\ pc \in {"probe", "owner", "loader", "tab", "stamp", "native", "read", "runtime",
                      "bundle", "marker", "confirm"}
           /\ pc' # "marker" /\ pc' # "confirm"
           /\ line' = line \/ pc = "probe"
           /\ UNCHANGED <<lastSeen, disk, wasPaused, collapses>>
BY DEF Quiet, TickKeeps, ProbeMarker, ProbeOwner, ChooseCoexist, ChooseHost, ProbeTab,
     StampForce, StampNative, Stamped,
       ReadBundle, InjectRuntime, ConfirmMarker, TickFails, Finish

------------------------------------------------------------------------------
(* While Steam is down there is no page and no connection. *)

DownIsBlank == ui = "down" => page = FreshPage /\ ~line

\* Only a new Steam makes a page, and nothing can be evaluated before it.
LEMMA DownStep ==
    ASSUME Inv, DownIsBlank, [Next]_vars
    PROVE  DownIsBlank'
<1> SUFFICES ASSUME ui' = "down" PROVE page' = FreshPage /\ ~line'
  BY DEF DownIsBlank
<1>0. page \in Page /\ line \in BOOLEAN
  BY Typed
<1>1. CASE Environment
  <2>1. CASE SteamStops
    BY <2>1 DEF SteamStops
  <2>2. CASE LoaderAppears \/ LoaderBoots
    BY <2>2, Fresh DEF LoaderAppears, LoaderBoots, DownIsBlank
  <2>4. CASE UiSignals \/ GateBoots
    <3>1. ~FreshPage.tab
      BY DEF FreshPage
    <3> QED
      BY <2>4, <3>1, Fresh DEF UiSignals, GateBoots, DownIsBlank
  <2>3. CASE SteamStarts \/ WindowsOpen \/ WindowsCollapse \/ SwitchDesktop
             \/ PageReloads \/ BreakerMoves
    BY <2>3 DEF SteamStarts, WindowsOpen, WindowsCollapse, SwitchDesktop, PageReloads,
                BreakerMoves, Windows
  <2> QED
    BY <1>1, <2>1, <2>2, <2>3, <2>4 DEF Environment, RendererNext
<1>2. CASE Head
  BY <1>2, HeadFrame DEF DownIsBlank
<1>3. CASE Quiet
  <2>1. ui = "down"
    BY <1>3, QuietFrame
  <2>2. page = FreshPage /\ ~line
    BY <2>1 DEF DownIsBlank
  <2>3. UNCHANGED <<page, line>>
    BY <1>3, <2>1, <2>2 DEF Quiet, TickKeeps, ProbeMarker, ProbeOwner, ChooseCoexist,
       ChooseHost, ProbeTab, StampForce, StampNative, Stamped, ReadBundle, InjectRuntime,
       ConfirmMarker, TickFails,
       Reachable
  <2> QED
    BY <2>2, <2>3
<1>4. CASE InjectBundle \/ StampMarker
  BY <1>4 DEF InjectBundle, StampMarker, TickKeeps, DownIsBlank
<1>5. CASE Tally \/ SwapWatch
  BY <1>5 DEF Tally, SwapWatch, Reachable, DownIsBlank
<1>6. CASE Sleep
  BY <1>6, SleepFrame DEF Sleep, Reachable, DownIsBlank
<1>7. CASE Commands \/ DaemonRestarts
  BY <1>7, OutsideFrame DEF Commands, SetHostingPaused, ReplaceBundle, DaemonRestarts,
                            rendererVars, DownIsBlank
<1>8. CASE UNCHANGED vars
  BY <1>8 DEF vars, rendererVars, DownIsBlank
<1> QED
  BY <1>1, <1>2, <1>3, <1>4, <1>5, <1>6, <1>7, <1>8, Kinds

\* A tick that has looked for the marker acts on a page without one, and one that
\* lost its connection lost the page it marked.
Probed ==
    /\ pc \in {"owner", "loader", "tab", "stamp", "native", "read", "runtime", "bundle"} => ~page.marker
    /\ pc \in {"marker", "confirm"} /\ ~line => ~page.marker

\* Nobody else writes the marker: what the probe read still holds at each later
\* round trip of the tick.
LEMMA ProbedStep ==
    ASSUME Inv, Probed, [Next]_vars
    PROVE  Probed'
<1>0. page \in Page /\ line \in BOOLEAN
  BY Typed
<1> USE DEF Probed
<1>1. CASE Environment
  <2>1. pc' = pc
    BY <1>1, EnvironmentFrame DEF loopVars, daemonVars
  <2>2. CASE SameBundle /\ line' = line
    BY <2>1, <2>2 DEF SameBundle
  <2>3. CASE page' = FreshPage
    BY <2>3, Fresh
  <2>4. CASE GateBoots
    BY <1>0, <2>1, <2>4, GateOpens
  <2> QED
    BY <1>1, <2>2, <2>3, <2>4, EnvironmentFrame
<1>2. CASE Head
  BY <1>2, HeadFrame
<1>3. CASE Quiet
  <2>1. page'.marker = page.marker
    BY <1>3, QuietFrame DEF SameBundle
  <2>2. CASE ProbeMarker
    BY <2>1, <2>2 DEF ProbeMarker, Finish
  <2>3. CASE ProbeOwner \/ ChooseCoexist \/ ChooseHost \/ ProbeTab \/ StampForce
             \/ StampNative \/ ReadBundle \/ InjectRuntime
    BY <2>1, <2>3 DEF ProbeOwner, ChooseCoexist, ChooseHost, ProbeTab, StampForce,
       StampNative, Stamped, ReadBundle,
                      InjectRuntime, Finish
  <2>4. CASE ConfirmMarker \/ TickFails
    BY <2>4 DEF ConfirmMarker, TickFails, Finish
  <2> QED
    BY <1>3, <2>2, <2>3, <2>4 DEF Quiet
<1>4. CASE InjectBundle \/ StampMarker
  BY <1>4 DEF InjectBundle, StampMarker, Finish
<1>5. CASE Tally \/ SwapWatch \/ Sleep \/ DaemonRestarts
  BY <1>5 DEF Tally, SwapWatch, Sleep, DaemonRestarts
<1>6. CASE Commands
  BY <1>6 DEF Commands, SetHostingPaused, ReplaceBundle, daemonVars, rendererVars
<1>7. CASE UNCHANGED vars
  BY <1>7 DEF vars, rendererVars, loopVars, daemonVars
<1> QED
  BY <1>1, <1>2, <1>3, <1>4, <1>5, <1>6, <1>7, Kinds

Base == Inv /\ DownIsBlank /\ Probed

\* While Steam is down the page is blank; what a tick has probed still holds.
LEMMA BaseHolds == Spec => []Base
<1>1. Init => DownIsBlank /\ Probed
  BY DEF Init, LoopInit, RendererInit, DownIsBlank, Probed
<1>2. Inv /\ DownIsBlank /\ Probed /\ [Next]_vars => DownIsBlank' /\ Probed'
  BY DownStep, ProbedStep
<1> QED
  BY <1>1, <1>2, Invariance, PTL DEF Spec, Base

------------------------------------------------------------------------------
(* The marker. *)

\* The tick is between the bundle and its marker, in the page it gave the bundle.
AwaitsMarker == pc = "marker" /\ line

Marked ==
    /\ MarkerMeansBundle
    /\ AwaitsMarker => BundleIn(page)

\* Unless the page navigates in mid-tick, the marker has a bundle beneath it.
LEMMA MarkedStep ==
    ASSUME "reload" \notin Events, Inv, Marked, [Next]_vars
    PROVE  Marked'
<1>0. page \in Page
  BY Typed
<1> USE DEF Marked, MarkerMeansBundle, AwaitsMarker
<1>2. CASE Environment
  <2>1. pc' = pc
    BY <1>2, EnvironmentFrame DEF loopVars, daemonVars
  <2>2. CASE SameBundle /\ line' = line
    BY <2>1, <2>2 DEF SameBundle, BundleIn
  <2>3. CASE page' = FreshPage /\ line' = FALSE
    BY <2>3, Fresh
  <2>4. CASE GateBoots
    BY <1>0, <2>4, GateOpens
  <2> QED
    BY <1>2, <2>2, <2>3, <2>4, EnvironmentFrame
<1>3. CASE Head
  BY Fresh, <1>3, HeadFrame
<1>4. CASE Quiet
  BY <1>4, QuietFrame, QuietControl DEF SameBundle, BundleIn
<1>5. CASE InjectBundle
  BY <1>0, <1>5, Evaluated DEF InjectBundle
<1>6. CASE StampMarker
  <2>1. pc = "marker" /\ line /\ pc' # "marker"
    BY <1>6 DEF StampMarker, Finish
  <2>2. page'.copies = page.copies /\ page'.gate = page.gate
    BY <1>0, <1>6 DEF StampMarker, Page
  <2> QED
    BY <2>1, <2>2 DEF BundleIn
<1>7. CASE Tally
  BY <1>7 DEF Tally
<1>8. CASE SwapWatch
  <2>1. pc' = "sleep" /\ page' \in {page, EvalTeardown(page)}
    BY <1>8 DEF SwapWatch
  <2> QED
    BY <1>0, <2>1, TornDown
<1>9. CASE Sleep
  BY <1>9, SleepFrame DEF SameBundle, Sleep, BundleIn
<1>10. CASE Commands \/ DaemonRestarts
  BY <1>10, OutsideFrame DEF Commands, SetHostingPaused, ReplaceBundle, DaemonRestarts,
                             daemonVars, rendererVars
<1>11. CASE UNCHANGED vars
  BY <1>11 DEF vars, rendererVars, loopVars, daemonVars
<1> QED
  BY <1>2, <1>3, <1>4, <1>5, <1>6, <1>7, <1>8, <1>9, <1>10, <1>11, Kinds

\* A page that says the bundle is running does run one, whatever DevTools refuses
\* or loses, however often the daemon restarts and whoever else is in the page:
\* the marker is written by its own round trip, after the bundle's, into the same
\* page, as long as pages do not navigate between the two.
THEOREM MarkerHasBundle ==
    ASSUME "reload" \notin Events
    PROVE  Spec => []MarkerMeansBundle
<1>1. Init => Marked
  BY Fresh DEF Init, LoopInit, RendererInit, Marked, MarkerMeansBundle, AwaitsMarker
<1>2. Inv /\ Marked /\ [Next]_vars => Marked'
  BY MarkedStep
<1>3. Marked => MarkerMeansBundle
  BY DEF Marked
<1> QED
  BY <1>1, <1>2, <1>3, Invariance, PTL DEF Spec

------------------------------------------------------------------------------
(* Pause. *)

Paused ==
    /\ PausedPageIsClean
    /\ wasPaused => pc \in {"discover", "gate", "sleep"}

\* Between the reload that a pause begins with and the first open gate no step
\* evaluates anything.
LEMMA PausedStep ==
    ASSUME "refused" \notin Faults, Inv, DownIsBlank, Paused, [Next]_vars
    PROVE  Paused'
<1>0. page \in Page /\ wasPaused \in BOOLEAN
  BY Typed
<1> USE DEF Paused, PausedPageIsClean
<1>2. CASE Environment
  <2>1. UNCHANGED <<pc, wasPaused>>
    BY <1>2, EnvironmentFrame DEF loopVars, daemonVars
  <2>2. CASE SameBundle
    BY <2>1, <2>2 DEF SameBundle, BundleIn
  <2>3. CASE page' = FreshPage
    BY <2>1, <2>3, Fresh DEF BundleIn
  <2>4. CASE GateBoots
    BY <1>0, <2>1, <2>4, GateOpens
  <2> QED
    BY <1>2, <2>2, <2>3, <2>4, EnvironmentFrame
<1>3. CASE GatePaused
  BY Fresh, <1>3 DEF GatePaused, DownIsBlank, Reachable, MayRefuse, BundleIn
<1>4. CASE DiscoverFails \/ DiscoverWindows \/ DiscoverCollapse \/ GateOpen
  BY <1>4 DEF DiscoverFails, DiscoverWindows, DiscoverCollapse, GateOpen, rendererVars
<1>5. CASE Quiet \/ InjectBundle \/ StampMarker
  BY <1>5, QuietControl DEF InjectBundle, StampMarker, TickKeeps
<1>6. CASE Tally \/ SwapWatch
  BY <1>6 DEF Tally, SwapWatch
<1>7. CASE Sleep
  BY <1>7, SleepFrame DEF SameBundle, Sleep, BundleIn
<1>8. CASE Commands
  BY <1>8, OutsideFrame DEF Commands, SetHostingPaused, ReplaceBundle, daemonVars
<1>10. CASE DaemonRestarts
  BY <1>10 DEF DaemonRestarts
<1>9. CASE UNCHANGED vars
  BY <1>9 DEF vars, rendererVars, loopVars, daemonVars
<1> QED
  BY <1>2, <1>3, <1>4, <1>5, <1>6, <1>7, <1>8, <1>9, <1>10, Kinds DEF Head

\* Once the loop has stood down for a pause the page carries no bundle of ours, nor a
\* gate that would boot one, until the pause is lifted: lost replies, reloads, restarts
\* of Steam and of the daemon, and the other loader included, as long as Steam does not
\* refuse the reload the pause begins with.
THEOREM PauseIsClean ==
    ASSUME "refused" \notin Faults
    PROVE  Spec => []PausedPageIsClean
<1>1. Init => Paused
  BY DEF Init, LoopInit, Paused, PausedPageIsClean
<1>2. Inv /\ DownIsBlank /\ Paused /\ [Next]_vars => Paused'
  BY PausedStep
<1>3. Paused => PausedPageIsClean
  BY DEF Paused
<1> QED
  BY <1>1, <1>2, <1>3, BaseHolds, PTL DEF Spec, Base

------------------------------------------------------------------------------
(* One copy. *)

Single ==
    /\ OneBundle(page)
    /\ page.crossed \/ page.marker \/ AwaitsMarker \/ ~BundleIn(page)

\* What the invariant says of the copies is the property.
LEMMA OneIsSingle ==
    ASSUME page \in Page, OneBundle(page)
    PROVE  SingleCopy
BY DEF OneBundle, SingleCopy, Page

\* A tick that saw no marker evaluates into a page without a bundle, provided every
\* teardown so far has really ended the copy it took the marker from.
LEMMA SingleStep ==
    ASSUME Faults = {}, "crash" \notin Events, Base, Single, [Next]_vars,
           SwapWatch => page' = page \/ page'.crossed \/ ~BundleIn(page')
    PROVE  Single'
<1>0. page \in Page /\ line \in BOOLEAN
  BY Typed DEF Base
<1> USE DEF Single, AwaitsMarker
<1>1. CASE Environment
  <2>1. pc' = pc
    BY <1>1, EnvironmentFrame DEF loopVars, daemonVars, Base
  <2>2. CASE SameBundle /\ line' = line
    BY <2>1, <2>2 DEF SameBundle, BundleIn, OneBundle
  <2>3. CASE page' = FreshPage
    BY <2>3, Fresh DEF BundleIn, OneBundle
  <2>4. CASE GateBoots
    BY <1>0, <2>1, <2>4, GateOpens
  <2> QED
    BY <1>1, <2>2, <2>3, <2>4, EnvironmentFrame DEF Base
<1>2. CASE Head
  BY <1>2, HeadFrame, Fresh DEF BundleIn, OneBundle
<1>3. CASE Quiet
  <2>1. SameBundle
    BY <1>3, QuietFrame DEF Base
  <2>2. ~AwaitsMarker
    BY <1>3 DEF Quiet, ProbeMarker, ProbeOwner, ChooseCoexist, ChooseHost, ProbeTab,
                StampForce, StampNative, ReadBundle, InjectRuntime, ConfirmMarker, TickFails,
                MayRefuse
  <2> QED
    BY <2>1, <2>2 DEF SameBundle, BundleIn, OneBundle
<1>4. CASE InjectBundle
  <2>1. page.crossed \/ ~BundleIn(page)
    BY <1>4 DEF InjectBundle, Base, Probed
  <2>2. OneBundle(page')
    BY <1>0, <1>4, <2>1, Evaluated DEF InjectBundle, OneBundle
  <2>3. pc' = "marker" /\ line'
    BY <1>4 DEF InjectBundle
  <2> QED
    BY <2>2, <2>3
<1>5. CASE StampMarker
  <2>1. /\ page'.marker /\ page'.copies = page.copies
        /\ page'.gate = page.gate /\ page'.crossed = page.crossed
    BY <1>0, <1>5 DEF StampMarker, Page
  <2> QED
    BY <2>1 DEF OneBundle
<1>6. CASE Tally
  BY <1>6 DEF Tally
<1>7. CASE SwapWatch
  <2>1. pc = "swap" /\ page' \in {page, EvalTeardown(page)}
    BY <1>7 DEF SwapWatch
  <2>2. OneBundle(page')
    BY <1>0, <2>1, TornDown
  <2> QED
    BY <1>7, <2>1, <2>2
<1>8. CASE Sleep
  BY <1>8, SleepFrame DEF SameBundle, Sleep, Base, BundleIn, OneBundle
<1>9. CASE Commands
  BY <1>9, OutsideFrame DEF Commands, SetHostingPaused, ReplaceBundle, daemonVars,
                            rendererVars
<1>10. CASE DaemonRestarts
  BY <1>10 DEF DaemonRestarts
<1>11. CASE UNCHANGED vars
  BY <1>11 DEF vars, rendererVars, loopVars, daemonVars
<1> QED
  BY <1>1, <1>2, <1>3, <1>4, <1>5, <1>6, <1>7, <1>8, <1>9, <1>10, <1>11, Kinds

\* Without new bundles the watch never tears anything down.
WatchIdle == lastSeen = Mtime(disk)

\* The watch stays idle while nothing replaces the file.
LEMMA IdleStep ==
    ASSUME "swap" \notin Events, Base, WatchIdle, [Next]_vars
    PROVE  /\ WatchIdle'
           /\ SwapWatch => page' = page
<1> USE DEF WatchIdle, Mtime
<1>1. SwapWatch => page' = page
  BY DEF SwapWatch
<1> SUFFICES WatchIdle'
  BY <1>1
<1>2. CASE Environment
  BY <1>2 DEF Environment, loopVars, daemonVars
<1>3. CASE Head \/ Quiet
  BY <1>3, HeadFrame, QuietControl DEF Base
<1>4. CASE InjectBundle \/ StampMarker \/ Tally \/ SwapWatch \/ Sleep \/ DaemonRestarts
           \/ Commands
  BY <1>4 DEF InjectBundle, StampMarker, Tally, SwapWatch, Sleep, DaemonRestarts, Commands,
              SetHostingPaused, ReplaceBundle, TickKeeps, daemonVars
<1>5. CASE UNCHANGED vars
  BY <1>5 DEF vars, rendererVars, loopVars, daemonVars
<1> QED
  BY <1>1, <1>2, <1>3, <1>4, <1>5, Kinds

\* Alone in the page, the bundle is only ever evaluated over a published host, the
\* one whose unmount handlers the teardown runs.
HostBeneath ==
    /\ page.loader = "absent"
    /\ BundleIn(page) => page.host # "none"
    /\ pc = "bundle" /\ line => page.host # "none"

\* Nothing takes the host away and leaves the copy.
LEMMA BeneathStep ==
    ASSUME Faults = {}, ~LoaderInstalled, "reload" \notin Events,
           Base, HostBeneath, [Next]_vars
    PROVE  /\ HostBeneath'
           /\ SwapWatch => page' = page \/ page'.crossed \/ ~BundleIn(page')
<1>0. page \in Page /\ line \in BOOLEAN
  BY Typed DEF Base
<1> USE DEF HostBeneath
<1>1. SwapWatch => page' = page \/ page'.crossed \/ ~BundleIn(page')
  BY <1>0, TornDown DEF SwapWatch
<1> SUFFICES HostBeneath'
  BY <1>1
<1>2. CASE Environment
  <2>1. pc' = pc
    BY <1>2, EnvironmentFrame DEF loopVars, daemonVars, Base
  <2>2. CASE SteamStops
    BY <2>2, Fresh DEF SteamStops, BundleIn
  <2>5. CASE UiSignals \/ GateBoots
    <3>1. CASE UiSignals
      <4>1. /\ page'.copies = page.copies /\ page'.gate = page.gate
            /\ page'.host = page.host /\ page'.loader = page.loader /\ line' = line
        BY <1>0, <3>1 DEF UiSignals, Page
      <4> QED
        BY <2>1, <4>1 DEF BundleIn
    <3>2. CASE GateBoots
      BY <1>0, <2>1, <3>2, GateOpens
    <3> QED
      BY <2>5, <3>1, <3>2
  <2>3. CASE SteamStarts \/ WindowsOpen \/ WindowsCollapse \/ SwitchDesktop \/ BreakerMoves
    BY <2>1, <2>3 DEF SteamStarts, WindowsOpen, WindowsCollapse, SwitchDesktop, BreakerMoves
  <2>4. ~PageReloads /\ ~LoaderAppears /\ ~LoaderBoots
    BY DEF PageReloads, LoaderAppears, LoaderBoots
  <2> QED
    BY <1>2, <2>2, <2>3, <2>4, <2>5 DEF Environment, RendererNext
<1>3. CASE Head
  BY <1>3, HeadFrame, Fresh DEF BundleIn
<1>4. CASE InjectRuntime
  <2>1. CASE UNCHANGED page /\ ~line
    BY <1>4, <2>1 DEF InjectRuntime
  <2>2. CASE page' = EvalRuntime(page, boot)
    <3>1. page'.host # "none" /\ page'.loader = "absent"
      BY <1>0, <2>2 DEF EvalRuntime, LoaderSeenByRuntime, Page
    <3> QED
      BY <3>1
  <2> QED
    BY <1>4, <2>1, <2>2 DEF InjectRuntime, MayRefuse
<1>5. CASE Quiet /\ ~InjectRuntime
  <2>1. SameBundle /\ pc' # "bundle"
    BY <1>5, QuietFrame DEF Base, Quiet, Finish, ProbeMarker, ProbeOwner, ChooseCoexist,
       ChooseHost, ProbeTab, StampForce, StampNative, Stamped, ReadBundle, ConfirmMarker,
       TickFails
  <2>2. page'.loader = page.loader
    BY <1>0, <1>5 DEF Quiet, ProbeMarker, ProbeOwner, ChooseCoexist,
       ChooseHost, ProbeTab, StampForce, StampNative, Stamped, ReadBundle, ConfirmMarker,
       TickFails, Page
  <2> QED
    BY <2>1, <2>2 DEF SameBundle, BundleIn
<1>6. CASE InjectBundle
  BY <1>0, <1>6, Evaluated DEF InjectBundle, Finish
<1>13. CASE StampMarker
  <2>1. /\ page'.host = page.host /\ page'.loader = page.loader
        /\ page'.copies = page.copies /\ page'.gate = page.gate
    BY <1>0, <1>13 DEF StampMarker, Page
  <2> QED
    BY <1>13, <2>1 DEF StampMarker, Finish, BundleIn
<1>7. CASE Tally
  BY <1>7 DEF Tally
<1>8. CASE SwapWatch
  BY <1>0, <1>8, TornDown DEF SwapWatch
<1>9. CASE Sleep
  <2>1. /\ page'.host = page.host /\ page'.loader = page.loader
        /\ page'.copies = page.copies /\ page'.gate = page.gate
    BY <1>0, <1>9 DEF Sleep, Page
  <2> QED
    BY <1>9, <2>1 DEF Sleep, BundleIn
<1>10. CASE Commands
  BY <1>10, OutsideFrame DEF Commands, SetHostingPaused, ReplaceBundle, daemonVars,
                             rendererVars
<1>11. CASE DaemonRestarts
  BY <1>11 DEF DaemonRestarts
<1>12. CASE UNCHANGED vars
  BY <1>12 DEF vars, rendererVars, loopVars, daemonVars
<1> QED
  BY <1>1, <1>2, <1>3, <1>4, <1>5, <1>6, <1>7, <1>8, <1>9, <1>10, <1>11, <1>12, <1>13,
     Kinds

------------------------------------------------------------------------------
(* Hot swap. *)

\* A watch that saw the file at time seen will notice that d does not hold v.
Noticed(v, d, seen) == d.body = "missing" \/ v = d.version \/ seen # Mtime(d)

\* What a page runs, or is about to run, is the bundle on disk unless the watch
\* still has that change before it; a tick that does not end hosting ends with a
\* page that is not marked.
Watching ==
    /\ lastSeen <= disk.version
    /\ (page.marker \/ AwaitsMarker) /\ BundleIn(page) => Noticed(page.version, disk, lastSeen)
    /\ pc \in {"runtime", "bundle"} /\ ~t.coexist => Noticed(t.source.version, disk, lastSeen)
    /\ pc = "bundle" => ~t.coexist
    /\ pc \in {"tally", "swap"} /\ t.result # "active" => ~page.marker

\* A replaced file is newer than anything the watch has seen.
LEMMA ReplacedIsNoticed ==
    ASSUME disk \in Bundle, lastSeen \in Nat, lastSeen <= disk.version, ReplaceBundle
    PROVE  /\ lastSeen' <= disk'.version
           /\ \A v : Noticed(v, disk', lastSeen')
<1>1. PICK body \in {"empty", "real"} : disk' = [version |-> disk.version + 1, body |-> body]
  BY DEF ReplaceBundle
<1>2. disk.version \in Nat
  BY DEF Bundle
<1>3. disk'.version = disk.version + 1 /\ disk'.body # "missing"
  BY <1>1
<1>4. lastSeen' = lastSeen
  BY DEF ReplaceBundle, daemonVars
<1>5. lastSeen' < disk'.version
  BY <1>2, <1>3, <1>4
<1>6. lastSeen' # disk'.version
  BY <1>2, <1>3, <1>4
<1>7. \A v : Noticed(v, disk', lastSeen')
  BY <1>3, <1>6 DEF Noticed, Mtime
<1> QED
  BY <1>2, <1>3, <1>4, <1>7

\* The quiet round trips carry the source they read to the bundle's evaluation.
LEMMA QuietWatches ==
    ASSUME Faults = {}, Base, Watching, Quiet
    PROVE  Watching'
<1>0. page \in Page /\ t \in Tick /\ disk \in Bundle /\ line \in BOOLEAN
  BY Typed DEF Base
<1>1. SameBundle /\ UNCHANGED <<lastSeen, disk>>
  BY QuietFrame, QuietControl DEF Base
<1>3. lastSeen' <= disk'.version
  BY <1>1 DEF Watching
<1>4. (page'.marker \/ AwaitsMarker') /\ BundleIn(page') => Noticed(page'.version, disk', lastSeen')
  <2>1. ~AwaitsMarker'
    BY QuietControl DEF Base, AwaitsMarker
  <2> QED
    BY <1>1, <2>1 DEF Watching, SameBundle, BundleIn
<1>5. /\ pc' \in {"runtime", "bundle"} /\ ~t'.coexist => Noticed(t'.source.version, disk', lastSeen')
      /\ pc' = "bundle" => ~t'.coexist
  <2>1. CASE ReadBundle
    <3>1. Noticed(disk.version, disk, lastSeen)
      BY DEF Noticed
    <3>2. CASE t' = [t EXCEPT !.source = disk]
      <4>1. t'.source.version = disk.version
        BY <1>0, <3>2 DEF Tick
      <4> QED
        BY <1>1, <2>1, <3>1, <4>1 DEF ReadBundle, Finish
    <3>3. CASE Finish("err")
      BY <3>3 DEF Finish
    <3> QED
      BY <2>1, <3>2, <3>3 DEF ReadBundle
  <2>2. CASE StampForce \/ StampNative
    BY <2>2 DEF StampForce, StampNative
  <2>3. CASE InjectRuntime
    <3>1. pc' = "bundle" => pc = "runtime" /\ ~t.coexist /\ t' = t
      BY <2>3 DEF InjectRuntime, Finish
    <3>2. pc' # "runtime"
      BY <2>3 DEF InjectRuntime, Finish
    <3> QED
      BY <1>1, <3>1, <3>2 DEF Watching
  <2>4. CASE ProbeMarker \/ ProbeOwner \/ ChooseCoexist \/ ChooseHost \/ ProbeTab
             \/ ConfirmMarker \/ TickFails
    BY <2>4 DEF ProbeMarker, ProbeOwner, ChooseCoexist, ChooseHost, ProbeTab, ConfirmMarker,
                TickFails, Finish
  <2> QED
    BY <2>1, <2>2, <2>3, <2>4 DEF Quiet
<1>6. pc' \in {"tally", "swap"} /\ t'.result # "active" => ~page'.marker
  <2>1. page'.marker = page.marker
    BY <1>1 DEF SameBundle
  <2>2. CASE ProbeMarker \/ ConfirmMarker
    <3>1. pc' = "tally" /\ page.marker => t'.result = "active"
      BY <1>0, <2>2 DEF ProbeMarker, ConfirmMarker, Finish, Tick
    <3>2. pc' # "swap"
      BY <2>2 DEF ProbeMarker, ConfirmMarker, Finish
    <3> QED
      BY <2>1, <3>1, <3>2
  <2>3. CASE TickFails
    <3>1. pc = "probe" => page = FreshPage
      BY <2>3 DEF TickFails, MayRefuse, Base, DownIsBlank, Reachable
    <3>2. pc # "probe" => ~line
      BY <2>3 DEF TickFails, MayRefuse
    <3> QED
      BY <2>1, <2>3, <3>1, <3>2, Fresh DEF TickFails, Base, Probed
  <2>4. CASE ProbeOwner \/ ChooseCoexist \/ ChooseHost \/ ProbeTab \/ StampForce \/ StampNative \/ ReadBundle
             \/ InjectRuntime
    <3>1. ~page.marker
      BY <2>4 DEF Base, Probed, ProbeOwner, ChooseCoexist, ChooseHost, ProbeTab,
         StampForce, StampNative, Stamped,
                  ReadBundle, InjectRuntime
    <3> QED
      BY <2>1, <3>1
  <2> QED
    BY <2>2, <2>3, <2>4 DEF Quiet
<1> QED
  BY <1>3, <1>4, <1>5, <1>6 DEF Watching

\* The watch only takes a change off the list by tearing the old bundle down, or
\* when no marked page runs it.
LEMMA SwapWatches ==
    ASSUME Faults = {}, Base, Watching, SwapWatch
    PROVE  Watching'
<1>0. page \in Page /\ disk \in Bundle
  BY Typed DEF Base
<1>1. lastSeen' = Mtime(disk) /\ disk' = disk /\ pc' = "sleep"
  BY DEF SwapWatch
<1>2. lastSeen' <= disk'.version
  BY <1>0, <1>1 DEF Mtime, Bundle
<1>3. page'.marker => /\ page' = page
                      /\ disk.body = "missing" \/ Mtime(disk) = lastSeen
  <2>1. CASE page' = EvalTeardown(page)
    BY <1>0, <2>1 DEF EvalTeardown, Page
  <2>2. CASE /\ UNCHANGED page
             /\ \/ t.result # "active" \/ disk.body = "missing" \/ Mtime(disk) = lastSeen
                \/ ui = "down"
    BY <2>2, Fresh DEF Watching, SwapWatch, Base, DownIsBlank
  <2> QED
    BY <2>1, <2>2 DEF SwapWatch, Hosting, Reachable, MayRefuse
<1>4. page'.marker /\ BundleIn(page') => Noticed(page'.version, disk', lastSeen')
  BY <1>1, <1>3 DEF Watching, Noticed
<1> QED
  BY <1>1, <1>2, <1>4 DEF Watching, AwaitsMarker

\* Every step leaves each unseen change to be seen.
LEMMA WatchingStep ==
    ASSUME Faults = {}, "crash" \notin Events, Base, Watching, [Next]_vars
    PROVE  Watching'
<1>0. page \in Page /\ t \in Tick /\ disk \in Bundle /\ line \in BOOLEAN
      /\ lastSeen \in Nat
  BY Typed DEF Base
<1>1. CASE Environment
  <2>1. UNCHANGED <<pc, t, lastSeen, disk>>
    BY <1>1, EnvironmentFrame DEF loopVars, daemonVars, Base
  <2>3. CASE SameBundle /\ line' = line
    BY <2>1, <2>3 DEF SameBundle, Watching, AwaitsMarker, BundleIn
  <2>4. CASE page' = FreshPage
    <3>1. ~page'.marker /\ ~BundleIn(page')
      BY <2>4, Fresh DEF BundleIn
    <3> QED
      BY <2>1, <3>1 DEF Watching
  <2>5. CASE GateBoots
    BY <1>0, <2>1, <2>5, GateOpens DEF Watching, AwaitsMarker
  <2> QED
    BY <1>1, <2>3, <2>4, <2>5, EnvironmentFrame DEF Base
<1>2. CASE Head
  <2>1. /\ UNCHANGED <<lastSeen, disk>>
        /\ pc' \notin {"marker", "runtime", "bundle", "tally", "swap"}
    BY <1>2, HeadFrame
  <2>3. page' = page \/ (~page'.marker /\ ~BundleIn(page'))
    BY <1>2, HeadFrame, Fresh DEF BundleIn
  <2> QED
    BY <2>1, <2>3 DEF Watching, AwaitsMarker
<1>3. CASE Quiet
  BY <1>3, QuietWatches
<1>4. CASE InjectBundle
  <2>1. /\ pc = "bundle" /\ ~t.coexist /\ pc' = "marker"
        /\ UNCHANGED <<lastSeen, disk>>
    BY <1>4 DEF InjectBundle, Watching, TickKeeps
  <2>2. Noticed(t.source.version, disk, lastSeen)
    BY <2>1 DEF Watching
  <2>3. page'.version = t.source.version
    BY <1>0, <1>4, Evaluated DEF InjectBundle
  <2> QED
    BY <2>1, <2>2, <2>3 DEF Watching, Noticed, Mtime
<1>5. CASE StampMarker
  <2>1. /\ AwaitsMarker /\ pc' = "confirm"
        /\ page'.version = page.version /\ page'.copies = page.copies
        /\ page'.gate = page.gate
        /\ UNCHANGED <<lastSeen, disk>>
    BY <1>0, <1>5 DEF StampMarker, TickKeeps, AwaitsMarker, Page
  <2> QED
    BY <2>1 DEF Watching, Noticed, Mtime, AwaitsMarker, BundleIn
<1>6. CASE Tally
  <2>1. UNCHANGED <<page, t, lastSeen, disk>> /\ pc = "tally" /\ pc' = "swap"
    BY <1>6 DEF Tally
  <2> QED
    BY <2>1 DEF Watching, Noticed, Mtime, AwaitsMarker
<1>7. CASE SwapWatch
  BY <1>7, SwapWatches
<1>8. CASE Sleep
  <2>1. UNCHANGED <<lastSeen, disk>> /\ pc' = "discover"
    BY <1>8 DEF Sleep
  <2>2. SameBundle
    BY <1>8, SleepFrame DEF Base
  <2> QED
    BY <2>1, <2>2 DEF Watching, Noticed, Mtime, AwaitsMarker, SameBundle, BundleIn
<1>9. CASE SetHostingPaused
  BY <1>9 DEF SetHostingPaused, daemonVars, rendererVars, Watching, Noticed, Mtime,
              AwaitsMarker
<1>10. CASE ReplaceBundle
  <2>1. lastSeen' <= disk'.version /\ \A v : Noticed(v, disk', lastSeen')
    BY <1>0, <1>10, ReplacedIsNoticed DEF Watching
  <2>2. UNCHANGED <<page, t, pc, line>>
    BY <1>10 DEF ReplaceBundle, daemonVars, rendererVars
  <2> QED
    BY <2>1, <2>2 DEF Watching
<1>11. CASE DaemonRestarts
  BY <1>11 DEF DaemonRestarts
<1>12. CASE UNCHANGED vars
  BY <1>12 DEF vars, rendererVars, loopVars, daemonVars, Watching, Noticed, Mtime,
               AwaitsMarker
<1> QED
  BY <1>1, <1>2, <1>3, <1>4, <1>5, <1>6, <1>7, <1>8, <1>9, <1>10, <1>11, <1>12, Kinds
     DEF Commands

\* A changed bundle is never forgotten: between iterations, a marked page that runs
\* something else than the disk holds is one the watch will act on.  The change may
\* come anywhere in a tick, with another loader in the page, force, pauses, reloads
\* and restarts of Steam; what must not happen is a refused or lost evaluate or a
\* new daemon, which starts its watch at the file it finds.
THEOREM ChangeIsPending ==
    ASSUME Faults = {}, "crash" \notin Events
    PROVE  Spec => []SwapStaysPending
<1>1. Init => Watching
  <2>1. ASSUME Init PROVE lastSeen <= disk.version
    <3>1. disk \in Bundle
      BY <2>1, InitTyped DEF TypeOK, LoopTypeOK
    <3> QED
      BY <2>1, <3>1 DEF Init, LoopInit, Mtime, Bundle
  <2> QED
    BY <2>1, Fresh DEF Init, LoopInit, RendererInit, Watching, AwaitsMarker
<1>2. Base /\ Watching /\ [Next]_vars => Watching'
  BY WatchingStep
<1>3. Watching => SwapStaysPending
  BY DEF Watching, Noticed, SwapStaysPending
<1> QED
  BY <1>1, <1>2, <1>3, BaseHolds, PTL DEF Spec

------------------------------------------------------------------------------
(* Recovery. *)

\* A recovery has run in this outage, and the counter stays past its threshold.
Spent ==
    /\ OneRecoveryPerOutage
    /\ recoveries = 1 => collapses >= CollapseHalt /\ ui = "collapsed"

\* Only a window, a stopped Steam or a refused discovery starts the counter over.
LEMMA SpentStep ==
    ASSUME "refused" \notin Faults, "restart" \notin Events, "crash" \notin Events,
           Inv, Spent, [Next]_vars
    PROVE  Spent'
<1>0. recoveries \in Nat /\ collapses \in Nat /\ CollapseHalt \in Nat \ {0}
  BY DEF Inv, TypeOK, LoopTypeOK
<1> USE DEF Spent, OneRecoveryPerOutage
<1>1. CASE Next
  <2>1. CASE ui' \in Windows
    <3>1. recoveries' = 0
      BY <1>1, <2>1 DEF Next, HistoryNext
    <3> QED
      BY <3>1
  <2>2. CASE ui' \notin Windows /\ DiscoverCollapse
    <3>1. ui' = "collapsed"
      BY <2>2 DEF DiscoverCollapse, rendererVars
    <3>2. collapses' = IF collapses > CollapseHalt THEN collapses ELSE collapses + 1
      BY <2>2 DEF DiscoverCollapse
    <3>3. recoveries' = IF RecoveryRuns /\ recoveries < 2 THEN recoveries + 1 ELSE recoveries
      BY <1>1, <2>2 DEF Next, HistoryNext, MaxRecoveries
    <3>4. CASE recoveries = 1
      <4>1. ~RecoveryRuns /\ collapses' >= CollapseHalt
        BY <1>0, <3>2, <3>4 DEF RecoveryRuns
      <4> QED
        BY <3>1, <3>3, <3>4, <4>1
    <3>5. CASE recoveries = 0
      <4>1. RecoveryRuns => collapses' >= CollapseHalt
        BY <1>0 DEF RecoveryRuns
      <4> QED
        BY <3>1, <3>3, <3>5, <4>1
    <3> QED
      BY <1>0, <3>4, <3>5
  <2>3. CASE ui' \notin Windows /\ ~DiscoverCollapse
    <3>1. collapses' \in {collapses, 0}
      <4>1. CASE Head
        BY <2>3, <4>1 DEF Head, DiscoverFails, DiscoverWindows, GatePaused, GateOpen
      <4>2. CASE Environment
        BY <4>2, EnvironmentFrame DEF loopVars, daemonVars
      <4>3. CASE Quiet \/ InjectBundle \/ StampMarker
        BY <4>3, QuietControl DEF InjectBundle, StampMarker, TickKeeps
      <4>4. CASE Tally \/ SwapWatch \/ Sleep \/ Commands \/ DaemonRestarts
        BY <4>4 DEF Tally, SwapWatch, Sleep, Commands, SetHostingPaused, ReplaceBundle,
                    DaemonRestarts, daemonVars
      <4> QED
        BY <1>1, <4>1, <4>2, <4>3, <4>4, Kinds
    <3>2. ~RecoveryRuns
      BY <1>0, <3>1 DEF RecoveryRuns
    <3>3. recoveries' = recoveries
      BY <1>1, <2>3, <3>2 DEF Next, HistoryNext
    <3>4. CASE recoveries = 1
      <4>1. ui = "collapsed"
        BY <3>4
      <4>2. ~DiscoverFails /\ ~DiscoverWindows
        BY <4>1 DEF DiscoverFails, DiscoverWindows, Reachable, MayRefuse, Windows
      <4>3. collapses' = collapses
        <5>1. CASE Head
          BY <2>3, <4>2, <5>1 DEF Head, GatePaused, GateOpen
        <5>2. CASE Environment
          BY <5>2, EnvironmentFrame DEF loopVars, daemonVars
        <5>3. CASE Quiet \/ InjectBundle \/ StampMarker
          BY <5>3, QuietControl DEF InjectBundle, StampMarker, TickKeeps
        <5>4. CASE Tally \/ SwapWatch \/ Sleep \/ Commands \/ DaemonRestarts
          BY <5>4 DEF Tally, SwapWatch, Sleep, Commands, SetHostingPaused, ReplaceBundle,
                      DaemonRestarts, daemonVars
        <5> QED
          BY <1>1, <5>1, <5>2, <5>3, <5>4, Kinds
      <4>4. ui' = ui
        <5>1. CASE Head
          BY <5>1, HeadFrame
        <5>2. CASE Environment
          BY <2>3, <4>1, <5>2 DEF Environment, RendererNext, SteamStops, SteamStarts,
             WindowsOpen, WindowsCollapse, SwitchDesktop, PageReloads, LoaderAppears,
             LoaderBoots, BreakerMoves, UiSignals, GateBoots, Windows
        <5>3. CASE Quiet \/ InjectBundle \/ StampMarker
          BY <5>3, QuietFrame DEF InjectBundle, StampMarker, TickKeeps
        <5>4. CASE Tally \/ SwapWatch \/ Sleep \/ Commands \/ DaemonRestarts
          BY <5>4, OutsideFrame DEF Tally, SwapWatch, Sleep
        <5> QED
          BY <1>1, <5>1, <5>2, <5>3, <5>4, Kinds
      <4> QED
        BY <3>3, <3>4, <4>3, <4>4
    <3> QED
      BY <3>3, <3>4
  <2> QED
    BY <2>1, <2>2, <2>3
<1>2. CASE UNCHANGED vars
  BY <1>2 DEF vars, rendererVars, loopVars, daemonVars, history
<1> QED
  BY <1>1, <1>2

\* A collapse of the Steam UI, however long it lasts and whatever the thresholds,
\* gets one recovery command: pauses, reloads, other loaders and swaps in the middle
\* of it do not start the counter over.
THEOREM OneRecovery ==
    ASSUME "refused" \notin Faults, "restart" \notin Events, "crash" \notin Events
    PROVE  Spec => []OneRecoveryPerOutage
<1>1. Init => Spent
  BY DEF Init, Spent, OneRecoveryPerOutage
<1>2. Inv /\ Spent /\ [Next]_vars => Spent'
  BY SpentStep
<1>3. Spent => OneRecoveryPerOutage
  BY DEF Spent
<1> QED
  BY <1>1, <1>2, <1>3, Invariance, PTL DEF Spec

------------------------------------------------------------------------------
(* Beside another host. *)

\* What is stamped on a page is configured, and a tick that hosts found no claim.
Configured ==
    /\ page.force => ForceOwner
    /\ page.native => NativeQam
    /\ t.coop => ForceOwner
    /\ pc \in {"stamp", "native", "read", "runtime", "bundle"} /\ ~t.coexist => t.owner # "decky"
    /\ pc \in {"read", "bundle"} => ~t.coexist
    /\ pc = "tab" => t.coexist

\* No step stamps what is not configured or goes on to host over a claim it read.
LEMMA ConfiguredStep ==
    ASSUME Inv, Configured, [Next]_vars
    PROVE  Configured'
<1>0. page \in Page /\ t \in Tick
  BY Typed
<1>1. ~FreshPage.force /\ ~FreshPage.native /\ ~NoTick.coop
  BY DEF FreshPage, NoTick
<1>2. CASE Next
  <2>1. (page'.force => ForceOwner) /\ (page'.native => NativeQam)
    <3>1. CASE Environment /\ ~GateBoots
      <4>1. CASE UiSignals \/ LoaderAppears
        BY <1>0, <4>1 DEF UiSignals, LoaderAppears, Page, Configured
      <4>2. CASE LoaderBoots
        BY <1>0, <4>2 DEF LoaderBoots, Page, Configured
      <4> QED
        BY <1>1, <3>1, <4>1, <4>2 DEF Environment, RendererNext, SteamStops, SteamStarts,
           WindowsOpen, WindowsCollapse, SwitchDesktop, PageReloads, BreakerMoves, Configured
    <3>8. CASE GateBoots
      BY <1>0, <3>8, GateOpens DEF Configured
    <3>2. CASE Head
      BY <1>1, <3>2, HeadFrame DEF Configured
    <3>3. CASE StampForce \/ StampNative
      <4>1. \/ page' = page
            \/ page' = [page EXCEPT !.force = TRUE] /\ ForceOwner
            \/ page' = [page EXCEPT !.native = TRUE] /\ NativeQam
        BY <3>3 DEF StampForce, StampNative, Stamped, Configured, TickForce
      <4> QED
        BY <1>0, <4>1 DEF Configured, Page
    <3>4. CASE InjectRuntime
      <4>1. boot \in 0..MaxBoot
        BY DEF Inv, TypeOK, LoopTypeOK
      <4>2. page' \in {page, EvalRuntime(page, boot)}
        BY <3>4 DEF InjectRuntime
      <4> QED
        BY <1>0, <4>1, <4>2, RuntimeType DEF SameBut, Configured
    <3>5. CASE InjectBundle \/ SwapWatch
      BY <1>0, <3>5, Evaluated, TornDown DEF InjectBundle, SwapWatch, Configured
    <3>9. CASE StampMarker \/ Sleep
      BY <1>0, <3>9 DEF StampMarker, Sleep, Page, Configured
    <3>6. CASE Quiet /\ ~StampForce /\ ~StampNative /\ ~InjectRuntime
      BY <3>6 DEF Quiet, ProbeMarker, ProbeOwner, ChooseCoexist, ChooseHost, ProbeTab,
                  ReadBundle, ConfirmMarker, TickFails, Configured
    <3>7. CASE Tally \/ Commands \/ DaemonRestarts
      BY <3>7, OutsideFrame DEF Tally, Configured
    <3> QED
      BY <1>2, <3>1, <3>2, <3>3, <3>4, <3>5, <3>6, <3>7, <3>8, <3>9, Kinds
  <2>2. t'.coop => ForceOwner
    <3>1. CASE ChooseCoexist
      <4>1. t'.coop = (TickForce /\ LoaderSeenByDaemon(page))
        BY <1>0, <3>1 DEF ChooseCoexist, Tick
      <4> QED
        BY <4>1 DEF TickForce
    <3>2. CASE Quiet /\ ~ChooseCoexist
      <4>1. t'.coop = t.coop
        BY <1>0, <3>2 DEF Quiet, ProbeMarker, ProbeOwner, ChooseHost, ProbeTab,
           StampForce, StampNative, Stamped,
           ReadBundle, InjectRuntime, ConfirmMarker, TickFails, Finish, Tick
      <4> QED
        BY <4>1 DEF Configured
    <3>3. CASE InjectBundle \/ StampMarker \/ Head
      <4>1. t'.coop = t.coop
        BY <1>0, <3>3 DEF InjectBundle, StampMarker, Finish, Tick, Head, DiscoverFails,
           DiscoverWindows, DiscoverCollapse, GatePaused, GateOpen
      <4> QED
        BY <4>1 DEF Configured
    <3>4. CASE Sleep \/ DaemonRestarts
      BY <1>1, <3>4 DEF Sleep, DaemonRestarts
    <3>5. CASE Tally \/ SwapWatch \/ Environment \/ Commands
      BY <3>5 DEF Tally, SwapWatch, Environment, Commands, SetHostingPaused, ReplaceBundle,
                  loopVars, daemonVars, Configured
    <3> QED
      BY <1>2, <3>1, <3>2, <3>3, <3>4, <3>5, Kinds
  <2>3. /\ pc' \in {"stamp", "native", "read", "runtime", "bundle"} /\ ~t'.coexist => t'.owner # "decky"
        /\ pc' \in {"read", "bundle"} => ~t'.coexist
        /\ pc' = "tab" => t'.coexist
    <3>1. CASE ChooseCoexist
      <4>1. t'.coexist
        BY <1>0, <3>1 DEF ChooseCoexist, Tick
      <4>2. pc' \in {"tally", "tab"}
        BY <3>1 DEF ChooseCoexist
      <4> QED
        BY <4>1, <4>2
    <3>2. CASE ChooseHost
      <4>1. t.owner # "decky"
        BY <3>2 DEF ChooseHost, IsForeign
      <4>2. pc' = "tally" \/ (pc' = "stamp" /\ t' = t)
        BY <3>2 DEF ChooseHost, Finish
      <4> QED
        BY <4>1, <4>2
    <3>3. CASE ProbeTab
      <4>1. pc' = "tally" \/ (pc' = "stamp" /\ t' = t)
        BY <3>3 DEF ProbeTab, Finish
      <4>2. pc = "tab"
        BY <3>3 DEF ProbeTab
      <4> QED
        BY <4>1, <4>2 DEF Configured
    <3>4. CASE StampForce \/ StampNative
      BY <3>4 DEF StampForce, StampNative, Configured
    <3>5. CASE ReadBundle
      <4>1. pc' = "tally" \/ (pc' = "runtime" /\ t' = [t EXCEPT !.source = disk])
        BY <3>5 DEF ReadBundle, Finish
      <4>2. pc = "read"
        BY <3>5 DEF ReadBundle
      <4> QED
        BY <1>0, <4>1, <4>2 DEF Configured, Tick
    <3>6. CASE InjectRuntime
      BY <3>6 DEF InjectRuntime, Finish, Configured
    <3>7. CASE ProbeMarker \/ ProbeOwner \/ ConfirmMarker \/ TickFails \/ InjectBundle
               \/ StampMarker \/ Tally \/ SwapWatch \/ Sleep \/ DaemonRestarts
      BY <3>7 DEF ProbeMarker, ProbeOwner, ConfirmMarker, TickFails, InjectBundle,
         StampMarker,
                  Tally, SwapWatch, Sleep, DaemonRestarts, Finish
    <3>8. CASE Head
      BY <3>8, HeadFrame
    <3>9. CASE Environment \/ Commands
      BY <3>9 DEF Environment, Commands, SetHostingPaused, ReplaceBundle, loopVars,
                  daemonVars, Configured
    <3> QED
      BY <1>2, <3>1, <3>2, <3>3, <3>4, <3>5, <3>6, <3>7, <3>8, <3>9, Kinds DEF Quiet
  <2> QED
    BY <2>1, <2>2, <2>3 DEF Configured
<1>3. CASE UNCHANGED vars
  BY <1>3 DEF vars, rendererVars, loopVars, daemonVars, Configured
<1> QED
  BY <1>2, <1>3

\* What is stamped is configured, in every reachable state.
LEMMA ConfiguredHolds == Spec => [](Inv /\ Configured)
<1>0. ~FreshPage.force /\ ~FreshPage.native /\ ~NoTick.coop
  BY DEF FreshPage, NoTick
<1>1. Init => Configured
  BY <1>0 DEF Init, LoopInit, RendererInit, Configured
<1>2. Inv /\ Configured /\ [Next]_vars => Configured'
  BY ConfiguredStep
<1> QED
  BY <1>1, <1>2, Invariance, PTL DEF Spec

------------------------------------------------------------------------------
(* One copy, with another loader in the page. *)

\* With native_qam on, a copy without a host beneath it lives in a page the other
\* loader has claimed, where no tick hosts again.
Tenant ==
    /\ OneBundle(page)
    /\ page.owner = "shelveshub" => page.host # "none"
    /\ BundleIn(page) => page.host # "none" \/ page.owner = "decky"
    /\ BundleIn(page) => page.crossed \/ page.marker \/ AwaitsMarker \/ page.owner = "decky"
    /\ pc = "loader" /\ BundleIn(page) => page.crossed \/ t.owner = "decky"
    /\ pc \in {"stamp", "native", "read", "runtime", "bundle"} /\ ~t.coexist
         => page.crossed \/ ~BundleIn(page)
    /\ pc \in {"read", "runtime"} /\ ~t.coexist /\ line => page.native
    /\ pc = "bundle" /\ line => page.host # "none" \/ page.owner = "decky"

\* Evaluating the runtime where native_qam is stamped leaves a host or a claim.
LEMMA RuntimeTenants ==
    ASSUME NEW p \in Page, NEW b, p.native, p.owner = "shelveshub" => p.host # "none"
    PROVE  LET q == EvalRuntime(p, b)
           IN  q.host # "none" \/ q.owner = "decky"
<1> DEFINE q == EvalRuntime(p, b)
<1>1. CASE q.host # "none"
  BY <1>1
<1>2. CASE q.host = "none"
  <2>1. q = [p EXCEPT !.tab = TRUE, !.token = b,
                      !.owner = IF p.owner # "" THEN p.owner ELSE "decky"]
    BY <1>2 DEF EvalRuntime, Page
  <2>2. p.host = "none"
    BY <1>2, <2>1 DEF Page
  <2>3. p.owner \in {"", "decky"}
    BY <2>2 DEF Page, Owners
  <2>4. (IF p.owner # "" THEN p.owner ELSE "decky") = "decky"
    BY <2>3
  <2>5. q = [p EXCEPT !.tab = TRUE, !.token = b, !.owner = "decky"]
    BY <2>1, <2>4
  <2>6. q.owner = "decky"
    BY <2>5 DEF Page
  <2> QED
    BY <2>6
<1> QED
  BY <1>1, <1>2

\* Evaluating the runtime never unpublishes a host or takes a claim for itself
\* without one, and it leaves a foreign claim, the copies and the marker.
LEMMA RuntimeKeeps ==
    ASSUME NEW p \in Page, NEW b
    PROVE  LET q == EvalRuntime(p, b)
           IN  /\ q.copies = p.copies /\ q.marker = p.marker
               /\ q.gate = p.gate /\ q.crossed = p.crossed
               /\ p.host # "none" => q.host # "none"
               /\ q.owner = "shelveshub" => p.owner = "shelveshub" \/ q.host # "none"
BY DEF EvalRuntime, Page

\* The round trips that only read the page keep the tenancy.
LEMMA ReadersTenant ==
    ASSUME Faults = {}, Base, Configured, Tenant,
           \/ ProbeMarker \/ ProbeOwner \/ ChooseCoexist \/ ChooseHost \/ ProbeTab
           \/ ReadBundle \/ ConfirmMarker \/ TickFails
    PROVE  Tenant'
<1>0. page \in Page /\ t \in Tick /\ line \in BOOLEAN
  BY Typed DEF Base
<1>1. page' = page
  BY DEF ProbeMarker, ProbeOwner, ChooseCoexist, ChooseHost, ProbeTab, ReadBundle,
         ConfirmMarker, TickFails
<1>2. ~AwaitsMarker
  BY DEF ProbeMarker, ProbeOwner, ChooseCoexist, ChooseHost, ProbeTab, ReadBundle,
         ConfirmMarker, TickFails, AwaitsMarker, MayRefuse
<1>3. CASE ProbeMarker \/ ConfirmMarker \/ TickFails
  <2>1. pc' \in {"owner", "tally"}
    BY <1>3 DEF ProbeMarker, ConfirmMarker, TickFails, Finish
  <2> QED
    BY <1>1, <1>2, <2>1 DEF Tenant
<1>4. CASE ProbeOwner
  <2>1. pc' = "loader" /\ t'.owner = page.owner /\ pc = "owner"
    BY <1>0, <1>4 DEF ProbeOwner, Tick
  <2>2. BundleIn(page) => page.crossed \/ page.owner = "decky"
    BY <1>2, <2>1 DEF Tenant, Base, Probed
  <2> QED
    BY <1>1, <2>1, <2>2 DEF Tenant
<1>5. CASE ChooseCoexist
  <2>1. pc' \in {"tally", "tab"}
    BY <1>5 DEF ChooseCoexist
  <2> QED
    BY <1>1, <1>2, <2>1 DEF Tenant
<1>6. CASE ChooseHost
  <2>1. t.owner # "decky" /\ pc = "loader" /\ pc' \in {"tally", "stamp"}
    BY <1>6 DEF ChooseHost, Finish, IsForeign
  <2>2. page.crossed \/ ~BundleIn(page)
    BY <2>1 DEF Tenant
  <2> QED
    BY <1>1, <2>1, <2>2 DEF Tenant
<1>7. CASE ProbeTab
  <2>1. pc' = "tally" \/ (pc' = "stamp" /\ t' = t /\ t.coexist)
    BY <1>7 DEF ProbeTab, Finish, Configured
  <2> QED
    BY <1>1, <1>2, <2>1 DEF Tenant
<1>8. CASE ReadBundle
  <2>1. pc = "read" /\ line' = line
    BY <1>8 DEF ReadBundle
  <2>2. pc' = "tally" \/ (pc' = "runtime" /\ t' = [t EXCEPT !.source = disk])
    BY <1>8 DEF ReadBundle, Finish
  <2>3. pc' = "runtime" => t'.coexist = t.coexist
    BY <1>0, <2>1, <2>2 DEF Tick
  <2>4. (page.crossed \/ ~BundleIn(page)) /\ (line => page.native)
    BY <2>1 DEF Tenant, Configured
  <2> QED
    BY <1>1, <2>1, <2>2, <2>3, <2>4 DEF Tenant
<1> QED
  BY <1>3, <1>4, <1>5, <1>6, <1>7, <1>8

\* Each evaluate of a tick keeps the tenancy.
LEMMA EvaluatesTenant ==
    ASSUME Faults = {}, NativeQam, Base, Configured, Tenant,
           StampForce \/ StampNative \/ InjectRuntime \/ InjectBundle \/ StampMarker
    PROVE  Tenant'
<1>0. page \in Page /\ t \in Tick /\ line \in BOOLEAN
  BY Typed DEF Base
<1>1. CASE StampForce \/ StampNative
  <2>1. /\ page'.owner = page.owner /\ page'.host = page.host
        /\ SameBundle
    BY <1>0, <1>1 DEF StampForce, StampNative, Stamped, Page, SameBundle
  <2>2. StampNative /\ line => page'.native
    BY <1>0, <1>1 DEF StampNative, Stamped, Page, MayRefuse
  <2>3. /\ t' = t /\ line' = line
        /\ \/ pc = "stamp" /\ pc' = "native"
           \/ StampNative /\ pc = "native" /\ pc' \in {"runtime", "read"}
    BY <1>1 DEF StampForce, StampNative
  <2>4. BundleIn(page') = BundleIn(page) /\ OneBundle(page')
    BY <2>1 DEF SameBundle, BundleIn, OneBundle, Tenant
  <2> QED
    BY <2>1, <2>2, <2>3, <2>4 DEF Tenant, AwaitsMarker, SameBundle
<1>2. CASE InjectRuntime
  <2>1. pc = "runtime" /\ line' = line
    BY <1>2 DEF InjectRuntime
  <2>2. pc' = "tally" \/ (pc' = "bundle" /\ ~t.coexist /\ t' = t)
    BY <1>2 DEF InjectRuntime, Finish
  <2>3. CASE page' = page /\ ~line
    BY <2>1, <2>2, <2>3 DEF Tenant, AwaitsMarker
  <2>4. CASE page' = EvalRuntime(page, boot)
    <3>1. /\ page'.copies = page.copies /\ page'.marker = page.marker
          /\ page'.gate = page.gate /\ page'.crossed = page.crossed
          /\ page.host # "none" => page'.host # "none"
          /\ page'.owner = "shelveshub" => page.owner = "shelveshub" \/ page'.host # "none"
      BY <1>0, <2>4, RuntimeKeeps
    <3>2. page.owner = "decky" => page'.owner = "decky"
      BY <1>0, <2>4, RuntimeStanding DEF Base, Inv, ClaimedByLoader
    <3>3. ~t.coexist /\ line => page'.host # "none" \/ page'.owner = "decky"
      BY <1>0, <2>1, <2>4, RuntimeTenants DEF Tenant
    <3> QED
      BY <2>1, <2>2, <3>1, <3>2, <3>3 DEF Tenant, AwaitsMarker, BundleIn, OneBundle
  <2> QED
    BY <1>2, <2>3, <2>4 DEF InjectRuntime, MayRefuse
<1>3. CASE InjectBundle
  <2>1. /\ pc = "bundle" /\ line /\ pc' = "marker" /\ line' = line
    BY <1>3 DEF InjectBundle
  <2>2. page.crossed \/ ~BundleIn(page)
    BY <2>1 DEF Tenant, Configured
  <2>3. /\ page'.owner = page.owner /\ page'.host = page.host
        /\ OneBundle(page')
    BY <1>0, <1>3, <2>2, Evaluated DEF InjectBundle, OneBundle
  <2> QED
    BY <2>1, <2>3 DEF Tenant, AwaitsMarker
<1>4. CASE StampMarker
  <2>1. pc' = "confirm"
    BY <1>4 DEF StampMarker
  <2>2. /\ page'.marker /\ page'.copies = page.copies
        /\ page'.gate = page.gate /\ page'.crossed = page.crossed
        /\ page'.owner = page.owner /\ page'.host = page.host
    BY <1>0, <1>4 DEF StampMarker, Page
  <2> QED
    BY <2>1, <2>2 DEF Tenant, BundleIn, OneBundle
<1> QED
  BY <1>1, <1>2, <1>3, <1>4

\* A blank page has no tenant, unless a tick is about to give it one.
LEMMA FreshTenant ==
    ASSUME page' = FreshPage, ~line' \/ pc' \in {"discover", "gate", "sleep"}
    PROVE  Tenant'
<1>1. FreshPage.owner # "shelveshub"
  BY DEF FreshPage
<1>2. ~BundleIn(FreshPage) /\ OneBundle(FreshPage)
  BY Fresh DEF BundleIn, OneBundle
<1> QED
  BY <1>1, <1>2 DEF Tenant

\* Every step keeps the tenancy.
LEMMA TenantStep ==
    ASSUME Faults = {}, "crash" \notin Events, "reload" \notin Events, NativeQam,
           Base, Configured, Tenant, [Next]_vars
    PROVE  Tenant'
<1>0. page \in Page /\ line \in BOOLEAN
  BY Typed DEF Base
<1>1. CASE Environment
  <2>1. UNCHANGED <<pc, t>>
    BY <1>1, EnvironmentFrame DEF loopVars, daemonVars, Base
  <2>2. CASE SteamStops
    BY <2>2, FreshTenant DEF SteamStops
  <2>3. CASE LoaderAppears \/ LoaderBoots
    <3>1. /\ page'.copies = page.copies /\ page'.marker = page.marker
          /\ page'.gate = page.gate /\ page'.crossed = page.crossed
          /\ page'.native = page.native /\ line' = line
      <4>1. CASE LoaderAppears
        BY <1>0, <4>1 DEF LoaderAppears, Page
      <4>2. CASE LoaderBoots
        BY <1>0, <4>2 DEF LoaderBoots, Page
      <4> QED
        BY <2>3, <4>1, <4>2
    <3>2. page'.host = page.host /\ (page.owner = "decky" => page'.owner = "decky")
      BY <1>0, <2>3, LoaderStanding
    <3>3. page'.owner = "shelveshub" => page.owner = "shelveshub" \/ page.host # "none"
      <4>1. CASE LoaderAppears
        BY <1>0, <4>1 DEF LoaderAppears, Page
      <4>2. CASE LoaderBoots
        BY <1>0, <4>2 DEF LoaderBoots, Page
      <4> QED
        BY <2>3, <4>1, <4>2
    <3> QED
      BY <2>1, <3>1, <3>2, <3>3 DEF Tenant, AwaitsMarker, BundleIn, OneBundle
  <2>6. CASE UiSignals
    <3>1. /\ SameBundle /\ page'.native = page.native /\ line' = line
          /\ page'.host = page.host /\ page'.owner = page.owner
      BY <1>0, <2>6 DEF UiSignals, Page, SameBundle
    <3> QED
      BY <2>1, <3>1 DEF Tenant, AwaitsMarker, BundleIn, OneBundle, SameBundle
  <2>7. CASE GateBoots
    BY <1>0, <2>1, <2>7, GateOpens DEF Tenant, AwaitsMarker
  <2>4. CASE SteamStarts \/ WindowsOpen \/ WindowsCollapse \/ SwitchDesktop \/ BreakerMoves
    <3>1. UNCHANGED <<page, line>>
      BY <2>4 DEF SteamStarts, WindowsOpen, WindowsCollapse, SwitchDesktop, BreakerMoves
    <3> QED
      BY <2>1, <3>1 DEF Tenant, AwaitsMarker
  <2>5. ~PageReloads
    BY DEF PageReloads
  <2> QED
    BY <1>1, <2>2, <2>3, <2>4, <2>5, <2>6, <2>7 DEF Environment, RendererNext
<1>2. CASE Head
  <2>1. CASE GatePaused /\ page' = FreshPage
    BY <2>1, FreshTenant DEF GatePaused
  <2>2. CASE UNCHANGED page
    BY <1>2, <2>2, HeadFrame DEF Tenant, AwaitsMarker
  <2> QED
    BY <1>2, <2>1, <2>2 DEF Head, DiscoverFails, DiscoverWindows, DiscoverCollapse,
       GatePaused, GateOpen, rendererVars
<1>3. CASE Quiet \/ InjectBundle \/ StampMarker
  BY <1>3, ReadersTenant, EvaluatesTenant DEF Quiet
<1>4. CASE Tally
  BY <1>4 DEF Tally, Tenant, AwaitsMarker
<1>5. CASE SwapWatch
  <2>1. pc = "swap" /\ pc' = "sleep"
    BY <1>5 DEF SwapWatch
  <2>3. CASE page' = page
    BY <2>1, <2>3 DEF Tenant, AwaitsMarker
  <2>4. CASE page' = EvalTeardown(page)
    <3>1. /\ page'.owner = page.owner /\ page'.host = page.host /\ OneBundle(page')
          /\ BundleIn(page') => BundleIn(page)
          /\ page.host # "none" => page'.crossed \/ ~BundleIn(page')
      BY <1>0, <2>4, TornDown DEF Tenant
    <3> QED
      BY <2>1, <3>1 DEF Tenant
  <2> QED
    BY <1>5, <2>3, <2>4 DEF SwapWatch
<1>6. CASE Sleep
  <2>1. pc = "sleep" /\ pc' = "discover"
    BY <1>6 DEF Sleep
  <2>2. SameBundle /\ page'.owner = page.owner /\ page'.host = page.host
    BY <1>0, <1>6 DEF Sleep, Page, SameBundle
  <2> QED
    BY <2>1, <2>2 DEF Tenant, AwaitsMarker, BundleIn, OneBundle, SameBundle
<1>7. CASE Commands
  BY <1>7, OutsideFrame DEF Commands, SetHostingPaused, ReplaceBundle, daemonVars,
                            rendererVars, Tenant, AwaitsMarker
<1>8. CASE DaemonRestarts
  BY <1>8 DEF DaemonRestarts
<1>9. CASE UNCHANGED vars
  BY <1>9 DEF vars, rendererVars, loopVars, daemonVars, Tenant, AwaitsMarker
<1> QED
  BY <1>1, <1>2, <1>3, <1>4, <1>5, <1>6, <1>7, <1>8, <1>9, Kinds

\* The daemon never leaves two instances of the bundle running in one page whose gate
\* no hot swap and no second evaluation met while it waited, as long as DevTools
\* answers and the daemon lives, and as long as no bundle is replaced, or pages do not
\* navigate and native_qam is on or nobody else is in the page.
THEOREM OneCopy ==
    ASSUME Faults = {}, "crash" \notin Events,
           \/ "swap" \notin Events
           \/ "reload" \notin Events /\ (NativeQam \/ ~LoaderInstalled)
    PROVE  Spec => []SingleCopy
<1>1. Init => Single
  BY Fresh DEF Init, LoopInit, RendererInit, Single, OneBundle, BundleIn
<1>2. Base /\ Single => SingleCopy
  BY Typed, OneIsSingle DEF Single, Base
<1>3. CASE "swap" \notin Events
  <2>1. Init => WatchIdle
    BY DEF Init, LoopInit, WatchIdle
  <2>2. Base /\ WatchIdle /\ Single /\ [Next]_vars => WatchIdle' /\ Single'
    BY <1>3, IdleStep, SingleStep
  <2> QED
    BY <1>1, <1>2, <2>1, <2>2, BaseHolds, PTL DEF Spec
<1>4. CASE ~LoaderInstalled /\ "reload" \notin Events
  <2>1. Init => HostBeneath
    BY Fresh DEF Init, LoopInit, RendererInit, HostBeneath, BundleIn
  <2>2. Base /\ HostBeneath /\ Single /\ [Next]_vars => HostBeneath' /\ Single'
    BY <1>4, BeneathStep, SingleStep
  <2> QED
    BY <1>1, <1>2, <2>1, <2>2, BaseHolds, PTL DEF Spec
<1>5. CASE NativeQam /\ "reload" \notin Events
  <2>1. Init => Tenant
    <3>1. FreshPage.owner # "shelveshub"
      BY DEF FreshPage
    <3> QED
      BY <3>1, Fresh DEF Init, LoopInit, RendererInit, Tenant, OneBundle, BundleIn
  <2>2. Base /\ Inv /\ Configured /\ Tenant /\ [Next]_vars => Tenant'
    BY <1>5, TenantStep
  <2>3. Base /\ Tenant => SingleCopy
    BY Typed, OneIsSingle DEF Tenant, Base
  <2> QED
    BY <2>1, <2>2, <2>3, BaseHolds, ConfiguredHolds, PTL DEF Spec
<1> QED
  BY <1>3, <1>4, <1>5

------------------------------------------------------------------------------
(* Claims. *)

\* In a page the other loader has claimed, the runtime adds the tab where that is
\* configured and a host only where it is forced.
LEMMA RuntimeJoins ==
    ASSUME Inv, Configured, page.owner = "decky", page' = EvalRuntime(page, boot)
    PROVE  /\ page'.host = page.host \/ ForceOwner
           /\ page'.tab = page.tab \/ NativeQam \/ ForceOwner
<1>1. page \in Page
  BY Typed
<1>2. page.loader # "absent"
  BY DEF Inv, ClaimedByLoader
<1>3. CASE page.force
  BY <1>3 DEF Configured
<1>4. CASE ~page.force
  <2>1. \/ page' = page
        \/ page.native /\ \E o : page' = [page EXCEPT !.tab = TRUE, !.token = boot, !.owner = o]
    BY <1>2, <1>4 DEF EvalRuntime, LoaderSeenByRuntime
  <2> QED
    BY <1>1, <2>1 DEF Page, Configured
<1> QED
  BY <1>3, <1>4

\* The loader's own steps and the signal leave the host and the tab alone.
LEMMA LoaderKeepsTab ==
    ASSUME page \in Page, LoaderAppears \/ LoaderBoots \/ UiSignals
    PROVE  page'.host = page.host /\ page'.tab = page.tab
<1>1. CASE LoaderAppears
  BY <1>1 DEF LoaderAppears, Page
<1>2. CASE LoaderBoots
  <2>1. \/ page' = [page EXCEPT !.loader = "yielded"]
        \/ \E o : page' = [page EXCEPT !.loader = "booted", !.owner = o]
    BY <1>2 DEF LoaderBoots
  <2> QED
    BY <2>1 DEF Page
<1>3. CASE UiSignals
  BY <1>3 DEF UiSignals, Page
<1> QED
  BY <1>1, <1>2, <1>3

\* Once the other loader has claimed a page, no later tick evaluates the bundle in it,
\* publishes the host there without force or adds a tab nobody wants: only a tick
\* that had passed its probes before the claim still finishes, and only a gate that
\* waited then still boots, in any environment.
THEOREM ShutOut == Spec => ClaimShutsOut
<1>1. Inv /\ Configured /\ [Next]_vars =>
        [page.owner = "decky" /\ page' # FreshPage /\ ~HostPathTaken =>
           /\ page.gate = "idle" => page'.copies <= page.copies /\ page'.gate = "idle"
           /\ page'.host = page.host \/ ForceOwner
           /\ page'.tab = page.tab \/ NativeQam \/ ForceOwner]_vars
  <2> SUFFICES ASSUME Inv, Configured, Next,
                      page.owner = "decky", page' # FreshPage, ~HostPathTaken
               PROVE  /\ page.gate = "idle"
                           => page'.copies <= page.copies /\ page'.gate = "idle"
                      /\ page'.host = page.host \/ ForceOwner
                      /\ page'.tab = page.tab \/ NativeQam \/ ForceOwner
    OBVIOUS
  <2>0. page \in Page /\ page.copies \in Nat
    BY Typed, Numbered
  <2>1. CASE Environment
    <3>1. page.gate = "idle" => page'.copies = page.copies /\ page'.gate = page.gate
      BY <2>1, EnvironmentFrame DEF SameBundle, GateBoots
    <3>2. ~GateBoots => page'.host = page.host /\ page'.tab = page.tab
      <4>1. CASE LoaderAppears \/ LoaderBoots \/ UiSignals
        BY <2>0, <4>1, LoaderKeepsTab
      <4> QED
        BY <2>1, <4>1 DEF Environment, RendererNext, SteamStops, SteamStarts, WindowsOpen,
           WindowsCollapse, SwitchDesktop, PageReloads, BreakerMoves
    <3>3. GateBoots => page'.host = page.host /\ page'.tab = page.tab
      BY <2>0, GateOpens
    <3> QED
      BY <2>0, <3>1, <3>2, <3>3
  <2>2. CASE Head
    BY <2>0, <2>2, HeadFrame
  <2>3. CASE InjectRuntime
    <3>1. page'.copies = page.copies /\ page'.gate = page.gate
      BY <2>3, QuietFrame DEF Quiet, SameBundle
    <3> QED
      BY <2>0, <2>3, <3>1, RuntimeJoins DEF InjectRuntime
  <2>4. CASE Quiet /\ ~InjectRuntime
    <3>1. page'.copies = page.copies /\ page'.gate = page.gate
      BY <2>4, QuietFrame DEF SameBundle
    <3>2. page'.host = page.host /\ page'.tab = page.tab
      <4>1. CASE StampForce \/ StampNative
        <5>1. \/ page' = page
              \/ page' = [page EXCEPT !.force = TRUE]
              \/ page' = [page EXCEPT !.native = TRUE]
          BY <4>1 DEF StampForce, StampNative, Stamped
        <5> QED
          BY <2>0, <5>1 DEF Page
      <4> QED
        BY <2>4, <4>1 DEF Quiet, ProbeMarker, ProbeOwner, ChooseCoexist, ChooseHost,
           ProbeTab, ReadBundle, ConfirmMarker, TickFails
    <3> QED
      BY <2>0, <3>1, <3>2
  <2>5. CASE InjectBundle
    <3>1. pc = "bundle"
      BY <2>5 DEF InjectBundle
    <3> QED
      BY <3>1 DEF Configured, HostPathTaken
  <2>6. CASE StampMarker \/ Sleep
    <3>1. UNCHANGED <<page.copies, page.gate, page.host, page.tab>>
      BY <2>0, <2>6 DEF StampMarker, Sleep, Page
    <3> QED
      BY <2>0, <3>1
  <2>7. CASE SwapWatch
    <3>1. page' \in {page, EvalTeardown(page)}
      BY <2>7 DEF SwapWatch
    <3> QED
      BY <2>0, <3>1, TornDown
  <2>8. CASE Tally \/ Commands \/ DaemonRestarts
    BY <2>0, <2>8, OutsideFrame DEF Tally
  <2> QED
    BY <2>1, <2>2, <2>3, <2>4, <2>5, <2>6, <2>7, <2>8, Kinds
<1> QED
  BY <1>1, ConfiguredHolds, PTL DEF Spec, ClaimShutsOut

\* Without force, a page in which the other loader's Deck Shelves runs is claimed.
BootedIsClaimed ==
    /\ page.host # "coop"
    /\ page.owner = "shelveshub" => page.host = "sole"
    /\ page.host = "sole" => page.loader # "booted"
    /\ page.loader = "booted" => page.owner = "decky"

\* The two hosts claim in either order, and the one that comes second yields.
LEMMA BootedStep ==
    ASSUME ~ForceOwner, Inv, Configured, BootedIsClaimed, [Next]_vars
    PROVE  BootedIsClaimed'
<1>0. page \in Page
  BY Typed
<1> USE DEF BootedIsClaimed
<1>1. CASE Next
  <2>1. CASE SameStanding
    BY <2>1 DEF SameStanding
  <2>2. CASE page' = FreshPage
    BY <2>2 DEF FreshPage
  <2>3. CASE LoaderAppears
    BY <1>0, <2>3 DEF LoaderAppears, Page
  <2>4. CASE LoaderBoots
    <3>1. page'.host = page.host
      BY <1>0, <2>4, LoaderStanding
    <3>2. CASE page.host = "sole"
      <4>1. page'.loader = "yielded" /\ page'.owner = page.owner
        BY <1>0, <2>4, <3>2 DEF LoaderBoots, Page
      <4> QED
        BY <3>1, <3>2, <4>1
    <3>3. CASE page.host = "none"
      <4>1. page.owner \in {"", "decky"}
        BY <1>0, <3>3 DEF Page, Owners
      <4>2. page'.owner = "decky"
        BY <1>0, <2>4, <3>3, <4>1 DEF LoaderBoots, Page
      <4> QED
        BY <3>1, <3>3, <4>2
    <3> QED
      BY <1>0, <3>2, <3>3 DEF Page
  <2>5. CASE StampForce
    BY <2>5, StampStanding
  <2>6. CASE page' = EvalRuntime(page, boot)
    <3>1. ~page.force
      BY DEF Configured
    <3>2. CASE page.loader = "absent"
      <4>1. \/ page' = page
            \/ page' = [page EXCEPT !.tab = TRUE, !.token = boot, !.host = "sole",
                                    !.owner = "shelveshub"]
        BY <2>6, <3>2 DEF EvalRuntime, LoaderSeenByRuntime
      <4>2. \/ page' = page
            \/ page'.loader = "absent" /\ page'.host = "sole" /\ page'.owner = "shelveshub"
        BY <1>0, <3>2, <4>1 DEF Page
      <4> QED
        BY <3>2, <4>2
    <3>3. CASE page.loader # "absent"
      <4>1. PICK o \in {page.owner, "decky"} :
              \/ page' = page
              \/ page' = [page EXCEPT !.tab = TRUE, !.token = boot, !.owner = o]
        BY <2>6, <3>1, <3>3 DEF EvalRuntime, LoaderSeenByRuntime
      <4>2. /\ page'.host = page.host /\ page'.loader = page.loader
            /\ page'.owner \in {page.owner, "decky"}
        BY <1>0, <4>1 DEF Page
      <4> QED
        BY <4>2
    <3> QED
      BY <3>2, <3>3
  <2> QED
    BY <1>1, <2>1, <2>2, <2>3, <2>4, <2>5, <2>6, Standing DEF Inv
<1>2. CASE UNCHANGED vars
  BY <1>2 DEF vars, rendererVars
<1> QED
  BY <1>1, <1>2

ForceStands == ~coop.receded

\* With its safe mode off the daemon never recedes.
LEMMA ForceStandsStep ==
    ASSUME ~CoopSafeMode, Inv, ForceStands, [Next]_vars
    PROVE  ForceStands'
<1> USE DEF ForceStands
<1>0. coop \in [strikes: 0..RecedeStrikes, receded: BOOLEAN]
  BY DEF Inv, TypeOK, LoopTypeOK
<1>1. CASE Tally \/ DiscoverCollapse
  <2>1. \A c : Strike(c) = c
    BY DEF Strike
  <2>2. coop' \in {coop, SettledOk(coop)}
    BY <1>1, <2>1 DEF Tally, DiscoverCollapse
  <2> QED
    BY <1>0, <2>2 DEF SettledOk
<1>2. CASE DaemonRestarts
  BY <1>2 DEF DaemonRestarts
<1>3. CASE Quiet \/ InjectBundle \/ StampMarker
  <2>1. UNCHANGED coop
    BY <1>3, TickFrame DEF Quiet, TickStep, TickKeeps
  <2> QED
    BY <2>1
<1>4. CASE DiscoverFails \/ DiscoverWindows \/ GatePaused \/ GateOpen \/ SwapWatch \/ Sleep
  BY <1>4 DEF DiscoverFails, DiscoverWindows, GatePaused, GateOpen, SwapWatch, Sleep
<1>5. CASE Environment \/ Commands
  BY <1>5 DEF Environment, Commands, SetHostingPaused, ReplaceBundle, loopVars, daemonVars
<1>6. CASE UNCHANGED vars
  BY <1>6 DEF vars, loopVars, daemonVars
<1> QED
  BY <1>1, <1>2, <1>3, <1>4, <1>5, <1>6, Kinds DEF Head

\* A tick that finds the other loader's Deck Shelves running never goes on to host
\* the bundle beside it, in any order of the two claims and under any failure:
\* without force because the claim is there, with force but no safe mode because
\* force joins a loader it sees.  (With both, a recede in a page that already has a
\* cooperative host is the exception.)
THEOREM HostsAlone ==
    ASSUME ~(ForceOwner /\ CoopSafeMode)
    PROVE  Spec => NeverHostsOverRunningLoader
<1>0. Init => BootedIsClaimed /\ ForceStands
  <2>1. FreshPage.owner # "shelveshub"
    BY DEF FreshPage
  <2> QED
    BY <2>1, Fresh DEF Init, LoopInit, RendererInit, BootedIsClaimed, ForceStands
<1>1. ASSUME Inv, [Next]_vars, BootedIsClaimed \/ (ForceOwner /\ ForceStands)
      PROVE  [pc = "loader" /\ page.loader = "booted" /\ t.owner = page.owner
                => ~(pc' = "stamp" /\ page' = page /\ ~t'.coexist)]_vars
  <2> SUFFICES ASSUME Next, pc = "loader", page.loader = "booted", t.owner = page.owner
               PROVE  pc' # "stamp"
    BY <1>1
  <2>1. ~ChooseHost
    <3>1. LoaderSeenByDaemon(page)
      BY DEF LoaderSeenByDaemon
    <3> QED
      BY <1>1, <3>1 DEF ChooseHost, TickForce, IsForeign, BootedIsClaimed, ForceStands
  <2>2. CASE Quiet
    BY <2>1, <2>2 DEF Quiet, ProbeMarker, ProbeOwner, ChooseCoexist, ProbeTab,
       StampForce, StampNative, Stamped,
       ReadBundle, InjectRuntime, ConfirmMarker, TickFails, Finish
  <2>3. CASE Environment \/ Commands
    BY <2>3 DEF Environment, Commands, SetHostingPaused, ReplaceBundle, loopVars, daemonVars
  <2>4. CASE Head
    BY <2>4, HeadFrame
  <2>5. CASE InjectBundle \/ StampMarker \/ Tally \/ SwapWatch \/ Sleep \/ DaemonRestarts
    BY <2>5 DEF InjectBundle, StampMarker, Tally, SwapWatch, Sleep, DaemonRestarts
  <2> QED
    BY <2>2, <2>3, <2>4, <2>5, Kinds
<1>2. CASE ~ForceOwner
  <2>1. Inv /\ Configured /\ BootedIsClaimed /\ [Next]_vars => BootedIsClaimed'
    BY <1>2, BootedStep
  <2> QED
    BY <1>0, <1>1, <2>1, ConfiguredHolds, PTL DEF Spec, NeverHostsOverRunningLoader
<1>3. CASE ForceOwner
  <2>1. ForceOwner /\ ~CoopSafeMode
    BY <1>3
  <2>2. Inv /\ ForceStands /\ [Next]_vars => ForceStands'
    BY <2>1, ForceStandsStep
  <2>3. Inv /\ ForceStands /\ [Next]_vars =>
          [pc = "loader" /\ page.loader = "booted" /\ t.owner = page.owner
             => ~(pc' = "stamp" /\ page' = page /\ ~t'.coexist)]_vars
    BY <1>1, <1>3
  <2> QED
    BY <1>0, <2>2, <2>3, Invariance, PTL DEF Spec, NeverHostsOverRunningLoader
<1> QED
  BY <1>2, <1>3
==============================================================================
