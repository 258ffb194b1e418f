------------------------------- MODULE SteamUi -------------------------------
(***************************************************************************)
(* What the injected runtime finds in Steam's own JavaScript: the webpack  *)
(* modules it captures, the React stack it borrows, and the native UI      *)
(* components it resolves, one scan step per timer tick on a sole host,    *)
(* borrowed from the other loader beside one.  Steam keeps loading modules *)
(* while the scan runs; a step only sees what is loaded when it runs.      *)
(***************************************************************************)
EXTENDS Naturals, Sequences

Modules == {"react", "common", "focusable", "field", "panel", "modals",
            "menus", "navigation", "classes", "enum", "qam"}

VARIABLES
    late,       \* modules this client loads after the others, one by one
    chunk,      \* window.webpackChunk* exists
    loaded,     \* modules in Steam's require cache (req.c)
    react,      \* the React the runtime took when it was evaluated is not null
    ui,         \* keys of UI / host.ui that resolved
    uiReady,    \* set when a scan STARTS, or when the loader's Focusable is borrowed
    scan,       \* steps of ensureUiChunked that ran; past the last: onDone was called
    augment,    \* the same for augmentHostUi
    ready,      \* window.__SHELVES_UI_READY__
    focusable,  \* focusableComp: "unknown", "found", or "missing" once looked for
    discovery   \* the 1.5 s timer of scheduleUiDiscovery is pending

scanVars == <<ui, uiReady, scan, augment, ready, focusable, discovery>>
steamVars == <<late, chunk, loaded, react, scanVars>>

------------------------------------------------------------------------------
(* Steam's webpack. *)

\* init(), run by every search: capture Steam's require once the chunk array is
\* up (an early call leaves the next one free to try again), copy what is in the
\* require cache; only when nothing is there force-require every known factory.
Refreshed == IF ~chunk THEN {}
             ELSE IF loaded # {} THEN loaded ELSE Modules \ late

\* A search leaves instantiated what it forced.
Find == loaded' = IF chunk THEN Refreshed ELSE loaded

\* getReactStack(): the globals a loader publishes come first, then the search.
\* The result is only kept when there is one, but the runtime asks once.
TakeReact(published) ==
    react' = (published \/ "react" \in Refreshed)

------------------------------------------------------------------------------
(* The scan.  A component resolves when the module it lives in is known; those *)
(* looked up in _commonValues depend on what the FIRST step found.             *)

\* The widgets of the Quick Access panel.
WidgetSteps == <<
    [in |-> "common",     gives |-> {"ToggleField", "ButtonItem", "DialogButton", "SliderField"}, kept |-> {}],
    [in |-> "focusable",  gives |-> {"Focusable"}, kept |-> {}],
    [in |-> "field",      gives |-> {"Field"}, kept |-> {}],
    [in |-> "panel",      gives |-> {"PanelSection", "PanelSectionRow"}, kept |-> {}]>>

\* What the plugin's own screens need on a sole host.
ScreenSteps == <<
    [in |-> "modals",     gives |-> {"showModal", "ConfirmModal", "showContextMenu"}, kept |-> {}],
    [in |-> "menus",      gives |-> {"Menu", "MenuItem"}, kept |-> {"Dropdown", "DropdownItem", "TextField"}],
    [in |-> "navigation", gives |-> {"Tabs", "Spinner", "Navigation"}, kept |-> {}],
    [in |-> "common",     gives |-> {"GamepadButton"}, kept |-> {"DialogBody", "DialogControlsSection"}]>>

UiSteps == WidgetSteps \o ScreenSteps

\* What a host beside a loader takes from its library without force.
Borrowable == {"Focusable", "ButtonItem", "DialogButton", "ToggleField",
               "SliderField", "Field", "PanelSection", "PanelSectionRow"}

\* augmentHostUi: helpers that need no search, then its tasks.
Helpers == {"afterPatch", "findInReactTree", "fakeRenderComponent", "GamepadButton"}
AugmentTasks == <<
    [in |-> "menus",   gives |-> {"MenuSeparator"}],
    [in |-> "menus",   gives |-> {"MenuGroup"}],
    [in |-> "classes", gives |-> {"gamepadDialogClasses"}],
    [in |-> "classes", gives |-> {"gamepadContextMenuClasses"}],
    [in |-> "classes", gives |-> {"quickAccessMenuClasses"}],
    [in |-> "classes", gives |-> {"quickAccessControlsClasses"}],
    [in |-> "classes", gives |-> {"scrollPanelClasses"}],
    [in |-> "classes", gives |-> {"classMap"}]>>

\* What step i adds to UI.
Resolved(i) ==
    (IF UiSteps[i].in \in Refreshed THEN UiSteps[i].gives ELSE {})
    \cup (IF "ToggleField" \in ui THEN UiSteps[i].kept ELSE {})

AugmentResolved(i) ==
    IF AugmentTasks[i].in \in Refreshed THEN AugmentTasks[i].gives ELSE {}

\* ensureFocusable(): what the scan resolved, else one search, made only once.
EnsureFocusable ==
    focusable' = IF focusable = "found" \/ "Focusable" \in ui THEN "found"
                 ELSE IF focusable = "missing" \/ ~react THEN focusable
                 ELSE IF "focusable" \in Refreshed THEN "found" ELSE "missing"

\* ensureUiChunked(): the flag goes up at once, the first step runs at once.
StartScan ==
    /\ uiReady' = TRUE
    /\ scan' = 1
    /\ ui' = ui \cup Resolved(1)

\* The next timer tick of a running scan.
ScanStep ==
    /\ scan \in 1..(Len(UiSteps) - 1)
    /\ scan' = scan + 1
    /\ ui' = ui \cup Resolved(scan + 1)
    /\ Find
    /\ UNCHANGED <<late, chunk, react, uiReady, augment, ready, focusable, discovery>>

\* A slip for ScanDone: readiness is signalled with the scan, not the augmentation.
ScanDoneSignals(sole) ==
    /\ scan = Len(UiSteps)
    /\ scan' = scan + 1
    /\ ready' = TRUE
    /\ Find
    /\ UNCHANGED <<late, chunk, react, ui, uiReady, augment, focusable, discovery>>

\* The tick after the last step calls onDone: on a sole host host.ui is
\* augmented next (its first task runs at once), beside a loader the panel
\* takes up Focusable.
ScanDone(sole) ==
    /\ scan = Len(UiSteps)
    /\ scan' = scan + 1
    /\ IF sole
       THEN /\ augment' = 1
            /\ ui' = ui \cup Helpers \cup AugmentResolved(1)
            /\ UNCHANGED focusable
       ELSE /\ EnsureFocusable
            /\ UNCHANGED <<augment, ui>>
    /\ Find
    /\ UNCHANGED <<late, chunk, react, uiReady, ready, discovery>>

AugmentStep ==
    /\ augment \in 1..(Len(AugmentTasks) - 1)
    /\ augment' = augment + 1
    /\ ui' = ui \cup AugmentResolved(augment + 1)
    /\ Find
    /\ UNCHANGED <<late, chunk, react, uiReady, scan, ready, focusable, discovery>>

\* The tick after the last task: signalUiReady.
AugmentDone ==
    /\ augment = Len(AugmentTasks)
    /\ augment' = augment + 1
    /\ ready' = TRUE
    /\ UNCHANGED <<late, chunk, loaded, react, ui, uiReady, scan, focusable, discovery>>

\* Beside a loader nothing is scanned: its resolved components are borrowed,
\* all of them in cooperation, and the gate is released in the same instant.
Borrow(lib, coop) ==
    /\ ui' = ui \cup (lib \cap Borrowable) \cup (IF coop THEN lib ELSE {})
    /\ uiReady' = ("Focusable" \in lib)
    /\ ready' = TRUE

\* scheduleUiDiscovery's timer: a scan already begun counts as done, and without
\* React there is none.
DiscoveryTimer ==
    /\ discovery
    /\ discovery' = FALSE
    /\ IF uiReady \/ ~react THEN EnsureFocusable /\ UNCHANGED <<uiReady, scan, ui>>
                  ELSE StartScan /\ UNCHANGED focusable
    /\ Find
    /\ UNCHANGED <<late, chunk, react, augment, ready>>

------------------------------------------------------------------------------
(* Steam, on its own. *)

ChunkAppears ==
    /\ ~chunk
    /\ chunk' = TRUE
    /\ UNCHANGED <<late, loaded, react, scanVars>>

\* The modules of the first bundle are instantiated together, late ones alone.
ModuleLoads ==
    /\ chunk
    /\ \E more \in {Modules \ late} \cup {{m} : m \in late} :
          /\ ~(more \subseteq loaded)
          /\ loaded' = loaded \cup more
    /\ UNCHANGED <<late, chunk, react, scanVars>>

SteamFresh ==
    /\ chunk = FALSE /\ loaded = {} /\ react = FALSE
    /\ ui = {} /\ uiReady = FALSE /\ scan = 0 /\ augment = 0 /\ ready = FALSE
    /\ focusable = "unknown" /\ discovery = FALSE

SteamReset ==
    /\ UNCHANGED late
    /\ chunk' = FALSE /\ loaded' = {} /\ react' = FALSE
    /\ ui' = {} /\ uiReady' = FALSE /\ scan' = 0 /\ augment' = 0 /\ ready' = FALSE
    /\ focusable' = "unknown" /\ discovery' = FALSE
==============================================================================
