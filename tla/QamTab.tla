------------------------------- MODULE QamTab -------------------------------
(***************************************************************************)
(* The native Quick Access tab: the breaker in localStorage that refuses   *)
(* the native path after a session that never confirmed it, the patch on   *)
(* Steam's tab-list consumer with its retries, the tab pushed into the     *)
(* list of a render, and the panels registered for it before or after the  *)
(* bridge exists.                                                          *)
(***************************************************************************)
EXTENDS Naturals, Sequences, FiniteSets, SequencesExt, ReactTree

CONSTANTS
    RetryCap,   \* patchAttempts allowed before the runtime gives up
    Lists       \* tab lists Steam (and another loader) may build

ASSUME QamAssumption ==
    /\ RetryCap \in Nat \ {0}
    /\ \A l \in Lists :
          /\ l \in Seq(ToSet(l)) /\ "ours" \notin ToSet(l)
          /\ \A i, j \in DOMAIN l : l[i] = l[j] => i = j   \* tabs have their own keys

VARIABLES
    trip,       \* localStorage 'shelves.nativeQamTrip': "none", "recent" or "stale" arm, "tripped"
    native,     \* NATIVE_QAM_ENABLED of this page's runtime
    patched,    \* the consumer's type is wrapped
    attempts,   \* patchAttempts
    retries,    \* retry timers pending
    enumKey,    \* our key is in Steam's QuickAccessTab enum
    mount,      \* the mounted consumer: "none", or its type from "before" or "after" the patch
    list,       \* the tabs of the last render
    inner,      \* the wrapped component of that render has yet to render
    confirmed,  \* a render of this page carried our tab
    stamped,    \* window.__SHELVES_QAM_OWNER__
    bridge,     \* window.__SHELVES_QAM__ exists
    panel       \* the plugin's panel: "none", "pending" on the queue, "spec" of the tab

tabVars == <<native, patched, attempts, retries, enumKey, mount, list, inner,
             confirmed, stamped, bridge, panel>>

TabFresh ==
    /\ native = FALSE /\ patched = FALSE /\ attempts = 0 /\ retries = 0
    /\ enumKey = FALSE /\ mount = "none" /\ list = <<>> /\ inner = FALSE
    /\ confirmed = FALSE /\ stamped = FALSE /\ bridge = FALSE /\ panel = "none"

TabReset ==
    /\ native' = FALSE /\ patched' = FALSE /\ attempts' = 0 /\ retries' = 0
    /\ enumKey' = FALSE /\ mount' = "none" /\ list' = <<>> /\ inner' = FALSE
    /\ confirmed' = FALSE /\ stamped' = FALSE /\ bridge' = FALSE /\ panel' = "none"

------------------------------------------------------------------------------
(* The breaker. *)

\* A slip for Breaker: a stale arm is taken for a double inject.
BreakerRearms(sole) ==
    /\ trip' = trip
    /\ native' = ~(sole /\ trip = "tripped")

\* Evaluating the runtime, native tab requested: on a sole host a stale arm
\* trips, a recent one is a double inject of the boot, a trip stays.
Breaker(sole) ==
    /\ trip' = IF sole /\ trip = "stale" THEN "tripped" ELSE trip
    /\ native' = ~(sole /\ trip \in {"stale", "tripped"})

\* STALE_ARM_MS pass.
ArmAges ==
    /\ trip = "recent"
    /\ trip' = "stale"
    /\ UNCHANGED tabVars

------------------------------------------------------------------------------
(* The patch. *)

\* tabEnum(): the enum the other loader publishes, else Steam's own, by either of
\* its two shapes, once its module is known; without one our tab has no name.
TabEnum(modules, loaderEnum) == loaderEnum \/ "enum" \in modules

\* findQamConsumers(): the menu's consumers, in whose type the patch goes.
Consumers(modules) == "qam" \in modules

\* installPatch(): wrap the consumer once its chunk is known, register the key
\* in the enum, and re-point a consumer that was mounted before.
InstallPatch(modules, loaderEnum) ==
    /\ patched' = TRUE
    /\ enumKey' = TabEnum(modules, loaderEnum)
    /\ mount' = Repointed(mount)

\* installPatchWithRetry(), called by the runtime, by registerPanel and by its
\* own timer: calls of them in one go, keep the timers that stay pending.
TryPatch(modules, loaderEnum, usable, calls, keep) ==
    IF patched \/ ~usable
    THEN /\ retries' = keep
         /\ UNCHANGED <<patched, attempts, enumKey, mount>>
    ELSE IF Consumers(modules)
    THEN /\ InstallPatch(modules, loaderEnum)
         /\ retries' = keep
         /\ UNCHANGED attempts
    ELSE /\ attempts' = attempts + calls
         /\ retries' = keep + Cardinality({i \in 1..calls : attempts + i < RetryCap})
         /\ UNCHANGED <<patched, enumKey, mount>>

------------------------------------------------------------------------------
(* The tab in the list. *)

\* tabInsertIndex(): right after Steam's Performance tab, or the end of a list
\* without it.
InsertIndex(l) == IF "perf" \in ToSet(l)
                  THEN 1 + CHOOSE i \in DOMAIN l : l[i] = "perf" ELSE Len(l) + 1

\* A slip for Pushed: the list is not searched for our tab first.
PushedAgain(l) == InsertAt(l, InsertIndex(l), "ours")

\* pushTab(): nothing when the list has our tab already.
Pushed(l) == IF "ours" \in ToSet(l) THEN l ELSE InsertAt(l, InsertIndex(l), "ours")

\* The first insert of the page stamps the owner of the tab and clears the
\* breaker; armed: its value when pushTab is reached.
Push(l, armed) ==
    /\ list' = Pushed(l)
    /\ IF "ours" \in ToSet(l) \/ confirmed
       THEN trip' = armed /\ UNCHANGED confirmed
       ELSE trip' = "none" /\ confirmed' = TRUE
    /\ stamped' = (stamped \/ "ours" \notin ToSet(l))

\* A slip for Armed: a render beside a loader arms as well.
ArmedAnyway(sole) == IF ~confirmed THEN "recent" ELSE trip

\* The handler arms before each render that is not yet confirmed, on a sole host.
Armed(sole) == IF ~confirmed /\ sole THEN "recent" ELSE trip

\* Steam renders the consumer (mounting it if it was not) with list l: fresh, or
\* the one it kept.  A consumer whose type is patched runs our handler, which
\* finds the tabs in its output, or wraps the component below that makes them,
\* or finds neither, as the client's shape has it.
RenderMenu(sole, shape) ==
    \E l \in Lists \cup (IF list = <<>> THEN {} ELSE {list}) :
        /\ mount' = IF mount # "none" THEN mount ELSE TypeAtMount(patched)
        /\ IF mount' = "before"
           THEN /\ list' = l
                /\ inner' = FALSE
                /\ UNCHANGED <<trip, confirmed, stamped>>
           ELSE IF shape = "direct"
           THEN /\ Push(l, Armed(sole))
                /\ inner' = FALSE
           ELSE /\ trip' = Armed(sole)
                /\ list' = l
                /\ inner' = (shape = "deep")
                /\ UNCHANGED <<confirmed, stamped>>
        /\ UNCHANGED <<native, patched, attempts, retries, enumKey, bridge, panel>>

\* The component below renders, its output passes through tabWrapper.
RenderInner ==
    /\ inner
    /\ inner' = FALSE
    /\ Push(list, trip)
    /\ UNCHANGED <<native, patched, attempts, retries, enumKey, mount, bridge, panel>>

\* Steam unmounts the menu.
CloseMenu ==
    /\ mount # "none"
    /\ mount' = "none"
    /\ list' = <<>>
    /\ inner' = FALSE
    /\ UNCHANGED <<trip, native, patched, attempts, retries, enumKey, confirmed,
                   stamped, bridge, panel>>
=============================================================================
