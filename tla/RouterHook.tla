------------------------------ MODULE RouterHook ------------------------------
(***************************************************************************)
(* The router hook of a sole host: screens, a patch on the home route and  *)
(* the home bridge, registered by bundle instances and rendered by a       *)
(* wrapper around the output of Steam's memoized router.  The wrapper is   *)
(* inserted once, by patching the router found in the live tree; after     *)
(* that a registration re-renders it through React state.                  *)
(***************************************************************************)
EXTENDS Naturals, FiniteSets, ReactTree

CONSTANT RouterCap    \* tries before ensureWithRetry gives up

ASSUME RouterAssumption == RouterCap \in Nat

NoArray == [p \in {} |-> 0]

VARIABLES
    routes,      \* registered screens: path -> instance
    patches,     \* instances whose patch is registered for the home route
    bridgeOf,    \* instance of the global component, 0 for none
    built,       \* the cached array of route elements: path -> instance
    fiber,       \* Steam's mounted router: "none", or its type from "before" or "after" the patch
    rPatched,    \* the router's type is patched
    tries,       \* of ensureWithRetry
    timers,      \* its timers pending
    force,       \* doForce is scheduled
    forced,      \* of the last doForce: "none", its render is "due", or it "missed"
    inserted,    \* wrapperInserted
    subscribed,  \* the wrappers' effects ran: a bump reaches them
    dirty,       \* a bump's re-render is due
    slot,        \* the route list on screen: the array in our last slot, path -> instance
    home,        \* instances whose patch the home route on screen went through
    marked,      \* its children carry IS_PATCHED
    bridgeShown  \* instance of the global component on screen

registry == <<routes, patches, bridgeOf>>
wrapper == <<fiber, rPatched, tries, timers, force, forced, inserted, subscribed>>
screen == <<slot, home, marked, bridgeShown>>
routerVars == <<registry, built, wrapper, dirty, screen>>

RouterFresh ==
    /\ routes = NoArray /\ patches = {} /\ bridgeOf = 0 /\ built = NoArray
    /\ fiber = "none" /\ rPatched = FALSE /\ tries = 0 /\ timers = 0 /\ force = FALSE
    /\ forced = "none" /\ inserted = FALSE /\ subscribed = FALSE /\ dirty = FALSE
    /\ slot = NoArray /\ home = {} /\ marked = FALSE /\ bridgeShown = 0

RouterReset ==
    /\ routes' = NoArray /\ patches' = {} /\ bridgeOf' = 0 /\ built' = NoArray
    /\ fiber' = "none" /\ rPatched' = FALSE /\ tries' = 0 /\ timers' = 0 /\ force' = FALSE
    /\ forced' = "none" /\ inserted' = FALSE /\ subscribed' = FALSE /\ dirty' = FALSE
    /\ slot' = NoArray /\ home' = {} /\ marked' = FALSE /\ bridgeShown' = 0

------------------------------------------------------------------------------
(* Inserting the wrapper. *)

\* ensurePatched(): with React, the router is there to patch once it is mounted.
RouterFound(usable) == usable /\ InTree(fiber)

\* Above the cap the number of tries makes no difference, and is not counted on.
Counted(asked) == IF tries + asked > RouterCap THEN RouterCap ELSE tries + asked

\* A slip for EnsureWithRetry: the render that inserts the wrapper is not forced.
EnsureUnforced(asked, keep, usable) ==
    IF rPatched \/ RouterFound(usable)
    THEN /\ rPatched' = TRUE
         /\ timers' = keep
         /\ UNCHANGED <<tries, force>>
    ELSE /\ tries' = Counted(asked)
         /\ timers' = keep + Cardinality({i \in 0..(asked - 1) : tries + i < RouterCap})
         /\ UNCHANGED <<rPatched, force>>

\* ensureWithRetry(), asked `asked` times in one go with keep timers pending: the
\* router is patched once it is found and its one forced re-render is scheduled;
\* else each call leaves a timer while tries remain.
EnsureWithRetry(asked, keep, usable) ==
    IF rPatched \/ RouterFound(usable)
    THEN /\ rPatched' = TRUE
         /\ force' = (force \/ ~inserted)
         /\ timers' = keep
         /\ UNCHANGED tries
    ELSE /\ tries' = Counted(asked)
         /\ timers' = keep + Cardinality({i \in 0..(asked - 1) : tries + i < RouterCap})
         /\ UNCHANGED <<rPatched, force>>

\* A slip for RequestUpdate: once inserted the wrapper is left to Steam's renders.
RequestNothing(asked, usable) ==
    IF inserted THEN UNCHANGED <<dirty, rPatched, tries, timers, force>>
    ELSE EnsureWithRetry(asked, timers, usable) /\ UNCHANGED dirty

\* requestUpdate(): bump the mounted wrappers, or see to it that they get in.
RequestUpdate(asked, usable) ==
    IF inserted
    THEN /\ dirty' = (dirty \/ subscribed)
         /\ UNCHANGED <<rPatched, tries, timers, force>>
    ELSE EnsureWithRetry(asked, timers, usable) /\ UNCHANGED dirty

RouterTimer(usable) ==
    /\ timers > 0
    /\ EnsureWithRetry(1, timers - 1, usable)
    /\ UNCHANGED <<registry, built, fiber, forced, inserted, subscribed, dirty, screen>>

------------------------------------------------------------------------------
(* Rendering. *)

\* buildOurRoutes(): the array is kept as long as the SET of paths is the same.
BuildOurRoutes == IF built # NoArray /\ DOMAIN built = DOMAIN routes THEN built ELSE routes

\* injectRoutes() into a route list whose last slot holds `last`: nothing is
\* done, and an old array stays, when no route is registered.
InjectRoutes(last) ==
    IF routes = NoArray THEN slot' = last /\ UNCHANGED built
    ELSE slot' = BuildOurRoutes /\ built' = BuildOurRoutes

\* applyPatches() to the home route whose children went through `before`.
ApplyPatches(before, done) ==
    IF patches = {} \/ done THEN home' = before /\ marked' = done
    ELSE home' = before \cup patches /\ marked' = TRUE

\* processLists(): the patches go over every list, our routes into the main one;
\* the wrapper beside it renders the global component.
ProcessLists(last, before, done) ==
    /\ InjectRoutes(last)
    /\ ApplyPatches(before, done)
    /\ bridgeShown' = bridgeOf

\* Steam renders its router: a fresh route list.  A patched type wraps it.
SteamRendersRouter ==
    /\ fiber # "none"
    /\ IF fiber = "after"
       THEN /\ inserted' = TRUE
            /\ forced' = "none"
            /\ ProcessLists(NoArray, {}, FALSE)
            /\ dirty' = FALSE
       ELSE UNCHANGED <<inserted, forced, built, screen, dirty>>
    /\ UNCHANGED <<registry, fiber, rPatched, tries, timers, force, subscribed>>

\* The wrappers' effects subscribe them, some time after their first commit.
EffectsRun ==
    /\ inserted /\ ~subscribed
    /\ subscribed' = TRUE
    /\ UNCHANGED <<registry, built, fiber, rPatched, tries, timers, force, forced, inserted,
                   dirty, screen>>

\* A bumped wrapper renders again over the route list it was given.
Rerender ==
    /\ dirty
    /\ dirty' = FALSE
    /\ ProcessLists(slot, home, marked)
    /\ UNCHANGED <<registry, wrapper>>

\* doForce(): re-point the mounted router to its patched type and ask its nearest
\* class ancestor for a render.  Without one in reach there is none, and no other try.
DoForce ==
    /\ force
    /\ force' = FALSE
    /\ IF inserted THEN UNCHANGED <<fiber, forced>>
       ELSE /\ fiber' = Repointed(fiber)
            /\ forced' \in {"due", IF forced = "due" THEN "due" ELSE "missed"}
    /\ UNCHANGED <<registry, rPatched, tries, timers, inserted, subscribed, dirty, built, screen>>

\* The forced render comes, and inserts the wrapper.
ForcedRender ==
    /\ forced = "due"
    /\ forced' = "none"
    /\ inserted' = TRUE
    /\ ProcessLists(NoArray, {}, FALSE)
    /\ UNCHANGED <<registry, fiber, rPatched, tries, timers, force, subscribed, dirty>>

RouterMounts ==
    /\ fiber = "none"
    /\ fiber' = TypeAtMount(rPatched)
    /\ UNCHANGED <<registry, built, rPatched, tries, timers, force, forced, inserted,
                   subscribed, dirty, screen>>

------------------------------------------------------------------------------
(* The registrations of the bundle's instances. *)

\* Instance v mounts: addRoute for each screen, addPatch on the home route,
\* addGlobalComponent under an id that every instance uses.
Mount(v, screens, usable) ==
    /\ routes' = [p \in DOMAIN routes \cup screens |->
                    IF p \in screens THEN v ELSE routes[p]]
    /\ patches' = patches \cup {v}
    /\ bridgeOf' = v
    /\ RequestUpdate(Cardinality(screens) + 2, usable)
    /\ UNCHANGED <<built, fiber, forced, inserted, subscribed, screen>>

\* A slip for Unmount: the patch of the home route stays registered.
UnmountKeepsPatch(usable) ==
    /\ routes' = NoArray
    /\ bridgeOf' = 0
    /\ RequestUpdate(Cardinality(DOMAIN routes) + 2, usable)
    /\ UNCHANGED <<patches, built, fiber, forced, inserted, subscribed, screen>>

\* The unmount handlers of the mounted instances take all of it back.
Unmount(usable) ==
    /\ routes' = NoArray
    /\ patches' = {}
    /\ bridgeOf' = 0
    /\ RequestUpdate(Cardinality(DOMAIN routes) + 2, usable)
    /\ UNCHANGED <<built, fiber, forced, inserted, subscribed, screen>>
===============================================================================
