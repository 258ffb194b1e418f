------------------------------- MODULE HomeNav -------------------------------
(***************************************************************************)
(* Gamepad navigation on the home of a sole host.  Native sections that    *)
(* the plugin hides stay in Steam's navigation tree as 0x0 nodes; an       *)
(* interval takes them out, keeps a record of each, and puts it back once  *)
(* it is visible again.  Steam may mount a section anew at any time, which *)
(* gives it a new node and leaves the record one that is in no document.   *)
(***************************************************************************)

VARIABLES
    navTree,    \* the main navigation tree is up
    hidden,     \* sections whose element measures 0x0
    tree,       \* sections with a node in the tree
    pruned,     \* _prunedNodes: sections whose mounted node was taken out
    detached,   \* ... and those of which a node is recorded that is mounted no more
    pruning,    \* _navPruneTimer
    stopper,    \* stopNavPrune is among the unmount handlers
    away        \* document.hidden: a game is in front

nodes == <<tree, pruned, detached>>
navVars == <<navTree, hidden, nodes, pruning, stopper, away>>

NavFresh == /\ navTree = FALSE /\ hidden = {} /\ tree = {} /\ pruned = {} /\ detached = {}
            /\ pruning = FALSE /\ stopper = FALSE /\ away = FALSE
NavReset == /\ navTree' = FALSE /\ hidden' = {} /\ tree' = {} /\ pruned' = {} /\ detached' = {}
            /\ pruning' = FALSE /\ stopper' = FALSE /\ away' = FALSE

\* startNavPrune(), at the end of the runtime's first evaluation in a page.
StartNavPrune ==
    /\ pruning' = TRUE
    /\ stopper' = (stopper \/ ~pruning)
    /\ UNCHANGED <<navTree, hidden, nodes, away>>

\* The first teardown consumes the handler with the bundle's own.
StopNavPrune ==
    /\ pruning' = (pruning /\ ~stopper)
    /\ stopper' = FALSE
    /\ UNCHANGED <<navTree, hidden, nodes, away>>

\* restorePrunedNodes(): the recorded nodes that are visible again.
Restored == pruned \ hidden

\* A slip for PruneHiddenNavNodes: every pass starts a record of its own.
PruneForgets ==
    /\ pruning
    /\ navTree /\ ~away
    /\ Restored # {} \/ detached # {} \/ tree \cap hidden # {}
    /\ tree' = tree \ hidden
    /\ pruned' = tree \cap hidden
    /\ detached' = {}
    /\ UNCHANGED <<navTree, hidden, pruning, stopper, away>>

\* pruneHiddenNavNodes(), where it has something to do: the restore pass, which also
\* drops the records of detached nodes, then the prune pass over the tree it leaves.
PruneHiddenNavNodes ==
    LET restored == tree \cup Restored
    IN /\ pruning
       /\ navTree /\ ~away
       /\ Restored # {} \/ detached # {} \/ tree \cap hidden # {}
       /\ tree' = restored \ hidden
       /\ pruned' = (pruned \ Restored) \cup (restored \cap hidden)
       /\ detached' = {}
       /\ UNCHANGED <<navTree, hidden, pruning, stopper, away>>

\* The home comes up; a section is hidden or shown, or mounted anew; a game comes or goes.
HomeChanges(sections) ==
    /\ \/ /\ ~navTree /\ navTree' = TRUE
          /\ tree' = sections
          /\ UNCHANGED <<hidden, pruned, detached, away>>
       \/ \E s \in sections :
             /\ hidden' = IF s \in hidden THEN hidden \ {s} ELSE hidden \cup {s}
             /\ UNCHANGED <<navTree, nodes, away>>
       \/ \E s \in pruned :
             /\ tree' = tree \cup {s}
             /\ pruned' = pruned \ {s}
             /\ detached' = detached \cup {s}
             /\ UNCHANGED <<navTree, hidden, away>>
       \/ away' = ~away /\ UNCHANGED <<navTree, hidden, nodes>>
    /\ UNCHANGED <<pruning, stopper>>
==============================================================================
