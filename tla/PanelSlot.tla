------------------------------- MODULE PanelSlot -------------------------------
(***************************************************************************)
(* The panel of the hub's Quick Access tab: the plugin's editor with a     *)
(* button to the hub's view, that view instead of it, or in the place of   *)
(* an editor that failed to render, or alone when no panel is registered.  *)
(***************************************************************************)

VARIABLES
    tab,        \* the slot is mounted
    spec,       \* the first panel registered: "none", "sound", or "broken" when it throws
    showHub,    \* the hub's view was opened from the editor
    failed,     \* the boundary around the editor holds an error
    dot         \* the button shows that an update waits

slotVars == <<tab, spec, showHub, failed, dot>>

\* What is mounted in the slot.
View == IF ~tab THEN "closed"
        ELSE IF spec = "none" \/ showHub THEN "hub"
        ELSE IF failed THEN "rescue" ELSE "editor"

\* The hub's own panel, in either of its two places.
open == View \in {"hub", "rescue"}

\* The error boundary: once it holds an error it shows its fallback until it is
\* mounted anew, whatever its child has become.
Boundary(held, child) == held \/ child = "broken"

MountSlot ==
    /\ ~tab
    /\ tab' = TRUE
    /\ failed' = Boundary(FALSE, spec)
    /\ UNCHANGED <<spec, showHub, dot>>

UnmountSlot ==
    /\ tab
    /\ tab' = FALSE /\ showHub' = FALSE /\ failed' = FALSE /\ dot' = FALSE
    /\ UNCHANGED spec

\* registerPanel() under the id in use re-renders the slot; the boundary of an
\* editor on screen stays mounted.
RegisterPanel(kind) ==
    /\ spec' = kind
    /\ failed' = (tab /\ ~showHub /\ Boundary(failed, kind))
    /\ UNCHANGED <<tab, showHub, dot>>

\* The function registerPanel() returned.
DisposePanel ==
    /\ spec # "none"
    /\ spec' = "none" /\ failed' = FALSE
    /\ UNCHANGED <<tab, showHub, dot>>

\* The pinned button, below the editor or what stands in for it.
OpenHub ==
    /\ View \in {"editor", "rescue"}
    /\ showHub' = TRUE /\ failed' = FALSE
    /\ UNCHANGED <<tab, spec, dot>>

\* onBack, offered while there is an editor to go back to.
BackToEditor ==
    /\ tab /\ showHub /\ spec # "none"
    /\ showHub' = FALSE
    /\ failed' = Boundary(FALSE, spec)
    /\ UNCHANGED <<tab, spec, dot>>
================================================================================
