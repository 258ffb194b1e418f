------------------------------ MODULE ReactTree ------------------------------
(***************************************************************************)
(* How a patch of a component's type reaches Steam's React tree: a mount   *)
(* keeps the render function it was created with, so only what mounts      *)
(* after the patch runs the handler, unless the live node is re-pointed.   *)
(***************************************************************************)

\* afterPatch() leaves in the slot a replacement of the same shape (function, memo
\* or forwardRef) that runs the handler after the original: what mounts from then
\* on has the type from "after" the patch.
TypeAtMount(patched) == IF patched THEN "after" ELSE "before"

\* A live node pointed at the replacement runs it from its next render on.
Repointed(type) == IF type = "before" THEN "after" ELSE type

\* getReactRoot() and findInReactTree(): a search from the root's current tree only
\* meets what is mounted.
InTree(type) == type # "none"
==============================================================================
