-------------------------------- MODULE MCPage --------------------------------
(* Machines, bundles and tab lists of the page's runs. *)
EXTENDS RuntimePage

Machine(n, f, ls, s, l, scr, sec) ==
    [native |-> n, force |-> f, loaders |-> ls, shape |-> s, late |-> l,
     screens |-> scr, sections |-> sec, sideMenu |-> FALSE]

\* A sole host whose modules load late, without the tab; sole hosts with the
\* tab on three shapes of client; a loader that comes and goes between pages;
\* a loader with and without force, or that stands us down; a bundle with screens; a home
\* with sections; a side menu.
MenuWorlds ==
    {[Machine(FALSE, FALSE, {l}, "direct", {}, <<>>, {}) EXCEPT !.sideMenu = TRUE] :
        l \in {"none", "full"}}
TheWorlds ==
    {Machine(FALSE, FALSE, {"none"}, "direct", {"focusable", "menus"}, <<>>, {}),
     Machine(TRUE, FALSE, {"none"}, "direct", {"qam"}, <<>>, {}),
     Machine(TRUE, FALSE, {"none", "full"}, "deep", {}, <<>>, {}),
     Machine(TRUE, FALSE, {"none"}, "unknown", {}, <<>>, {}),
     Machine(TRUE, TRUE, {"early", "full"}, "direct", {"qam"}, <<>>, {}),
     Machine(FALSE, FALSE, {"full"}, "direct", {}, <<>>, {}),
     Machine(FALSE, FALSE, {"none"}, "direct", {}, <<{"editor"}, {"editor", "stats"}>>, {}),
     Machine(FALSE, FALSE, {"none"}, "direct", {}, <<>>, {"recents"})}
    \cup MenuWorlds
GateWorld == {Machine(FALSE, FALSE, {"none"}, "direct", {"menus"}, <<>>, {})}
SectionWorld == {Machine(FALSE, FALSE, {"none"}, "direct", {}, <<>>, {"recents"})}
SwapWorld == {Machine(FALSE, FALSE, {"none"}, "direct", {}, <<{"editor"}, {"editor"}>>, {})}

TheLists == {<<"notif", "perf", "help">>, <<"notif", "foreign">>}
===============================================================================
