------------------------------- MODULE SideMenu -------------------------------
(***************************************************************************)
(* Steam may open its main side menu over the home while it boots.  Each   *)
(* evaluation of the runtime starts an interval that closes it again; the  *)
(* interval starts before the runtime looks whether the page has it        *)
(* already, so a hot swap starts one more.                                 *)
(***************************************************************************)
EXTENDS Naturals, Sequences, SequencesExt

CONSTANTS
    MissCap,    \* ticks it waits for Steam's menu store (400 in the code)
    CloseCap,   \* times it closes the menu (6)
    StableCap,  \* ticks the menu has to stay closed (3)
    AgeCap      \* ticks it lives once the store is there (10 s, 40)

ASSUME MenuAssumption ==
    MissCap \in Nat /\ AgeCap \in Nat /\ {CloseCap, StableCap} \subseteq Nat \ {0}

VARIABLES
    menu,       \* the side menu: "none" before its store is up, "open", "shut"
    closers     \* intervals that run: [tries, closes, stable, age]

menuVars == <<menu, closers>>

MenuFresh == menu = "none" /\ closers = <<>>
MenuReset == menu' = "none" /\ closers' = <<>>

\* An evaluation of the runtime, whatever else it does.
StartCloser ==
    /\ closers' = Append(closers, [tries |-> 0, closes |-> 0, stable |-> 0, age |-> 0])
    /\ UNCHANGED menu

\* A slip for ShouldStop: no limit of time.
StopsWhenStable(c) == c.closes > 0 /\ (c.stable >= StableCap \/ c.closes >= CloseCap)

\* shouldStop(): the menu was closed and stayed so, or was closed often enough, or
\* time is up.
ShouldStop(c) == \/ c.closes > 0 /\ c.stable >= StableCap
                 \/ c.closes >= CloseCap
                 \/ c.age > AgeCap

Keep(i, c, stop) ==
    closers' = IF stop THEN RemoveAt(closers, i) ELSE [closers EXCEPT ![i] = c]

\* Counters are followed as far as they are compared.
Up(n, cap) == IF n > cap THEN n ELSE n + 1

\* No store yet.
Missed(i) ==
    LET c == [closers[i] EXCEPT !.tries = Up(@, MissCap)]
    IN /\ menu = "none"
       /\ Keep(i, c, c.tries > MissCap)
       /\ UNCHANGED menu

\* A menu that is open is closed, one that is shut is counted as such.
Looked(i) ==
    LET closes == menu = "open" /\ closers[i].closes < CloseCap
        c == [closers[i] EXCEPT !.age = Up(@, AgeCap),
                                !.closes = IF closes THEN @ + 1 ELSE @,
                                !.stable = IF closes THEN 0
                                           ELSE IF menu = "shut" THEN Up(@, StableCap) ELSE @]
    IN /\ menu # "none"
       /\ menu' = IF closes THEN "shut" ELSE menu
       /\ Keep(i, c, ShouldStop(c))

CloserTick == \E i \in DOMAIN closers : Missed(i) \/ Looked(i)

\* The store comes up; Steam or the user opens the menu, or closes it.
MenuMoves == /\ menu' \in {"open", "shut"} \ {menu}
             /\ UNCHANGED closers
===============================================================================
