------------------------------- MODULE HubPanel -------------------------------
(***************************************************************************)
(* The hub's own panel in the Quick Access tab, a client of the daemon:    *)
(* presses post requests, each on a connection and a daemon thread of its  *)
(* own, so requests are served and replies come back in any order, or not  *)
(* at all.  The panel shows edits before they are stored, keeps one busy   *)
(* flag for all its calls, refreshes the update status by timer and asks   *)
(* for a second tap before a restart.                                      *)
(***************************************************************************)
EXTENDS RuntimeLog, PanelSlot

CONSTANTS
    Uses,       \* sets of presses and events; one behaviour has those of one of them
    MaxCalls,   \* bound: calls in flight that do not hang
    MaxPresses, \* bound: presses, panels that come and go, lines logged, updates begun
    MaxLost,    \* bound: requests or replies lost, and requests that hang
    MaxMounts   \* bound: times the panel is mounted (once more where the slot's view moves)

ASSUME PanelAssumption == {MaxCalls, MaxPresses, MaxLost, MaxMounts} \subseteq Nat

VARIABLES
    use,        \* what happens in this behaviour
    presses, lost, mounts,    \* how many there were
    store,      \* the daemon's settings: key -> BOOLEAN
    live,       \* its live switches: [paused, boot_movie]
    file,       \* interval_secs in the config file
    effective,  \* interval_secs the daemon runs with
    loaded,     \* the settings an update check has loaded to save later, if one runs
    found,      \* "none", or a hub update that is "pending" or "staged"
    exiting,    \* the daemon was asked to restart and exits in a moment
    stale,      \* the daemon restarted: this page's token is refused
    calls,      \* requests in flight
    hidden,     \* document.hidden
    cfg,        \* what the panel shows of getConfig
    rc,         \* what it shows of getRuntimeConfig
    rcDirty,    \* an edit needs a restart
    busy,       \* the action in progress, "" for none
    logs,       \* the log viewer is open
    seen,       \* and shows these entries of the runtime
    armed,      \* the restart button that waits for its second tap, "" for none
    disarms,    \* timers that disarm: button -> how many
    restarts,   \* the request of StartRestart to Steam is on its timer
    tainted     \* (history) calls overlapped, were refused, or lost their reply, or an
                \* update check saved settings it loaded before a change

daemonVars == <<store, live, file, effective, loaded, found, exiting, stale>>
panelVars == <<hidden, cfg, rc, rcDirty, busy, logs, seen, armed, disarms, restarts>>
viewerVars == <<logs, seen>>
counters == <<use, presses, lost, mounts>>
vars == <<counters, daemonVars, calls, slotVars, panelVars, logVars, tainted>>

------------------------------------------------------------------------------
(* The rows of the update preferences and the shapes of what is shown. *)

UpdRows == {"auto_update", "auto_update_hub", "hub_prerelease",
            "auto_update_plugin", "plugin_prerelease"}

\* A row is there while every switch above it is on.
Above(key) == CASE key = "auto_update" -> {}
                [] key = "hub_prerelease" -> {"auto_update", "auto_update_hub"}
                [] key = "plugin_prerelease" -> {"auto_update", "auto_update_plugin"}
                [] OTHER -> {"auto_update"}

\* DEFAULT_UPD of the panel (HubSettings::default), shown until getConfig answers.
DEFAULT_UPD == [k \in UpdRows |-> k \in {"auto_update_hub", "auto_update_plugin"}]

Shown(prefs, status) == [prefs |-> prefs, found |-> status]
NotYet == Shown(DEFAULT_UPD, "not yet")

NoRc == [interval |-> 0, paused |-> FALSE, boot_movie |-> FALSE, loaded |-> FALSE]

Buttons == {"apply", "hub"}

------------------------------------------------------------------------------
(* Requests. *)

Call(m, arg, undo) ==
    [m |-> m, arg |-> arg, undo |-> undo, state |-> "sent", ans |-> <<>>, mine |-> TRUE]

Post(m, arg) == calls' = Append(calls, Call(m, arg, cfg))

\* Calls of this mount that hold the busy flag.
Holding == {"pref", "check", "getLogs", "clearLogs", "run", "restart"}
InFlight(ms) == {i \in DOMAIN calls : calls[i].mine /\ calls[i].m \in ms}

Overlaps == InFlight(Holding) # {}

\* Requests that wait without limit in the daemon: for curl, which is given no
\* timeout, or for the mutex of the backend, which a blocked write holds.
Endless == {"check", "run"}
Waiting == SelectSeq(calls, LAMBDA c : c.state # "hung")

------------------------------------------------------------------------------
(* Mounting and unmounting. *)

\* The panel's state as it mounts; what it leaves behind when it unmounts.
PanelFresh ==
    /\ cfg' = NotYet /\ rc' = NoRc /\ rcDirty' = FALSE /\ busy' = ""
    /\ logs' = FALSE /\ seen' = {}
    /\ armed' = "" /\ disarms' = [b \in Buttons |-> 0]

\* Calls of an unmounted panel go on, their replies fall on the floor; those of the
\* slot around it, when it goes too.
Orphaned(all) ==
    [i \in DOMAIN calls |-> IF all \/ calls[i].m # "dot"
                            THEN [calls[i] EXCEPT !.mine = FALSE, !.undo = NotYet] ELSE calls[i]]

\* The slot asks whether an update waits when it mounts and when it is shown again.
DotCall == IF "dot" \in use THEN << Call("dot", <<>>, NotYet) >> ELSE <<>>

\* The effects of a panel that mounts ask for the runtime configuration and the settings.
FirstCalls == << Call("getRuntimeConfig", <<>>, NotYet), Call("mount", <<>>, NotYet) >>

Mountable == mounts < IF "slot" \in use THEN MaxMounts + 1 ELSE MaxMounts

\* The panel follows what the slot shows: one in another place is another panel.
PanelFollows(more) ==
    IF open' /\ View' # View
    THEN /\ Mountable
         /\ mounts' = mounts + 1
         /\ PanelFresh
         /\ calls' = Orphaned(FALSE) \o more \o FirstCalls
         /\ tainted' = (tainted \/ calls # <<>>)
    ELSE /\ calls' = (IF open' = open THEN calls ELSE Orphaned(~tab')) \o more
         /\ IF open' = open THEN UNCHANGED <<cfg, rc, rcDirty, busy, viewerVars, armed, disarms>>
                            ELSE PanelFresh
         /\ UNCHANGED <<mounts, tainted>>

\* One more of what is counted as a press.
Acted == presses < MaxPresses /\ presses' = presses + 1

Slot ==
    /\ \/ MountSlot /\ calls = <<>> /\ PanelFollows(DotCall) /\ UNCHANGED presses
       \/ UnmountSlot /\ PanelFollows(<<>>) /\ UNCHANGED presses
       \/ /\ "slot" \in use
          /\ Acted
          /\ \/ \E kind \in {"sound", "broken"} \ {spec} : RegisterPanel(kind)
             \/ DisposePanel
             \/ OpenHub
             \/ BackToEditor
          /\ PanelFollows(<<>>)
    /\ UNCHANGED <<use, lost, daemonVars, hidden, restarts, logVars>>

\* Showing the document again asks for the status at once.
Visibility ==
    /\ "hide" \in use
    /\ hidden' = ~hidden
    /\ IF hidden /\ Len(Waiting) < MaxCalls
       THEN calls' = calls \o (IF tab THEN DotCall ELSE <<>>)
                          \o (IF open THEN << Call("refresh", <<>>, cfg) >> ELSE <<>>)
       ELSE UNCHANGED calls
    /\ UNCHANGED <<counters, daemonVars, slotVars, cfg, rc, rcDirty, busy, viewerVars, armed,
                   disarms, restarts, logVars, tainted>>

------------------------------------------------------------------------------
(* What the panel's body offers to press. *)

\* updRows: a switch is there while those above it are on; a host beside a
\* loader leaves the plugin's to the loader.
UpdRowsShown ==
    {key \in UpdRows : /\ \A k \in Above(key) : cfg.prefs[k]
                       /\ "beside" \in use =>
                              key \in {"auto_update", "auto_update_hub", "hub_prerelease"}}

\* The banners and the row of the update status.
Banners == (IF rcDirty THEN {"apply"} ELSE {})
           \cup (IF cfg.found \in {"pending", "staged"} THEN {"hub"} ELSE {})
           \cup (IF cfg.prefs["auto_update"] THEN {"check-now"} ELSE {})

\* The sections: actions always, settings once the runtime configuration is there.
Sections == {"logs", "run"}
            \cup (IF rc.loaded THEN {"paused", "boot_movie", "interval"} ELSE {})

Offered == UpdRowsShown \cup Banners \cup Sections \cup (IF logs THEN {"back"} ELSE {})

Press(p) ==
    /\ open
    /\ p \in use \cap Offered
    /\ Acted
    /\ UNCHANGED <<use, lost, mounts, daemonVars, slotVars, hidden, logVars>>

Posts == Len(Waiting) < MaxCalls

\* applyPref: shown at once, sent, undone if the call fails.
ApplyPref(key) ==
    /\ Press(key)
    /\ Posts
    /\ busy = ""
    /\ cfg' = Shown([cfg.prefs EXCEPT ![key] = ~@], cfg.found)
    /\ busy' = "upd"
    /\ Post("pref", <<key, ~cfg.prefs[key]>>)
    /\ tainted' = (tainted \/ Overlaps \/ InFlight({"mount"}) # {})
    /\ UNCHANGED <<rc, rcDirty, viewerVars, armed, disarms, restarts>>

DoCheckNow ==
    /\ Press("check-now")
    /\ Posts
    /\ busy = ""
    /\ busy' = "checkupd"
    /\ Post("check", <<>>)
    /\ tainted' = (tainted \/ Overlaps)
    /\ UNCHANGED <<cfg, rc, rcDirty, viewerVars, armed, disarms, restarts>>

\* viewLogs, from its action row (not while busy) or from the viewer's own
\* refresh button, which does not look at busy; clearLogs beside it.
ViewLogs ==
    /\ Press("logs")
    /\ Posts
    /\ logs \/ busy = ""
    /\ busy' = "logs"
    /\ \/ Post("getLogs", <<>>)
       \/ logs /\ Post("clearLogs", <<>>)
    /\ tainted' = (tainted \/ Overlaps)
    /\ UNCHANGED <<cfg, rc, rcDirty, viewerVars, armed, disarms, restarts>>

BackToHub ==
    /\ Press("back")
    /\ logs' = FALSE /\ seen' = {}
    /\ UNCHANGED <<calls, cfg, rc, rcDirty, busy, armed, disarms, restarts, tainted>>

\* The action rows whose reply is not looked at: populateBundle, selfUpdate,
\* restartBackend.
Run ==
    /\ Press("run")
    /\ Posts
    /\ busy = ""
    /\ busy' = "run"
    /\ Post("run", <<>>)
    /\ tainted' = (tainted \/ Overlaps)
    /\ UNCHANGED <<cfg, rc, rcDirty, viewerVars, armed, disarms, restarts>>

\* A toggle row turns its value over, a stepper moves it by one, never below zero.
Edited(f) == IF f = "interval"
             THEN {rc.interval + 1, IF rc.interval > 0 THEN rc.interval - 1 ELSE 0}
             ELSE {~rc[f]}

\* applyPaused, applyBootMovie and applyCfg: shown at once, sent, whatever comes of it.
ApplyRc ==
    \E f \in {"paused", "boot_movie", "interval"} : \E v \in Edited(f) :
        /\ Press(f)
        /\ Posts
        /\ rc' = [rc EXCEPT ![f] = v]
        /\ rcDirty' = (rcDirty \/ f # "paused")
        /\ Post("setRc", <<f, v>>)
        /\ UNCHANGED <<cfg, busy, viewerVars, armed, disarms, restarts, tainted>>

\* The first tap of a restart button arms it and sets a timer.
ArmRestart(which) ==
    /\ armed' = which
    /\ disarms' = [disarms EXCEPT ![which] = @ + 1]
    /\ UNCHANGED <<calls, busy, restarts>>

\* The second runs it: doRestartDaemonOnly, or doApplyRestart, which restarts
\* Steam too, later.
FireRestart(which) ==
    /\ Posts
    /\ armed' = ""
    /\ busy' = "restart"
    /\ Post("restart", <<>>)
    /\ restarts' = (restarts \/ which = "apply")
    /\ UNCHANGED disarms

TapRestart(which) ==
    /\ Press(which)
    /\ busy = ""
    /\ IF armed # which THEN ArmRestart(which) ELSE FireRestart(which)
    /\ UNCHANGED <<cfg, rc, rcDirty, viewerVars, tainted>>

------------------------------------------------------------------------------
(* Timers of the panel. *)

Disarm ==
    \E b \in Buttons :
        /\ disarms[b] > 0
        /\ disarms' = [disarms EXCEPT ![b] = @ - 1]
        /\ armed' = IF armed = b THEN "" ELSE armed
        /\ UNCHANGED <<counters, daemonVars, calls, slotVars, hidden, cfg, rc, rcDirty, busy,
                       viewerVars, restarts, logVars, tainted>>

\* The slow interval of the status, while the document is visible.
Refresh ==
    /\ open /\ ~hidden
    /\ Posts
    /\ InFlight({"refresh"}) = {}
    /\ Post("refresh", <<>>)
    /\ UNCHANGED <<counters, daemonVars, slotVars, panelVars, logVars, tainted>>

\* The poll of an open log viewer.
PollLogs ==
    /\ logs
    /\ Posts
    /\ InFlight({"poll"}) = {}
    /\ Post("poll", <<>>)
    /\ UNCHANGED <<counters, daemonVars, slotVars, panelVars, logVars, tainted>>

\* What the viewer shows of the entries, or is going to.
Reads(c) == c.mine /\ c.m \in {"getLogs", "poll"}
Read == seen \cup UNION {calls[i].ans : i \in {j \in DOMAIN calls : Reads(calls[j])
                                                               /\ calls[j].state = "ok"}}

\* The runtime logs a warning, or the daemon something of its own; the queue's timer
\* fires; what it sent arrives.
LogWarn ==
    /\ "warn" \in use
    /\ Acted
    /\ \/ Hlog
       \/ RingGets(<<Own>>, Read) /\ UNCHANGED <<logged, logQueue, flush, pushing>>
    /\ UNCHANGED <<use, lost, mounts, daemonVars, calls, slotVars, panelVars, tainted>>

LogFlushes ==
    /\ LogFlushNow
    /\ UNCHANGED <<counters, daemonVars, calls, slotVars, panelVars, tainted>>

Pushed ==
    /\ \/ PushLogs(~stale, Read) /\ UNCHANGED lost
       \/ lost < MaxLost /\ lost' = lost + 1 /\ PushLogs(FALSE, Read)
    /\ UNCHANGED <<use, presses, mounts, daemonVars, calls, slotVars, panelVars, tainted>>

SteamRestarts ==
    /\ restarts
    /\ restarts' = FALSE
    /\ tab' = FALSE /\ showHub' = FALSE /\ failed' = FALSE /\ dot' = FALSE /\ spec' = "none"
    /\ calls' = <<>>
    /\ PanelFresh
    /\ LogPageGone
    /\ stale' = FALSE
    /\ UNCHANGED <<counters, store, live, file, effective, loaded, found, exiting, hidden, tainted>>

------------------------------------------------------------------------------
(* The daemon. *)

\* What a served request does, the line it logs, and its answer.
Served(c) ==
    /\ store' = IF c.m = "pref" THEN [store EXCEPT ![c.arg[1]] = c.arg[2]] ELSE store
    /\ live' = IF c.m = "setRc" /\ c.arg[1] \in DOMAIN live
               THEN [live EXCEPT ![c.arg[1]] = c.arg[2]] ELSE live
    /\ file' = IF c.m = "setRc" /\ c.arg[1] = "interval" THEN c.arg[2] ELSE file
    /\ IF c.m = "clearLogs" THEN RingCleared
       ELSE RingGets(<<Own>>, IF Reads(c) THEN Read \cup Visible ELSE Read)
    /\ UNCHANGED <<logged, logQueue, flush, pushing>>

Answer(c) ==
    CASE c.m = "pref" -> store'
      [] c.m \in {"getLogs", "poll"} -> Visible
      [] c.m \in {"mount", "refresh", "check", "dot"} -> Shown(store, found)
      [] c.m = "getRuntimeConfig" ->
            [interval |-> effective, paused |-> live.paused,
             boot_movie |-> live.boot_movie, loaded |-> TRUE]
      [] OTHER -> <<>>

\* What cannot be saved or installed is refused; everything is, by a stale token.
MayRefuse(c) == stale \/ c.m = "pref" \/ (c.m = "setRc" /\ c.arg[1] # "paused")

\* A thread of its own serves each request.
Serve(i) ==
    /\ i \in DOMAIN calls
    /\ calls[i].state = "sent"
    /\ \/ /\ ~stale
          /\ Served(calls[i])
          /\ exiting' = (exiting \/ calls[i].m = "restart")
          /\ calls' = [calls EXCEPT ![i].state = "ok", ![i].ans = Answer(calls[i])]
          /\ UNCHANGED tainted
       \/ /\ MayRefuse(calls[i])
          /\ calls' = [calls EXCEPT ![i].state = "refused"]
          /\ tainted' = TRUE
          /\ IF stale THEN UNCHANGED <<ring, gone>> ELSE RingGets(<<Own>>, Read)
          /\ UNCHANGED <<store, live, file, exiting, logged, logQueue, flush, pushing>>
    /\ UNCHANGED <<counters, effective, loaded, found, stale, slotVars, panelVars>>

\* A thread that waits for what does not come.
Hang(i) ==
    /\ calls[i].state = "sent" /\ calls[i].m \in Endless
    /\ ~stale
    /\ lost < MaxLost /\ lost' = lost + 1
    /\ calls' = [calls EXCEPT ![i].state = "hung"]
    /\ UNCHANGED <<use, presses, mounts, daemonVars, slotVars, panelVars, logVars, tainted>>

\* An update check, of the loop or of a request, loads the settings before it
\* downloads a bundle ...
UpdaterLoads ==
    /\ "bundle" \in use
    /\ loaded = {} /\ store["auto_update"] /\ store["auto_update_plugin"]
    /\ Acted
    /\ loaded' = {store}
    /\ UNCHANGED <<use, lost, mounts, store, live, file, effective, found, exiting, stale,
                   calls, slotVars, panelVars, logVars, tainted>>

\* ... and saves all of them when it came, with its tag, or the download failed.
UpdaterSaves ==
    \E s \in loaded :
        /\ loaded' = {}
        /\ \/ store' = s /\ tainted' = (tainted \/ store # s)
           \/ UNCHANGED <<store, tainted>>
        /\ UNCHANGED <<counters, live, file, effective, found, exiting, stale, calls,
                       slotVars, panelVars, logVars>>

\* The check finds, then stages, a release of the hub, or takes the notice back: the
\* switch is off, or nothing is newer.
Updater ==
    /\ "release" \in use
    /\ \/ /\ found # "staged"
          /\ found' = IF found = "none" THEN "pending" ELSE "staged"
          /\ UNCHANGED presses
       \/ "withdrawn" \in use /\ found # "none" /\ found' = "none" /\ Acted
    /\ UNCHANGED <<use, lost, mounts, store, live, file, effective, loaded, exiting, stale,
                   calls, slotVars, panelVars, logVars, tainted>>

\* restartService ends the process a moment after its reply: hosting resumes, the
\* config file is read again, and a page hosted before holds a token of no use.
DaemonRestarts ==
    /\ exiting
    /\ exiting' = FALSE
    /\ stale' \in IF open THEN {TRUE} ELSE BOOLEAN
    /\ live' = [live EXCEPT !.paused = FALSE]
    /\ effective' = file
    /\ found' = "none" /\ loaded' = {}
    /\ RingCleared
    /\ UNCHANGED <<counters, store, file, calls, slotVars, panelVars, tainted, logged,
                   logQueue, flush, pushing>>

------------------------------------------------------------------------------
(* Replies. *)

\* A slip for StatusOf: only that an update exists is taken over.
StatusNoStage(shown, answer) ==
    Shown(shown.prefs, IF shown.found = "pending" THEN "pending" ELSE answer.found)

\* A refresh or a check takes over the daemon's status fields alone.
StatusOf(shown, answer) == Shown(shown.prefs, answer.found)

\* The reply of a preference is the stored settings, without the status.
Echoed(answer) == Shown(answer, "none")

\* A slip for Failed: the edit is left on screen.
FailedStays(c) == UNCHANGED cfg

\* A call that never came back: a preference goes back to what was shown before it.
Failed(c) == cfg' = IF c.m = "pref" THEN c.undo
                    ELSE IF c.m = "mount" THEN Shown(DEFAULT_UPD, "none") ELSE cfg

\* What a reply that arrived shows; one that says it was refused shows nothing new.
Taken(c) ==
    cfg' = IF c.m = "mount"
           THEN IF c.state = "ok" THEN c.ans ELSE Shown(DEFAULT_UPD, "none")
           ELSE IF c.state # "ok" THEN cfg
           ELSE IF c.m = "pref" THEN Echoed(c.ans)
           ELSE IF c.m \in {"refresh", "check"} THEN StatusOf(cfg, c.ans) ELSE cfg

\* A slip for Freed: a call that failed keeps the flag.
FreedOnReply(c, arrived) ==
    IF arrived /\ c.m \in Holding \ {"restart"} THEN "" ELSE busy

\* Every call that takes the flag gives it back, but for a restart.
Freed(c, arrived) == IF c.m \in Holding \ {"restart"} THEN "" ELSE busy

\* The viewer opens on any list that comes, and on the failure of its own request.
Viewing(c, arrived) ==
    logs \/ c.m = "getLogs"
         \/ (arrived /\ (c.m = "clearLogs" \/ (c.m = "poll" /\ c.state = "ok")))

\* A slip for Lines: the list of the first request is kept.
LinesOnce(c, arrived) == IF c.m = "getLogs" /\ c.state = "ok" /\ arrived THEN c.ans ELSE seen

\* ... and shows the lines of the last list that came, none after a failure to
\* open it and after the list was cleared.
Lines(c, arrived) ==
    IF c.m = "getLogs" /\ ~(arrived /\ c.state = "ok") THEN {}
    ELSE IF c.m = "clearLogs" /\ arrived THEN {}
    ELSE IF c.m \in {"getLogs", "poll"} /\ arrived /\ c.state = "ok" THEN c.ans ELSE seen

Settle(i, arrived) ==
    /\ calls' = RemoveAt(calls, i)
    /\ dot' = IF calls[i].m = "dot" /\ calls[i].mine /\ arrived /\ calls[i].state = "ok"
              THEN calls[i].ans.found # "none" ELSE dot
    /\ UNCHANGED <<tab, spec, showHub, failed>>
    /\ IF ~calls[i].mine THEN UNCHANGED panelVars
       ELSE /\ IF arrived THEN Taken(calls[i]) ELSE Failed(calls[i])
            /\ rc' = IF arrived /\ calls[i].m = "getRuntimeConfig" /\ calls[i].state = "ok"
                     THEN calls[i].ans ELSE rc
            /\ busy' = Freed(calls[i], arrived)
            /\ logs' = Viewing(calls[i], arrived)
            /\ seen' = Lines(calls[i], arrived)
            /\ UNCHANGED <<hidden, rcDirty, armed, disarms, restarts>>

Deliver(i) ==
    /\ i \in DOMAIN calls
    /\ calls[i].state \in {"ok", "refused"}
    /\ Settle(i, TRUE)
    /\ UNCHANGED <<counters, daemonVars, logVars, tainted>>

\* The request, or the reply to one that was served, is lost.
Lose ==
    \E i \in DOMAIN calls :
        /\ lost < MaxLost
        /\ lost' = lost + 1
        /\ Settle(i, FALSE)
        /\ tainted' = (tainted \/ calls[i].state # "sent" \/ calls[i].m = "mount")
        /\ gone' = IF Reads(calls[i]) /\ calls[i].state = "ok" THEN gone \cup calls[i].ans
                   ELSE gone
        /\ UNCHANGED <<use, presses, mounts, daemonVars, logged, logQueue, flush, pushing,
                       ring>>

------------------------------------------------------------------------------
Init ==
    /\ use \in Uses
    /\ presses = 0 /\ lost = 0 /\ mounts = 0
    /\ store \in IF use \cap (UpdRows \cup {"check-now"}) = {} THEN {DEFAULT_UPD}
                 ELSE {DEFAULT_UPD, [DEFAULT_UPD EXCEPT !["auto_update"] = TRUE]}
    /\ live = [paused |-> FALSE, boot_movie |-> FALSE]
    /\ file = 1 /\ effective = 1
    /\ loaded = {} /\ found = "none" /\ exiting = FALSE /\ stale = FALSE
    /\ calls = <<>>
    /\ tab = FALSE /\ showHub = FALSE /\ failed = FALSE /\ dot = FALSE
    /\ spec \in IF "slot" \in use THEN {"none", "sound"} ELSE {"none"}
    /\ hidden = FALSE
    /\ cfg = NotYet /\ rc = NoRc /\ rcDirty = FALSE /\ busy = "" /\ logs = FALSE /\ seen = {}
    /\ armed = "" /\ disarms = [b \in Buttons |-> 0]
    /\ restarts = FALSE /\ tainted = FALSE
    /\ LogFresh

Next == \/ Slot \/ Visibility
        \/ \E k \in UpdRows : ApplyPref(k)
        \/ DoCheckNow \/ ViewLogs \/ BackToHub \/ Run \/ ApplyRc
        \/ \E w \in Buttons : TapRestart(w)
        \/ Disarm \/ Refresh \/ PollLogs \/ LogWarn \/ LogFlushes \/ Pushed \/ SteamRestarts
        \/ UpdaterLoads \/ UpdaterSaves \/ Updater \/ DaemonRestarts \/ Lose
        \/ \E i \in DOMAIN calls : Serve(i) \/ Hang(i) \/ Deliver(i)

\* The oldest call that does not hang.
OldestGoesOn ==
    \E i \in DOMAIN calls :
        /\ \A j \in 1..(i - 1) : calls[j].state = "hung"
        /\ Serve(i) \/ Deliver(i)

\* The oldest request in flight that does not hang is served, its reply arrives, and
\* the intervals and timers of the page run; what the user, Steam and the updater do,
\* and what hangs, is left to chance.
Fairness == /\ WF_vars(OldestGoesOn) /\ WF_vars(Refresh) /\ WF_vars(PollLogs)
            /\ WF_vars(LogFlushes) /\ WF_vars(Pushed)

Spec == Init /\ [][Next]_vars /\ Fairness

------------------------------------------------------------------------------
(* Properties. *)

\* The busy flag, which greys out every other action, is given back whatever
\* becomes of the call that took it: refused, lost, or answered in another order
\* (setBusy(null) on both arms of every promise); a restart keeps it until the
\* page goes, and so does a request that waits without end in the daemon, for the
\* panel's calls have no timeout.
BusyReturns ==
    busy \notin {"", "restart"} ~> \/ busy \in {"", "restart"}
                                  \/ \E i \in InFlight(Endless) : calls[i].state = "hung"

\* "The UI updates optimistically and reconciles with the store's echo": with no
\* preference in flight the switches show what the daemon has stored, also after
\* a request that never reached it -- as long as calls did not overlap, none was
\* refused after it was shown, no reply was lost to a change that was made, and no
\* update check saved back the settings it had loaded before one.
PrefsReconcile ==
    open /\ ~tainted /\ InFlight({"pref", "mount"}) = {} => cfg.prefs = store

\* "Persist one update preference": what is stored changes by an edit alone.
PrefPersists ==
    [][store' # store => \E i \in DOMAIN calls : calls[i].m = "pref" /\ Serve(i)]_vars

\* An update the daemon found, or has put in place since, is on an open and
\* visible panel in the end, although the echo of every preference wipes it
\* ("keep the update status fresh while the hub view is open").
StatusArrives ==
    open /\ found # "none" ~> cfg.found = found \/ ~open \/ hidden \/ stale

\* A warning of the runtime is on an open log viewer in the end ("so new lines
\* appear live instead of a one-time snapshot"), unless it was dropped by a full
\* queue, lost or cleared on the way, pushed out of the viewer's window by later
\* lines before it was read, or the page's token is refused.
LogsArrive ==
    \A n \in 1..MaxEntries :
        logs /\ n \in ToSet(logQueue) ~> n \in seen \/ ~logs \/ n \in gone \/ stale
===============================================================================
