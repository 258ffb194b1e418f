------------------------------- MODULE Updates -------------------------------
(***************************************************************************)
(* Keeping the bundle and the daemon up to date: auto_update_check and     *)
(* check_hub_update (src/src/loader/mod.rs) with the downloads of          *)
(* src/src/populate.rs, run by the loop thread and by the checkUpdates RPC *)
(* under one flag, while the setter RPCs write the same settings.  A       *)
(* release is the number of its version; the channel is fixed; only        *)
(* the master switch and the bundle tag of the settings are told apart.    *)
(* The store's load and save are one step each (see SettingsStore).        *)
(***************************************************************************)
EXTENDS Naturals

CONSTANTS
    Checkers,     \* the threads that may run a check: RPC threads and
    Loop,         \* the loop thread
    MaxRelease,   \* bound: releases of Deck Shelves
    MaxHub,       \* bound: releases of ShelvesHub
    MaxRestarts   \* bound: daemon restarts

ASSUME UpdatesAssumption ==
    /\ Loop \in Checkers
    /\ MaxRelease \in Nat \ {0} /\ MaxHub \in Nat \ {0}
    /\ MaxRestarts \in Nat

VARIABLES
    release, hubRelease, \* the newest ones published
    bundle,    \* release of the bundle on disk, 0 while it is missing or partial
    auto, tag, \* settings on disk: the master switch, bundle_tag (0: empty)
    draft,     \* the settings a setter has loaded and changed (one setter at a time)
    checking,  \* UPDATE_CHECK_RUNNING
    pc,        \* where each checker is
    local,     \* its local variables
    exe, runtime,    \* versions of the binary and of the runtime on disk, 0: mixed
    running,         \* version of the daemon in memory
    pending, staged, \* PENDING_HUB_UPDATE (0: none), HUB_UPDATE_STAGED
    restarts

published == <<release, hubRelease>>
settings  == <<auto, tag>>
installed == <<exe, runtime, running>>
notice    == <<pending, staged>>
vars == <<published, bundle, settings, draft, checking, pc, local, installed,
          notice, restarts>>

Releases == 0..MaxRelease
Versions == 0..MaxHub
Settings == [auto: BOOLEAN, tag: Releases]
NoDraft  == [auto |-> FALSE, tag |-> MaxRelease + 1]
Local    == [auto: BOOLEAN, tag: Releases,  \* the settings it loaded at first
             latest: Nat,                   \* the release tag it read last
             target: Nat,                   \* the release whose asset it downloads
             smooth: BOOLEAN]               \* nothing it tries is going to fail
NoLocal  == [auto |-> FALSE, tag |-> 0, latest |-> 0, target |-> 0, smooth |-> FALSE]
Points   == {"idle", "tag", "resolve", "download", "save",
             "hub", "package", "runtime", "swap"}

TypeOK ==
    /\ release \in Releases /\ hubRelease \in Versions
    /\ bundle \in Releases
    /\ auto \in BOOLEAN /\ tag \in Releases
    /\ draft \in Settings \cup {NoDraft}
    /\ checking \in BOOLEAN
    /\ pc \in [Checkers -> Points]
    /\ local \in [Checkers -> Local]
    /\ exe \in Versions /\ runtime \in Versions /\ running \in Versions
    /\ pending \in Versions /\ staged \in BOOLEAN
    /\ restarts \in 0..MaxRestarts

Init ==
    /\ release = 1 /\ hubRelease = 1
    /\ bundle \in {0, 1} /\ auto \in BOOLEAN /\ tag \in 0..bundle
    /\ draft = NoDraft
    /\ checking = FALSE
    /\ pc = [th \in Checkers |-> "idle"]
    /\ local = [th \in Checkers |-> NoLocal]
    /\ exe = 1 /\ runtime = 1 /\ running = 1
    /\ pending = 0 /\ staged = FALSE
    /\ restarts = 0

------------------------------------------------------------------------------
(* The check: single flight, then the bundle, then the hub. *)

Goto(th, point) == pc' = [pc EXCEPT ![th] = point]

\* end_update_check
Return(th) ==
    /\ Goto(th, "idle")
    /\ checking' = FALSE
    /\ local' = [local EXCEPT ![th] = NoLocal]

\* A slip for TryBegin: the flag is set but not tested.
TryBeginUntested == checking' = TRUE

\* try_begin_update_check
TryBegin == ~checking /\ checking' = TRUE

\* auto_update_check with the master switch on: the bundle's half only when hosting.
Begin(th) ==
    /\ pc[th] = "idle"
    /\ TryBegin
    /\ auto
    /\ \E luck \in BOOLEAN :
        local' = [local EXCEPT ![th] = [NoLocal EXCEPT !.auto = auto, !.tag = tag,
                                                       !.smooth = luck]]
    /\ Goto(th, "tag") \/ Goto(th, "hub")
    /\ UNCHANGED <<published, bundle, settings, draft, installed, notice,
                   restarts>>

\* With the master switch off the notice is cleared and nothing is fetched.
BeginOff(th) ==
    /\ pc[th] = "idle"
    /\ ~checking /\ ~auto
    /\ pending' = 0
    /\ UNCHANGED <<published, bundle, settings, draft, checking, pc, local,
                   installed, staged, restarts>>

\* latest_release_tag: apply when nothing is on record or it is newer.
ReadTag(th) ==
    /\ pc[th] = "tag"
    /\ local' = [local EXCEPT ![th].latest = release]
    /\ IF local[th].tag = 0 \/ release > local[th].tag
       THEN Goto(th, "resolve")
       ELSE Goto(th, "hub")
    /\ UNCHANGED <<published, bundle, settings, draft, checking, installed,
                   notice, restarts>>

\* A network or parse miss before the bundle is touched.
Miss(th) ==
    /\ pc[th] \in {"tag", "resolve"}
    /\ Goto(th, "hub")
    /\ UNCHANGED <<published, bundle, settings, draft, checking, local,
                   installed, notice, restarts>>

\* download_latest_iife asks for the newest release again; curl -o opens the bundle.
Resolve(th) ==
    /\ pc[th] = "resolve"
    /\ local' = [local EXCEPT ![th].target = release]
    /\ bundle' = 0
    /\ Goto(th, "download")
    /\ UNCHANGED <<published, settings, draft, checking, installed, notice,
                   restarts>>

Download(th) ==
    /\ pc[th] = "download"
    /\ bundle' = local[th].target
    /\ Goto(th, "save")
    /\ UNCHANGED <<published, settings, draft, checking, local, installed,
                   notice, restarts>>

\* A slip for DownloadFails: the tag is recorded all the same.
DownloadFailsRecords(th) ==
    /\ pc[th] = "download"
    /\ bundle' = 0
    /\ tag' = local[th].latest
    /\ Goto(th, "hub")
    /\ UNCHANGED <<published, auto, draft, checking, local, installed, notice,
                   restarts>>

\* curl fails, or the result is too small or mismatched: the file is removed.
DownloadFails(th) ==
    /\ pc[th] = "download"
    /\ bundle' = 0
    /\ Goto(th, "hub")
    /\ UNCHANGED <<published, settings, draft, checking, local, installed,
                   notice, restarts>>

\* A slip for SaveTag: the newest tag is asked for again and recorded.
SaveTagNewest(th) ==
    /\ pc[th] = "save"
    /\ auto' = local[th].auto
    /\ tag' = release
    /\ Goto(th, "hub")
    /\ UNCHANGED <<published, bundle, draft, checking, local, installed, notice,
                   restarts>>

\* The settings loaded at the beginning are saved with the tag read then.
SaveTag(th) ==
    /\ pc[th] = "save"
    /\ auto' = local[th].auto
    /\ tag' = local[th].latest
    /\ Goto(th, "hub")
    /\ UNCHANGED <<published, bundle, draft, checking, local, installed, notice,
                   restarts>>

\* The bundle is in but the tag could not be recorded.
SaveTagFails(th) ==
    /\ pc[th] = "save"
    /\ Goto(th, "hub")
    /\ UNCHANGED <<published, bundle, settings, draft, checking, local,
                   installed, notice, restarts>>

\* check_hub_update: no news, or staged already, or a package to fetch.
ReadHubTag(th) ==
    /\ pc[th] = "hub"
    /\ \/ /\ hubRelease <= running
          /\ pending' = 0 /\ staged' = FALSE
          /\ Return(th)
       \/ /\ hubRelease > running
          /\ staged /\ pending = hubRelease
          /\ Return(th) /\ UNCHANGED notice
       \/ /\ hubRelease > running
          /\ ~(staged /\ pending = hubRelease)
          /\ local' = [local EXCEPT ![th].latest = hubRelease]
          /\ Goto(th, "package") /\ UNCHANGED <<checking, notice>>
    /\ UNCHANGED <<published, bundle, settings, draft, installed, restarts>>

HubMiss(th) ==
    /\ pc[th] = "hub"
    /\ Return(th)
    /\ UNCHANGED <<published, bundle, settings, draft, installed, notice,
                   restarts>>

\* apply_hub_update: the newest package is fetched and verified in a work directory.
FetchPackage(th) ==
    /\ pc[th] = "package"
    /\ local' = [local EXCEPT ![th].target = hubRelease]
    /\ Goto(th, "runtime")
    /\ UNCHANGED <<published, bundle, settings, draft, checking, installed,
                   notice, restarts>>

\* A slip for RefreshRuntime: a failed copy does not stop the swap.
RefreshRuntimeAnyway(th) ==
    /\ pc[th] = "runtime"
    /\ runtime' \in {runtime, local[th].target}
    /\ Goto(th, "swap")
    /\ UNCHANGED <<published, bundle, settings, draft, checking, local, exe,
                   running, notice, restarts>>

\* The runtime and the assets of the package (each package has both) go in first ...
RefreshRuntime(th) ==
    /\ pc[th] = "runtime"
    /\ runtime' = local[th].target
    /\ Goto(th, "swap")
    /\ UNCHANGED <<published, bundle, settings, draft, checking, local, exe,
                   running, notice, restarts>>

\* ... then the binary, by a rename.
SwapBinary(th) ==
    /\ pc[th] = "swap"
    /\ exe' = local[th].target
    /\ pending' = local[th].target /\ staged' = TRUE
    /\ Return(th)
    /\ UNCHANGED <<published, bundle, settings, draft, runtime, running,
                   restarts>>

\* A slip for HubFails: the staged flag of an earlier version survives.
HubFailsStaged(th) ==
    /\ pc[th] \in {"package", "runtime", "swap"}
    /\ IF pc[th] = "runtime" THEN runtime' \in {runtime, 0} ELSE UNCHANGED runtime
    /\ pending' = local[th].latest
    /\ Return(th)
    /\ UNCHANGED <<published, bundle, settings, draft, exe, running, staged,
                   restarts>>

\* Any of these fails, a copy of the runtime perhaps half way.
HubFails(th) ==
    /\ pc[th] \in {"package", "runtime", "swap"}
    /\ IF pc[th] = "runtime" THEN runtime' \in {runtime, 0} ELSE UNCHANGED runtime
    /\ pending' = local[th].latest /\ staged' = FALSE
    /\ Return(th)
    /\ UNCHANGED <<published, bundle, settings, draft, exe, running, restarts>>

------------------------------------------------------------------------------
(* The setters, the publishers, the service manager. *)

\* setAutoUpdate and setUpdatePref load all settings, change one ...
SetterLoads ==
    /\ draft = NoDraft
    /\ \E switch \in BOOLEAN : draft' = [auto |-> switch, tag |-> tag]
    /\ UNCHANGED <<published, bundle, settings, checking, pc, local, installed,
                   notice, restarts>>

\* A slip for SetterSaves: what was never loaded is saved.
SetterSavesUnloaded ==
    /\ auto' = draft.auto /\ tag' = draft.tag
    /\ draft' = NoDraft
    /\ UNCHANGED <<published, bundle, checking, pc, local, installed, notice,
                   restarts>>

\* ... and save them all.
SetterSaves ==
    /\ draft # NoDraft
    /\ auto' = draft.auto /\ tag' = draft.tag
    /\ draft' = NoDraft
    /\ UNCHANGED <<published, bundle, checking, pc, local, installed, notice,
                   restarts>>

Publish ==
    /\ \/ release < MaxRelease /\ release' = release + 1 /\ UNCHANGED hubRelease
       \/ hubRelease < MaxHub /\ hubRelease' = hubRelease + 1 /\ UNCHANGED release
    /\ UNCHANGED <<bundle, settings, draft, checking, pc, local, installed,
                   notice, restarts>>

\* ensure_bundle: a bundle that is there stays; else an installed plugin loader's
\* copy, of whatever release it is, or a download of the newest; both may fail.
\* No tag is recorded.
EnsureBundle ==
    \/ bundle # 0 /\ UNCHANGED bundle
    \/ bundle = 0 /\ bundle' \in 0..release

\* The daemon ends anywhere and the staged binary starts.
Restart ==
    /\ restarts < MaxRestarts
    /\ restarts' = restarts + 1
    /\ running' = exe
    /\ EnsureBundle
    /\ draft' = NoDraft
    /\ checking' = FALSE
    /\ pc' = [th \in Checkers |-> "idle"]
    /\ local' = [th \in Checkers |-> NoLocal]
    /\ pending' = 0 /\ staged' = FALSE
    /\ UNCHANGED <<published, settings, exe, runtime>>

Failure(th) ==
    /\ ~local[th].smooth
    /\ \/ Miss(th) \/ DownloadFails(th) \/ SaveTagFails(th)
       \/ HubMiss(th) \/ HubFails(th)

Success(th) ==
    \/ ReadTag(th) \/ Resolve(th) \/ Download(th) \/ SaveTag(th)
    \/ ReadHubTag(th) \/ FetchPackage(th) \/ RefreshRuntime(th) \/ SwapBinary(th)

CheckStep(th) == Success(th) \/ Failure(th)

Next ==
    \/ \E th \in Checkers : Begin(th) \/ BeginOff(th) \/ CheckStep(th)
    \/ SetterLoads \/ SetterSaves
    \/ Publish
    \/ Restart

\* A check goes on to its end.  The loop checks again and again, and again and
\* again while it hosts and with a network and a disk that work.
Fairness ==
    /\ \A th \in Checkers : WF_vars(CheckStep(th))
    /\ SF_vars(Begin(Loop) /\ pc'[Loop] = "tag" /\ local'[Loop].smooth)

Spec == Init /\ [][Next]_vars /\ Fairness

------------------------------------------------------------------------------
(* Properties. *)

\* One check at a time, whichever threads ask for one and wherever one fails: the
\* bundle, the runtime and the binary are written in place by it.
SingleFlight ==
    \A th, other \in Checkers :
        pc[th] # "idle" /\ pc[other] # "idle" => th = other

\* The tag on record hides no release: a check finds nothing to fetch only while the
\* bundle on disk is that of the newest release, whatever failed half way, whatever
\* a loader's copy brought back and whichever stale tag a setter wrote.
TagHidesNothing == tag >= release => bundle = release

\* A "restart to finish" notice names the binary a restart does start.
StagedIsOnDisk == staged /\ pending # 0 => exe = pending

\* Binary and runtime move together: a binary is only swapped in over the complete
\* runtime of its own package.
RuntimeMovesFirst == [][exe' # exe => runtime = exe']_vars

\* While automatic updates stay on, the bundle comes to be that of the newest
\* release again and again, and so does the daemon's binary.
UpToDateEventually ==
    <>[]auto => /\ []<>(bundle = release)
                /\ []<>(exe = hubRelease)

\* A failed update leaves the bundle that works in place.
WorkingBundleStays == [][bundle # 0 => bundle' # 0]_vars
==============================================================================
