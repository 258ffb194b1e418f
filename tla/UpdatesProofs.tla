---------------------------- MODULE UpdatesProofs ----------------------------
(***************************************************************************)
(* Proofs about Updates for any set of threads and any number of releases  *)
(* and restarts.  The inductive invariant says that the flag is set while  *)
(* a thread is in a check and that there is only one, what that thread     *)
(* knows of the releases it is between, and that the tags of a setter's    *)
(* draft, on record and read by a check are in that order.                 *)
(***************************************************************************)
EXTENDS Updates, TLAPS

OneRunner ==
    \A th \in Checkers : pc[th] # "idle" =>
        /\ checking
        /\ \A other \in Checkers : pc[other] # "idle" => other = th

\* The tags: a setter's draft at most the one on record, that at most the newest
\* release, and equal to it only over the newest bundle.
TagsInOrder ==
    /\ release # 0 /\ tag <= release /\ bundle <= release
    /\ TagHidesNothing
    /\ draft # NoDraft => draft.tag <= tag

\* The tag on record at the beginning, the one read, the release resolved after it,
\* the newest one, in order.
BundleHalf ==
    \A th \in Checkers :
        /\ pc[th] \in {"tag", "resolve", "download", "save"} => tag <= local[th].tag
        /\ pc[th] \in {"resolve", "download", "save"} =>
               local[th].tag < local[th].latest /\ local[th].latest <= release
        /\ pc[th] = "download" => /\ local[th].latest <= local[th].target
                                 /\ local[th].target <= release
        /\ pc[th] = "save" => local[th].latest <= bundle

\* The hub's release read, the package fetched, and its runtime under the swap.
HubHalf ==
    \A th \in Checkers :
        /\ pc[th] \in {"package", "runtime", "swap"} => local[th].latest \in Versions
        /\ pc[th] \in {"runtime", "swap"} => local[th].target \in Versions
        /\ pc[th] = "swap" => runtime = local[th].target

Inv ==
    /\ TypeOK
    /\ OneRunner
    /\ TagsInOrder
    /\ BundleHalf
    /\ HubHalf
    /\ StagedIsOnDisk

USE UpdatesAssumption DEF Releases, Versions

------------------------------------------------------------------------------
(* The initial states. *)

\* A thread that is in no check has well-typed locals.
LEMMA NoLocalType == NoLocal \in Local
  BY DEF NoLocal, Local

\* The daemon starts with no check running and a bundle its tag does not exceed.
LEMMA InitInv == Init => Inv
<1> SUFFICES ASSUME Init PROVE Inv
  OBVIOUS
<1>1. auto \in BOOLEAN /\ checking \in BOOLEAN /\ staged \in BOOLEAN
  BY Zenon DEF Init
<1>2. bundle \in Releases /\ tag \in Releases /\ release \in Releases
  BY DEF Init
<1>3. TypeOK
  BY <1>1, <1>2, NoLocalType DEF Init, TypeOK, Points
<1>4. OneRunner /\ TagsInOrder /\ BundleHalf /\ HubHalf /\ StagedIsOnDisk
  BY DEF Init, OneRunner, TagsInOrder, TagHidesNothing, BundleHalf, HubHalf, StagedIsOnDisk
<1> QED
  BY <1>3, <1>4 DEF Inv

------------------------------------------------------------------------------
(* The steps: one lemma per action. *)

USE DEF published, settings, installed, notice, Goto, Return

\* Begin keeps the invariant: the flag was clear, so no thread was in a check.
LEMMA BeginInv ==
    ASSUME Inv, NEW th \in Checkers, Begin(th)
    PROVE  Inv'
<1>1. TypeOK'
  <2>1. local' \in [Checkers -> Local]
    <3>1. PICK luck \in BOOLEAN : local' = [local EXCEPT ![th] =
              [NoLocal EXCEPT !.auto = auto, !.tag = tag, !.smooth = luck]]
      BY DEF Begin
    <3>2. [NoLocal EXCEPT !.auto = auto, !.tag = tag, !.smooth = luck] \in Local
      BY DEF Inv, TypeOK, NoLocal, Local
    <3> QED
      BY <3>1, <3>2 DEF Inv, TypeOK
  <2> QED
    BY <2>1 DEF Inv, TypeOK, Points, Begin, TryBegin
<1>2. OneRunner'
  BY DEF Inv, OneRunner, TypeOK, Begin, TryBegin
<1>3. TagsInOrder'
  BY DEF Inv, TagsInOrder, TagHidesNothing, TypeOK, Begin
<1>4. BundleHalf'
  BY DEF Inv, BundleHalf, TypeOK, Begin
<1>5. HubHalf'
  BY DEF Inv, HubHalf, TypeOK, Begin
<1>6. StagedIsOnDisk'
  BY DEF Inv, StagedIsOnDisk, Begin
<1> QED
  BY <1>1, <1>2, <1>3, <1>4, <1>5, <1>6 DEF Inv

\* BeginOff keeps the invariant: with the switch off only the notice goes.
LEMMA BeginOffInv ==
    ASSUME Inv, NEW th \in Checkers, BeginOff(th)
    PROVE  Inv'
<1>1. TypeOK'
  BY DEF Inv, TypeOK, BeginOff
<1>2. OneRunner'
  BY DEF Inv, OneRunner, BeginOff
<1>3. TagsInOrder'
  BY DEF Inv, TagsInOrder, TagHidesNothing, BeginOff
<1>4. BundleHalf'
  BY DEF Inv, BundleHalf, BeginOff
<1>5. HubHalf'
  BY DEF Inv, HubHalf, BeginOff
<1>6. StagedIsOnDisk'
  BY DEF Inv, StagedIsOnDisk, BeginOff
<1> QED
  BY <1>1, <1>2, <1>3, <1>4, <1>5, <1>6 DEF Inv

\* ReadTag keeps the invariant: the tag it reads is that of a release that is out.
LEMMA ReadTagInv ==
    ASSUME Inv, NEW th \in Checkers, ReadTag(th)
    PROVE  Inv'
<1>1. TypeOK'
  BY DEF Inv, TypeOK, BundleHalf, Points, Local, ReadTag
<1>2. OneRunner'
  BY DEF Inv, OneRunner, TypeOK, ReadTag
<1>3. TagsInOrder'
  BY DEF Inv, TagsInOrder, TagHidesNothing, TypeOK, ReadTag
<1>4. BundleHalf'
  BY DEF Inv, BundleHalf, TagsInOrder, TypeOK, Local, ReadTag
<1>5. HubHalf'
  BY DEF Inv, HubHalf, TypeOK, ReadTag
<1>6. StagedIsOnDisk'
  BY DEF Inv, StagedIsOnDisk, ReadTag
<1> QED
  BY <1>1, <1>2, <1>3, <1>4, <1>5, <1>6 DEF Inv

\* Miss keeps the invariant: nothing on disk has been touched yet.
LEMMA MissInv ==
    ASSUME Inv, NEW th \in Checkers, Miss(th)
    PROVE  Inv'
<1>1. TypeOK'
  BY DEF Inv, TypeOK, Points, Miss
<1>2. OneRunner'
  BY DEF Inv, OneRunner, Miss
<1>3. TagsInOrder'
  BY DEF Inv, TagsInOrder, TagHidesNothing, Miss
<1>4. BundleHalf'
  BY DEF Inv, BundleHalf, Miss
<1>5. HubHalf'
  BY DEF Inv, HubHalf, Miss
<1>6. StagedIsOnDisk'
  BY DEF Inv, StagedIsOnDisk, Miss
<1> QED
  BY <1>1, <1>2, <1>3, <1>4, <1>5, <1>6 DEF Inv

\* Resolve keeps the invariant: the release it asks for is not older than any tag,
\* on record or in a setter's draft.
LEMMA ResolveInv ==
    ASSUME Inv, NEW th \in Checkers, Resolve(th)
    PROVE  Inv'
<1>1. TypeOK'
  BY DEF Inv, TypeOK, Points, Local, Resolve
<1>2. OneRunner'
  BY DEF Inv, OneRunner, Resolve
<1>3. TagsInOrder'
  BY DEF Inv, TagsInOrder, TagHidesNothing, BundleHalf, TypeOK, Local,
     Settings, Resolve
<1>4. BundleHalf'
  BY DEF Inv, BundleHalf, OneRunner, TypeOK, Local, Resolve
<1>5. HubHalf'
  BY DEF Inv, HubHalf, Resolve
<1>6. StagedIsOnDisk'
  BY DEF Inv, StagedIsOnDisk, Resolve
<1> QED
  BY <1>1, <1>2, <1>3, <1>4, <1>5, <1>6 DEF Inv

\* Download keeps the invariant: the bundle that arrives is at least as new as
\* every tag.
LEMMA DownloadInv ==
    ASSUME Inv, NEW th \in Checkers, Download(th)
    PROVE  Inv'
<1>1. TypeOK'
  BY DEF Inv, TypeOK, BundleHalf, Points, Local, Download
<1>2. OneRunner'
  BY DEF Inv, OneRunner, Download
<1>3. TagsInOrder'
  BY DEF Inv, TagsInOrder, TagHidesNothing, BundleHalf, TypeOK, Local,
     Settings, Download
<1>4. BundleHalf'
  BY DEF Inv, BundleHalf, OneRunner, Download
<1>5. HubHalf'
  BY DEF Inv, HubHalf, Download
<1>6. StagedIsOnDisk'
  BY DEF Inv, StagedIsOnDisk, Download
<1> QED
  BY <1>1, <1>2, <1>3, <1>4, <1>5, <1>6 DEF Inv

\* DownloadFails keeps the invariant: a missing bundle is behind no tag.
LEMMA DownloadFailsInv ==
    ASSUME Inv, NEW th \in Checkers, DownloadFails(th)
    PROVE  Inv'
<1>1. TypeOK'
  BY DEF Inv, TypeOK, Points, DownloadFails
<1>2. OneRunner'
  BY DEF Inv, OneRunner, DownloadFails
<1>3. TagsInOrder'
  BY DEF Inv, TagsInOrder, TagHidesNothing, BundleHalf, TypeOK, Local,
     Settings, DownloadFails
<1>4. BundleHalf'
  BY DEF Inv, BundleHalf, OneRunner, DownloadFails
<1>5. HubHalf'
  BY DEF Inv, HubHalf, DownloadFails
<1>6. StagedIsOnDisk'
  BY DEF Inv, StagedIsOnDisk, DownloadFails
<1> QED
  BY <1>1, <1>2, <1>3, <1>4, <1>5, <1>6 DEF Inv

\* SaveTag keeps the invariant: the tag read before the download is at most the
\* release downloaded.
LEMMA SaveTagInv ==
    ASSUME Inv, NEW th \in Checkers, SaveTag(th)
    PROVE  Inv'
<1>1. TypeOK'
  BY DEF Inv, TypeOK, BundleHalf, Points, Local, SaveTag
<1>2. OneRunner'
  BY DEF Inv, OneRunner, SaveTag
<1>3. TagsInOrder'
  <2>1. /\ local[th].tag < local[th].latest /\ local[th].latest <= release
        /\ tag <= local[th].tag /\ local[th].latest <= bundle
        /\ tag' = local[th].latest
        /\ UNCHANGED <<release, bundle, draft>>
    BY DEF Inv, BundleHalf, SaveTag
  <2>2. /\ release \in Nat /\ bundle \in Nat /\ bundle <= release /\ tag \in Nat
        /\ local[th].tag \in Nat /\ local[th].latest \in Nat
        /\ draft # NoDraft => draft.tag \in Nat
    BY DEF Inv, TypeOK, Local, Settings, TagsInOrder
  <2> QED
    BY <2>1, <2>2 DEF Inv, TagsInOrder, TagHidesNothing
<1>4. BundleHalf'
  BY DEF Inv, BundleHalf, OneRunner, TypeOK, SaveTag
<1>5. HubHalf'
  BY DEF Inv, HubHalf, SaveTag
<1>6. StagedIsOnDisk'
  BY DEF Inv, StagedIsOnDisk, SaveTag
<1> QED
  BY <1>1, <1>2, <1>3, <1>4, <1>5, <1>6 DEF Inv

\* SaveTagFails keeps the invariant: the tag stays behind the new bundle.
LEMMA SaveTagFailsInv ==
    ASSUME Inv, NEW th \in Checkers, SaveTagFails(th)
    PROVE  Inv'
<1>1. TypeOK'
  BY DEF Inv, TypeOK, Points, SaveTagFails
<1>2. OneRunner'
  BY DEF Inv, OneRunner, SaveTagFails
<1>3. TagsInOrder'
  BY DEF Inv, TagsInOrder, TagHidesNothing, SaveTagFails
<1>4. BundleHalf'
  BY DEF Inv, BundleHalf, SaveTagFails
<1>5. HubHalf'
  BY DEF Inv, HubHalf, SaveTagFails
<1>6. StagedIsOnDisk'
  BY DEF Inv, StagedIsOnDisk, SaveTagFails
<1> QED
  BY <1>1, <1>2, <1>3, <1>4, <1>5, <1>6 DEF Inv

\* ReadHubTag keeps the invariant: the notice is taken back or left as it was.
LEMMA ReadHubTagInv ==
    ASSUME Inv, NEW th \in Checkers, ReadHubTag(th)
    PROVE  Inv'
<1>1. TypeOK'
  <2>1. local' \in [Checkers -> Local]
    BY NoLocalType DEF Inv, TypeOK, Local, ReadHubTag
  <2>2. checking' \in BOOLEAN /\ staged' \in BOOLEAN
    BY Zenon DEF Inv, TypeOK, ReadHubTag
  <2>3. pc' \in [Checkers -> Points] /\ pending' \in Versions
    BY DEF Inv, TypeOK, Points, ReadHubTag
  <2> QED
    BY <2>1, <2>2, <2>3 DEF Inv, TypeOK, ReadHubTag
<1>2. OneRunner'
  BY DEF Inv, OneRunner, TypeOK, ReadHubTag
<1>3. TagsInOrder'
  BY DEF Inv, TagsInOrder, TagHidesNothing, TypeOK, ReadHubTag
<1>4. BundleHalf'
  BY DEF Inv, BundleHalf, TypeOK, ReadHubTag
<1>5. HubHalf'
  BY DEF Inv, HubHalf, TypeOK, Local, ReadHubTag
<1>6. StagedIsOnDisk'
  BY DEF Inv, StagedIsOnDisk, ReadHubTag
<1> QED
  BY <1>1, <1>2, <1>3, <1>4, <1>5, <1>6 DEF Inv

\* HubMiss keeps the invariant: the check just ends.
LEMMA HubMissInv ==
    ASSUME Inv, NEW th \in Checkers, HubMiss(th)
    PROVE  Inv'
<1>1. TypeOK'
  BY NoLocalType DEF Inv, TypeOK, Points, HubMiss
<1>2. OneRunner'
  BY DEF Inv, OneRunner, TypeOK, HubMiss
<1>3. TagsInOrder'
  BY DEF Inv, TagsInOrder, TagHidesNothing, HubMiss
<1>4. BundleHalf'
  BY DEF Inv, BundleHalf, HubMiss
<1>5. HubHalf'
  BY DEF Inv, HubHalf, HubMiss
<1>6. StagedIsOnDisk'
  BY DEF Inv, StagedIsOnDisk, HubMiss
<1> QED
  BY <1>1, <1>2, <1>3, <1>4, <1>5, <1>6 DEF Inv

\* FetchPackage keeps the invariant: the package is that of a published hub.
LEMMA FetchPackageInv ==
    ASSUME Inv, NEW th \in Checkers, FetchPackage(th)
    PROVE  Inv'
<1>1. TypeOK'
  BY DEF Inv, TypeOK, Points, Local, FetchPackage
<1>2. OneRunner'
  BY DEF Inv, OneRunner, FetchPackage
<1>3. TagsInOrder'
  BY DEF Inv, TagsInOrder, TagHidesNothing, FetchPackage
<1>4. BundleHalf'
  BY DEF Inv, BundleHalf, FetchPackage
<1>5. HubHalf'
  BY DEF Inv, HubHalf, TypeOK, FetchPackage
<1>6. StagedIsOnDisk'
  BY DEF Inv, StagedIsOnDisk, FetchPackage
<1> QED
  BY <1>1, <1>2, <1>3, <1>4, <1>5, <1>6 DEF Inv

\* RefreshRuntime keeps the invariant: no other thread is about to swap a binary in.
LEMMA RefreshRuntimeInv ==
    ASSUME Inv, NEW th \in Checkers, RefreshRuntime(th)
    PROVE  Inv'
<1>1. TypeOK'
  BY DEF Inv, TypeOK, HubHalf, Points, RefreshRuntime
<1>2. OneRunner'
  BY DEF Inv, OneRunner, RefreshRuntime
<1>3. TagsInOrder'
  BY DEF Inv, TagsInOrder, TagHidesNothing, RefreshRuntime
<1>4. BundleHalf'
  BY DEF Inv, BundleHalf, RefreshRuntime
<1>5. HubHalf'
  BY DEF Inv, HubHalf, OneRunner, RefreshRuntime
<1>6. StagedIsOnDisk'
  BY DEF Inv, StagedIsOnDisk, RefreshRuntime
<1> QED
  BY <1>1, <1>2, <1>3, <1>4, <1>5, <1>6 DEF Inv

\* SwapBinary keeps the invariant: the notice names the binary it put there.
LEMMA SwapBinaryInv ==
    ASSUME Inv, NEW th \in Checkers, SwapBinary(th)
    PROVE  Inv'
<1>1. TypeOK'
  BY NoLocalType DEF Inv, TypeOK, HubHalf, Points, SwapBinary
<1>2. OneRunner'
  BY DEF Inv, OneRunner, TypeOK, SwapBinary
<1>3. TagsInOrder'
  BY DEF Inv, TagsInOrder, TagHidesNothing, SwapBinary
<1>4. BundleHalf'
  BY DEF Inv, BundleHalf, SwapBinary
<1>5. HubHalf'
  BY DEF Inv, HubHalf, TypeOK, SwapBinary
<1>6. StagedIsOnDisk'
  BY DEF Inv, StagedIsOnDisk, SwapBinary
<1> QED
  BY <1>1, <1>2, <1>3, <1>4, <1>5, <1>6 DEF Inv

\* HubFails keeps the invariant: the notice claims nothing staged any more.
LEMMA HubFailsInv ==
    ASSUME Inv, NEW th \in Checkers, HubFails(th)
    PROVE  Inv'
<1>1. TypeOK'
  <2>1. pc' \in [Checkers -> Points] /\ local' \in [Checkers -> Local]
    BY NoLocalType DEF Inv, TypeOK, Points, HubFails
  <2>2. checking' \in BOOLEAN /\ staged' \in BOOLEAN
    BY Zenon DEF Inv, HubFails
  <2>3. pending' \in Versions /\ runtime' \in Versions
    BY DEF Inv, TypeOK, HubHalf, HubFails
  <2> QED
    BY <2>1, <2>2, <2>3 DEF Inv, TypeOK, HubFails
<1>2. OneRunner'
  BY DEF Inv, OneRunner, TypeOK, HubFails
<1>3. TagsInOrder'
  BY DEF Inv, TagsInOrder, TagHidesNothing, HubFails
<1>4. BundleHalf'
  BY DEF Inv, BundleHalf, HubFails
<1>5. HubHalf'
  BY DEF Inv, HubHalf, OneRunner, TypeOK, HubFails
<1>6. StagedIsOnDisk'
  BY DEF Inv, StagedIsOnDisk, HubFails
<1> QED
  BY <1>1, <1>2, <1>3, <1>4, <1>5, <1>6 DEF Inv

\* SetterLoads keeps the invariant: the draft's tag is the one on record.
LEMMA SetterLoadsInv ==
    ASSUME Inv, SetterLoads
    PROVE  Inv'
<1>1. TypeOK'
  BY DEF Inv, TypeOK, SetterLoads, Settings
<1>2. OneRunner'
  BY DEF Inv, OneRunner, SetterLoads
<1>3. TagsInOrder'
  BY DEF Inv, TagsInOrder, TagHidesNothing, TypeOK, SetterLoads
<1>4. BundleHalf'
  BY DEF Inv, BundleHalf, SetterLoads
<1>5. HubHalf'
  BY DEF Inv, HubHalf, SetterLoads
<1>6. StagedIsOnDisk'
  BY DEF Inv, StagedIsOnDisk, SetterLoads
<1> QED
  BY <1>1, <1>2, <1>3, <1>4, <1>5, <1>6 DEF Inv

\* SetterSaves keeps the invariant: a draft may bring an older tag back, never a
\* newer one.
LEMMA SetterSavesInv ==
    ASSUME Inv, SetterSaves
    PROVE  Inv'
<1>1. TypeOK'
  BY DEF Inv, TypeOK, SetterSaves, Settings
<1>2. OneRunner'
  BY DEF Inv, OneRunner, SetterSaves
<1>3. TagsInOrder'
  BY DEF Inv, TagsInOrder, TagHidesNothing, TypeOK, Settings, SetterSaves
<1>4. BundleHalf'
  BY DEF Inv, BundleHalf, TagsInOrder, TypeOK, Settings, Local, SetterSaves
<1>5. HubHalf'
  BY DEF Inv, HubHalf, SetterSaves
<1>6. StagedIsOnDisk'
  BY DEF Inv, StagedIsOnDisk, SetterSaves
<1> QED
  BY <1>1, <1>2, <1>3, <1>4, <1>5, <1>6 DEF Inv

\* Publish keeps the invariant: releases only get newer.
LEMMA PublishInv ==
    ASSUME Inv, Publish
    PROVE  Inv'
<1>1. TypeOK'
  BY DEF Inv, TypeOK, Publish
<1>2. OneRunner'
  BY DEF Inv, OneRunner, Publish
<1>3. TagsInOrder'
  BY DEF Inv, TagsInOrder, TagHidesNothing, TypeOK, Publish, Settings
<1>4. BundleHalf'
  BY DEF Inv, BundleHalf, TypeOK, Local, Publish
<1>5. HubHalf'
  BY DEF Inv, HubHalf, Publish
<1>6. StagedIsOnDisk'
  BY DEF Inv, StagedIsOnDisk, Publish
<1> QED
  BY <1>1, <1>2, <1>3, <1>4, <1>5, <1>6 DEF Inv

\* Restart keeps the invariant: no check and no draft survives it, and a bundle it
\* downloads is the newest.
LEMMA RestartInv ==
    ASSUME Inv, Restart
    PROVE  Inv'
<1>1. TypeOK'
  <2>1. pc' \in [Checkers -> Points] /\ local' \in [Checkers -> Local]
    BY NoLocalType DEF Points, Restart
  <2>2. checking' \in BOOLEAN /\ staged' \in BOOLEAN
    BY Zenon DEF Restart
  <2>3. bundle' \in Releases /\ restarts' \in 0..MaxRestarts
    BY DEF Inv, TypeOK, Restart, EnsureBundle
  <2> QED
    BY <2>1, <2>2, <2>3 DEF Inv, TypeOK, Restart
<1>2. OneRunner'
  BY DEF Inv, OneRunner, Restart
<1>3. TagsInOrder'
  BY DEF Inv, TagsInOrder, TagHidesNothing, TypeOK, Restart, EnsureBundle
<1>4. BundleHalf'
  BY DEF Inv, BundleHalf, Restart
<1>5. HubHalf'
  BY DEF Inv, HubHalf, Restart
<1>6. StagedIsOnDisk'
  BY DEF Inv, StagedIsOnDisk, Restart
<1> QED
  BY <1>1, <1>2, <1>3, <1>4, <1>5, <1>6 DEF Inv

------------------------------------------------------------------------------
(* The theorems. *)

\* Every step of the specification keeps the invariant.
LEMMA NextInv == Inv /\ [Next]_vars => Inv'
<1> SUFFICES ASSUME Inv, [Next]_vars PROVE Inv'
  OBVIOUS
<1>1. CASE \E th \in Checkers : Begin(th) \/ BeginOff(th) \/ CheckStep(th)
  <2>1. PICK th \in Checkers : Begin(th) \/ BeginOff(th) \/ CheckStep(th)
    BY <1>1
  <2>2. CASE Success(th)
    BY <2>2, ReadTagInv, ResolveInv, DownloadInv, SaveTagInv, ReadHubTagInv,
       FetchPackageInv, RefreshRuntimeInv, SwapBinaryInv
       DEF Success
  <2>3. CASE Failure(th)
    BY <2>3, MissInv, DownloadFailsInv, SaveTagFailsInv, HubMissInv, HubFailsInv
       DEF Failure
  <2> QED
    BY <2>1, <2>2, <2>3, BeginInv, BeginOffInv DEF CheckStep
<1>2. CASE SetterLoads \/ SetterSaves \/ Publish \/ Restart
  BY <1>2, SetterLoadsInv, SetterSavesInv, PublishInv, RestartInv
<1>3. CASE UNCHANGED vars
  BY <1>3 DEF vars, Inv, TypeOK, OneRunner, TagsInOrder, TagHidesNothing, BundleHalf, HubHalf,
     StagedIsOnDisk
<1> QED
  BY <1>1, <1>2, <1>3 DEF Next

\* In every reachable state the invariant holds.
LEMMA Invariance == Spec => []Inv
<1> QED
  BY InitInv, NextInv, PTL DEF Spec

\* Flags, tags, versions and the threads' local variables keep their types.
THEOREM TypeCorrect == Spec => []TypeOK
<1>1. Inv => TypeOK
  BY DEF Inv
<1> QED
  BY <1>1, Invariance, PTL

\* However many threads ask for a check and wherever one fails, there is never a
\* second one writing the bundle, the runtime and the binary.
THEOREM OneCheckAtATime == Spec => []SingleFlight
<1>1. Inv => SingleFlight
  BY DEF Inv, OneRunner, SingleFlight
<1> QED
  BY <1>1, Invariance, PTL

\* Whatever is published during a check, wherever one fails, whatever copy a restart
\* finds and whichever stale settings a setter writes back, a check finds nothing to
\* fetch only over the newest bundle.
THEOREM NoReleaseHidden == Spec => []TagHidesNothing
<1>1. Inv => TagHidesNothing
  BY DEF Inv, TagsInOrder
<1> QED
  BY <1>1, Invariance, PTL

\* A notice that says "staged" names the binary the next start runs.
THEOREM NoticeIsTrue == Spec => []StagedIsOnDisk
<1>1. Inv => StagedIsOnDisk
  BY DEF Inv
<1> QED
  BY <1>1, Invariance, PTL

\* A binary is only ever swapped in over the complete runtime of its own package.
THEOREM RuntimeUnderBinary == Spec => RuntimeMovesFirst
<1>1. Inv /\ [Next]_vars => [exe' # exe => runtime = exe']_vars
  <2> SUFFICES ASSUME Inv, Next, exe' # exe PROVE runtime = exe'
    BY DEF vars
  <2>1. PICK th \in Checkers : SwapBinary(th)
    BY Zenon DEF Next, CheckStep, Success, Failure, Begin, BeginOff, ReadTag, Miss,
       Resolve,
       Download, DownloadFails, SaveTag, SaveTagFails, ReadHubTag, HubMiss, FetchPackage,
       RefreshRuntime, HubFails, SetterLoads, SetterSaves, Publish, Restart
  <2> QED
    BY <2>1 DEF SwapBinary, Inv, HubHalf
<1> QED
  BY <1>1, Invariance, PTL DEF Spec, RuntimeMovesFirst
==============================================================================
