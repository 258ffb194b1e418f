----------------------------- MODULE StoreProofs -----------------------------
(***************************************************************************)
(* Proofs about the settings store: its types for any number of threads,   *)
(* and, for one thread at a time, that load and save with all their file   *)
(* operations, failures, crashes and power losses are the durable cell of  *)
(* SettingsCell, for every set of settings and of inodes.                  *)
(***************************************************************************)
EXTENDS SettingsStore, TLAPS

USE StoreAssumption

------------------------------------------------------------------------------
(* Files. *)

\* A file of the directory n over the contents d holds a text that parses.
Good(n, d, file) == n[file] # NoFile /\ d[n[file]].size = d[n[file]].value

\* What a load finds there.
Found(n, d) ==
    IF Good(n, d, "primary") THEN d[n["primary"]].size
    ELSE IF Good(n, d, "backup") THEN d[n["backup"]].size
    ELSE Default

\* The image readers see holds the contents of the inodes the directory names.
LEMMA ImageSeen ==
    ASSUME NEW file \in Files
    PROVE  /\ Valid(file) <=> Good(names, data, file)
           /\ Valid(file)' <=> Good(names', data', file)
BY DEF Valid, Readable, Visible, Present, Good

\* ... and a load recovers what it finds in it.
LEMMA LoadSeen ==
    /\ Recovered(Visible) = Found(names, data)
    /\ Recovered(Visible)' = Found(names', data')
<1>1. "primary" \in Files /\ "backup" \in Files
  BY DEF Files
<1>2. Recovered(Visible) = Found(names, data)
  BY <1>1 DEF Recovered, Found, Readable, Visible, Present, Good
<1>3. Recovered(Visible)' = Found(names', data')
  BY <1>1 DEF Recovered, Found, Readable, Visible, Present, Good
<1> QED
  BY <1>2, <1>3

\* NoFile is no inode; a text written over an empty file is whole.
LEMMA Contents ==
    /\ NoFile \notin Inodes
    /\ Empty \in Content
    /\ \A v \in Values : Whole(v) \in Content /\ Over(Empty, v) = Whole(v)
    /\ \A c \in Content, v \in Values : Over(c, v) \in Content
<1>1. NoFile \notin Inodes /\ Empty \in Content
  BY DEF NoFile, Empty, Content, Sizes
<1>2. \A v \in Values : Whole(v) \in Content /\ Over(Empty, v) = Whole(v)
  BY DEF Whole, Over, Empty, Content, Sizes
<1>3. \A c \in Content, v \in Values : Over(c, v) \in Content
  BY DEF Over, Content, Sizes
<1> QED
  BY <1>1, <1>2, <1>3

\* File::create names one inode for the file and empties it; every other name keeps
\* its inode, what it holds and whether it is on the disk.
LEMMA CreateEffect ==
    ASSUME TypeOK, Apart(names), NEW th \in Threads, NEW file \in Files, Create(th, file)
    PROVE  /\ names' \in Directory /\ Apart(names')
           /\ data' \in [Inodes -> Content] /\ synced' \subseteq Inodes
           /\ fd' \in [Threads -> Inodes \cup {NoFile}]
           /\ names'[file] \in Inodes /\ names'[file] # NoFile /\ fd'[th] = names'[file]
           /\ data'[names'[file]] = Empty
           /\ \A g \in Files \ {file} :
                /\ names'[g] = names[g]
                /\ names[g] # NoFile =>
                     /\ names[g] # names'[file]
                     /\ data'[names[g]] = data[names[g]]
                     /\ names[g] \in synced' <=> names[g] \in synced
<1>1. PICK inode \in Inodes :
        /\ IF names[file] # NoFile THEN inode = names[file] ELSE ~InUse(inode)
        /\ names' = [names EXCEPT ![file] = inode]
        /\ data' = [data EXCEPT ![inode] = Empty]
        /\ synced' = synced \ {inode}
        /\ fd' = [fd EXCEPT ![th] = inode]
  BY DEF Create
<1>2. /\ names \in [Files -> Inodes \cup {NoFile}] /\ data \in [Inodes -> Content]
      /\ fd \in [Threads -> Inodes \cup {NoFile}] /\ synced \subseteq Inodes
  BY DEF TypeOK, Directory
<1>3. inode # NoFile /\ Empty \in Content
  BY Contents
<1>4. \A g \in Files \ {file} : names[g] # inode
  BY <1>1, <1>2, <1>3 DEF Apart, InUse
<1>5. names' \in [Files -> Inodes \cup {NoFile}] /\ names'[file] = inode
      /\ \A g \in Files \ {file} : names'[g] = names[g]
  BY <1>1, <1>2
<1>6. Apart(names')
  BY <1>4, <1>5 DEF Apart
<1>7. data' \in [Inodes -> Content] /\ data'[inode] = Empty
      /\ \A i \in Inodes \ {inode} : data'[i] = data[i]
  BY <1>1, <1>2, <1>3
<1>8. fd' \in [Threads -> Inodes \cup {NoFile}] /\ fd'[th] = inode
  BY <1>1, <1>2
<1>9. \A g \in Files \ {file} : names[g] # NoFile =>
        /\ names[g] # names'[file]
        /\ data'[names[g]] = data[names[g]]
        /\ names[g] \in synced' <=> names[g] \in synced
  BY <1>1, <1>2, <1>4, <1>5, <1>7
<1> QED
  BY <1>1, <1>2, <1>3, <1>5, <1>6, <1>7, <1>8, <1>9 DEF Directory

------------------------------------------------------------------------------
(* Types. *)

FilesOK ==
    /\ names \in Directory /\ Apart(names)
    /\ data \in [Inodes -> Content] /\ synced \subseteq Inodes /\ disk \in Image
ThreadsOK ==
    /\ pc \in [Threads -> Points] /\ op \in [Threads -> {"get", "set"}]
    /\ healing \in [Threads -> BOOLEAN] /\ val \in [Threads -> Values]
    /\ fd \in [Threads -> Inodes \cup {NoFile}]

\* A thread that fills a file has it open.
Opened == \A th \in Threads : pc[th] \in {"copy", "write", "sync"} => fd[th] \in Inodes

\* No two files share an inode: what one writer opens is never another file.
StoreTyped == TypeOK /\ Apart(names) /\ Opened

\* The image of typed files is typed, and the texts in it are settings.
LEMMA ImageTyped ==
    ASSUME names \in Directory, data \in [Inodes -> Content]
    PROVE  /\ Visible \in Image
           /\ \A file \in Files : Valid(file) => Text(file) \in Values
<1>1. Present \in SUBSET Files
  BY DEF Present
<1>2. [file \in Files |-> IF file \in Present THEN data[names[file]] ELSE Empty]
        \in [Files -> Content]
  BY Contents DEF Present, Directory
<1>3. \A file \in Files : Valid(file) => Text(file) \in Values
  BY DEF Valid, Readable, Visible, Present, Directory, Text, Content
<1> QED
  BY <1>1, <1>2, <1>3 DEF Visible, Image

\* Answering a load leaves the threads typed.
LEMMA LoadedTyped ==
    ASSUME ThreadsOK, NEW th \in Threads, NEW v \in Values, Loaded(th, v)
    PROVE  /\ pc' \in [Threads -> Points] /\ val' \in [Threads -> Values]
           /\ pc'[th] \in {"idle", "save"}
           /\ pc' = [pc EXCEPT ![th] = pc'[th]]
<1>1. CASE Goto(th, "idle") /\ Holds(th, v)
  BY <1>1 DEF ThreadsOK, Goto, Holds, Points
<1>2. CASE Goto(th, "save") /\ \E new \in Values : Holds(th, new)
  BY <1>2 DEF ThreadsOK, Goto, Holds, Points
<1> QED
  BY <1>1, <1>2 DEF Loaded

\* So does the end of a write.
LEMMA WrittenTyped ==
    ASSUME ThreadsOK, NEW th \in Threads, Written(th)
    PROVE  /\ pc' \in [Threads -> Points] /\ val' \in [Threads -> Values]
           /\ healing' \in [Threads -> BOOLEAN] /\ ~healing'[th]
           /\ fd' \in [Threads -> Inodes \cup {NoFile}]
           /\ pc'[th] \in {"idle", "save"}
<1>1. healing' \in [Threads -> BOOLEAN] /\ ~healing'[th]
  BY DEF Written, ThreadsOK
<1>2. fd' \in [Threads -> Inodes \cup {NoFile}]
  BY DEF Written, Closed, ThreadsOK
<1>3. CASE healing[th]
  <2>1. Loaded(th, val[th]) /\ val[th] \in Values
    BY <1>3 DEF Written, ThreadsOK
  <2> QED
    BY <1>1, <1>2, <2>1, LoadedTyped
<1>4. CASE ~healing[th]
  <2>1. pc' = [pc EXCEPT ![th] = "idle"] /\ val' = val
    BY <1>4 DEF Written, Goto
  <2> QED
    BY <1>1, <1>2, <2>1 DEF ThreadsOK, Points
<1> QED
  BY <1>3, <1>4

\* A new process has no call in progress and no file open.
LEMMA RestartTyped ==
    ASSUME ThreadsOK, Restarted
    PROVE  ThreadsOK'
BY DEF Restarted, ThreadsOK, Points

\* The steps that neither create nor rename leave the directory alone.
LEMMA StepTyped ==
    ASSUME StoreTyped, NEW th \in Threads, ThreadStep(th)
    PROVE  FilesOK' /\ ThreadsOK'
<1>0. FilesOK /\ ThreadsOK
  BY DEF StoreTyped, TypeOK, FilesOK, ThreadsOK
<1>f. "primary" \in Files /\ "backup" \in Files /\ "tmp" \in Files
  BY DEF Files
<1> USE DEF files, Points, Goto, Holds, Closed
<1>1. CASE Call(th)
  <2>1. FilesOK'
    BY <1>0, <1>1 DEF Call, FilesOK
  <2>2. pc' \in [Threads -> Points] /\ op' \in [Threads -> {"get", "set"}]
    BY <1>0, <1>1 DEF Call, ThreadsOK
  <2> QED
    BY <1>0, <1>1, <2>1, <2>2 DEF Call, ThreadsOK
<1>2. CASE Load(th)
  <2>1. FilesOK' /\ UNCHANGED <<op, healing, fd>>
    BY <1>0, <1>2 DEF Load, FilesOK
  <2>2. pc' \in [Threads -> Points] /\ val' \in [Threads -> Values]
    <3>1. CASE Valid("primary") /\ Loaded(th, Text("primary"))
      <4>1. Text("primary") \in Values
        BY <1>0, <1>f, <3>1, ImageTyped DEF FilesOK
      <4> QED
        BY <1>0, <3>1, <4>1, LoadedTyped
    <3>2. CASE pc' = [pc EXCEPT ![th] = "fallback"] /\ UNCHANGED val
      BY <1>0, <3>2 DEF ThreadsOK
    <3> QED
      BY <1>2, <3>1, <3>2 DEF Load
  <2> QED
    BY <1>0, <2>1, <2>2 DEF ThreadsOK
<1>3. CASE LoadBackup(th)
  <2>1. FilesOK' /\ UNCHANGED <<op, fd>>
    BY <1>0, <1>3 DEF LoadBackup, FilesOK
  <2>2. /\ pc' \in [Threads -> Points] /\ val' \in [Threads -> Values]
        /\ healing' \in [Threads -> BOOLEAN]
    <3>1. CASE /\ Valid("backup")
               /\ pc' = [pc EXCEPT ![th] = "create"]
               /\ healing' = [healing EXCEPT ![th] = TRUE]
               /\ val' = [val EXCEPT ![th] = Text("backup")]
      <4>1. Text("backup") \in Values
        BY <1>0, <1>f, <3>1, ImageTyped DEF FilesOK
      <4> QED
        BY <1>0, <3>1, <4>1 DEF ThreadsOK
    <3>2. CASE Loaded(th, Default) /\ UNCHANGED healing
      BY <1>0, <3>2, LoadedTyped DEF ThreadsOK
    <3> QED
      BY <1>3, <3>1, <3>2 DEF LoadBackup
  <2> QED
    BY <1>0, <2>1, <2>2 DEF ThreadsOK
<1>4. CASE Save(th)
  <2>1. UNCHANGED <<disk, op, healing, val>> /\ pc' \in [Threads -> Points]
    BY <1>0, <1>4 DEF Save, ThreadsOK
  <2>2. CASE Create(th, "backup")
    BY <1>0, <1>f, <2>1, <2>2, CreateEffect DEF StoreTyped, FilesOK, ThreadsOK
  <2>3. CASE UNCHANGED <<names, data, synced, fd>>
    BY <1>0, <2>1, <2>3 DEF FilesOK, ThreadsOK
  <2> QED
    BY <1>4, <2>2, <2>3 DEF Save
<1>5. CASE CreateTmp(th)
  <2>1. UNCHANGED <<disk, op, healing, val>> /\ pc' \in [Threads -> Points]
        /\ Create(th, "tmp")
    BY <1>0, <1>5 DEF CreateTmp, ThreadsOK
  <2> QED
    BY <1>0, <1>f, <2>1, CreateEffect DEF StoreTyped, FilesOK, ThreadsOK
<1>6. CASE Copy(th)
  <2>1. data' \in [Inodes -> Content]
    <3>1. CASE /\ Valid("primary")
               /\ data' = [data EXCEPT ![fd[th]] = Over(@, Text("primary"))]
      <4>1. Text("primary") \in Values
        BY <1>0, <1>f, <3>1, ImageTyped DEF FilesOK
      <4> QED
        BY <1>0, <3>1, <4>1, Contents DEF FilesOK
    <3> QED
      BY <1>0, <1>6, <3>1 DEF Copy, FilesOK
  <2> QED
    BY <1>0, <1>6, <2>1 DEF Copy, FilesOK, ThreadsOK
<1>7. CASE WriteTmp(th)
  <2>1. data' \in [Inodes -> Content]
    BY <1>0, <1>7, Contents DEF WriteTmp, FilesOK, ThreadsOK
  <2> QED
    BY <1>0, <1>7, <2>1 DEF WriteTmp, FilesOK, ThreadsOK
<1>8. CASE SyncTmp(th)
  <2>1. synced' \subseteq Inodes
    BY <1>0, <1>8 DEF SyncTmp, FilesOK, StoreTyped, Opened
  <2> QED
    BY <1>0, <1>8, <2>1 DEF SyncTmp, FilesOK, ThreadsOK
<1>9. CASE RenameTmp(th)
  <2>1. names' \in Directory /\ Apart(names')
    BY <1>0, <1>f, <1>9, Contents DEF RenameTmp, FilesOK, Directory, Apart
  <2> QED
    BY <1>0, <1>9, <2>1, WrittenTyped DEF RenameTmp, FilesOK, ThreadsOK
<1>10. CASE WriteFails(th)
  BY <1>0, <1>10, WrittenTyped DEF WriteFails, FilesOK, ThreadsOK
<1> QED
  BY <1>1, <1>2, <1>3, <1>4, <1>5, <1>6, <1>7, <1>8, <1>9, <1>10 DEF ThreadStep

\* A thread that goes on to fill a file has just opened it, or still has.
LEMMA OpenedStep ==
    ASSUME StoreTyped, NEW th \in Threads, ThreadStep(th)
    PROVE  Opened'
<1>0. FilesOK /\ ThreadsOK /\ Opened
  BY DEF StoreTyped, TypeOK, FilesOK, ThreadsOK
<1>f. "backup" \in Files /\ "tmp" \in Files
  BY DEF Files
<1> USE DEF Goto, Closed
<1>1. CASE Call(th) \/ LoadBackup(th) \/ Load(th)
  <2>1. fd' = fd
    BY <1>1 DEF Call, LoadBackup, Load
  <2>2. \A u \in Threads \ {th} : pc'[u] = pc[u]
    BY <1>0, <1>1 DEF Call, LoadBackup, Load, Loaded, ThreadsOK
  <2>3. pc'[th] \notin {"copy", "write", "sync"}
    BY <1>0, <1>1 DEF Call, LoadBackup, Load, Loaded, ThreadsOK
  <2> QED
    BY <1>0, <2>1, <2>2, <2>3 DEF Opened
<1>2. CASE Save(th) \/ CreateTmp(th)
  <2>1. CASE UNCHANGED fd /\ pc' = [pc EXCEPT ![th] = "create"]
    BY <1>0, <2>1 DEF Opened, ThreadsOK
  <2>2. CASE /\ \E file \in Files : Create(th, file)
             /\ \E point \in {"copy", "write"} : pc' = [pc EXCEPT ![th] = point]
    <3>1. fd'[th] \in Inodes /\ \A u \in Threads \ {th} : fd'[u] = fd[u]
      BY <1>0, <2>2 DEF Create, ThreadsOK
    <3> QED
      BY <1>0, <2>2, <3>1 DEF Opened, ThreadsOK
  <2> QED
    BY <1>2, <1>f, <2>1, <2>2 DEF Save, CreateTmp
<1>3. CASE WriteTmp(th)
  BY <1>0, <1>3 DEF WriteTmp, Opened, ThreadsOK
<1>4. CASE Copy(th) \/ SyncTmp(th)
  BY <1>0, <1>4 DEF Copy, SyncTmp, Opened, ThreadsOK
<1>5. CASE RenameTmp(th) \/ WriteFails(th)
  <2>1. Written(th)
    BY <1>5 DEF RenameTmp, WriteFails
  <2>2. pc'[th] \in {"idle", "save"}
    BY <1>0, <2>1, WrittenTyped
  <2>3. \A u \in Threads \ {th} : pc'[u] = pc[u] /\ fd'[u] = fd[u]
    BY <1>0, <2>1 DEF Written, Loaded, ThreadsOK
  <2> QED
    BY <1>0, <2>2, <2>3 DEF Opened
<1> QED
  BY <1>1, <1>2, <1>3, <1>4, <1>5 DEF ThreadStep

\* The operating system keeps files and images typed.
LEMMA SystemTyped ==
    ASSUME StoreTyped, Crash \/ Flush \/ PowerLoss
    PROVE  FilesOK' /\ ThreadsOK' /\ Opened'
<1>0. FilesOK /\ ThreadsOK /\ Opened
  BY DEF StoreTyped, TypeOK, FilesOK, ThreadsOK
<1>r. Restarted => Opened'
  BY DEF Restarted, Opened
<1>1. CASE Crash
  BY <1>0, <1>1, <1>r, RestartTyped DEF Crash, files, FilesOK
<1>2. CASE Flush
  <2>1. PICK lost \in SUBSET {file \in Present : names[file] \notin synced} :
          disk' = [Visible EXCEPT !.bytes = [file \in Files |->
                      IF file \in lost THEN Empty ELSE @[file]]]
    BY <1>2 DEF Flush
  <2>2. Visible \in Image
    BY <1>0, ImageTyped DEF FilesOK
  <2>3. disk' \in Image
    BY <2>1, <2>2, Contents DEF Image
  <2> QED
    BY <1>0, <1>2, <2>3 DEF Flush, threads, FilesOK, ThreadsOK, Opened
<1>3. CASE PowerLoss
  <2>1. data' \in [Inodes -> Content]
    <3>1. \A inode \in Inodes :
            (IF \E file \in disk.files : names'[file] = inode
             THEN disk.bytes[CHOOSE file \in disk.files : names'[file] = inode]
             ELSE Empty) \in Content
      <4> TAKE inode \in Inodes
      <4>1. CASE \E file \in disk.files : names'[file] = inode
        <5>1. (CHOOSE file \in disk.files : names'[file] = inode) \in Files
          BY <1>0, <4>1 DEF FilesOK, Image
        <5> QED
          BY <1>0, <4>1, <5>1 DEF FilesOK, Image
      <4>2. CASE ~(\E file \in disk.files : names'[file] = inode)
        BY <4>2, Contents
      <4> QED
        BY <4>1, <4>2
    <3> QED
      BY <1>3, <3>1 DEF PowerLoss
  <2>2. ThreadsOK'
    BY <1>0, <1>3, RestartTyped DEF PowerLoss
  <2> QED
    BY <1>0, <1>3, <1>r, <2>1, <2>2 DEF PowerLoss, FilesOK
<1> QED
  BY <1>1, <1>2, <1>3

\* Every step keeps the types.
LEMMA NextStoreTyped == StoreTyped /\ [Next]_vars => StoreTyped'
<1> SUFFICES ASSUME StoreTyped, [Next]_vars PROVE StoreTyped'
  OBVIOUS
<1>1. CASE Next
  <2>1. FilesOK' /\ ThreadsOK' /\ Opened'
    BY <1>1, StepTyped, OpenedStep, SystemTyped DEF Next
  <2> QED
    BY <2>1 DEF StoreTyped, TypeOK, FilesOK, ThreadsOK
<1>2. CASE UNCHANGED vars
  BY <1>2 DEF StoreTyped, TypeOK, Opened, vars, files, threads
<1> QED
  BY <1>1, <1>2

\* The files that earlier runs left are typed.
LEMMA InitStoreTyped == Init => StoreTyped
<1> SUFFICES ASSUME Init PROVE StoreTyped
  OBVIOUS
<1>1. data \in [Inodes -> Content]
  BY Contents DEF Init
<1>2. disk \in Image
  BY <1>1, ImageTyped DEF Init
<1>3. ThreadsOK
  BY DEF Init, ThreadsOK, Points
<1> QED
  BY <1>1, <1>2, <1>3 DEF Init, StoreTyped, TypeOK, ThreadsOK, Opened

\* Directory, contents and threads keep their types, whatever number of threads
\* share the store, and no two of the files ever become one.
THEOREM StoreTypeCorrect == Spec => []StoreTyped
BY InitStoreTyped, NextStoreTyped, PTL DEF Spec

------------------------------------------------------------------------------
(* One thread at a time. *)

\* How far the thread has come with its file, and what it relies on.
Progress(th) ==
    /\ pc[th] = "fallback" => ~Good(names, data, "primary")
    /\ pc[th] = "copy" => /\ fd[th] = names["backup"]
                          /\ Good(names, data, "primary")
    /\ pc[th] \in {"write", "sync"} => fd[th] = names["tmp"]
    /\ pc[th] \in {"write", "sync", "rename"} => names["tmp"] # NoFile
    /\ pc[th] = "write" => data[names["tmp"]] = Empty
    /\ pc[th] \in {"sync", "rename"} => data[names["tmp"]] = Whole(val[th])
    /\ pc[th] = "rename" => names["tmp"] \in synced
    /\ healing[th] => /\ pc[th] \in {"create", "write", "sync", "rename"}
                      /\ ~Good(names, data, "primary")
                      /\ Good(names, data, "backup")
                      /\ val[th] = data[names["backup"]].size

\* A readable copy is always left, and it is on the disk: the backup is only
\* rewritten over a good primary, and only a synced file becomes the primary.
CopyLeft ==
    /\ names["primary"] # NoFile => names["primary"] \in synced
    /\ Good(names, data, "primary") \/ names["backup"] = NoFile \/ names["backup"] \in synced

\* The value being saved, in the words of the cell.
Wanted(th) == IF Saving(th) THEN val[th] ELSE NoFile

\* The moves of the cell, in terms of the files.
Moves(th) ==
    \/ /\ Found(names', data') = Found(names, data) /\ disk' = disk
       /\ \/ Wanted(th)' = Wanted(th)
          \/ Wanted(th) = NoFile /\ Wanted(th)' \in Values
          \/ Wanted(th) # NoFile /\ Wanted(th)' = NoFile
    \/ /\ Wanted(th) # NoFile /\ Found(names', data') = Wanted(th)
       /\ Wanted(th)' = NoFile /\ disk' = disk
    \/ /\ Found(names', data') = Found(names, data)
       /\ Recovered(disk') = Found(names, data)
       /\ Wanted(th)' = Wanted(th)
    \/ /\ Found(names', data') = Recovered(disk)
       /\ Wanted(th)' = NoFile /\ disk' = disk

\* A good file is read when it is opened.
ReadsWork == "read" \notin Faults

\* What it takes for one thread to be as good as a cell.
Solo(th) == ReadsWork /\ StoreTyped /\ Progress(th) /\ CopyLeft

SameFile(file) ==
    /\ names'[file] = names[file]
    /\ names[file] # NoFile => data'[names[file]] = data[names[file]]

\* A file that keeps its inode and its contents reads as before.
LEMMA SameReads ==
    ASSUME NEW file \in Files, SameFile(file)
    PROVE  /\ Good(names', data', file) <=> Good(names, data, file)
           /\ Good(names, data, file) =>
                data'[names'[file]].size = data[names[file]].size
BY DEF SameFile, Good

\* If primary and backup do, a load finds what it found.
LEMMA SameFound ==
    ASSUME SameFile("primary"), SameFile("backup")
    PROVE  Found(names', data') = Found(names, data)
<1>1. "primary" \in Files /\ "backup" \in Files
  BY DEF Files
<1> QED
  BY <1>1, SameReads DEF Found

\* A load that answers leaves nothing wanted, or the new settings of a setter.
LEMMA LoadedWants ==
    ASSUME ThreadsOK, NEW th \in Threads, NEW v \in Values, Loaded(th, v), ~healing'[th]
    PROVE  /\ pc'[th] \in {"idle", "save"}
           /\ Wanted(th)' = NoFile \/ Wanted(th)' \in Values
<1>1. pc'[th] \in {"idle", "save"} /\ val'[th] \in Values
  BY LoadedTyped
<1> QED
  BY <1>1 DEF Wanted

\* The wanted value is a setting, and no setting is NoFile.
LEMMA WantedTyped ==
    ASSUME ThreadsOK, NEW th \in Threads
    PROVE  /\ Wanted(th) \in Values \/ Wanted(th) = NoFile
           /\ NoFile \notin Values
BY DEF ThreadsOK, Wanted, NoFile

\* Neither do a getter's answer, the search for a readable copy nor the start of a
\* repair: they only read, and a setter's new value is what the cell begins with.
LEMMA LoadMoves ==
    ASSUME NEW th \in Threads, Solo(th), Call(th) \/ Load(th) \/ LoadBackup(th)
    PROVE  Progress(th)' /\ CopyLeft' /\ Moves(th)
<1>0. FilesOK /\ ThreadsOK /\ Progress(th) /\ CopyLeft
  BY DEF Solo, StoreTyped, TypeOK, FilesOK, ThreadsOK
<1>f. "primary" \in Files /\ "backup" \in Files
  BY DEF Files
<1>1. UNCHANGED <<names, data, synced, disk>>
  BY DEF Call, Load, LoadBackup, files
<1>2. CopyLeft' /\ Found(names', data') = Found(names, data)
  BY <1>0, <1>1 DEF CopyLeft, Good, Found
<1>3. pc[th] \in {"idle", "load", "fallback"}
  BY DEF Call, Load, LoadBackup
<1>m. \A file \in Files : Missed(file) <=> ~Valid(file)
  BY DEF Solo, ReadsWork, Missed
<1>4. Wanted(th) = NoFile /\ ~healing[th]
  BY <1>0, <1>3 DEF Wanted, Saving, Progress
<1>5. CASE Call(th)
  <2>1. pc'[th] = "load" /\ healing' = healing
    BY <1>0, <1>5 DEF Call, Goto, ThreadsOK
  <2>2. Wanted(th)' = NoFile
    BY <2>1 DEF Wanted, Saving
  <2>3. Progress(th)'
    BY <1>4, <2>1 DEF Progress
  <2> QED
    BY <1>1, <1>2, <1>4, <2>2, <2>3 DEF Moves
<1>6. ASSUME NEW v \in Values, Loaded(th, v), ~healing'[th]
      PROVE  Progress(th)' /\ Moves(th)
  <2>1. pc'[th] \in {"idle", "save"} /\ (Wanted(th)' = NoFile \/ Wanted(th)' \in Values)
    BY <1>0, <1>6, LoadedWants
  <2>2. Progress(th)'
    BY <1>6, <2>1 DEF Progress
  <2> QED
    BY <1>1, <1>2, <1>4, <2>1, <2>2 DEF Moves
<1>7. CASE Load(th)
  <2>1. healing' = healing
    BY <1>7 DEF Load
  <2>2. CASE Valid("primary")
    <3>1. Text("primary") \in Values
      BY <1>0, <1>f, <2>2, ImageTyped DEF FilesOK
    <3> QED
      BY <1>f, <1>m, <1>2, <1>4, <1>6, <1>7, <2>1, <2>2, <3>1 DEF Load
  <2>3. CASE ~Valid("primary")
    <3>1. pc'[th] = "fallback" /\ ~Good(names, data, "primary")
      BY <1>0, <1>f, <1>m, <1>7, <2>3, ImageSeen DEF Load, Goto, ThreadsOK
    <3>2. Wanted(th)' = NoFile
      BY <3>1 DEF Wanted, Saving
    <3>3. Progress(th)'
      BY <1>1, <1>4, <2>1, <3>1 DEF Progress, Good
    <3> QED
      BY <1>1, <1>2, <1>4, <3>2, <3>3 DEF Moves
  <2> QED
    BY <2>2, <2>3
<1>8. CASE LoadBackup(th)
  <2>1. ~Good(names, data, "primary")
    BY <1>0, <1>8 DEF LoadBackup, Progress
  <2>2. CASE Valid("backup")
    <3>1. pc'[th] = "create" /\ healing'[th] /\ val'[th] = data[names["backup"]].size
      BY <1>0, <1>f, <1>m, <1>8, <2>2 DEF LoadBackup, Goto, Holds, Text, ThreadsOK
    <3>2. Good(names, data, "backup")
      BY <1>f, <2>2, ImageSeen
    <3>3. Wanted(th)' = NoFile
      BY <3>1 DEF Wanted, Saving
    <3>4. Progress(th)'
      BY <1>1, <2>1, <3>1, <3>2 DEF Progress, Good
    <3> QED
      BY <1>1, <1>2, <1>4, <3>3, <3>4 DEF Moves
  <2>3. CASE ~Valid("backup")
    <3>1. Loaded(th, Default) /\ ~healing'[th]
      BY <1>f, <1>m, <1>4, <1>8, <2>3 DEF LoadBackup
    <3> QED
      BY <1>2, <1>6, <3>1
  <2> QED
    BY <2>2, <2>3
<1> QED
  BY <1>2, <1>5, <1>7, <1>8

\* Rolling the backup changes nothing a load finds: the primary is good while the
\* backup is truncated and filled.
LEMMA RollMoves ==
    ASSUME NEW th \in Threads, Solo(th), Save(th) \/ Copy(th)
    PROVE  Progress(th)' /\ CopyLeft' /\ Moves(th)
<1>0. FilesOK /\ ThreadsOK /\ Progress(th) /\ CopyLeft /\ Apart(names)
  BY DEF Solo, StoreTyped, TypeOK, FilesOK, ThreadsOK
<1>f. "primary" \in Files /\ "backup" \in Files \ {"primary"}
  BY DEF Files
<1>1. disk' = disk /\ healing' = healing /\ val' = val
  BY DEF Save, Copy
<1>2. ~healing[th] /\ Saving(th)
  BY <1>0 DEF Progress, Saving, Save, Copy
<1>3. pc'[th] \in {"copy", "create"}
  BY <1>0 DEF Save, Copy, Goto, ThreadsOK
<1>4. Wanted(th)' = Wanted(th)
  BY <1>1, <1>2, <1>3 DEF Wanted, Saving
<1>m. Missed("primary") <=> ~Valid("primary")
  BY DEF Solo, ReadsWork, Missed
<1>5. SUFFICES Progress(th)' /\ CopyLeft' /\ Found(names', data') = Found(names, data)
  BY <1>1, <1>4 DEF Moves
<1>6. CASE Save(th) /\ ~Valid("primary")
  <2>1. UNCHANGED <<names, data, synced>> /\ pc'[th] = "create"
    BY <1>0, <1>m, <1>6 DEF Save, Goto, ThreadsOK
  <2> QED
    BY <1>0, <1>1, <1>2, <2>1 DEF Progress, CopyLeft, Good, Found
<1>7. CASE Save(th) /\ Valid("primary")
  <2>1. Create(th, "backup") /\ pc'[th] = "copy"
    BY <1>0, <1>m, <1>7 DEF Save, Goto, ThreadsOK
  <2>2. /\ fd'[th] = names'["backup"]
        /\ SameFile("primary")
        /\ names["primary"] # NoFile => (names'["primary"] \in synced' <=> names["primary"] \in synced)
    BY <1>0, <1>f, <2>1, CreateEffect DEF Solo, StoreTyped, SameFile
  <2>3. Good(names, data, "primary")
    BY <1>f, <1>7, ImageSeen
  <2>4. Good(names', data', "primary") /\ data'[names'["primary"]].size = data[names["primary"]].size
    BY <1>f, <2>2, <2>3, SameReads
  <2>5. Progress(th)'
    BY <1>1, <1>2, <2>1, <2>2, <2>4 DEF Progress
  <2>6. names["primary"] # NoFile /\ names'["primary"] = names["primary"]
    BY <2>2, <2>3 DEF Good, SameFile
  <2>7. CopyLeft'
    BY <1>0, <2>2, <2>4, <2>6 DEF CopyLeft
  <2> QED
    BY <2>3, <2>4, <2>5, <2>7 DEF Found
<1>8. CASE Copy(th)
  <2>1. fd[th] = names["backup"] /\ Good(names, data, "primary") /\ pc'[th] = "create"
    BY <1>0, <1>8 DEF Copy, Progress, Goto, ThreadsOK
  <2>2. names' = names /\ synced' = synced \ {fd[th]}
        /\ \A inode \in Inodes \ {fd[th]} : data'[inode] = data[inode]
    BY <1>0, <1>8 DEF Copy, FilesOK
  <2>3. names["primary"] # NoFile /\ names["primary"] \in Inodes /\ names["primary"] # fd[th]
    BY <1>0, <1>f, <2>1 DEF Good, Apart, FilesOK, Directory
  <2>4. SameFile("primary")
    BY <2>2, <2>3 DEF SameFile
  <2>5. Good(names', data', "primary") /\ data'[names'["primary"]].size = data[names["primary"]].size
    BY <1>f, <2>1, <2>4, SameReads
  <2>6. Progress(th)'
    BY <1>1, <1>2, <2>1 DEF Progress
  <2>7. CopyLeft'
    BY <1>0, <2>2, <2>3, <2>5 DEF CopyLeft
  <2> QED
    BY <2>1, <2>5, <2>6, <2>7 DEF Found
<1> QED
  BY <1>6, <1>7, <1>8

\* Nor does filling the temp file: no load reads it.
LEMMA TmpMoves ==
    ASSUME NEW th \in Threads, Solo(th), CreateTmp(th) \/ WriteTmp(th) \/ SyncTmp(th)
    PROVE  Progress(th)' /\ CopyLeft' /\ Moves(th)
<1>0. FilesOK /\ ThreadsOK /\ Progress(th) /\ CopyLeft /\ Apart(names)
  BY DEF Solo, StoreTyped, TypeOK, FilesOK, ThreadsOK
<1>f. "primary" \in Files \ {"tmp"} /\ "backup" \in Files \ {"tmp"} /\ "tmp" \in Files
  BY DEF Files
<1>1. disk' = disk /\ healing' = healing /\ val' = val
  BY DEF CreateTmp, WriteTmp, SyncTmp
<1>2. pc[th] \in {"create", "write", "sync"} /\ pc'[th] \in {"write", "sync", "rename"}
  BY <1>0 DEF CreateTmp, WriteTmp, SyncTmp, Goto, ThreadsOK
<1>3. Wanted(th)' = Wanted(th)
  BY <1>1, <1>2 DEF Wanted, Saving
<1>4. /\ \A file \in Files \ {"tmp"} :
            /\ SameFile(file)
            /\ names[file] # NoFile => (names[file] \in synced' <=> names[file] \in synced)
      /\ names'["tmp"] \in Inodes /\ names'["tmp"] # NoFile
      /\ pc'[th] = "write" => fd'[th] = names'["tmp"] /\ data'[names'["tmp"]] = Empty
      /\ pc'[th] = "sync" => /\ fd'[th] = names'["tmp"]
                             /\ data'[names'["tmp"]] = Whole(val[th])
      /\ pc'[th] = "rename" => /\ names'["tmp"] \in synced'
                               /\ data'[names'["tmp"]] = Whole(val[th])
  <2>1. CASE CreateTmp(th)
    <3>1. Create(th, "tmp") /\ pc'[th] = "write"
      BY <1>0, <2>1 DEF CreateTmp, Goto, ThreadsOK
    <3> QED
      BY <1>0, <1>f, <3>1, CreateEffect DEF Solo, StoreTyped, SameFile
  <2>2. CASE WriteTmp(th)
    <3>1. /\ fd[th] = names["tmp"] /\ names["tmp"] # NoFile /\ data[names["tmp"]] = Empty
          /\ pc'[th] = "sync" /\ names' = names /\ fd' = fd
          /\ data' = [data EXCEPT ![fd[th]] = Over(@, val[th])]
          /\ synced' = synced \ {fd[th]}
      BY <1>0, <2>2 DEF WriteTmp, Progress, Goto, ThreadsOK
    <3>2. names["tmp"] \in Inodes /\ val[th] \in Values
      BY <1>0, <1>f, <3>1 DEF FilesOK, Directory, ThreadsOK
    <3>3. data'[names["tmp"]] = Over(Empty, val[th])
      BY <1>0, <3>1, <3>2 DEF FilesOK
    <3>4. data'[names["tmp"]] = Whole(val[th])
      BY <3>2, <3>3, Contents
    <3>5. \A file \in Files \ {"tmp"} : names[file] # NoFile =>
            names[file] # names["tmp"] /\ names[file] \in Inodes
      BY <1>0, <1>f DEF Apart, FilesOK, Directory
    <3>6. \A file \in Files \ {"tmp"} : names[file] # NoFile =>
            /\ data'[names[file]] = data[names[file]]
            /\ names[file] \in synced' <=> names[file] \in synced
      BY <1>0, <3>1, <3>5 DEF FilesOK
    <3> QED
      BY <3>1, <3>2, <3>4, <3>6 DEF SameFile
  <2>3. CASE SyncTmp(th)
    <3>1. /\ fd[th] = names["tmp"] /\ names["tmp"] # NoFile
          /\ data[names["tmp"]] = Whole(val[th])
          /\ pc'[th] = "rename" /\ names' = names /\ data' = data
          /\ synced' = synced \cup {fd[th]}
      BY <1>0, <2>3 DEF SyncTmp, Progress, Goto, ThreadsOK
    <3>2. names["tmp"] \in Inodes
      BY <1>0, <1>f, <3>1 DEF FilesOK, Directory
    <3>3. \A file \in Files \ {"tmp"} : names[file] # NoFile => names[file] # names["tmp"]
      BY <1>0, <1>f DEF Apart
    <3> QED
      BY <3>1, <3>2, <3>3 DEF SameFile
  <2> QED
    BY <2>1, <2>2, <2>3
<1>5. Found(names', data') = Found(names, data)
  BY <1>f, <1>4, SameFound
<1>6. /\ Good(names', data', "primary") <=> Good(names, data, "primary")
      /\ Good(names', data', "backup") <=> Good(names, data, "backup")
      /\ Good(names, data, "backup") =>
            data'[names'["backup"]].size = data[names["backup"]].size
  BY <1>f, <1>4, SameReads
<1>7. CopyLeft'
  BY <1>0, <1>f, <1>4, <1>6 DEF CopyLeft, SameFile
<1>8. Progress(th)'
  BY <1>0, <1>1, <1>2, <1>4, <1>6 DEF Progress
<1> QED
  BY <1>1, <1>3, <1>5, <1>7, <1>8 DEF Moves

\* The rename commits what the thread wants, in one step; a repair's rename puts
\* back what a load found in the backup.
LEMMA RenameMoves ==
    ASSUME NEW th \in Threads, Solo(th), RenameTmp(th)
    PROVE  Progress(th)' /\ CopyLeft' /\ Moves(th)
<1>0. FilesOK /\ ThreadsOK /\ Progress(th) /\ CopyLeft /\ Apart(names)
  BY DEF Solo, StoreTyped, TypeOK, FilesOK, ThreadsOK
<1>f. "primary" \in Files /\ "tmp" \in Files /\ "primary" # "tmp"
  BY DEF Files
<1>1. /\ pc[th] = "rename" /\ names["tmp"] # NoFile /\ names["tmp"] \in synced
      /\ data[names["tmp"]] = Whole(val[th])
      /\ names' = [names EXCEPT !["primary"] = names["tmp"], !["tmp"] = NoFile]
      /\ Written(th) /\ data' = data /\ synced' = synced /\ disk' = disk
  BY <1>0 DEF RenameTmp, Progress
<1>2. names'["primary"] = names["tmp"]
  BY <1>0, <1>f, <1>1 DEF FilesOK, Directory
<1>3. data'[names'["primary"]].size = val[th] /\ Good(names', data', "primary")
  BY <1>1, <1>2 DEF Whole, Good
<1>4. Found(names', data') = val[th]
  BY <1>3 DEF Found
<1>5. CopyLeft'
  BY <1>1, <1>2, <1>3 DEF CopyLeft
<1>6. pc'[th] \in {"idle", "save"} /\ ~healing'[th]
  BY <1>0, <1>1, WrittenTyped
<1>7. Progress(th)'
  BY <1>6 DEF Progress
<1>8. CASE healing[th]
  <2>1. Wanted(th) = NoFile /\ Found(names, data) = val[th]
    BY <1>0, <1>8 DEF Wanted, Saving, Progress, Found
  <2>2. Loaded(th, val[th]) /\ val[th] \in Values
    BY <1>0, <1>1, <1>8 DEF Written, ThreadsOK
  <2>3. Wanted(th)' = NoFile \/ Wanted(th)' \in Values
    BY <1>0, <1>6, <2>2, LoadedWants
  <2> QED
    BY <1>1, <1>4, <1>5, <1>7, <2>1, <2>3 DEF Moves
<1>9. CASE ~healing[th]
  <2>1. Wanted(th) = val[th] /\ val[th] # NoFile
    BY <1>0, <1>1, <1>9, WantedTyped DEF Wanted, Saving, ThreadsOK
  <2>2. pc'[th] = "idle"
    BY <1>0, <1>1, <1>9 DEF Written, Goto, ThreadsOK
  <2>3. Wanted(th)' = NoFile
    BY <2>2 DEF Wanted, Saving
  <2> QED
    BY <1>1, <1>4, <1>5, <1>7, <2>1, <2>3 DEF Moves
<1> QED
  BY <1>8, <1>9

\* A write that fails aborts the save; a repair that fails leaves the load its value.
LEMMA FailMoves ==
    ASSUME NEW th \in Threads, Solo(th), WriteFails(th)
    PROVE  Progress(th)' /\ CopyLeft' /\ Moves(th)
<1>0. FilesOK /\ ThreadsOK /\ Progress(th) /\ CopyLeft
  BY DEF Solo, StoreTyped, TypeOK, FilesOK, ThreadsOK
<1>1. /\ UNCHANGED <<names, data, synced, disk>> /\ Written(th)
      /\ pc[th] \in {"create", "write", "sync", "rename"}
  BY DEF WriteFails, files
<1>2. CopyLeft' /\ Found(names', data') = Found(names, data)
  BY <1>0, <1>1 DEF CopyLeft, Good, Found
<1>3. pc'[th] \in {"idle", "save"} /\ ~healing'[th]
  BY <1>0, <1>1, WrittenTyped
<1>4. Progress(th)'
  BY <1>3 DEF Progress
<1>5. CASE healing[th]
  <2>1. Loaded(th, val[th]) /\ val[th] \in Values /\ Wanted(th) = NoFile
    BY <1>0, <1>1, <1>5 DEF Written, Wanted, Saving, ThreadsOK
  <2>2. Wanted(th)' = NoFile \/ Wanted(th)' \in Values
    BY <1>0, <1>3, <2>1, LoadedWants
  <2> QED
    BY <1>1, <1>2, <1>4, <2>1, <2>2 DEF Moves
<1>6. CASE ~healing[th]
  <2>1. Wanted(th) = val[th] /\ val[th] # NoFile
    BY <1>0, <1>1, <1>6, WantedTyped DEF Wanted, Saving, ThreadsOK
  <2>2. pc'[th] = "idle"
    BY <1>0, <1>1, <1>6 DEF Written, Goto, ThreadsOK
  <2>3. Wanted(th)' = NoFile
    BY <2>2 DEF Wanted, Saving
  <2> QED
    BY <1>1, <1>2, <1>4, <2>1, <2>3 DEF Moves
<1> QED
  BY <1>5, <1>6

\* A restart forgets what was wanted and touches no file.
LEMMA CrashMoves ==
    ASSUME NEW th \in Threads, Solo(th), Crash
    PROVE  Progress(th)' /\ CopyLeft' /\ Moves(th)
<1>0. FilesOK /\ ThreadsOK /\ CopyLeft
  BY DEF Solo, StoreTyped, TypeOK, FilesOK, ThreadsOK
<1>1. /\ UNCHANGED <<names, data, synced, disk>>
      /\ pc'[th] = "idle" /\ ~healing'[th]
  BY DEF Crash, files, Restarted
<1>2. CopyLeft' /\ Found(names', data') = Found(names, data)
  BY <1>0, <1>1 DEF CopyLeft, Good, Found
<1>3. Wanted(th)' = NoFile /\ Progress(th)'
  BY <1>1 DEF Wanted, Saving, Progress
<1> QED
  BY <1>1, <1>2, <1>3 DEF Moves

\* What reaches the disk is what a load finds: the good primary is synced, and so
\* is the backup whenever the primary is not good.
LEMMA FlushMoves ==
    ASSUME NEW th \in Threads, Solo(th), Flush
    PROVE  Progress(th)' /\ CopyLeft' /\ Moves(th)
<1>0. FilesOK /\ ThreadsOK /\ Progress(th) /\ CopyLeft
  BY DEF Solo, StoreTyped, TypeOK, FilesOK, ThreadsOK
<1>f. "primary" \in Files /\ "backup" \in Files
  BY DEF Files
<1>1. UNCHANGED <<names, data, synced, pc, healing, val, fd>>
  BY DEF Flush, threads
<1>2. PICK lost \in SUBSET {file \in Present : names[file] \notin synced} :
        disk' = [Visible EXCEPT !.bytes = [file \in Files |->
                    IF file \in lost THEN Empty ELSE @[file]]]
  BY DEF Flush
<1>3. /\ disk'.files = Present
      /\ \A file \in Files : file \in Present /\ names[file] \in synced =>
            disk'.bytes[file] = data[names[file]]
  BY <1>2 DEF Visible
<1>4. /\ Good(names, data, "primary") => Readable(disk', "primary")
      /\ Readable(disk', "primary") <=> Good(names, data, "primary")
      /\ Good(names, data, "primary") =>
            disk'.bytes["primary"].size = data[names["primary"]].size
  BY <1>0, <1>f, <1>3 DEF CopyLeft, Good, Readable, Present
<1>5. ~Good(names, data, "primary") =>
        /\ Readable(disk', "backup") <=> Good(names, data, "backup")
        /\ Good(names, data, "backup") =>
              disk'.bytes["backup"].size = data[names["backup"]].size
  BY <1>0, <1>f, <1>3 DEF CopyLeft, Good, Readable, Present
<1>6. Recovered(disk') = Found(names, data)
  BY <1>4, <1>5 DEF Recovered, Found
<1>7. Found(names', data') = Found(names, data) /\ Wanted(th)' = Wanted(th)
  BY <1>1 DEF Found, Good, Wanted, Saving
<1>8. Progress(th)' /\ CopyLeft'
  BY <1>0, <1>1 DEF Progress, CopyLeft, Good
<1> QED
  BY <1>6, <1>7, <1>8 DEF Moves

\* A power loss brings back what the disk holds, under whatever inodes.
LEMMA PowerMoves ==
    ASSUME NEW th \in Threads, Solo(th), PowerLoss
    PROVE  Progress(th)' /\ CopyLeft' /\ Moves(th)
<1>0. FilesOK /\ ThreadsOK
  BY DEF Solo, StoreTyped, TypeOK, FilesOK, ThreadsOK
<1>f. "primary" \in Files /\ "backup" \in Files
  BY DEF Files
<1>1. /\ names' \in Directory /\ Apart(names') /\ Present' = disk.files
      /\ data' = [inode \in Inodes |->
                    IF \E file \in disk.files : names'[file] = inode
                    THEN disk.bytes[CHOOSE file \in disk.files : names'[file] = inode]
                    ELSE Empty]
      /\ synced' = Inodes /\ disk' = disk
      /\ pc'[th] = "idle" /\ ~healing'[th]
  BY DEF PowerLoss, Restarted
<1>2. \A file \in Files : file \in disk.files <=> names'[file] # NoFile
  BY <1>1 DEF Present
<1>3. \A file \in disk.files : file \in Files /\ names'[file] \in Inodes
  BY <1>0, <1>1, <1>2 DEF FilesOK, Image, Directory
<1>4. \A file \in disk.files : data'[names'[file]] = disk.bytes[file]
  <2> TAKE file \in disk.files
  <2> DEFINE found == CHOOSE g \in disk.files : names'[g] = names'[file]
  <2>1. found \in disk.files /\ names'[found] = names'[file]
    OBVIOUS
  <2>2. found = file
    BY <1>1, <1>2, <1>3, <2>1 DEF Apart
  <2>3. data'[names'[file]] = disk.bytes[found]
    BY <1>1, <1>3
  <2> QED
    BY <2>2, <2>3
<1>5. \A file \in Files :
        /\ Good(names', data', file) <=> Readable(disk, file)
        /\ Good(names', data', file) => data'[names'[file]].size = disk.bytes[file].size
  BY <1>2, <1>4 DEF Good, Readable
<1>6. Found(names', data') = Recovered(disk)
  BY <1>f, <1>5 DEF Found, Recovered
<1>7. Wanted(th)' = NoFile /\ Progress(th)'
  BY <1>1 DEF Wanted, Saving, Progress
<1>8. CopyLeft'
  BY <1>1, <1>f DEF CopyLeft, Directory
<1> QED
  BY <1>1, <1>6, <1>7, <1>8 DEF Moves

\* Every step of a store with one thread is a move of the cell, and leaves the next
\* one possible.
LEMMA SoloStep ==
    ASSUME NEW th \in Threads, Threads = {th}, Solo(th), [Next]_vars
    PROVE  Solo(th)' /\ Moves(th)
<1>1. StoreTyped'
  BY NextStoreTyped DEF Solo
<1>2. Progress(th)' /\ CopyLeft' /\ Moves(th)
  <2>1. CASE UNCHANGED vars
    <3>1. Progress(th)' /\ CopyLeft'
      BY <2>1 DEF vars, files, threads, Solo, Progress, CopyLeft, Good
    <3>2. /\ Found(names', data') = Found(names, data) /\ disk' = disk
          /\ Wanted(th)' = Wanted(th)
      BY <2>1 DEF vars, files, threads, Found, Good, Wanted, Saving
    <3> QED
      BY <3>1, <3>2 DEF Moves
  <2>2. CASE ThreadStep(th)
    BY <2>2, LoadMoves, RollMoves, TmpMoves, RenameMoves, FailMoves DEF ThreadStep
  <2> QED
    BY <2>1, <2>2, CrashMoves, FlushMoves, PowerMoves DEF Next
<1> QED
  BY <1>1, <1>2 DEF Solo

\* The files that earlier runs left are on the disk; no thread is in a call.
LEMMA InitSolo ==
    ASSUME NEW th \in Threads, ReadsWork, Init
    PROVE  /\ Solo(th) /\ Wanted(th) = NoFile
           /\ Found(names, data) \in Values /\ Recovered(disk) = Found(names, data)
<1>f. "primary" \in Files /\ "backup" \in Files
  BY DEF Files
<1>1. StoreTyped /\ names \in Directory /\ data \in [Inodes -> Content]
  BY InitStoreTyped DEF StoreTyped, TypeOK
<1>2. pc[th] = "idle" /\ ~healing[th] /\ synced = Inodes /\ disk = Visible
  BY DEF Init
<1>3. Progress(th) /\ Wanted(th) = NoFile
  BY <1>2 DEF Progress, Wanted, Saving
<1>4. CopyLeft
  BY <1>1, <1>2, <1>f DEF CopyLeft, Directory
<1>5. Found(names, data) \in Values
  <2>1. \A file \in Files : Good(names, data, file) => data[names[file]].size \in Values
    BY <1>1, ImageTyped, ImageSeen DEF Text
  <2> QED
    BY <1>f, <2>1 DEF Found
<1>6. Recovered(disk) = Found(names, data)
  BY <1>2, LoadSeen
<1> QED
  BY <1>1, <1>3, <1>4, <1>5, <1>6 DEF Solo

------------------------------------------------------------------------------
(* The cell. *)

\* What the only thread wants is what the cell is said to want.
LEMMA CellWants ==
    ASSUME NEW th \in Threads, Threads = {th}
    PROVE  /\ (IF \E u \in Threads : Saving(u)
               THEN val[CHOOSE u \in Threads : Saving(u)]
               ELSE NoFile) = Wanted(th)
           /\ (IF \E u \in Threads : Saving(u)
               THEN val[CHOOSE u \in Threads : Saving(u)]
               ELSE NoFile)' = Wanted(th)'
<1>1. Saving(th) => (CHOOSE u \in Threads : Saving(u)) = th
  OBVIOUS
<1>2. Saving(th)' => (CHOOSE u \in Threads : Saving(u)') = th
  OBVIOUS
<1> QED
  BY <1>1, <1>2 DEF Wanted

\* The moves are the cell's.
LEMMA CellMoves ==
    ASSUME NEW th \in Threads, Threads = {th}, Moves(th)
    PROVE  [Cell!Next]_(Cell!cell)
BY LoadSeen, CellWants
   DEF Moves, Cell!Next, Cell!cell, Cell!Begin, Cell!Commit, Cell!Abort, Cell!Persist,
       Cell!PowerLoss

\* For every set of settings and of inodes, with whatever faults but a failed read of
\* a good file, a store that one thread at a time uses is one durable cell: a save takes
\* effect in one step or not at all, repairs, failed writes and restarts change nothing
\* a load finds, and a power loss brings back a value the cell had.
THEOREM StoreIsACell ==
    ASSUME NEW th, Threads = {th}, ReadsWork
    PROVE  Spec => Implements
<1>t. th \in Threads
  OBVIOUS
<1>1. Init => Solo(th) /\ Cell!Init
  <2> SUFFICES ASSUME Init PROVE Solo(th) /\ Cell!Init
    OBVIOUS
  <2> QED
    BY <1>t, InitSolo, LoadSeen, CellWants DEF Cell!Init
<1>2. Solo(th) /\ [Next]_vars => Solo(th)' /\ [Cell!Next]_(Cell!cell)
  BY <1>t, SoloStep, CellMoves
<1> QED
  BY <1>1, <1>2, PTL DEF Spec, Implements, Cell!Spec

\* No operation on the files spoils a good primary: the backup and the temp file are
\* other inodes, and what is renamed over it is whole.
LEMMA GoodStays ==
    ASSUME NEW th \in Threads, Solo(th), ThreadStep(th), Good(names, data, "primary")
    PROVE  Good(names', data', "primary")
<1>0. FilesOK /\ ThreadsOK /\ Progress(th) /\ Apart(names)
  BY DEF Solo, StoreTyped, TypeOK, FilesOK, ThreadsOK
<1>f. "primary" \in Files \ {"tmp", "backup"} /\ "tmp" \in Files /\ "backup" \in Files
  BY DEF Files
<1>1. SUFFICES ASSUME ~RenameTmp(th) PROVE SameFile("primary")
  <2>1. CASE RenameTmp(th)
    <3>1. /\ names'["primary"] = names["tmp"] /\ names["tmp"] # NoFile /\ data' = data
          /\ data[names["tmp"]] = Whole(val[th])
      BY <1>0, <1>f, <2>1 DEF RenameTmp, Progress, FilesOK, Directory
    <3> QED
      BY <3>1 DEF Whole, Good
  <2> QED
    BY <1>f, <2>1, SameReads
<1>2. CASE UNCHANGED <<names, data>>
  BY <1>2 DEF SameFile
<1>3. CASE \E file \in Files \ {"primary"} : Create(th, file)
  BY <1>0, <1>3, <1>f, CreateEffect DEF Solo, StoreTyped, SameFile
<1>4. CASE Copy(th) \/ WriteTmp(th)
  <2>1. fd[th] \in {names["backup"], names["tmp"]} /\ names' = names
    BY <1>0, <1>4 DEF Copy, WriteTmp, Progress
  <2>2. \A inode \in Inodes \ {fd[th]} : data'[inode] = data[inode]
    BY <1>0, <1>4 DEF Copy, WriteTmp, FilesOK
  <2>3. names["primary"] \in Inodes /\ names["primary"] # fd[th]
    BY <1>0, <1>f, <2>1 DEF Good, Apart, FilesOK, Directory
  <2> QED
    BY <2>1, <2>2, <2>3 DEF SameFile
<1> QED
  BY <1>1, <1>2, <1>3, <1>4, <1>f
     DEF ThreadStep, Call, Load, LoadBackup, Save, CreateTmp, SyncTmp, WriteFails, files

\* While the power holds and good files can be read, the file that readers open first
\* never turns into a half-written one: with one thread at a time, once the primary is
\* good it stays good through every save, repair, failed write and restart.
THEOREM NoHalfWrites ==
    ASSUME NEW th, Threads = {th}, ReadsWork, "power" \notin Faults
    PROVE  Spec => NeverHalfWritten
<1>t. th \in Threads /\ "primary" \in Files
  BY DEF Files
<1>1. Init => Solo(th)
  BY <1>t, InitSolo
<1>2. Solo(th) /\ [Next]_vars => Solo(th)'
  BY <1>t, SoloStep
<1>3. Solo(th) /\ [Next]_vars => [Valid("primary") => Valid("primary")']_vars
  <2> SUFFICES ASSUME Solo(th), Next, Good(names, data, "primary")
               PROVE  Good(names', data', "primary")
    BY <1>t, ImageSeen
  <2>1. CASE Crash \/ Flush
    BY <2>1 DEF Crash, Flush, files, Good
  <2> QED
    BY <1>t, <2>1, GoodStays DEF Next, PowerLoss
<1> QED
  BY <1>1, <1>2, <1>3, PTL DEF Spec, NeverHalfWritten
==============================================================================
