---------------------------- MODULE SettingsStore ----------------------------
(***************************************************************************)
(* The host's settings file (src/src/store.rs): load with its repair from  *)
(* the rolling backup, save with its temp file and rename, as the RPC      *)
(* threads call them.  One action per file operation, so that other        *)
(* threads, failures, crashes and power losses fall between any two of     *)
(* them.  Nothing locks the store.                                         *)
(*                                                                         *)
(* A settings value stands for its JSON text and is named by its length:   *)
(* enough to tell values apart and to see a text written over another.     *)
(* The file system journals its directory and file sizes in order; the     *)
(* bytes of a file that was not synced may be missing after a power loss.  *)
(***************************************************************************)
EXTENDS Naturals, FiniteSets

CONSTANTS
    Threads,  \* RPC connection threads
    Values,   \* the settings, by the length of their text
    Default,  \* HubSettings::default()
    Damaged,  \* whether the primary may be found missing or corrupt
    Faults,   \* a subset of {"io", "read", "crash", "power"}: writes fail, reads of good
              \* files fail, the daemon dies, the machine does
    Inodes    \* bound: files that exist at a time, named or open

ASSUME StoreAssumption ==
    /\ Values \subseteq Nat \ {0}
    /\ Default \in Values
    /\ Damaged \in BOOLEAN
    /\ Faults \subseteq {"io", "read", "crash", "power"}
    /\ 0 \notin Inodes

VARIABLES
    names,   \* the directory: the inode of each file, 0 when it does not exist
    data,    \* what each inode holds
    synced,  \* the inodes whose bytes are on the disk
    disk,    \* the files and their bytes as a power loss would leave them
    pc, op,  \* where each thread is, and in which call
    healing, \* it writes the backup's value back, inside a load
    val,     \* the value it loaded or is going to write
    fd       \* the inode it has open

files   == <<names, data, synced, disk>>
threads == <<pc, op, healing, val, fd>>
vars    == <<files, threads>>

NoFile == 0
Files  == {"primary", "backup", "tmp"}
Sizes  == {0} \cup Values
Points == {"idle", "load", "fallback", "save", "copy", "create", "write", "sync", "rename"}

\* The bytes of `value`, up to `size` of them or with a foreign tail past its end.
Content  == [value: Values, size: Sizes]
Empty    == [value |-> Default, size |-> 0]
Whole(v) == [value |-> v, size |-> v]

Directory == [Files -> Inodes \cup {NoFile}]
Apart(directory) ==
    \A f, g \in Files : directory[f] = directory[g] => f = g \/ directory[f] = NoFile

\* The directory as its readers see it.
Image == [files: SUBSET Files, bytes: [Files -> Content]]
Present == {file \in Files : names[file] # NoFile}
Visible ==
    [files |-> Present,
     bytes |-> [file \in Files |-> IF file \in Present THEN data[names[file]] ELSE Empty]]

TypeOK ==
    /\ names \in Directory
    /\ data \in [Inodes -> Content]
    /\ synced \subseteq Inodes
    /\ disk \in Image
    /\ pc \in [Threads -> Points]
    /\ op \in [Threads -> {"get", "set"}]
    /\ healing \in [Threads -> BOOLEAN]
    /\ val \in [Threads -> Values]
    /\ fd \in [Threads -> Inodes \cup {NoFile}]

\* A slip for Readable: any file that is there is taken for settings.
ReadablePresent(image, file) == file \in image.files

\* What read_valid takes for settings: the file is there and its text parses.
Readable(image, file) ==
    /\ file \in image.files
    /\ image.bytes[file].size = image.bytes[file].value
Valid(file) == Readable(Visible, file)
Text(file)  == data[names[file]].size

\* read_valid gives nothing: the file is not good, or reading it failed.
Missed(file) == ~Valid(file) \/ "read" \in Faults

\* Writing at offset 0 leaves the tail of a longer text standing.
Over(content, v) ==
    [value |-> v, size |-> IF content.size > v THEN content.size ELSE v]

InUse(inode) ==
    \/ \E file \in Files : names[file] = inode
    \/ \E th \in Threads : fd[th] = inode

\* Earlier runs left the files; with Damaged, a bad disk or a hand edit the primary.
Init ==
    /\ names \in Directory
    /\ Apart(names) /\ names["tmp"] = NoFile
    /\ data \in [Inodes -> {Empty} \cup {Whole(v) : v \in Values}]
    /\ \A inode \in Inodes :
        (\A file \in Files : names[file] # inode) => data[inode] = Empty
    /\ ~Damaged => Valid("primary") \/ Present = {}
    /\ synced = Inodes
    /\ disk = Visible
    /\ pc = [th \in Threads |-> "idle"]
    /\ op = [th \in Threads |-> "get"]
    /\ healing = [th \in Threads |-> FALSE]
    /\ val = [th \in Threads |-> Default]
    /\ fd = [th \in Threads |-> NoFile]

------------------------------------------------------------------------------
(* load and save, as the RPC handlers call them. *)

Goto(th, point) == pc' = [pc EXCEPT ![th] = point]
Holds(th, v)    == val' = [val EXCEPT ![th] = v]
Closed(th)      == fd' = [fd EXCEPT ![th] = NoFile]

\* File::create: the named inode, whoever else has it open, is truncated; else a
\* new one is made.
Create(th, file) ==
    \E inode \in Inodes :
        /\ IF names[file] # NoFile THEN inode = names[file] ELSE ~InUse(inode)
        /\ names' = [names EXCEPT ![file] = inode]
        /\ data' = [data EXCEPT ![inode] = Empty]
        /\ synced' = synced \ {inode}
        /\ fd' = [fd EXCEPT ![th] = inode]

\* A getter answers; a setter changes what it got and saves.
Loaded(th, v) ==
    \/ op[th] = "get" /\ Goto(th, "idle") /\ Holds(th, v)
    \/ op[th] = "set" /\ Goto(th, "save") /\ \E new \in Values : Holds(th, new)

\* The end of atomic_write, good or bad: load has its value all the same, save
\* answers its caller.
Written(th) ==
    /\ Closed(th)
    /\ healing' = [healing EXCEPT ![th] = FALSE]
    /\ IF healing[th]
       THEN Loaded(th, val[th])
       ELSE Goto(th, "idle") /\ UNCHANGED val

Call(th) ==
    /\ pc[th] = "idle"
    /\ \E kind \in {"get", "set"} : op' = [op EXCEPT ![th] = kind]
    /\ Goto(th, "load")
    /\ UNCHANGED <<files, healing, val, fd>>

\* load: the primary ...
Load(th) ==
    /\ pc[th] = "load"
    /\ \/ Valid("primary") /\ Loaded(th, Text("primary"))
       \/ Missed("primary") /\ Goto(th, "fallback") /\ UNCHANGED val
    /\ UNCHANGED <<files, op, healing, fd>>

\* ... else the backup, which is then written back, else the defaults.
LoadBackup(th) ==
    /\ pc[th] = "fallback"
    /\ \/ /\ Valid("backup")
          /\ Goto(th, "create")
          /\ healing' = [healing EXCEPT ![th] = TRUE]
          /\ Holds(th, Text("backup"))
       \/ Missed("backup") /\ Loaded(th, Default) /\ UNCHANGED healing
    /\ UNCHANGED <<files, op, fd>>

\* A slip for Save: the backup is rolled whatever the primary holds.
SaveRollsAnything(th) ==
    /\ pc[th] = "save"
    /\ IF names["primary"] # NoFile
       THEN Goto(th, "copy") /\ Create(th, "backup")
       ELSE Goto(th, "create") /\ UNCHANGED <<names, data, synced, fd>>
    /\ UNCHANGED <<disk, op, healing, val>>

\* save: fs::copy of a good primary truncates the backup first.
Save(th) ==
    /\ pc[th] = "save"
    /\ \/ Valid("primary") /\ Goto(th, "copy") /\ Create(th, "backup")
       \/ Missed("primary") /\ Goto(th, "create") /\ UNCHANGED <<names, data, synced, fd>>
    /\ UNCHANGED <<disk, op, healing, val>>

\* The copy fills the backup, or fails: it is best effort and nothing syncs it.
Copy(th) ==
    /\ pc[th] = "copy"
    /\ \/ Valid("primary") /\ data' = [data EXCEPT ![fd[th]] = Over(@, Text("primary"))]
       \/ UNCHANGED data
    /\ synced' = synced \ {fd[th]}
    /\ Closed(th)
    /\ Goto(th, "create")
    /\ UNCHANGED <<names, disk, op, healing, val>>

\* atomic_write: the temp file, whose name every writer shares, ...
CreateTmp(th) ==
    /\ pc[th] = "create"
    /\ Create(th, "tmp")
    /\ Goto(th, "write")
    /\ UNCHANGED <<disk, op, healing, val>>

\* ... is written ...
WriteTmp(th) ==
    /\ pc[th] = "write"
    /\ data' = [data EXCEPT ![fd[th]] = Over(@, val[th])]
    /\ synced' = synced \ {fd[th]}
    /\ Goto(th, "sync")
    /\ UNCHANGED <<names, disk, op, healing, val, fd>>

\* ... synced and closed ...
SyncTmp(th) ==
    /\ pc[th] = "sync"
    /\ synced' = synced \cup {fd[th]}
    /\ Closed(th)
    /\ Goto(th, "rename")
    /\ UNCHANGED <<names, data, disk, op, healing, val>>

\* ... and renamed over the target, whoever wrote last what carries its name.
RenameTmp(th) ==
    /\ pc[th] = "rename"
    /\ names["tmp"] # NoFile
    /\ names' = [names EXCEPT !["primary"] = names["tmp"], !["tmp"] = NoFile]
    /\ Written(th)
    /\ UNCHANGED <<data, synced, disk, op>>

\* Any operation of atomic_write may fail; a rename does when the name is gone.
WriteFails(th) ==
    /\ \/ pc[th] \in {"create", "write", "sync", "rename"} /\ "io" \in Faults
       \/ pc[th] = "rename" /\ names["tmp"] = NoFile
    /\ Written(th)
    /\ UNCHANGED <<files, op>>

------------------------------------------------------------------------------
(* The operating system. *)

\* The daemon is gone and starts again; no thread is in a call.
Restarted ==
    /\ pc' = [th \in Threads |-> "idle"]
    /\ healing' = [th \in Threads |-> FALSE]
    /\ fd' = [th \in Threads |-> NoFile]
    /\ UNCHANGED <<op, val>>

Crash ==
    /\ "crash" \in Faults
    /\ Restarted
    /\ UNCHANGED files

\* The journal catches up; bytes that were not synced may be left behind.
Flush ==
    /\ "power" \in Faults
    /\ \E lost \in SUBSET {file \in Present : names[file] \notin synced} :
        disk' = [Visible EXCEPT !.bytes = [file \in Files |->
                    IF file \in lost THEN Empty ELSE @[file]]]
    /\ UNCHANGED <<names, data, synced, threads>>

PowerLoss ==
    /\ "power" \in Faults
    /\ names' \in Directory /\ Apart(names')
    /\ Present' = disk.files
    /\ data' = [inode \in Inodes |->
                  IF \E file \in disk.files : names'[file] = inode
                  THEN disk.bytes[CHOOSE file \in disk.files : names'[file] = inode]
                  ELSE Empty]
    /\ synced' = Inodes
    /\ Restarted
    /\ UNCHANGED disk

ThreadStep(th) ==
    \/ Call(th) \/ Load(th) \/ LoadBackup(th)
    \/ Save(th) \/ Copy(th)
    \/ CreateTmp(th) \/ WriteTmp(th) \/ SyncTmp(th) \/ RenameTmp(th)
    \/ WriteFails(th)

Next ==
    \/ \E th \in Threads : ThreadStep(th)
    \/ Crash \/ Flush \/ PowerLoss

Spec == Init /\ [][Next]_vars

------------------------------------------------------------------------------
(* Properties. *)

\* What load returns on such files.
Recovered(image) ==
    IF Readable(image, "primary") THEN image.bytes["primary"].size
    ELSE IF Readable(image, "backup") THEN image.bytes["backup"].size
    ELSE Default

Saving(th) ==
    /\ pc[th] \in {"save", "copy", "create", "write", "sync", "rename"}
    /\ ~healing[th]

\* With one thread, and as long as a good file can be read, the store is one durable
\* cell: whatever write fails and wherever a crash or a power loss falls, the settings
\* are those before the save or those after it, never the defaults and never an older
\* backup.
Cell == INSTANCE SettingsCell WITH
    Nothing <- NoFile,
    value   <- Recovered(Visible),
    durable <- Recovered(disk),
    wanted  <- IF \E th \in Threads : Saving(th)
               THEN val[CHOOSE th \in Threads : Saving(th)]
               ELSE NoFile
Implements == Cell!Spec

\* A reader that runs beside writers never meets a half-written file: once the
\* primary is good it stays good.
NeverHalfWritten == [][Valid("primary") => Valid("primary")']_vars

\* A load writes the backup back where the primary is missing or corrupt, and only there.
HealsOnlyDamage ==
    [][\A th \in Threads : RenameTmp(th) /\ healing[th] => ~Valid("primary")]_vars
==============================================================================
