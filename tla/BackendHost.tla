----------------------------- MODULE BackendHost -----------------------------
(***************************************************************************)
(* Hosting the Python data backend (src/src/backend.rs) for the RPC        *)
(* threads.  One mutex guards the child's handle and the time of the last  *)
(* spawn; a data call holds it from the health check to the reply.  The    *)
(* child is the runner of runtime/backend/shelveshub_backend.py: it reads  *)
(* a request, runs it, replies, and may hang or die at any point.          *)
(* Hosting is configured (SETTINGS is set); init has tried its spawn.      *)
(***************************************************************************)
EXTENDS Naturals

CONSTANTS
    Callers,       \* RPC connection threads
    MaxCalls,      \* bound: data calls made in a behaviour
    Cooldown,      \* RESPAWN_COOLDOWN, in units of the clock
    LargeCalls     \* the calls whose request exceeds what the pipe to the child buffers

ASSUME BackendAssumption ==
    /\ MaxCalls \in Nat
    /\ Cooldown \in Nat \ {0}

CONSTANT NoOne
ASSUME NoOneAssumption == NoOne \notin Callers

VARIABLES
    pc,        \* where each thread is in backend.rs
    serial,    \* the number of the data call each thread makes, 0 for none
    lock,      \* holder of the STATE mutex
    handle,    \* STATE.handle is Some
    proc,      \* the child process
    nextId,    \* Handle.next_id
    requests,  \* written to the child's stdin, not read yet
    busy,      \* the request the runner is working on
    replies,   \* sent by the child, not received yet
    cool,      \* clock units left until RESPAWN_COOLDOWN has passed since last_spawn
    issued,    \* history: data calls made so far
    runs,      \* history: how often the backend ran each of them
    told       \* history: what its caller was told

childVars == <<handle, proc, nextId, requests, busy, replies>>
vars == <<pc, serial, lock, childVars, cool, issued, runs, told>>

Numbers == 1..MaxCalls

\* A protocol line: the id on the wire, and the call it belongs to.
Line == [id: 1..(MaxCalls + 1), n: Numbers]

Points == {"idle", "call", "restart", "status",           \* waiting for the lock
           "ensure", "write", "wait", "restarting", "reading"} \* holding it
Critical == {"ensure", "write", "wait", "restarting", "reading"}

TypeOK ==
    /\ pc \in [Callers -> Points]
    /\ serial \in [Callers -> 0..MaxCalls]
    /\ lock \in Callers \cup {NoOne}
    /\ handle \in BOOLEAN
    /\ proc \in {"none", "up", "exited"}
    /\ nextId \in 1..(MaxCalls + 1)
    /\ requests \subseteq Line /\ busy \subseteq Line /\ replies \subseteq Line
    /\ cool \in 0..Cooldown
    /\ issued \in 0..MaxCalls
    /\ runs \in [Numbers -> Nat]
    /\ told \in [Numbers -> {"none", "ok", "error"}]

Init ==
    /\ pc = [c \in Callers |-> "idle"]
    /\ serial = [c \in Callers |-> 0]
    /\ lock = NoOne
    /\ \/ handle = TRUE /\ proc = "up"
       \/ handle = FALSE /\ proc = "none"
    /\ nextId = 1
    /\ requests = {} /\ busy = {} /\ replies = {}
    /\ cool = Cooldown
    /\ issued = 0
    /\ runs = [n \in Numbers |-> 0]
    /\ told = [n \in Numbers |-> "none"]

------------------------------------------------------------------------------
(* Pieces of the critical section. *)

Goto(c, point) == pc' = [pc EXCEPT ![c] = point]

\* The guard is dropped and the RPC thread answers.
Release(c) == Goto(c, "idle") /\ lock' = NoOne

Tell(c, outcome) ==
    /\ told' = [told EXCEPT ![serial[c]] = outcome]
    /\ Release(c)

\* drop_handle: kill the child and wait for it; its pipes and channel go with it.
Discard ==
    /\ handle' = FALSE
    /\ proc' = "none"
    /\ requests' = {} /\ busy' = {} /\ replies' = {}
    /\ UNCHANGED nextId

\* spawn: a fresh child, channel and id counter; last_spawn is set either way.
Spawned ==
    /\ handle' = TRUE
    /\ proc' = "up"
    /\ nextId' = 1
SpawnFailed ==
    /\ handle' = FALSE
    /\ proc' = "none"
    /\ UNCHANGED nextId

\* try_wait finds the child of the handle running.
Alive == handle /\ proc = "up"

------------------------------------------------------------------------------
(* The RPC threads. *)

RequestCall(c) ==
    /\ pc[c] = "idle"
    /\ issued < MaxCalls
    /\ issued' = issued + 1
    /\ serial' = [serial EXCEPT ![c] = issued + 1]
    /\ Goto(c, "call")
    /\ UNCHANGED <<lock, childVars, cool, runs, told>>

RequestControl(c) ==
    /\ pc[c] = "idle"
    /\ Goto(c, "restart") \/ Goto(c, "status")
    /\ serial' = [serial EXCEPT ![c] = 0]
    /\ UNCHANGED <<lock, childVars, cool, issued, runs, told>>

\* A slip for Acquire: a poisoned lock is entered whoever holds it.
AcquirePoisoned(c) ==
    /\ lock' = c
    /\ \/ pc[c] = "call"    /\ Goto(c, "ensure")
       \/ pc[c] = "restart" /\ Goto(c, "restarting")
       \/ pc[c] = "status"  /\ Goto(c, "reading")
    /\ UNCHANGED <<serial, childVars, cool, issued, runs, told>>

\* lock_state
Acquire(c) ==
    /\ lock = NoOne
    /\ lock' = c
    /\ \/ pc[c] = "call"    /\ Goto(c, "ensure")
       \/ pc[c] = "restart" /\ Goto(c, "restarting")
       \/ pc[c] = "status"  /\ Goto(c, "reading")
    /\ UNCHANGED <<serial, childVars, cool, issued, runs, told>>

\* is_running
ReadStatus(c) ==
    /\ pc[c] = "reading"
    /\ Release(c)
    /\ UNCHANGED <<serial, childVars, cool, issued, runs, told>>

\* restart: discard, forget last_spawn, spawn again whatever the cooldown.
Restart(c) ==
    /\ pc[c] = "restarting"
    /\ requests' = {} /\ busy' = {} /\ replies' = {}
    /\ Spawned \/ SpawnFailed
    /\ cool' = Cooldown
    /\ Release(c)
    /\ UNCHANGED <<serial, issued, runs, told>>

\* ensure_running, the child being alive.
EnsureAlive(c) ==
    /\ pc[c] = "ensure"
    /\ Alive
    /\ Goto(c, "write")
    /\ UNCHANGED <<serial, lock, childVars, cool, issued, runs, told>>

\* ensure_running within the cooldown: the dead handle is dropped, no respawn.
EnsureTooSoon(c) ==
    /\ pc[c] = "ensure"
    /\ ~Alive
    /\ cool > 0
    /\ Discard
    /\ Tell(c, "error")
    /\ UNCHANGED <<serial, cool, issued, runs>>

\* ensure_running after the cooldown.
EnsureSpawns(c) ==
    /\ pc[c] = "ensure"
    /\ ~Alive
    /\ cool = 0
    /\ cool' = Cooldown
    /\ requests' = {} /\ busy' = {} /\ replies' = {}
    /\ \/ Spawned /\ Goto(c, "write") /\ UNCHANGED <<lock, told>>
       \/ SpawnFailed /\ Tell(c, "error")
    /\ UNCHANGED <<serial, issued, runs>>

\* write_all and flush of a request that the pipe buffers.
WriteRequest(c) ==
    /\ pc[c] = "write"
    /\ proc = "up"
    /\ serial[c] \notin LargeCalls
    /\ nextId \in Numbers
    /\ nextId' = nextId + 1
    /\ requests' = requests \cup {[id |-> nextId, n |-> serial[c]]}
    /\ Goto(c, "wait")
    /\ UNCHANGED <<serial, lock, handle, proc, busy, replies, cool, issued, runs, told>>

\* The child died under the write.
WriteFails(c) ==
    /\ pc[c] = "write"
    /\ proc = "exited"
    /\ Discard
    /\ Tell(c, "error")
    /\ UNCHANGED <<serial, cool, issued, runs>>

\* A reply arrives; one with another id is skipped.
Receive(c) ==
    /\ pc[c] = "wait"
    /\ \E line \in replies :
        /\ replies' = replies \ {line}
        /\ IF line.id + 1 = nextId
           THEN Tell(c, "ok")
           ELSE UNCHANGED <<pc, lock, told>>
    /\ UNCHANGED <<serial, handle, proc, nextId, requests, busy, cool, issued, runs>>

\* Slips for TimeOut: the child is kept; the call is sent once more; the wait has
\* no limit and only notices the reader thread's end.
TimeOutKeepsChild(c) ==
    /\ pc[c] = "wait"
    /\ replies = {}
    /\ Tell(c, "error")
    /\ UNCHANGED <<serial, childVars, cool, issued, runs>>
TimeOutRetries(c) ==
    /\ pc[c] = "wait"
    /\ replies = {}
    /\ Discard
    /\ Goto(c, "ensure")
    /\ UNCHANGED <<serial, lock, cool, issued, runs, told>>
TimeOutOnExit(c) ==
    /\ pc[c] = "wait"
    /\ replies = {} /\ proc = "exited"
    /\ Discard
    /\ Tell(c, "error")
    /\ UNCHANGED <<serial, cool, issued, runs>>

\* CALL_TIMEOUT passes with nothing to receive, or the reader thread is gone.
TimeOut(c) ==
    /\ pc[c] = "wait"
    /\ replies = {}
    /\ Discard
    /\ Tell(c, "error")
    /\ UNCHANGED <<serial, cool, issued, runs>>

------------------------------------------------------------------------------
(* The runner and the clock. *)

\* write_all of a request larger than the pipe: it completes only as the runner
\* reads it, and it has no timeout.
RunnerDrains(c) ==
    /\ pc[c] = "write"
    /\ proc = "up"
    /\ serial[c] \in LargeCalls
    /\ busy = {} /\ requests = {}
    /\ nextId \in Numbers
    /\ nextId' = nextId + 1
    /\ busy' = {[id |-> nextId, n |-> serial[c]]}
    /\ Goto(c, "wait")
    /\ UNCHANGED <<serial, lock, handle, proc, requests, replies, cool, issued, runs, told>>

RunnerReads ==
    /\ proc = "up"
    /\ busy = {}
    /\ \E line \in requests :
        /\ busy' = {line}
        /\ requests' = requests \ {line}
    /\ UNCHANGED <<pc, serial, lock, handle, proc, nextId, replies, cool, issued, runs, told>>

\* The method runs to its end; its result or its error is one reply.
RunnerReplies ==
    /\ proc = "up"
    /\ \E line \in busy :
        /\ runs' = [runs EXCEPT ![line.n] = @ + 1]
        /\ replies' = replies \cup {line}
    /\ busy' = {}
    /\ UNCHANGED <<pc, serial, lock, handle, proc, nextId, requests, cool, issued, told>>

\* The process dies, before or after the method had its effect, unanswered.
RunnerDies ==
    /\ proc = "up"
    /\ proc' = "exited"
    /\ requests' = {} /\ busy' = {}
    /\ \/ UNCHANGED runs
       \/ \E line \in busy : runs' = [runs EXCEPT ![line.n] = @ + 1]
    /\ UNCHANGED <<pc, serial, lock, handle, nextId, replies, cool, issued, told>>

\* A slip for TimePasses: the remaining cooldown is computed without saturation.
TimePassesUnder ==
    /\ cool' = cool - 1
    /\ UNCHANGED <<pc, serial, lock, childVars, issued, runs, told>>

TimePasses ==
    /\ cool > 0
    /\ cool' = cool - 1
    /\ UNCHANGED <<pc, serial, lock, childVars, issued, runs, told>>

CallStep(c) ==
    \/ EnsureAlive(c) \/ EnsureTooSoon(c) \/ EnsureSpawns(c)
    \/ WriteRequest(c) \/ WriteFails(c)
    \/ Receive(c) \/ TimeOut(c)

\* A thread that holds the lock.
HolderStep(c) == CallStep(c) \/ Restart(c) \/ ReadStatus(c)

Runner ==
    \/ RunnerReads \/ RunnerReplies \/ RunnerDies
    \/ \E c \in Callers : RunnerDrains(c)

Next ==
    \/ \E c \in Callers : RequestCall(c) \/ RequestControl(c) \/ Acquire(c) \/ HolderStep(c)
    \/ Runner
    \/ TimePasses

\* The operating system runs a thread that can run, and std's mutex, though not
\* fair, is assumed not to starve one waiter for ever.  The runner owes nothing.
Fairness == \A c \in Callers : WF_vars(HolderStep(c)) /\ SF_vars(Acquire(c))

Spec == Init /\ [][Next]_vars /\ Fairness

------------------------------------------------------------------------------
(* Properties. *)

\* The mutex: exactly the thread inside the critical section holds it, so two
\* calls never share the child's pipes.
OneCallAtATime == \A c \in Callers : pc[c] \in Critical <=> lock = c

\* A call that succeeds was run by the backend, once, for this very call: no
\* reply of an earlier call that timed out is ever taken for it.
AnsweredMeansRun == \A n \in Numbers : told[n] = "ok" => runs[n] = 1

\* Seen as a service, the host runs a request at most once, answers only what
\* ran, and runs nothing after reporting its failure.
Stage(n) ==
    IF n > issued THEN "new"
    ELSE CASE told[n] = "ok"    -> "answered"
           [] told[n] = "error" -> "failed"
           [] OTHER -> IF runs[n] = 0 THEN "open" ELSE "ran"
phase == [n \in Numbers |-> Stage(n)]
Service == INSTANCE DataService WITH Requests <- Numbers
Implements == Service!Spec

\* Between calls nothing is left in the pipes for a later call to trip over.
QuietBetweenCalls ==
    (\A c \in Callers : pc[c] # "wait")
        => requests = {} /\ busy = {} /\ replies = {}

\* Every data call, restart and status query comes back: a hung call times out
\* and lets go of the lock.
EveryRequestEnds ==
    \A c \in Callers : pc[c] # "idle" ~> pc[c] = "idle"

\* They do come back as long as no write of a request blocks for ever, whatever
\* the runner does with the request once it has it.
EndsUnlessWriteBlocks ==
    (\A c \in Callers : []<>(pc[c] # "write")) => EveryRequestEnds
==============================================================================
