-------------------------- MODULE BackendHostProofs --------------------------
(***************************************************************************)
(* Proofs about BackendHost for any set of RPC threads, any bound on the   *)
(* calls, any cooldown and requests of any size.  The inductive invariant  *)
(* says that the one line in the child's pipes belongs to the one thread   *)
(* that waits under the lock, and that the calls in progress are distinct  *)
(* and not yet answered.                                                   *)
(***************************************************************************)
EXTENDS BackendHost, TLAPS

InCall(c) == pc[c] \in {"call", "ensure", "write", "wait"}

\* The line a waiting thread expects back.
Expected(c) == [id |-> nextId - 1, n |-> serial[c]]

CallsOpen ==
    \A c \in Callers : InCall(c) =>
        /\ serial[c] \in Numbers
        /\ serial[c] <= issued
        /\ told[serial[c]] = "none"
        /\ pc[c] # "wait" => runs[serial[c]] = 0

CallsDistinct ==
    \A c, d \in Callers : InCall(c) /\ InCall(d) /\ serial[c] = serial[d] => c = d

Unissued == \A n \in Numbers : n > issued => runs[n] = 0 /\ told[n] = "none"

InFlight ==
    \A c \in Callers : pc[c] = "wait" =>
        /\ requests \subseteq {Expected(c)}
        /\ busy \subseteq {Expected(c)}
        /\ replies \subseteq {Expected(c)}
        /\ requests = {} \/ busy = {}
        /\ requests # {} \/ busy # {} => runs[serial[c]] = 0 /\ replies = {}
        /\ replies # {} => runs[serial[c]] = 1
        /\ runs[serial[c]] \in {0, 1}

Inv ==
    /\ TypeOK
    /\ OneCallAtATime
    /\ CallsOpen
    /\ CallsDistinct
    /\ Unissued
    /\ QuietBetweenCalls
    /\ InFlight
    /\ AnsweredMeansRun

USE BackendAssumption, NoOneAssumption

------------------------------------------------------------------------------
(* The initial states. *)

\* The host starts with no call made, nothing in the pipes and a free lock.
LEMMA InitInv == Init => Inv
<1> SUFFICES ASSUME Init PROVE Inv
  OBVIOUS
<1>1. handle \in BOOLEAN /\ proc \in {"none", "up", "exited"}
  BY Zenon DEF Init
<1>2. nextId \in 1..(MaxCalls + 1) /\ cool \in 0..Cooldown /\ issued \in 0..MaxCalls
  BY DEF Init
<1>3. TypeOK
  BY <1>1, <1>2 DEF Init, TypeOK, Points
<1>4. OneCallAtATime /\ QuietBetweenCalls
  BY DEF Init, OneCallAtATime, QuietBetweenCalls, Critical
<1>5. CallsOpen /\ CallsDistinct /\ Unissued /\ InFlight /\ AnsweredMeansRun
  BY DEF Init, CallsOpen, CallsDistinct, Unissued, InFlight, AnsweredMeansRun,
     InCall
<1> QED
  BY <1>3, <1>4, <1>5 DEF Inv

------------------------------------------------------------------------------
(* The steps: one lemma per action. *)

USE DEF childVars, Goto, Release, Tell, Discard, Spawned, SpawnFailed, Alive

\* RequestCall keeps the invariant: a call that starts is the next unissued
\* number.
LEMMA RequestCallInv ==
    ASSUME Inv, NEW c \in Callers, RequestCall(c)
    PROVE  Inv'
<1>1. TypeOK'
  BY DEF Inv, TypeOK, Points, RequestCall
<1>2. OneCallAtATime' /\ QuietBetweenCalls'
  BY DEF Inv, OneCallAtATime, QuietBetweenCalls, Critical, RequestCall
<1>3. CallsDistinct' /\ Unissued'
  BY DEF Inv, CallsOpen, CallsDistinct, Unissued, InCall, TypeOK, Numbers,
     RequestCall
<1>4. CallsOpen'
  BY DEF Inv, CallsOpen, Unissued, InCall, TypeOK, Numbers, RequestCall
<1>5. InFlight' /\ AnsweredMeansRun'
  BY DEF Inv, InFlight, AnsweredMeansRun, Expected, RequestCall
<1> QED
  BY <1>1, <1>2, <1>3, <1>4, <1>5 DEF Inv

\* RequestControl keeps the invariant: a restart or a status query carries no
\* call.
LEMMA RequestControlInv ==
    ASSUME Inv, NEW c \in Callers, RequestControl(c)
    PROVE  Inv'
<1>1. TypeOK'
  BY DEF Inv, TypeOK, Points, RequestControl
<1>2. OneCallAtATime' /\ QuietBetweenCalls'
  BY DEF Inv, OneCallAtATime, QuietBetweenCalls, Critical, TypeOK, RequestControl
<1>3. CallsDistinct' /\ Unissued'
  BY DEF Inv, CallsDistinct, Unissued, InCall, TypeOK, RequestControl
<1>4. CallsOpen'
  BY DEF Inv, CallsOpen, InCall, TypeOK, RequestControl
<1>5. InFlight' /\ AnsweredMeansRun'
  BY DEF Inv, InFlight, AnsweredMeansRun, Expected, TypeOK, RequestControl
<1> QED
  BY <1>1, <1>2, <1>3, <1>4, <1>5 DEF Inv

\* Acquire keeps the invariant: the lock is free when it is taken, and only
\* then.
LEMMA AcquireInv ==
    ASSUME Inv, NEW c \in Callers, Acquire(c)
    PROVE  Inv'
<1>1. TypeOK'
  BY DEF Inv, TypeOK, Points, Acquire
<1>2. OneCallAtATime' /\ QuietBetweenCalls'
  BY DEF Inv, OneCallAtATime, QuietBetweenCalls, Critical, TypeOK, Acquire
<1>3. CallsDistinct' /\ Unissued'
  BY DEF Inv, CallsDistinct, Unissued, InCall, TypeOK, Acquire
<1>4. CallsOpen'
  BY DEF Inv, CallsOpen, InCall, TypeOK, Acquire
<1>5. InFlight' /\ AnsweredMeansRun'
  BY DEF Inv, InFlight, AnsweredMeansRun, Expected, TypeOK, Acquire
<1> QED
  BY <1>1, <1>2, <1>3, <1>4, <1>5 DEF Inv

\* ReadStatus keeps the invariant: a status query only lets go of the lock.
LEMMA ReadStatusInv ==
    ASSUME Inv, NEW c \in Callers, ReadStatus(c)
    PROVE  Inv'
<1>1. TypeOK'
  BY DEF Inv, TypeOK, Points, ReadStatus
<1>2. OneCallAtATime' /\ QuietBetweenCalls'
  BY DEF Inv, OneCallAtATime, QuietBetweenCalls, Critical, TypeOK, ReadStatus
<1>3. CallsDistinct' /\ Unissued'
  BY DEF Inv, CallsDistinct, Unissued, InCall, ReadStatus
<1>4. CallsOpen'
  BY DEF Inv, CallsOpen, InCall, ReadStatus
<1>5. InFlight' /\ AnsweredMeansRun'
  BY DEF Inv, InFlight, AnsweredMeansRun, Expected, ReadStatus
<1> QED
  BY <1>1, <1>2, <1>3, <1>4, <1>5 DEF Inv

\* Restart keeps the invariant: a restart empties the pipes, and nobody waits
\* on them.
LEMMA RestartInv ==
    ASSUME Inv, NEW c \in Callers, Restart(c)
    PROVE  Inv'
<1>1. TypeOK'
  <2>1. handle' \in BOOLEAN /\ proc' \in {"none", "up", "exited"}
    BY Zenon DEF Inv, Restart
  <2>2. cool' \in 0..Cooldown /\ nextId' \in 1..(MaxCalls + 1)
    BY DEF Inv, TypeOK, Restart
  <2>3. /\ requests' \subseteq Line /\ busy' \subseteq Line /\ replies' \subseteq Line
        /\ pc' \in [Callers -> Points] /\ lock' \in Callers \cup {NoOne}
    BY DEF Inv, TypeOK, Points, Restart
  <2>4. /\ serial' \in [Callers -> 0..MaxCalls] /\ issued' \in 0..MaxCalls
        /\ runs' \in [Numbers -> Nat] /\ told' \in [Numbers -> {"none", "ok", "error"}]
    BY DEF Inv, TypeOK, Restart
  <2> QED
    BY <2>1, <2>2, <2>3, <2>4 DEF TypeOK
<1>2. OneCallAtATime' /\ QuietBetweenCalls'
  BY DEF Inv, OneCallAtATime, QuietBetweenCalls, Critical, TypeOK, Restart
<1>3. CallsDistinct' /\ Unissued'
  BY DEF Inv, CallsDistinct, Unissued, InCall, Restart
<1>4. CallsOpen'
  BY DEF Inv, CallsOpen, InCall, Restart
<1>5. InFlight' /\ AnsweredMeansRun'
  BY DEF Inv, InFlight, AnsweredMeansRun, Restart
<1> QED
  BY <1>1, <1>2, <1>3, <1>4, <1>5 DEF Inv

\* EnsureAlive keeps the invariant: a healthy child changes nothing.
LEMMA EnsureAliveInv ==
    ASSUME Inv, NEW c \in Callers, EnsureAlive(c)
    PROVE  Inv'
<1>1. TypeOK'
  BY DEF Inv, TypeOK, Points, EnsureAlive
<1>2. OneCallAtATime' /\ QuietBetweenCalls'
  BY DEF Inv, OneCallAtATime, QuietBetweenCalls, Critical, EnsureAlive
<1>3. CallsDistinct' /\ Unissued'
  BY DEF Inv, CallsDistinct, Unissued, InCall, EnsureAlive
<1>4. CallsOpen'
  BY DEF Inv, CallsOpen, InCall, EnsureAlive
<1>5. InFlight' /\ AnsweredMeansRun'
  BY DEF Inv, InFlight, AnsweredMeansRun, Expected, EnsureAlive
<1> QED
  BY <1>1, <1>2, <1>3, <1>4, <1>5 DEF Inv

\* EnsureTooSoon keeps the invariant: a call refused by the cooldown was never
\* run.
LEMMA EnsureTooSoonInv ==
    ASSUME Inv, NEW c \in Callers, EnsureTooSoon(c)
    PROVE  Inv'
<1>1. TypeOK'
  BY DEF Inv, TypeOK, Points, EnsureTooSoon
<1>2. OneCallAtATime' /\ QuietBetweenCalls'
  BY DEF Inv, OneCallAtATime, QuietBetweenCalls, Critical, TypeOK, EnsureTooSoon
<1>3. CallsDistinct' /\ Unissued'
  BY DEF Inv, CallsOpen, CallsDistinct, Unissued, InCall, TypeOK, EnsureTooSoon
<1>4. CallsOpen'
  BY DEF Inv, CallsOpen, CallsDistinct, InCall, TypeOK, EnsureTooSoon
<1>5. InFlight' /\ AnsweredMeansRun'
  BY DEF Inv, InFlight, AnsweredMeansRun, EnsureTooSoon
<1> QED
  BY <1>1, <1>2, <1>3, <1>4, <1>5 DEF Inv

\* EnsureSpawns keeps the invariant: a fresh child has empty pipes and no call
\* of its own.
LEMMA EnsureSpawnsInv ==
    ASSUME Inv, NEW c \in Callers, EnsureSpawns(c)
    PROVE  Inv'
<1>1. TypeOK'
  <2>1. handle' \in BOOLEAN /\ proc' \in {"none", "up", "exited"}
    BY Zenon DEF Inv, EnsureSpawns
  <2>2. cool' \in 0..Cooldown /\ nextId' \in 1..(MaxCalls + 1)
    BY DEF Inv, TypeOK, EnsureSpawns
  <2>3. /\ requests' \subseteq Line /\ busy' \subseteq Line /\ replies' \subseteq Line
        /\ pc' \in [Callers -> Points] /\ lock' \in Callers \cup {NoOne}
    BY DEF Inv, TypeOK, Points, EnsureSpawns
  <2>4. /\ serial' \in [Callers -> 0..MaxCalls] /\ issued' \in 0..MaxCalls
        /\ runs' \in [Numbers -> Nat] /\ told' \in [Numbers -> {"none", "ok", "error"}]
    BY DEF Inv, TypeOK, EnsureSpawns
  <2> QED
    BY <2>1, <2>2, <2>3, <2>4 DEF TypeOK
<1>2. OneCallAtATime' /\ QuietBetweenCalls'
  BY DEF Inv, OneCallAtATime, QuietBetweenCalls, Critical, TypeOK, EnsureSpawns
<1>3. CallsDistinct' /\ Unissued'
  <2>1. CallsDistinct'
    BY DEF Inv, CallsDistinct, InCall, TypeOK, EnsureSpawns
  <2>2. Unissued'
    BY DEF Inv, Unissued, CallsOpen, InCall, TypeOK, EnsureSpawns
  <2> QED
    BY <2>1, <2>2
<1>4. CallsOpen'
  BY DEF Inv, CallsOpen, CallsDistinct, InCall, TypeOK, EnsureSpawns
<1>5. InFlight' /\ AnsweredMeansRun'
  BY DEF Inv, InFlight, AnsweredMeansRun, TypeOK, EnsureSpawns
<1> QED
  BY <1>1, <1>2, <1>3, <1>4, <1>5 DEF Inv

\* WriteRequest keeps the invariant: the pipes were quiet, so the new line is
\* the only one.
LEMMA WriteRequestInv ==
    ASSUME Inv, NEW c \in Callers, WriteRequest(c)
    PROVE  Inv'
<1>1. TypeOK'
  <2>1. nextId \in 1..MaxCalls /\ nextId' \in 1..(MaxCalls + 1)
    BY DEF Inv, TypeOK, Numbers, WriteRequest
  <2>2. [id |-> nextId, n |-> serial[c]] \in Line
    BY <2>1 DEF Inv, CallsOpen, InCall, Numbers, Line, WriteRequest
  <2> QED
    BY <2>1, <2>2 DEF Inv, TypeOK, Points, WriteRequest
<1>2. OneCallAtATime' /\ QuietBetweenCalls'
  BY DEF Inv, OneCallAtATime, QuietBetweenCalls, Critical, TypeOK, WriteRequest
<1>3. CallsDistinct' /\ Unissued'
  BY DEF Inv, CallsDistinct, Unissued, InCall, WriteRequest
<1>4. CallsOpen'
  BY DEF Inv, CallsOpen, InCall, WriteRequest
<1>5. InFlight' /\ AnsweredMeansRun'
  BY DEF Inv, InFlight, AnsweredMeansRun, Expected, CallsOpen, QuietBetweenCalls,
     OneCallAtATime, Critical, InCall, Numbers, WriteRequest
<1> QED
  BY <1>1, <1>2, <1>3, <1>4, <1>5 DEF Inv

\* WriteFails keeps the invariant: a call whose write failed was never read.
LEMMA WriteFailsInv ==
    ASSUME Inv, NEW c \in Callers, WriteFails(c)
    PROVE  Inv'
<1>1. TypeOK'
  BY DEF Inv, TypeOK, Points, WriteFails
<1>2. OneCallAtATime' /\ QuietBetweenCalls'
  BY DEF Inv, OneCallAtATime, QuietBetweenCalls, Critical, TypeOK, WriteFails
<1>3. CallsDistinct' /\ Unissued'
  BY DEF Inv, CallsOpen, CallsDistinct, Unissued, InCall, TypeOK, WriteFails
<1>4. CallsOpen'
  BY DEF Inv, CallsOpen, CallsDistinct, InCall, TypeOK, WriteFails
<1>5. InFlight' /\ AnsweredMeansRun'
  BY DEF Inv, InFlight, AnsweredMeansRun, WriteFails
<1> QED
  BY <1>1, <1>2, <1>3, <1>4, <1>5 DEF Inv

\* Receive keeps the invariant: what the holder receives is its own line, after
\* its run.
LEMMA ReceiveInv ==
    ASSUME Inv, NEW c \in Callers, Receive(c)
    PROVE  Inv'
<1>1. TypeOK'
  BY DEF Inv, TypeOK, Points, Receive
<1>2. OneCallAtATime' /\ QuietBetweenCalls'
  <2>1. pc[c] = "wait" /\ lock = c
    BY DEF Inv, OneCallAtATime, Critical, Receive
  <2>2. OneCallAtATime'
    BY <2>1 DEF Inv, OneCallAtATime, Critical, TypeOK, Receive
  <2>3. PICK line \in replies :
          /\ replies' = replies \ {line}
          /\ \/ line.id + 1 = nextId /\ pc' = [pc EXCEPT ![c] = "idle"]
             \/ UNCHANGED pc
    BY DEF Receive
  <2>4. requests = {} /\ busy = {} /\ replies \ {line} = {}
    BY <2>1, <2>3 DEF Inv, InFlight
  <2> QED
    BY <2>1, <2>2, <2>3, <2>4 DEF Receive, QuietBetweenCalls
<1>3. CallsDistinct' /\ Unissued'
  <2>1. CallsDistinct'
    BY DEF Inv, CallsDistinct, InCall, TypeOK, Receive
  <2>2. Unissued'
    BY DEF Inv, Unissued, CallsOpen, InCall, TypeOK, Receive
  <2> QED
    BY <2>1, <2>2
<1>4. CallsOpen'
  BY DEF Inv, CallsOpen, CallsDistinct, InCall, TypeOK, Receive
<1>5. InFlight' /\ AnsweredMeansRun'
  BY DEF Inv, InFlight, AnsweredMeansRun, TypeOK, Receive
<1> QED
  BY <1>1, <1>2, <1>3, <1>4, <1>5 DEF Inv

\* TimeOut keeps the invariant: the line of a call that timed out goes with the
\* child.
LEMMA TimeOutInv ==
    ASSUME Inv, NEW c \in Callers, TimeOut(c)
    PROVE  Inv'
<1>1. TypeOK'
  BY DEF Inv, TypeOK, Points, TimeOut
<1>2. OneCallAtATime' /\ QuietBetweenCalls'
  BY DEF Inv, OneCallAtATime, QuietBetweenCalls, Critical, TypeOK, TimeOut
<1>3. CallsDistinct' /\ Unissued'
  BY DEF Inv, CallsOpen, CallsDistinct, Unissued, InCall, TypeOK, TimeOut
<1>4. CallsOpen'
  BY DEF Inv, CallsOpen, CallsDistinct, InCall, TypeOK, TimeOut
<1>5. InFlight' /\ AnsweredMeansRun'
  BY DEF Inv, InFlight, AnsweredMeansRun, TimeOut
<1> QED
  BY <1>1, <1>2, <1>3, <1>4, <1>5 DEF Inv

\* RunnerDrains keeps the invariant: as WriteRequest, the line going to the
\* runner at once.
LEMMA RunnerDrainsInv ==
    ASSUME Inv, NEW c \in Callers, RunnerDrains(c)
    PROVE  Inv'
<1>1. TypeOK'
  <2>1. nextId \in 1..MaxCalls /\ nextId' \in 1..(MaxCalls + 1)
    BY DEF Inv, TypeOK, Numbers, RunnerDrains
  <2>2. [id |-> nextId, n |-> serial[c]] \in Line
    BY <2>1 DEF Inv, CallsOpen, InCall, Numbers, Line, RunnerDrains
  <2> QED
    BY <2>1, <2>2 DEF Inv, TypeOK, Points, RunnerDrains
<1>2. OneCallAtATime' /\ QuietBetweenCalls'
  BY DEF Inv, OneCallAtATime, QuietBetweenCalls, Critical, TypeOK, RunnerDrains
<1>3. CallsDistinct' /\ Unissued'
  BY DEF Inv, CallsDistinct, Unissued, InCall, RunnerDrains
<1>4. CallsOpen'
  BY DEF Inv, CallsOpen, InCall, RunnerDrains
<1>5. InFlight' /\ AnsweredMeansRun'
  BY DEF Inv, InFlight, AnsweredMeansRun, Expected, CallsOpen, QuietBetweenCalls,
     OneCallAtATime, Critical, InCall, Numbers, RunnerDrains
<1> QED
  BY <1>1, <1>2, <1>3, <1>4, <1>5 DEF Inv

\* RunnerReads keeps the invariant: the line moves from the pipe to the runner.
LEMMA RunnerReadsInv ==
    ASSUME Inv, RunnerReads
    PROVE  Inv'
<1>1. TypeOK'
  BY DEF Inv, TypeOK, RunnerReads
<1>2. OneCallAtATime' /\ QuietBetweenCalls'
  BY DEF Inv, OneCallAtATime, QuietBetweenCalls, RunnerReads
<1>3. CallsDistinct' /\ Unissued'
  BY DEF Inv, CallsDistinct, Unissued, InCall, RunnerReads
<1>4. CallsOpen'
  BY DEF Inv, CallsOpen, InCall, RunnerReads
<1>5. InFlight' /\ AnsweredMeansRun'
  BY DEF Inv, InFlight, AnsweredMeansRun, Expected, RunnerReads
<1> QED
  BY <1>1, <1>2, <1>3, <1>4, <1>5 DEF Inv

\* RunnerReplies keeps the invariant: what the runner finishes is the waiting
\* thread's call, run for the first time.
LEMMA RunnerRepliesInv ==
    ASSUME Inv, RunnerReplies
    PROVE  Inv'
<1>0. PICK c \in Callers : pc[c] = "wait" /\ InCall(c) /\ busy = {Expected(c)}
  BY DEF Inv, QuietBetweenCalls, InFlight, InCall, RunnerReplies
<1>a. /\ serial[c] \in Numbers /\ serial[c] <= issued
      /\ told[serial[c]] = "none" /\ runs[serial[c]] = 0
      /\ requests = {} /\ replies = {}
  BY <1>0 DEF Inv, CallsOpen, InFlight
<1>b. runs' = [runs EXCEPT ![serial[c]] = 1] /\ replies' = {Expected(c)}
  <2>1. PICK line \in busy : /\ runs' = [runs EXCEPT ![line.n] = @ + 1]
                           /\ replies' = replies \cup {line}
    BY DEF RunnerReplies
  <2>2. line = Expected(c) /\ line.n = serial[c]
    BY <1>0, <2>1 DEF Expected
  <2>3. runs' = [runs EXCEPT ![serial[c]] = 1]
    BY <1>a, <2>1, <2>2 DEF Inv, TypeOK
  <2> QED
    BY <1>a, <2>1, <2>2, <2>3
<1>1. TypeOK'
  BY <1>0, <1>a, <1>b DEF Inv, TypeOK, RunnerReplies
<1>2. OneCallAtATime' /\ QuietBetweenCalls'
  BY DEF Inv, OneCallAtATime, QuietBetweenCalls, RunnerReplies
<1>3. CallsDistinct' /\ Unissued'
  BY <1>0, <1>a, <1>b DEF Inv, CallsDistinct, Unissued, InCall, TypeOK,
     RunnerReplies
<1>4. CallsOpen'
  BY <1>0, <1>a, <1>b DEF Inv, CallsOpen, CallsDistinct, InCall, RunnerReplies
<1>5. InFlight' /\ AnsweredMeansRun'
  BY <1>0, <1>a, <1>b DEF Inv, InFlight, AnsweredMeansRun, Expected, TypeOK,
     RunnerReplies
<1> QED
  BY <1>1, <1>2, <1>3, <1>4, <1>5 DEF Inv

\* RunnerDies keeps the invariant: a dying child has run the waiting thread's
\* call at most once.
LEMMA RunnerDiesInv ==
    ASSUME Inv, RunnerDies
    PROVE  Inv'
<1>0. UNCHANGED runs \/ \E c \in Callers :
        /\ pc[c] = "wait" /\ InCall(c) /\ busy = {Expected(c)}
        /\ runs' = [runs EXCEPT ![serial[c]] = @ + 1]
        /\ serial[c] \in Numbers /\ serial[c] <= issued
  BY DEF Inv, QuietBetweenCalls, InFlight, InCall, CallsOpen, Expected, RunnerDies
<1>1. TypeOK'
  BY <1>0 DEF Inv, TypeOK, RunnerDies
<1>2. OneCallAtATime' /\ QuietBetweenCalls'
  BY DEF Inv, OneCallAtATime, QuietBetweenCalls, RunnerDies
<1>3. CallsDistinct' /\ Unissued'
  BY <1>0 DEF Inv, CallsDistinct, Unissued, InCall, TypeOK, RunnerDies
<1>4. CallsOpen'
  BY <1>0 DEF Inv, CallsOpen, CallsDistinct, InCall, TypeOK, RunnerDies
<1>5. InFlight' /\ AnsweredMeansRun'
  BY <1>0 DEF Inv, InFlight, AnsweredMeansRun, Expected, TypeOK, RunnerDies
<1> QED
  BY <1>1, <1>2, <1>3, <1>4, <1>5 DEF Inv

\* TimePasses keeps the invariant: the clock touches nothing else.
LEMMA TimePassesInv ==
    ASSUME Inv, TimePasses
    PROVE  Inv'
<1>1. TypeOK'
  BY DEF Inv, TypeOK, TimePasses
<1>2. OneCallAtATime' /\ QuietBetweenCalls'
  BY DEF Inv, OneCallAtATime, QuietBetweenCalls, TimePasses
<1>3. CallsDistinct' /\ Unissued'
  BY DEF Inv, CallsDistinct, Unissued, InCall, TimePasses
<1>4. CallsOpen'
  BY DEF Inv, CallsOpen, InCall, TimePasses
<1>5. InFlight' /\ AnsweredMeansRun'
  BY DEF Inv, InFlight, AnsweredMeansRun, Expected, TimePasses
<1> QED
  BY <1>1, <1>2, <1>3, <1>4, <1>5 DEF Inv

------------------------------------------------------------------------------
(* The theorems. *)

\* Every step, and every stutter, keeps the invariant.
LEMMA NextInv == Inv /\ [Next]_vars => Inv'
<1> SUFFICES ASSUME Inv, [Next]_vars PROVE Inv'
  OBVIOUS
<1>1. CASE \E c \in Callers : RequestCall(c) \/ RequestControl(c) \/ Acquire(c)
  BY <1>1, RequestCallInv, RequestControlInv, AcquireInv
<1>2. CASE \E c \in Callers : CallStep(c)
  BY <1>2, EnsureAliveInv, EnsureTooSoonInv, EnsureSpawnsInv, WriteRequestInv,
     WriteFailsInv, ReceiveInv, TimeOutInv DEF CallStep
<1>3. CASE \E c \in Callers : Restart(c) \/ ReadStatus(c)
  BY <1>3, RestartInv, ReadStatusInv
<1>4. CASE Runner
  BY <1>4, RunnerDrainsInv, RunnerReadsInv, RunnerRepliesInv, RunnerDiesInv DEF
     Runner
<1>5. CASE TimePasses
  BY <1>5, TimePassesInv
<1>6. CASE UNCHANGED vars
  BY <1>6 DEF vars, Inv, TypeOK, OneCallAtATime, CallsOpen, CallsDistinct, Unissued,
              QuietBetweenCalls, InFlight, AnsweredMeansRun, InCall, Expected
<1> QED
  BY <1>1, <1>2, <1>3, <1>4, <1>5, <1>6 DEF Next, HolderStep

\* The invariant holds in every reachable state.
THEOREM Invariance == Spec => []Inv
BY InitInv, NextInv, PTL DEF Spec

\* Every variable stays in its type, the id counter within its bound included.
THEOREM TypeCorrect == Spec => []TypeOK
<1>1. Inv => TypeOK
  BY DEF Inv
<1> QED
  BY <1>1, Invariance, PTL

\* At most one RPC thread is ever between the health check and the reply.
THEOREM MutualExclusion == Spec => []OneCallAtATime
<1>1. Inv => OneCallAtATime
  BY DEF Inv
<1> QED
  BY <1>1, Invariance, PTL

\* A caller that is told "ok" had its own call run, exactly once.
THEOREM Answered == Spec => []AnsweredMeansRun
<1>1. Inv => AnsweredMeansRun
  BY DEF Inv
<1> QED
  BY <1>1, Invariance, PTL

\* No line outlives its call in the pipes to the child.
THEOREM Quiet == Spec => []QuietBetweenCalls
<1>1. Inv => QuietBetweenCalls
  BY DEF Inv
<1> QED
  BY <1>1, Invariance, PTL

------------------------------------------------------------------------------
(* The host implements the data service. *)

\* A step that moves one request and no other is an EXCEPT of phase.
LEMMA OneMoves ==
    ASSUME NEW n \in Numbers, \A m \in Numbers \ {n} : Stage(m)' = Stage(m)
    PROVE  phase' = [phase EXCEPT ![n] = Stage(n)']
BY DEF phase, Numbers

\* A step that moves no request leaves phase alone.
LEMMA NoneMoves ==
    ASSUME \A m \in Numbers : Stage(m)' = Stage(m)
    PROVE  phase' = phase
BY DEF phase, Numbers

\* A step that keeps the histories is a stutter of the service.
LEMMA Stutters ==
    ASSUME UNCHANGED <<issued, runs, told>>
    PROVE  UNCHANGED Service!vars
<1>1. phase' = phase
  BY NoneMoves DEF Stage
<1> QED
  BY <1>1 DEF Service!vars

\* Issuing the next call is Submit of the service.
LEMMA IssueSubmits ==
    ASSUME Inv, NEW n \in Numbers, n = issued + 1, issued' = n, UNCHANGED <<runs, told>>
    PROVE  Service!Submit(n)
<1>1. Stage(n) = "new" /\ Stage(n)' = "open"
  BY DEF Inv, TypeOK, Unissued, Stage
<1>2. \A m \in Numbers \ {n} : Stage(m)' = Stage(m)
  BY DEF Inv, TypeOK, Stage, Numbers
<1> QED
  BY <1>1, <1>2, OneMoves DEF Service!Submit, Service!Move, phase

\* Telling a caller that its call failed is Fail of the service.
LEMMA ErrorFails ==
    ASSUME Inv, NEW n \in Numbers, n <= issued, told[n] = "none",
           told' = [told EXCEPT ![n] = "error"], UNCHANGED <<issued, runs>>
    PROVE  Service!Fail(n)
<1>1. Stage(n) \in {"open", "ran"}
  BY DEF Inv, TypeOK, Stage, Numbers
<1>2. Stage(n)' = "failed"
  BY DEF Inv, TypeOK, Stage, Numbers
<1>3. \A m \in Numbers \ {n} : Stage(m)' = Stage(m)
  BY DEF Inv, Stage
<1> QED
  BY <1>1, <1>2, <1>3, OneMoves DEF Service!Fail, Service!Move, phase

\* Telling a caller the result of a call that ran is Answer of the service.
LEMMA OkAnswers ==
    ASSUME Inv, NEW n \in Numbers, n <= issued, told[n] = "none", runs[n] = 1,
           told' = [told EXCEPT ![n] = "ok"], UNCHANGED <<issued, runs>>
    PROVE  Service!Answer(n)
<1>1. Stage(n) = "ran"
  BY DEF Inv, TypeOK, Stage, Numbers
<1>2. Stage(n)' = "answered"
  BY DEF Inv, TypeOK, Stage, Numbers
<1>3. \A m \in Numbers \ {n} : Stage(m)' = Stage(m)
  BY DEF Inv, Stage
<1> QED
  BY <1>1, <1>2, <1>3, OneMoves DEF Service!Answer, Service!Move, phase

\* A first run of an open call is Run of the service.
LEMMA FirstRun ==
    ASSUME Inv, NEW n \in Numbers, n <= issued, told[n] = "none", runs[n] = 0,
           runs' = [runs EXCEPT ![n] = 1], UNCHANGED <<issued, told>>
    PROVE  Service!Run(n)
<1>1. Stage(n) = "open" /\ Stage(n)' = "ran"
  BY DEF Inv, TypeOK, Stage, Numbers
<1>2. \A m \in Numbers \ {n} : Stage(m)' = Stage(m)
  BY DEF Inv, Stage
<1> QED
  BY <1>1, <1>2, OneMoves DEF Inv, TypeOK, Service!Run, Service!Move, phase

\* The call the runner works on is the waiting thread's, open and not run yet.
LEMMA Busy ==
    ASSUME Inv, NEW line \in busy
    PROVE  /\ line.n \in Numbers /\ line.n <= issued
           /\ told[line.n] = "none" /\ runs[line.n] = 0
<1>1. PICK c \in Callers : pc[c] = "wait" /\ InCall(c) /\ line = Expected(c)
  BY DEF Inv, QuietBetweenCalls, InFlight, InCall
<1>2. line.n = serial[c]
  BY <1>1 DEF Expected
<1> QED
  BY <1>1, <1>2 DEF Inv, CallsOpen, InFlight

\* Every step of the host is a step of the service or a stutter.
LEMMA NextImplements == Inv /\ [Next]_vars => [Service!Next]_(Service!vars)
<1> SUFFICES ASSUME Inv, [Next]_vars PROVE Service!Next \/ UNCHANGED Service!vars
  OBVIOUS
<1>1. CASE \E c \in Callers : RequestCall(c)
  <2>1. issued + 1 \in Numbers /\ issued' = issued + 1 /\ UNCHANGED <<runs, told>>
    BY <1>1 DEF RequestCall, Inv, TypeOK, Numbers
  <2>2. Service!Submit(issued + 1)
    BY <2>1, IssueSubmits
  <2> QED
    BY <2>1, <2>2 DEF Service!Next
<1>2. CASE \E c \in Callers : \/ RequestControl(c) \/ Acquire(c) \/ ReadStatus(c)
                              \/ Restart(c) \/ EnsureAlive(c) \/ WriteRequest(c)
                              \/ RunnerDrains(c)
  <2>1. UNCHANGED <<issued, runs, told>>
    BY <1>2 DEF RequestControl, Acquire, ReadStatus, Restart, EnsureAlive,
                WriteRequest, RunnerDrains
  <2> QED
    BY <2>1, Stutters
<1>3. CASE RunnerReads \/ TimePasses \/ UNCHANGED vars
  <2>1. UNCHANGED <<issued, runs, told>>
    BY <1>3 DEF RunnerReads, TimePasses, vars
  <2> QED
    BY <2>1, Stutters
<1>4. CASE \E c \in Callers : \/ EnsureTooSoon(c) \/ EnsureSpawns(c)
                              \/ WriteFails(c) \/ TimeOut(c)
  <2>1. PICK c \in Callers : EnsureTooSoon(c) \/ EnsureSpawns(c) \/ WriteFails(c) \/ TimeOut(c)
    BY <1>4
  <2>2. InCall(c) /\ UNCHANGED <<issued, runs>>
    BY <2>1 DEF EnsureTooSoon, EnsureSpawns, WriteFails, TimeOut, InCall
  <2>3. Tell(c, "error") \/ UNCHANGED told
    BY <2>1 DEF EnsureTooSoon, EnsureSpawns, WriteFails, TimeOut
  <2>4. CASE Tell(c, "error")
    <3>1. /\ serial[c] \in Numbers /\ serial[c] <= issued
          /\ told[serial[c]] = "none" /\ told' = [told EXCEPT ![serial[c]] = "error"]
      BY <2>2, <2>4 DEF Inv, CallsOpen
    <3>2. Service!Fail(serial[c])
      BY <2>2, <3>1, ErrorFails
    <3> QED
      BY <3>1, <3>2 DEF Service!Next
  <2>5. CASE UNCHANGED told
    BY <2>2, <2>5, Stutters
  <2> QED
    BY <2>3, <2>4, <2>5
<1>5. CASE \E c \in Callers : Receive(c)
  <2>1. PICK c \in Callers : Receive(c)
    BY <1>5
  <2>2. InCall(c) /\ replies # {} /\ UNCHANGED <<issued, runs>>
    BY <2>1 DEF Receive, InCall
  <2>3. Tell(c, "ok") \/ UNCHANGED told
    BY <2>1 DEF Receive
  <2>4. CASE Tell(c, "ok")
    <3>1. /\ serial[c] \in Numbers /\ serial[c] <= issued /\ runs[serial[c]] = 1
          /\ told[serial[c]] = "none" /\ told' = [told EXCEPT ![serial[c]] = "ok"]
      BY <2>1, <2>2, <2>4 DEF Inv, CallsOpen, InFlight, Receive
    <3>2. Service!Answer(serial[c])
      BY <2>2, <3>1, OkAnswers
    <3> QED
      BY <3>1, <3>2 DEF Service!Next
  <2>5. CASE UNCHANGED told
    BY <2>2, <2>5, Stutters
  <2> QED
    BY <2>3, <2>4, <2>5
<1>6. CASE RunnerReplies \/ RunnerDies
  <2>1. CASE UNCHANGED runs
    BY <1>6, <2>1, Stutters DEF RunnerReplies, RunnerDies
  <2>2. CASE \E line \in busy : runs' = [runs EXCEPT ![line.n] = @ + 1]
    <3>1. PICK line \in busy : runs' = [runs EXCEPT ![line.n] = @ + 1]
      BY <2>2
    <3>2. /\ line.n \in Numbers /\ line.n <= issued
          /\ told[line.n] = "none" /\ runs[line.n] = 0
      BY Busy
    <3>3. runs' = [runs EXCEPT ![line.n] = 1]
      BY <3>1, <3>2 DEF Inv
    <3>4. UNCHANGED <<issued, told>>
      BY <1>6 DEF RunnerReplies, RunnerDies
    <3>5. Service!Run(line.n)
      BY <3>2, <3>3, <3>4, FirstRun
    <3> QED
      BY <3>2, <3>5 DEF Service!Next
  <2> QED
    BY <1>6, <2>1, <2>2 DEF RunnerReplies, RunnerDies
<1> QED
  BY <1>1, <1>2, <1>3, <1>4, <1>5, <1>6 DEF Next, HolderStep, CallStep, Runner

\* The host, whatever dies, hangs or times out, keeps the promise of DataService:
\* at most one run per call, answers only after it, no run after a failure.
THEOREM Refinement == Spec => Implements
<1>1. Init => Service!Init
  BY DEF Init, Service!Init, phase, Stage, Numbers
<1> QED
  BY <1>1, Invariance, NextImplements, PTL DEF Spec, Implements, Service!Spec
==============================================================================
