----------------------------- MODULE PanelProofs -----------------------------
(***************************************************************************)
(* Proof that the hub's panel comes to show what the daemon has stored,    *)
(* for any presses, any number of calls in flight and any number that are  *)
(* lost.  The inductive invariant says of each call in flight what its     *)
(* reply will teach the panel: the request for the settings, or the one    *)
(* preference, that is under way holds the stored settings in its reply,   *)
(* or, not yet served, in what it would be undone to.                      *)
(***************************************************************************)
EXTENDS HubPanel, SequenceTheorems, TLAPS

\* Requests whose reply, or whose loss, sets the preferences shown.
Speaks(c) == c.m \in {"pref", "mount"}

\* What the panel is told when the call c is over is that the settings are s.
Sound(c, s) ==
    /\ c.mine
    /\ c.m = "pref" => \/ c.state = "sent" /\ c.undo.prefs = s
                       \/ c.state = "ok" /\ c.ans = s
    /\ c.m = "mount" => \/ c.state = "sent"
                        \/ c.state = "ok" /\ c.ans.prefs = s

AllSound(cs, s) ==
    /\ \A i \in DOMAIN cs : Sound(cs[i], s)
    /\ \A i, j \in DOMAIN cs : Speaks(cs[i]) /\ Speaks(cs[j]) => i = j

Silent(cs) == \A i \in DOMAIN cs : ~Speaks(cs[i])

\* The panel and its calls, for settings s of the daemon.
Agreed(cs, shown, s) == AllSound(cs, s) /\ (Silent(cs) => shown.prefs = s)

Fields == {"m", "arg", "undo", "state", "ans", "mine"}

\* A sequence of calls.
Queue(cs) ==
    /\ cs \in Seq(ToSet(cs))
    /\ \A i \in DOMAIN cs : cs[i] = [f \in Fields |-> cs[i][f]]

Trusted == open /\ ~tainted => Agreed(calls, cfg, store)

Inv == Queue(calls) /\ Trusted

USE DEF counters, daemonVars, panelVars, viewerVars, slotVars, logVars

------------------------------------------------------------------------------
(* Sequences of calls. *)

\* A call as it is posted is a record of its fields, is the panel's own and was sent.
LEMMA Posted ==
    ASSUME NEW m, NEW arg, NEW undo
    PROVE  /\ Call(m, arg, undo) = [f \in Fields |-> Call(m, arg, undo)[f]]
           /\ Call(m, arg, undo).m = m /\ Call(m, arg, undo).undo = undo
           /\ Call(m, arg, undo).state = "sent" /\ Call(m, arg, undo).mine
BY DEF Call, Fields

\* Calls added to others come after them.
LEMMA Joined ==
    ASSUME NEW cs, NEW more, Queue(cs), Queue(more)
    PROVE  /\ Queue(cs \o more)
           /\ DOMAIN (cs \o more) = 1..(Len(cs) + Len(more))
           /\ Len(cs) \in Nat /\ Len(more) \in Nat
           /\ DOMAIN cs = 1..Len(cs) /\ DOMAIN more = 1..Len(more)
           /\ \A i \in 1..(Len(cs) + Len(more)) :
                (cs \o more)[i] = IF i <= Len(cs) THEN cs[i] ELSE more[i - Len(cs)]
<1> DEFINE S == ToSet(cs) \cup ToSet(more)
           all == cs \o more
<1>1. cs \in Seq(S) /\ more \in Seq(S)
  BY DEF Queue
<1> HIDE DEF S
<1>2. /\ all \in Seq(S) /\ Len(all) = Len(cs) + Len(more)
      /\ \A i \in 1..(Len(cs) + Len(more)) :
            all[i] = IF i <= Len(cs) THEN cs[i] ELSE more[i - Len(cs)]
  BY <1>1, ConcatProperties, Zenon
<1>3. /\ DOMAIN all = 1..(Len(cs) + Len(more)) /\ Len(cs) \in Nat /\ Len(more) \in Nat
      /\ DOMAIN cs = 1..Len(cs) /\ DOMAIN more = 1..Len(more)
  BY <1>1, <1>2
<1> HIDE DEF all
<1>4. all \in Seq(ToSet(all))
  <2>1. \A i \in 1..Len(all) : all[i] \in ToSet(all)
    BY <1>2, <1>3 DEF ToSet
  <2> QED
    BY <1>2, <2>1
<1>5. \A i \in DOMAIN all : all[i] = [f \in Fields |-> all[i][f]]
  <2> TAKE i \in DOMAIN all
  <2>1. CASE i <= Len(cs)
    BY <1>2, <1>3, <2>1 DEF Queue
  <2>2. CASE i > Len(cs)
    <3>1. i - Len(cs) \in DOMAIN more /\ all[i] = more[i - Len(cs)]
      BY <1>2, <1>3, <2>2
    <3> QED
      BY <3>1 DEF Queue
  <2> QED
    BY <1>3, <2>1, <2>2
<1>6. Queue(all)
  BY <1>4, <1>5 DEF Queue
<1> QED
  BY <1>2, <1>3, <1>6 DEF all

\* One call is a queue.
LEMMA One ==
    ASSUME NEW c, c = [f \in Fields |-> c[f]]
    PROVE  Queue(<<c>>) /\ Len(<<c>>) = 1 /\ <<c>>[1] = c
BY DEF Queue, ToSet

\* None is, and calls added to none are those added.
LEMMA None ==
    Queue(<<>>) /\ \A cs : Queue(cs) => <<>> \o cs = cs /\ cs \o <<>> = cs
<1>1. Queue(<<>>)
  BY DEF Queue
<1>2. ASSUME NEW cs, Queue(cs) PROVE <<>> \o cs = cs /\ cs \o <<>> = cs
  BY <1>2, ConcatEmptySeq DEF Queue
<1> QED
  BY <1>1, <1>2

\* What is left when the reply to call i has come: every other call, in its order.
LEMMA Removed ==
    ASSUME NEW cs, Queue(cs), NEW i \in DOMAIN cs
    PROVE  /\ Queue(RemoveAt(cs, i))
           /\ \E old \in [DOMAIN RemoveAt(cs, i) -> DOMAIN cs \ {i}] :
                /\ \A j \in DOMAIN RemoveAt(cs, i) : RemoveAt(cs, i)[j] = cs[old[j]]
                /\ \A j, k \in DOMAIN RemoveAt(cs, i) : old[j] = old[k] => j = k
                /\ \A k \in DOMAIN cs \ {i} : \E j \in DOMAIN RemoveAt(cs, i) : old[j] = k
<1> DEFINE front == SubSeq(cs, 1, i - 1)
           back == SubSeq(cs, i + 1, Len(cs))
           left == RemoveAt(cs, i)
           S == ToSet(cs)
           old == [j \in 1..(Len(cs) - 1) |-> IF j < i THEN j ELSE j + 1]
<1>1. /\ cs \in Seq(S) /\ Len(cs) \in Nat /\ DOMAIN cs = 1..Len(cs)
      /\ \A j \in 1..Len(cs) : cs[j] \in S
  BY DEF Queue
<1> HIDE DEF S
<1>2. front \in Seq(S) /\ Len(front) = i - 1 /\ \A j \in 1..(i - 1) : front[j] = cs[j]
  BY <1>1, SubSeqProperties
<1>3. /\ back \in Seq(S) /\ Len(back) = Len(cs) - i
      /\ \A j \in 1..(Len(cs) - i) : back[j] = cs[i + j]
  <2>1. i + 1 \in Int /\ Len(cs) \in Int /\ \A j \in (i + 1)..Len(cs) : cs[j] \in S
    BY <1>1
  <2>2. PICK m, n : m = i + 1 /\ n = Len(cs)
    OBVIOUS
  <2>3. m \in Int /\ n \in Int /\ \A j \in m..n : cs[j] \in S
    BY <2>1, <2>2
  <2>4. /\ SubSeq(cs, m, n) \in Seq(S)
        /\ Len(SubSeq(cs, m, n)) = IF m <= n THEN n - m + 1 ELSE 0
        /\ \A j \in 1..(n - m + 1) : SubSeq(cs, m, n)[j] = cs[m + j - 1]
    BY <2>3, SubSeqProperties
  <2>5. back = SubSeq(cs, m, n)
    BY <2>2
  <2>6. /\ back \in Seq(S)
        /\ Len(back) = IF i + 1 <= Len(cs) THEN Len(cs) - (i + 1) + 1 ELSE 0
        /\ \A j \in 1..(Len(cs) - (i + 1) + 1) : back[j] = cs[(i + 1) + j - 1]
    <3> HIDE DEF back
    <3> QED
      BY <2>2, <2>4, <2>5
  <2> HIDE DEF back
  <2>7. Len(back) = Len(cs) - i /\ Len(cs) - (i + 1) + 1 = Len(cs) - i
    BY <1>1, <2>6
  <2>8. ASSUME NEW j \in 1..(Len(cs) - i) PROVE back[j] = cs[i + j]
    <3>1. (i + 1) + j - 1 = i + j
      BY <1>1
    <3> QED
      BY <2>6, <2>7, <3>1
  <2> QED
    BY <2>6, <2>7, <2>8
<1> HIDE DEF front, back
<1>4. /\ left \in Seq(S) /\ Len(left) = Len(cs) - 1
      /\ \A j \in 1..(Len(cs) - 1) : left[j] = IF j < i THEN cs[j] ELSE cs[j + 1]
  <2>1. /\ front \o back \in Seq(S) /\ Len(front \o back) = Len(front) + Len(back)
        /\ \A j \in 1..(Len(front) + Len(back)) :
              (front \o back)[j] = IF j <= Len(front) THEN front[j] ELSE back[j - Len(front)]
    BY <1>2, <1>3, ConcatProperties, Zenon
  <2>2. left = front \o back
    BY DEF RemoveAt, front, back
  <2> HIDE DEF left
  <2>3. Len(front) + Len(back) = Len(cs) - 1
    BY <1>1, <1>2, <1>3
  <2>4. ASSUME NEW j \in 1..(Len(cs) - 1)
        PROVE  left[j] = IF j < i THEN cs[j] ELSE cs[j + 1]
    <3>1. CASE j < i
      BY <1>1, <1>2, <2>1, <2>2, <2>3, <3>1
    <3>2. CASE j >= i
      <4>1. left[j] = back[j - Len(front)] /\ Len(front) = i - 1
        BY <1>1, <1>2, <2>1, <2>2, <2>3, <3>2
      <4>2. j - (i - 1) \in 1..(Len(cs) - i) /\ i + (j - (i - 1)) = j + 1
        BY <1>1, <3>2
      <4> QED
        BY <1>3, <3>2, <4>1, <4>2
    <3> QED
      BY <1>1, <3>1, <3>2
  <2> QED
    BY <2>1, <2>2, <2>3, <2>4
<1> HIDE DEF left
<1>5. DOMAIN left = 1..(Len(cs) - 1)
  BY <1>1, <1>4
<1>6. /\ old \in [DOMAIN left -> DOMAIN cs \ {i}]
      /\ \A j \in DOMAIN left : left[j] = cs[old[j]]
      /\ \A j, k \in DOMAIN left : old[j] = old[k] => j = k
      /\ \A k \in DOMAIN cs \ {i} : \E j \in DOMAIN left : old[j] = k
  <2>1. \A j \in 1..(Len(cs) - 1) : old[j] = IF j < i THEN j ELSE j + 1
    OBVIOUS
  <2>2. \A j \in 1..(Len(cs) - 1) : old[j] \in DOMAIN cs \ {i}
    BY <1>1, <2>1
  <2>3. old \in [DOMAIN left -> DOMAIN cs \ {i}]
    BY <1>5, <2>2
  <2> HIDE DEF old
  <2>4. \A j \in DOMAIN left : left[j] = cs[old[j]]
    BY <1>4, <1>5, <2>1
  <2>5. \A j, k \in DOMAIN left : old[j] = old[k] => j = k
    BY <1>1, <1>5, <2>1
  <2>6. ASSUME NEW k \in DOMAIN cs \ {i} PROVE \E j \in DOMAIN left : old[j] = k
    <3>1. CASE k < i
      <4>1. k \in DOMAIN left /\ old[k] = k
        BY <1>1, <1>5, <2>1, <3>1
      <4> QED
        BY <4>1
    <3>2. CASE k > i
      <4>1. k - 1 \in DOMAIN left /\ old[k - 1] = k
        BY <1>1, <1>5, <2>1, <3>2
      <4> QED
        BY <4>1
    <3> QED
      BY <1>1, <3>1, <3>2
  <2> QED
    BY <2>3, <2>4, <2>5, <2>6
<1> HIDE DEF old
<1>7. Queue(left)
  <2>1. \A j \in 1..Len(left) : left[j] \in ToSet(left)
    BY <1>4, <1>5 DEF ToSet
  <2>2. left \in Seq(ToSet(left))
    BY <1>4, <2>1
  <2>3. \A j \in DOMAIN left : left[j] = [f \in Fields |-> left[j][f]]
    BY <1>6 DEF Queue
  <2> QED
    BY <2>2, <2>3 DEF Queue
<1> QED
  BY <1>6, <1>7 DEF left

------------------------------------------------------------------------------
(* The calls and the settings. *)

\* Calls that say nothing of the settings change nothing between them.
LEMMA QuietCalls ==
    ASSUME NEW cs, NEW more, Queue(cs), Queue(more), NEW shown, NEW next, NEW s,
           Agreed(cs, shown, s), next.prefs = shown.prefs,
           \A i \in DOMAIN more : more[i].mine /\ ~Speaks(more[i])
    PROVE  Queue(cs \o more) /\ Agreed(cs \o more, next, s)
<1> DEFINE all == cs \o more
<1>1. /\ Queue(all) /\ DOMAIN all = 1..(Len(cs) + Len(more))
      /\ Len(cs) \in Nat /\ Len(more) \in Nat
      /\ DOMAIN cs = 1..Len(cs) /\ DOMAIN more = 1..Len(more)
      /\ \A i \in 1..(Len(cs) + Len(more)) :
            all[i] = IF i <= Len(cs) THEN cs[i] ELSE more[i - Len(cs)]
  BY Joined
<1> HIDE DEF all
<1>2. \A i \in DOMAIN cs : i \in DOMAIN all /\ all[i] = cs[i]
  BY <1>1
<1>3. \A i \in DOMAIN all : i \notin DOMAIN cs => all[i].mine /\ ~Speaks(all[i])
  <2> TAKE i \in DOMAIN all
  <2> HAVE i \notin DOMAIN cs
  <2>1. i - Len(cs) \in DOMAIN more /\ all[i] = more[i - Len(cs)]
    BY <1>1
  <2> QED
    BY <2>1
<1>4. \A i \in DOMAIN all : Sound(all[i], s)
  BY <1>2, <1>3 DEF Agreed, AllSound, Sound, Speaks
<1>5. \A i, j \in DOMAIN all : Speaks(all[i]) /\ Speaks(all[j]) => i = j
  BY <1>2, <1>3 DEF Agreed, AllSound
<1>6. Silent(all) => Silent(cs)
  BY <1>2 DEF Silent
<1> QED
  BY <1>1, <1>4, <1>5, <1>6 DEF Agreed, AllSound, all

\* One that does, added to others that do not, stands for the settings itself.
LEMMA SpeakingCall ==
    ASSUME NEW cs, Queue(cs), NEW c, c = [f \in Fields |-> c[f]], NEW shown, NEW s,
           \A i \in DOMAIN cs : cs[i].mine /\ ~Speaks(cs[i]),
           Speaks(c), Sound(c, s)
    PROVE  Queue(cs \o <<c>>) /\ Agreed(cs \o <<c>>, shown, s)
<1> DEFINE all == cs \o <<c>>
<1>0. Queue(<<c>>) /\ Len(<<c>>) = 1 /\ <<c>>[1] = c
  BY One
<1>1. /\ Queue(all) /\ Len(cs) \in Nat /\ DOMAIN cs = 1..Len(cs)
      /\ DOMAIN all = 1..(Len(cs) + 1)
      /\ \A i \in 1..(Len(cs) + 1) :
            all[i] = IF i <= Len(cs) THEN cs[i] ELSE <<c>>[i - Len(cs)]
  BY <1>0, Joined
<1>2. \A i \in DOMAIN cs : all[i] = cs[i]
  BY <1>1
<1>3. all[Len(cs) + 1] = c /\ Len(cs) + 1 \in DOMAIN all
  BY <1>0, <1>1
<1> HIDE DEF all
<1>4. \A i \in DOMAIN all : i \in DOMAIN cs \/ i = Len(cs) + 1
  BY <1>1
<1>5. \A i \in DOMAIN all : Sound(all[i], s)
  BY <1>2, <1>3, <1>4 DEF Sound, Speaks
<1>6. \A i, j \in DOMAIN all : Speaks(all[i]) /\ Speaks(all[j]) => i = j
  BY <1>2, <1>3, <1>4
<1>7. ~Silent(all)
  BY <1>3 DEF Silent
<1> QED
  BY <1>1, <1>5, <1>6, <1>7 DEF Agreed, AllSound, all

\* With a call out of the way, what it said is shown, or it said nothing.
LEMMA CallOver ==
    ASSUME NEW cs, Queue(cs), NEW i \in DOMAIN cs, NEW shown, NEW next, NEW s,
           Agreed(cs, shown, s),
           IF Speaks(cs[i]) THEN next.prefs = s ELSE next.prefs = shown.prefs
    PROVE  Queue(RemoveAt(cs, i)) /\ Agreed(RemoveAt(cs, i), next, s)
<1> DEFINE left == RemoveAt(cs, i)
<1>1. Queue(left)
  BY Removed
<1>2. PICK old \in [DOMAIN left -> DOMAIN cs \ {i}] :
        /\ \A j \in DOMAIN left : left[j] = cs[old[j]]
        /\ \A j, k \in DOMAIN left : old[j] = old[k] => j = k
        /\ \A k \in DOMAIN cs \ {i} : \E j \in DOMAIN left : old[j] = k
  BY Removed
<1>3. \A j \in DOMAIN left : old[j] \in DOMAIN cs /\ old[j] # i
  BY <1>2
<1> SUFFICES Agreed(left, next, s)
  BY <1>1
<1> HIDE DEF left
<1>4. AllSound(left, s)
  BY <1>2, <1>3 DEF Agreed, AllSound
<1>5. CASE Speaks(cs[i])
  BY <1>4, <1>5 DEF Agreed
<1>6. CASE ~Speaks(cs[i])
  <2>2. Silent(left) => Silent(cs)
    <3> SUFFICES ASSUME NEW k \in DOMAIN cs, Speaks(cs[k]) PROVE ~Silent(left)
      BY DEF Silent
    <3>0. k \in DOMAIN cs \ {i}
      BY <1>6
    <3>1. PICK j \in DOMAIN left : old[j] = k
      BY <1>2, <3>0
    <3> QED
      BY <1>2, <3>1 DEF Silent
  <2> QED
    BY <1>4, <1>6, <2>2 DEF Agreed
<1> QED
  BY <1>5, <1>6

------------------------------------------------------------------------------
(* The steps. *)

\* What is open stays so while nothing of the slot moves.
LEMMA SlotStill ==
    UNCHANGED <<tab, spec, showHub, failed>> => (open' <=> open) /\ View' = View
BY DEF open, View

\* A request that says nothing of the settings.
LEMMA PostInv ==
    ASSUME Inv, NEW m, NEW arg, Post(m, arg), m \notin {"pref", "mount"},
           cfg'.prefs = cfg.prefs, store' = store, UNCHANGED slotVars, ~tainted' => ~tainted
    PROVE  Inv'
<1> DEFINE c == Call(m, arg, cfg)
<1>1. c = [f \in Fields |-> c[f]] /\ c.mine /\ ~Speaks(c)
  <2>1. c = [f \in Fields |-> c[f]] /\ c.m = m /\ c.mine
    BY DEF Call, Fields
  <2> QED
    BY <2>1 DEF Speaks
<1> HIDE DEF c
<1>2. Queue(<<c>>) /\ \A i \in DOMAIN <<c>> : <<c>>[i].mine /\ ~Speaks(<<c>>[i])
  BY <1>1, One
<1>3. calls' = calls \o <<c>> /\ Queue(calls)
  <2>1. Queue(calls) /\ calls \in Seq(ToSet(calls) \cup {c}) /\ c \in ToSet(calls) \cup {c}
    BY DEF Inv, Queue
  <2> QED
    BY <2>1, AppendIsConcat DEF Post, c
<1>4. Queue(calls')
  BY <1>2, <1>3, Joined
<1>5. ASSUME open', ~tainted' PROVE Agreed(calls', cfg', store')
  <2>1. Agreed(calls, cfg, store)
    BY <1>5, SlotStill DEF Inv, Trusted
  <2> QED
    BY <1>2, <1>3, <2>1, QuietCalls
<1> QED
  BY <1>4, <1>5 DEF Inv, Trusted

\* A step that leaves calls and settings alone.
LEMMA StillInv ==
    ASSUME Inv, UNCHANGED <<calls, store>>, cfg'.prefs = cfg.prefs, UNCHANGED slotVars,
           ~tainted' => ~tainted
    PROVE  Inv'
BY SlotStill DEF Inv, Trusted, Agreed

\* A press of the panel that is not a preference.
LEMMA PressInv ==
    ASSUME Inv,
           \/ DoCheckNow \/ ViewLogs \/ BackToHub \/ Run \/ ApplyRc \/ Refresh \/ PollLogs
           \/ \E w \in Buttons : TapRestart(w)
    PROVE  Inv'
<1>1. UNCHANGED <<store, cfg>> /\ UNCHANGED slotVars
  <2>1. CASE DoCheckNow \/ ViewLogs \/ BackToHub \/ Run
    BY <2>1 DEF DoCheckNow, ViewLogs, BackToHub, Run, Press
  <2>2. CASE ApplyRc
    BY <2>2 DEF ApplyRc, Press
  <2>3. CASE Refresh \/ PollLogs
    BY <2>3 DEF Refresh, PollLogs
  <2>4. CASE \E w \in Buttons : TapRestart(w)
    BY <2>4 DEF TapRestart, Press
  <2> QED
    BY <2>1, <2>2, <2>3, <2>4
<1>0. ~tainted' => ~tainted
  <2>1. CASE DoCheckNow \/ ViewLogs \/ Run
    <3>1. tainted' = (tainted \/ Overlaps)
      BY <2>1, Zenon DEF DoCheckNow, ViewLogs, Run
    <3> QED
      BY <3>1, Zenon
  <2>2. CASE BackToHub \/ ApplyRc \/ Refresh \/ PollLogs \/ \E w \in Buttons : TapRestart(w)
    <3>1. tainted' = tainted
      BY <2>2 DEF BackToHub, ApplyRc, Refresh, PollLogs, TapRestart
    <3> QED
      BY <3>1
  <2> QED
    BY <2>1, <2>2
<1>2. \/ UNCHANGED calls
      \/ \E m \in {"check", "getLogs", "clearLogs", "run", "setRc", "refresh", "poll", "restart"} :
            \E arg : Post(m, arg)
  BY DEF DoCheckNow, ViewLogs, BackToHub, Run, ApplyRc, Refresh, PollLogs, TapRestart,
     ArmRestart, FireRestart
<1> QED
  BY <1>0, <1>1, <1>2, PostInv, StillInv

\* A preference is shown, sent and can be undone: with no other under way, its undo is
\* what the daemon has.
LEMMA ApplyPrefInv ==
    ASSUME Inv, NEW key \in UpdRows, ApplyPref(key)
    PROVE  Inv'
<1> DEFINE arg == <<key, ~cfg.prefs[key]>>
           c == Call("pref", arg, cfg)
<1>1. /\ calls' = Append(calls, c)
      /\ store' = store /\ UNCHANGED slotVars
      /\ tainted' = (tainted \/ Overlaps \/ InFlight({"mount"}) # {})
  BY DEF ApplyPref, Press, Post
<1> HIDE DEF arg
<1>2. /\ c = [f \in Fields |-> c[f]]
      /\ c.m = "pref" /\ c.mine /\ c.undo = cfg /\ c.state = "sent"
  BY DEF Call, Fields
<1> HIDE DEF c
<1>3. calls' = calls \o <<c>> /\ Queue(calls)
  <2>1. Queue(calls) /\ calls \in Seq(ToSet(calls) \cup {c}) /\ c \in ToSet(calls) \cup {c}
    BY DEF Inv, Queue
  <2> QED
    BY <1>1, <2>1, AppendIsConcat
<1>4. Queue(calls')
  BY <1>2, <1>3, One, Joined
<1>5. ASSUME open', ~tainted' PROVE Agreed(calls', cfg', store')
  <2>1. Agreed(calls, cfg, store) /\ InFlight(Holding) = {} /\ InFlight({"mount"}) = {}
    BY <1>1, <1>5, SlotStill DEF Inv, Trusted, Overlaps
  <2>2. \A i \in DOMAIN calls : calls[i].mine /\ ~Speaks(calls[i])
    BY <2>1 DEF Agreed, AllSound, Sound, InFlight, Holding, Speaks
  <2>3. cfg.prefs = store
    BY <2>1, <2>2 DEF Agreed, Silent
  <2>4. Speaks(c) /\ Sound(c, store)
    BY <1>2, <2>3 DEF Speaks, Sound
  <2>5. Agreed(calls \o <<c>>, cfg', store)
    BY <1>2, <1>3, <2>2, <2>4, SpeakingCall
  <2> QED
    BY <1>1, <1>3, <2>5
<1> QED
  BY <1>4, <1>5 DEF Inv, Trusted

------------------------------------------------------------------------------
(* Calls that change in place. *)

\* next has a call for each of cs.
Along(cs, next) == next = [i \in DOMAIN cs |-> next[i]]

\* The call c with its reply.
WithReply(c, st, ans) == [c EXCEPT !.state = st, !.ans = ans]

\* A sequence as long as a queue, of calls, is one.
LEMMA Alike ==
    ASSUME NEW cs, Queue(cs), NEW next, Along(cs, next),
           \A i \in DOMAIN cs : next[i] = [f \in Fields |-> next[i][f]]
    PROVE  Queue(next) /\ DOMAIN next = DOMAIN cs
<1>1. Len(cs) \in Nat /\ DOMAIN cs = 1..Len(cs)
  BY DEF Queue
<1>2. DOMAIN next = 1..Len(cs)
  BY <1>1 DEF Along
<1>3. \A i \in 1..Len(cs) : next[i] \in ToSet(next)
  BY <1>2 DEF ToSet
<1>4. next \in Seq(ToSet(next))
  BY <1>1, <1>2, <1>3 DEF Along
<1> QED
  BY <1>1, <1>2, <1>4 DEF Queue

\* A call with another state and answer is a call, the same in all else.
LEMMA Replied ==
    ASSUME NEW cs, Queue(cs), NEW i \in DOMAIN cs, NEW next, NEW st, NEW ans,
           Along(cs, next), \A j \in DOMAIN cs \ {i} : next[j] = cs[j],
           next[i] = WithReply(cs[i], st, ans)
    PROVE  /\ Queue(next) /\ DOMAIN next = DOMAIN cs
           /\ next[i].m = cs[i].m /\ next[i].undo = cs[i].undo
           /\ next[i].mine = cs[i].mine /\ next[i].state = st /\ next[i].ans = ans
<1>1. \A j \in DOMAIN cs : cs[j] = [f \in Fields |-> cs[j][f]]
  BY DEF Queue
<1>2. \A j \in DOMAIN cs : next[j] = [f \in Fields |-> next[j][f]]
  BY <1>1 DEF Fields, WithReply
<1>3. /\ next[i].m = cs[i].m /\ next[i].undo = cs[i].undo
      /\ next[i].mine = cs[i].mine /\ next[i].state = st /\ next[i].ans = ans
  BY <1>1 DEF Fields, WithReply
<1> QED
  BY <1>2, <1>3, Alike

\* Calls left behind are calls still.
LEMMA Orphans ==
    ASSUME Queue(calls), NEW all
    PROVE  Queue(Orphaned(all)) /\ (calls = <<>> => Orphaned(all) = <<>>)
<1>1. Along(calls, Orphaned(all))
  BY DEF Orphaned, Along
<1>2. \A i \in DOMAIN calls : Orphaned(all)[i] = [f \in Fields |-> Orphaned(all)[i][f]]
  BY DEF Orphaned, Queue, Fields
<1>3. calls = <<>> => Orphaned(all) = <<>>
  BY DEF Orphaned
<1> QED
  BY <1>1, <1>2, <1>3, Alike

\* A request served: the settings it stores are those its reply carries.
LEMMA ServeInv ==
    ASSUME Inv, NEW i \in DOMAIN calls, Serve(i)
    PROVE  Inv'
<1>1. UNCHANGED slotVars /\ cfg' = cfg
  BY DEF Serve
<1>2. CASE Served(calls[i]) /\ calls' = [calls EXCEPT ![i].state = "ok", ![i].ans = Answer(calls[i])]
           /\ UNCHANGED tainted
  <2>0. PICK ans : ans = Answer(calls[i])
    OBVIOUS
  <2>1. /\ Queue(calls) /\ Queue(calls') /\ DOMAIN calls' = DOMAIN calls
        /\ \A j \in DOMAIN calls \ {i} : calls'[j] = calls[j]
        /\ calls'[i].m = calls[i].m /\ calls'[i].undo = calls[i].undo
        /\ calls'[i].mine = calls[i].mine /\ calls'[i].state = "ok"
        /\ calls'[i].ans = ans
    <3>0. calls' = [calls EXCEPT ![i].state = "ok", ![i].ans = ans]
      BY <1>2, <2>0
    <3>1. Queue(calls)
      BY DEF Inv
    <3>2. /\ Along(calls, calls')
          /\ \A j \in DOMAIN calls \ {i} : calls'[j] = calls[j]
          /\ calls'[i] = WithReply(calls[i], "ok", ans)
      BY <3>0 DEF Along, WithReply
    <3>3. Queue(calls') /\ DOMAIN calls' = DOMAIN calls
      BY <3>1, <3>2, Replied
    <3>4. /\ calls'[i].m = calls[i].m /\ calls'[i].undo = calls[i].undo
          /\ calls'[i].mine = calls[i].mine /\ calls'[i].state = "ok"
          /\ calls'[i].ans = ans
      BY <3>1, <3>2, Replied
    <3> QED
      BY <3>1, <3>2, <3>3, <3>4
  <2>2. /\ calls[i].m = "pref" => ans = store'
        /\ calls[i].m # "pref" => store' = store
        /\ calls[i].m = "mount" => ans.prefs = store'
    BY <1>2, <2>0 DEF Served, Answer, Shown
  <2>3. ASSUME open', ~tainted' PROVE Agreed(calls', cfg', store')
    <3>1. Agreed(calls, cfg, store)
      BY <1>1, <1>2, <2>3, SlotStill DEF Inv, Trusted
    <3>2. \A j \in DOMAIN calls : Speaks(calls'[j]) <=> Speaks(calls[j])
      BY <2>1 DEF Speaks
    <3>3. \A j \in DOMAIN calls : Sound(calls'[j], store')
      <4>1. ASSUME NEW j \in DOMAIN calls, j # i PROVE Sound(calls'[j], store')
        BY <2>1, <2>2, <3>1, <4>1 DEF Agreed, AllSound, Sound, Speaks
      <4>2. Sound(calls'[i], store')
        BY <2>1, <2>2, <3>1 DEF Agreed, AllSound, Sound
      <4> QED
        BY <4>1, <4>2
    <3>4. Silent(calls') => Silent(calls) /\ store' = store
      BY <2>1, <2>2, <3>2 DEF Silent, Speaks
    <3> QED
      BY <1>1, <2>1, <3>1, <3>2, <3>3, <3>4 DEF Agreed, AllSound
  <2> QED
    BY <2>1, <2>3 DEF Inv, Trusted
<1>3. CASE calls' = [calls EXCEPT ![i].state = "refused"] /\ tainted' = TRUE
  <2>1. Queue(calls')
    <3> DEFINE ans == calls[i].ans
    <3> HIDE DEF ans
    <3>1. /\ Queue(calls)
          /\ Along(calls, calls')
          /\ \A j \in DOMAIN calls \ {i} : calls'[j] = calls[j]
          /\ calls'[i] = [calls[i] EXCEPT !.state = "refused"]
      BY <1>3 DEF Inv, Along
    <3>2. calls'[i] = WithReply(calls[i], "refused", ans)
      BY <3>1 DEF Queue, Fields, WithReply, ans
    <3> QED
      BY <3>1, <3>2, Replied
  <2> QED
    BY <1>3, <2>1 DEF Inv, Trusted
<1> QED
  BY <1>2, <1>3 DEF Serve

\* A request that hangs says nothing of the settings.
LEMMA HangInv ==
    ASSUME Inv, NEW i \in DOMAIN calls, Hang(i)
    PROVE  Inv'
<1> DEFINE ans == calls[i].ans
<1> HIDE DEF ans
<1>1. /\ calls' = [calls EXCEPT ![i].state = "hung"]
      /\ calls[i].m \in Endless
      /\ UNCHANGED <<store, cfg, tainted>> /\ UNCHANGED slotVars
  BY DEF Hang
<1>2. /\ Queue(calls)
      /\ Along(calls, calls')
      /\ \A j \in DOMAIN calls \ {i} : calls'[j] = calls[j]
      /\ calls'[i] = [calls[i] EXCEPT !.state = "hung"]
  BY <1>1 DEF Inv, Along
<1>3. calls'[i] = WithReply(calls[i], "hung", ans)
  BY <1>2 DEF Queue, Fields, WithReply, ans
<1>4. /\ Queue(calls') /\ DOMAIN calls' = DOMAIN calls
      /\ calls'[i].m = calls[i].m /\ calls'[i].mine = calls[i].mine
  BY <1>2, <1>3, Replied
<1>5. ASSUME open', ~tainted' PROVE Agreed(calls', cfg', store')
  <2>1. Agreed(calls, cfg, store)
    BY <1>1, <1>5, SlotStill DEF Inv, Trusted
  <2>2. calls[i].m \notin {"pref", "mount"}
    BY <1>1 DEF Endless
  <2>3. \A j \in DOMAIN calls : Speaks(calls'[j]) <=> Speaks(calls[j])
    BY <1>2, <1>4 DEF Speaks
  <2>4. ASSUME NEW j \in DOMAIN calls PROVE Sound(calls'[j], store)
    <3>1. Sound(calls[j], store)
      BY <2>1 DEF Agreed, AllSound
    <3>2. CASE j = i
      BY <1>4, <2>2, <3>1, <3>2 DEF Sound
    <3>3. CASE j # i
      BY <1>2, <3>1, <3>3
    <3> QED
      BY <3>2, <3>3
  <2>5. Silent(calls') => Silent(calls)
    BY <1>4, <2>3 DEF Silent
  <2> QED
    BY <1>1, <1>4, <2>1, <2>3, <2>4, <2>5 DEF Agreed, AllSound
<1> QED
  BY <1>4, <1>5 DEF Inv, Trusted

\* Settings saved by an update check are those on record, or no longer trusted.
LEMMA UpdaterSavesInv ==
    ASSUME Inv, UpdaterSaves
    PROVE  Inv'
<1>1. /\ UNCHANGED <<calls, cfg>> /\ UNCHANGED slotVars
      /\ \/ \E s : store' = s /\ tainted' = (tainted \/ store # s)
         \/ UNCHANGED <<store, tainted>>
  BY DEF UpdaterSaves
<1>2. ASSUME ~tainted' PROVE store' = store /\ ~tainted
  <2>1. CASE UNCHANGED <<store, tainted>>
    BY <1>2, <2>1
  <2>2. ASSUME NEW s, store' = s, tainted' = (tainted \/ store # s)
        PROVE  store' = store /\ ~tainted
    <3>1. ~tainted /\ store = s
      BY <1>2, <2>2, Zenon
    <3> QED
      BY <2>2, <3>1
  <2> QED
    BY <1>1, <2>1, <2>2
<1> QED
  BY <1>1, <1>2, SlotStill DEF Inv, Trusted, Agreed

\* A reply that came, or the loss of the call.
LEMMA SettleInv ==
    ASSUME Inv, NEW i \in DOMAIN calls, Deliver(i) \/ (Lose /\ Settle(i, FALSE)
               /\ tainted' = (tainted \/ calls[i].state # "sent" \/ calls[i].m = "mount"))
    PROVE  Inv'
<1>1. /\ calls' = RemoveAt(calls, i) /\ store' = store
      /\ UNCHANGED <<tab, spec, showHub, failed>>
  BY DEF Deliver, Lose, Settle
<1>2. Queue(calls) /\ Queue(calls')
  BY <1>1, Removed DEF Inv
<1>3. ASSUME open', ~tainted' PROVE Agreed(calls', cfg', store')
  <2>1. ~tainted
    <3>1. \/ tainted' = tainted
          \/ tainted' = (tainted \/ calls[i].state # "sent" \/ calls[i].m = "mount")
      BY DEF Deliver
    <3> QED
      BY <1>3, <3>1, Zenon
  <2>2. Agreed(calls, cfg, store)
    BY <1>1, <1>3, <2>1, SlotStill DEF Inv, Trusted
  <2>3. Sound(calls[i], store) /\ calls[i].mine
    BY <2>2 DEF Agreed, AllSound, Sound
  <2>4. IF Speaks(calls[i]) THEN cfg'.prefs = store ELSE cfg'.prefs = cfg.prefs
    <3>1. CASE Deliver(i)
      <4>1. Taken(calls[i]) /\ calls[i].state # "sent"
        BY <2>3, <3>1 DEF Deliver, Settle
      <4> QED
        BY <2>3, <4>1 DEF Taken, Sound, Speaks, Echoed, StatusOf, Shown
    <3>2. CASE /\ Settle(i, FALSE)
               /\ tainted' = (tainted \/ calls[i].state # "sent" \/ calls[i].m = "mount")
      <4>1. Failed(calls[i])
        BY <2>3, <3>2 DEF Settle
      <4>2. calls[i].state = "sent" /\ calls[i].m # "mount"
        BY <1>3, <3>2, Zenon
      <4> QED
        BY <2>3, <4>1, <4>2 DEF Failed, Sound, Speaks
    <3> QED
      BY <3>1, <3>2
  <2> QED
    BY <1>1, <1>2, <2>2, <2>4, CallOver
<1> QED
  BY <1>2, <1>3 DEF Inv, Trusted

------------------------------------------------------------------------------
(* The slot and the document. *)

\* Calls of the panel that say nothing of the settings.
Hush(more) == Queue(more) /\ \A i \in DOMAIN more : more[i].mine /\ ~Speaks(more[i])

\* None, one, or some after others.
LEMMA HushOne ==
    ASSUME NEW m, m \notin {"pref", "mount"}, NEW arg, NEW undo
    PROVE  Hush(<< Call(m, arg, undo) >>)
<1> DEFINE c == Call(m, arg, undo)
<1>1. c = [f \in Fields |-> c[f]] /\ c.mine /\ c.m = m
  BY DEF Call, Fields
<1> HIDE DEF c
<1>2. Hush(<<c>>)
  BY <1>1, One DEF Hush, Speaks
<1> QED
  BY <1>2 DEF c

LEMMA HushNone == Hush(<<>>)
BY None DEF Hush

LEMMA HushBoth ==
    ASSUME NEW cs, NEW more, Hush(cs), Hush(more)
    PROVE  Hush(cs \o more)
<1> DEFINE all == cs \o more
<1>1. /\ Queue(all) /\ DOMAIN all = 1..(Len(cs) + Len(more))
      /\ Len(cs) \in Nat /\ Len(more) \in Nat
      /\ DOMAIN cs = 1..Len(cs) /\ DOMAIN more = 1..Len(more)
      /\ \A i \in 1..(Len(cs) + Len(more)) :
            all[i] = IF i <= Len(cs) THEN cs[i] ELSE more[i - Len(cs)]
  BY Joined DEF Hush
<1> HIDE DEF all
<1>2. ASSUME NEW i \in DOMAIN all PROVE all[i].mine /\ ~Speaks(all[i])
  <2>1. CASE i <= Len(cs)
    BY <1>1, <2>1 DEF Hush
  <2>2. CASE i > Len(cs)
    <3>1. i - Len(cs) \in DOMAIN more /\ all[i] = more[i - Len(cs)]
      BY <1>1, <2>2
    <3> QED
      BY <3>1 DEF Hush
  <2> QED
    BY <1>1, <2>1, <2>2
<1>3. Hush(all)
  BY <1>1, <1>2 DEF Hush
<1> QED
  BY <1>3 DEF all

\* What the slot asks as it mounts or is shown again.
LEMMA HushDot == Hush(DotCall)
<1>1. CASE "dot" \in use
  <2>1. Hush(<< Call("dot", <<>>, NotYet) >>)
    BY HushOne
  <2> QED
    BY <1>1, <2>1 DEF DotCall
<1>2. CASE "dot" \notin use
  BY <1>2, HushNone DEF DotCall
<1> QED
  BY <1>1, <1>2

\* Showing the document again adds requests for the status alone.
LEMMA VisibilityInv ==
    ASSUME Inv, Visibility
    PROVE  Inv'
<1> DEFINE dots == IF tab THEN DotCall ELSE <<>>
           asks == IF open THEN << Call("refresh", <<>>, cfg) >> ELSE <<>>
<1>1. UNCHANGED <<store, cfg, tainted>> /\ UNCHANGED slotVars
  BY DEF Visibility
<1>2. CASE calls' = calls \o dots \o asks
  <2>1. Hush(dots)
    BY HushDot, HushNone
  <2>2. Hush(asks)
    <3>1. Hush(<< Call("refresh", <<>>, cfg) >>)
      BY HushOne
    <3> QED
      BY <3>1, HushNone
  <2> HIDE DEF dots, asks
  <2>3. Queue(calls \o dots) /\ Queue(calls')
    BY <1>2, <2>1, <2>2, Joined DEF Inv, Hush
  <2>4. ASSUME open', ~tainted' PROVE Agreed(calls', cfg', store')
    <3>1. Agreed(calls, cfg, store) /\ Queue(calls)
      BY <1>1, <2>4, SlotStill DEF Inv, Trusted
    <3>2. Agreed(calls \o dots, cfg, store)
      BY <2>1, <3>1, QuietCalls DEF Hush
    <3> QED
      BY <1>1, <1>2, <2>2, <2>3, <3>2, QuietCalls DEF Hush
  <2> QED
    BY <2>3, <2>4 DEF Inv, Trusted
<1>3. CASE UNCHANGED calls
  <2>1. ~tainted' => ~tainted
    BY <1>1
  <2> QED
    BY <1>1, <1>3, <2>1, StillInv
<1> QED
  BY <1>2, <1>3 DEF Visibility

\* A panel that mounts where no call is under way asks for the settings.
LEMMA FirstInv ==
    ASSUME NEW more, Hush(more), NEW shown, NEW s
    PROVE  Queue(more \o FirstCalls) /\ Agreed(more \o FirstCalls, shown, s)
<1> DEFINE a == Call("getRuntimeConfig", <<>>, NotYet)
           b == Call("mount", <<>>, NotYet)
<1>1. b = [f \in Fields |-> b[f]] /\ b.mine /\ b.m = "mount" /\ b.state = "sent"
  BY DEF Call, Fields
<1>2. Hush(<<a>>)
  BY HushOne
<1>3. FirstCalls = <<a, b>>
  BY DEF FirstCalls
<1> HIDE DEF a, b
<1>4. Hush(more \o <<a>>) /\ Queue(<<b>>)
  BY <1>1, <1>2, HushBoth, One
<1>5. more \o FirstCalls = (more \o <<a>>) \o <<b>>
  <2> DEFINE S == ToSet(more) \cup {a, b}
  <2>1. more \in Seq(S)
    BY DEF Hush, Queue
  <2>2. a \in S /\ b \in S
    OBVIOUS
  <2> HIDE DEF S
  <2>3. <<a>> \in Seq(S) /\ <<b>> \in Seq(S)
    BY <2>2
  <2>4. (more \o <<a>>) \o <<b>> = more \o (<<a>> \o <<b>>)
    BY <2>1, <2>3, ConcatAssociative
  <2>5. <<a>> \o <<b>> = <<a, b>>
    <3>1. Len(<<a>>) = 1 /\ Len(<<b>>) = 1 /\ <<a>>[1] = a /\ <<b>>[1] = b
      OBVIOUS
    <3>2. /\ <<a>> \o <<b>> \in Seq(S) /\ Len(<<a>> \o <<b>>) = Len(<<a>>) + Len(<<b>>)
          /\ \A i \in 1..(Len(<<a>>) + Len(<<b>>)) :
                (<<a>> \o <<b>>)[i] = IF i <= Len(<<a>>) THEN <<a>>[i] ELSE <<b>>[i - Len(<<a>>)]
      BY <2>3, ConcatProperties, Zenon
    <3>3. Len(<<a>> \o <<b>>) = 2 /\ (<<a>> \o <<b>>)[1] = a /\ (<<a>> \o <<b>>)[2] = b
      BY <3>1, <3>2
    <3>4. <<a, b>> \in Seq(S) /\ Len(<<a, b>>) = 2 /\ <<a, b>>[1] = a /\ <<a, b>>[2] = b
      BY <2>2
    <3>5. \A i \in 1..2 : (<<a>> \o <<b>>)[i] = <<a, b>>[i]
      BY <3>3, <3>4
    <3> QED
      BY <3>1, <3>2, <3>3, <3>4, <3>5, SeqEqual
  <2> QED
    BY <1>3, <2>4, <2>5
<1>6. Speaks(b) /\ Sound(b, s)
  BY <1>1 DEF Speaks, Sound
<1>7. Queue(more \o <<a>>) /\ \A i \in DOMAIN (more \o <<a>>) :
            (more \o <<a>>)[i].mine /\ ~Speaks((more \o <<a>>)[i])
  BY <1>4 DEF Hush
<1> QED
  BY <1>1, <1>5, <1>6, <1>7, SpeakingCall

\* The panel follows the slot.
LEMMA FollowsInv ==
    ASSUME Inv, NEW more, Hush(more), PanelFollows(more), store' = store
    PROVE  Inv'
<1>1. CASE open' /\ View' # View
  <2>1. calls' = (Orphaned(FALSE) \o more) \o FirstCalls /\ tainted' = (tainted \/ calls # <<>>)
    BY <1>1 DEF PanelFollows
  <2>2. Queue(Orphaned(FALSE)) /\ (calls = <<>> => Orphaned(FALSE) = <<>>)
    BY Orphans DEF Inv
  <2>3. Queue(calls')
    <3>1. Queue(Orphaned(FALSE) \o more)
      BY <2>2, Joined DEF Hush
    <3>2. Queue(<<>> \o FirstCalls) /\ <<>> \o FirstCalls = FirstCalls
      <4>1. Queue(<<>> \o FirstCalls)
        BY HushNone, FirstInv
      <4>2. <<>> \o FirstCalls = FirstCalls
        BY DEF FirstCalls
      <4> QED
        BY <4>1, <4>2
    <3> QED
      BY <2>1, <3>1, <3>2, Joined
  <2>4. ASSUME ~tainted' PROVE Agreed(calls', cfg', store')
    <3>1. calls = <<>>
      BY <2>1, <2>4, Zenon
    <3>2. calls' = more \o FirstCalls
      BY <2>1, <2>2, <3>1, None DEF Hush
    <3> QED
      BY <3>2, FirstInv
  <2> QED
    BY <2>3, <2>4 DEF Inv, Trusted
<1>2. CASE ~(open' /\ View' # View)
  <2>1. /\ \/ open' = open /\ calls' = calls \o more /\ cfg' = cfg
           \/ open' # open /\ calls' = Orphaned(~tab') \o more
        /\ tainted' = tainted
    BY <1>2 DEF PanelFollows
  <2>2. Queue(calls')
    BY <2>1, Orphans, Joined DEF Inv, Hush
  <2>3. ASSUME open', ~tainted' PROVE Agreed(calls', cfg', store')
    <3>1. View' = View
      BY <1>2, <2>3
    <3>2. open /\ open' = open
      BY <2>3, <3>1 DEF open
    <3>3. Agreed(calls, cfg, store) /\ Queue(calls)
      BY <2>1, <2>3, <3>2 DEF Inv, Trusted
    <3> QED
      BY <2>1, <3>2, <3>3, QuietCalls DEF Hush
  <2> QED
    BY <2>2, <2>3 DEF Inv, Trusted
<1> QED
  BY <1>1, <1>2

\* The slot mounts, unmounts and shows another view.
LEMMA SlotInv ==
    ASSUME Inv, Slot
    PROVE  Inv'
<1>1. store' = store
  BY DEF Slot
<1>2. PanelFollows(DotCall) \/ PanelFollows(<<>>)
  BY DEF Slot
<1> QED
  BY <1>1, <1>2, HushDot, HushNone, FollowsInv

\* The other steps say nothing of the settings and move no panel, or close it.
LEMMA RestInv ==
    ASSUME Inv,
           \/ Disarm \/ LogWarn \/ LogFlushes \/ Pushed \/ SteamRestarts
           \/ UpdaterLoads \/ Updater \/ DaemonRestarts \/ UNCHANGED vars
    PROVE  Inv'
<1>1. CASE SteamRestarts
  <2>1. calls' = <<>> /\ tab' = FALSE
    BY <1>1 DEF SteamRestarts
  <2>2. ~open'
    BY <2>1 DEF open, View
  <2>3. Queue(calls')
    BY <2>1, None
  <2> QED
    BY <2>2, <2>3 DEF Inv, Trusted
<1>2. CASE \/ Disarm \/ LogWarn \/ LogFlushes \/ Pushed
           \/ UpdaterLoads \/ Updater \/ DaemonRestarts \/ UNCHANGED vars
  <2>1. UNCHANGED <<calls, store, cfg, tainted>> /\ UNCHANGED slotVars
    <3>1. CASE Disarm \/ LogWarn \/ LogFlushes
      BY <3>1 DEF Disarm, LogWarn, LogFlushes
    <3>2. CASE Pushed \/ UpdaterLoads \/ Updater \/ DaemonRestarts
      BY <3>2 DEF Pushed, UpdaterLoads, Updater, DaemonRestarts
    <3>3. CASE UNCHANGED vars
      BY <3>3 DEF vars
    <3> QED
      BY <1>2, <3>1, <3>2, <3>3
  <2>2. ~tainted' => ~tainted
    BY <2>1
  <2> QED
    BY <2>1, <2>2, StillInv
<1> QED
  BY <1>1, <1>2

\* No step breaks the invariant.
LEMMA NextInv == Inv /\ [Next]_vars => Inv'
<1> SUFFICES ASSUME Inv, [Next]_vars PROVE Inv'
  OBVIOUS
<1>1. CASE \E k \in UpdRows : ApplyPref(k)
  BY <1>1, ApplyPrefInv
<1>2. CASE \E i \in DOMAIN calls : Serve(i) \/ Hang(i) \/ Deliver(i)
  <2>1. ASSUME NEW i \in DOMAIN calls, Serve(i) \/ Hang(i) PROVE Inv'
    BY <2>1, ServeInv, HangInv
  <2>2. ASSUME NEW i \in DOMAIN calls, Deliver(i) PROVE Inv'
    BY <2>2, SettleInv
  <2> QED
    BY <1>2, <2>1, <2>2
<1>3. CASE Lose
  <2>1. PICK i \in DOMAIN calls :
            /\ Settle(i, FALSE)
            /\ tainted' = (tainted \/ calls[i].state # "sent" \/ calls[i].m = "mount")
    BY <1>3, Zenon DEF Lose
  <2> QED
    BY <1>3, <2>1, SettleInv
<1>4. CASE \/ DoCheckNow \/ ViewLogs \/ BackToHub \/ Run \/ ApplyRc \/ Refresh \/ PollLogs
           \/ \E w \in Buttons : TapRestart(w)
  BY <1>4, PressInv
<1>5. CASE Slot \/ Visibility
  BY <1>5, SlotInv, VisibilityInv
<1>6. CASE \/ Disarm \/ LogWarn \/ LogFlushes \/ Pushed \/ SteamRestarts
           \/ UpdaterLoads \/ Updater \/ DaemonRestarts \/ UNCHANGED vars
  BY <1>6, RestInv
<1>7. CASE UpdaterSaves
  BY <1>7, UpdaterSavesInv
<1> QED
  BY <1>1, <1>2, <1>3, <1>4, <1>5, <1>6, <1>7, Zenon DEF Next

\* Nothing is asked before the panel is there.
LEMMA InitInv == Init => Inv
<1> SUFFICES ASSUME Init PROVE Inv
  OBVIOUS
<1>1. calls = <<>> /\ tab = FALSE
  BY DEF Init
<1>2. Queue(calls)
  BY <1>1, None
<1>3. ~open
  BY <1>1 DEF open, View
<1> QED
  BY <1>2, <1>3 DEF Inv, Trusted

\* With nothing that speaks of the settings under way the panel shows them.
LEMMA InvMeans == Inv => PrefsReconcile
<1> SUFFICES ASSUME Inv, open, ~tainted, InFlight({"pref", "mount"}) = {}
             PROVE  cfg.prefs = store
  BY Zenon DEF PrefsReconcile
<1>1. Agreed(calls, cfg, store)
  BY DEF Inv, Trusted
<1>2. Silent(calls)
  BY <1>1 DEF Agreed, AllSound, Sound, Silent, Speaks, InFlight
<1> QED
  BY <1>1, <1>2 DEF Agreed

\* With no preference under way, an open panel shows what the daemon has stored, as long
\* as calls did not overlap, none was refused, no reply to a change was lost and no
\* update check saved back settings older than a change:
\* whatever is pressed, however many calls are in flight, in whatever order they are
\* served and answered, and wherever the panel mounts (applyPref, loadConfig).
THEOREM PanelReconciles == Spec => []PrefsReconcile
<1>1. Init => Inv
  BY InitInv
<1>2. Inv /\ [Next]_vars => Inv'
  BY NextInv
<1>3. Inv => PrefsReconcile
  BY InvMeans
<1> QED
  BY <1>1, <1>2, <1>3, PTL DEF Spec
==============================================================================
