------------------------------ MODULE RuntimeLog ------------------------------
(***************************************************************************)
(* Log entries of the runtime on their way to the daemon: warnings and     *)
(* errors (and the rest, when verbose) wait in a bounded queue, a timer    *)
(* sends what is there as one pushLogs, and the daemon adds it to its      *)
(* bounded ring, a line of its own after it as after every request.  The   *)
(* log viewer reads the newest lines of the ring.  Nothing is sent twice,  *)
(* so what is lost is lost.                                                *)
(***************************************************************************)
EXTENDS Naturals, Sequences, FiniteSets, SequencesExt

CONSTANTS
    QueueCap,   \* entries the queue keeps (200 in the code)
    RingCap,    \* lines the ring keeps (300)
    Window,     \* newest lines the viewer asks for (200)
    MaxEntries  \* bound: entries logged

ASSUME LogAssumption == {QueueCap, RingCap, Window} \subseteq Nat \ {0} /\ MaxEntries \in Nat

VARIABLES
    logged,     \* entries so far: 1..logged
    logQueue,   \* _logQueue
    flush,      \* _logFlushTimer is set
    pushing,    \* batches of entries in flight
    ring,       \* the daemon's LOG_RING from its oldest entry on: entries, and Own for
                \* each line of the daemon's own
    gone        \* (history) entries dropped, lost, refused, cleared, or pushed out of
                \* the viewer's window by later lines before it read them

logVars == <<logged, logQueue, flush, pushing, ring, gone>>

LogFresh == /\ logged = 0 /\ logQueue = <<>> /\ flush = FALSE
            /\ pushing = {} /\ ring = <<>> /\ gone = {}

\* hlog() and _logForward(): the oldest makes room, the timer is set once.
Hlog ==
    /\ logged < MaxEntries
    /\ logged' = logged + 1
    /\ LET q == Append(logQueue, logged + 1)
       IN IF Len(q) > QueueCap THEN logQueue' = Tail(q) /\ gone' = gone \cup {Head(q)}
                               ELSE logQueue' = q /\ UNCHANGED gone
    /\ flush' = TRUE
    /\ UNCHANGED <<pushing, ring>>

\* _logFlushNow(): whatever has gathered goes out in one call.
LogFlushNow ==
    /\ flush
    /\ flush' = FALSE
    /\ logQueue' = <<>>
    /\ pushing' = IF logQueue = <<>> THEN pushing ELSE pushing \cup {logQueue}
    /\ UNCHANGED <<logged, ring, gone>>

\* What the daemon logs itself.
Own == 0

\* The newest n lines; the entries the viewer's getLogs finds (recent_logs).
Newest(lines, n) == SubSeq(lines, IF Len(lines) > n THEN Len(lines) - n + 1 ELSE 1, Len(lines))
Entries(lines) == ToSet(lines) \ {Own}
Visible == Entries(Newest(ring, Window))

\* Lines older than any entry push none out and are left out.
FromEntry(lines) == SubSeq(lines, SelectInSeq(lines, LAMBDA l : l # Own), Len(lines))

\* push_log, line by line: the oldest makes room.  `read` are the entries the viewer
\* has, or has on the way to it.
RingGets(lines, read) ==
    /\ ring' = LET kept == Newest(ring \o lines, RingCap)
               IN IF Entries(kept) = {} THEN <<>> ELSE FromEntry(kept)
    /\ gone' = gone \cup ((Visible \cup Entries(lines)) \ (Visible' \cup read))

\* clearLogs, or a daemon that starts with an empty ring.
RingCleared ==
    /\ ring' = <<>>
    /\ gone' = gone \cup Entries(ring)

\* pushLogs reaches the daemon, which takes it and logs the request, or (with a
\* token it does not know, or on the way) it is lost: nobody looks at its reply.
PushLogs(known, read) ==
    \E p \in pushing :
        /\ pushing' = pushing \ {p}
        /\ IF known THEN RingGets(Append(p, Own), read)
                    ELSE gone' = gone \cup ToSet(p) /\ UNCHANGED ring
        /\ UNCHANGED <<logged, logQueue, flush>>

\* The page goes, and what it had not sent.
LogPageGone == /\ logQueue' = <<>> /\ flush' = FALSE
               /\ gone' = gone \cup ToSet(logQueue)
               /\ UNCHANGED <<logged, pushing, ring>>
===============================================================================
