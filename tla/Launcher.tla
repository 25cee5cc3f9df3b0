------------------------------ MODULE Launcher ------------------------------
(***************************************************************************)
(* The launcher of a program (feed_launcher.py, ProcControl): a cothread   *)
(* that takes commands from a queue, starts, interrupts and kills a child  *)
(* process, and reports its status in a record.  It yields at each caput;  *)
(* commands, and the end of the child, may come at any point of it.        *)
(*                                                                         *)
(* Monitors are delivered one by one and in order (cothread).  Children    *)
(* are numbered.                                                           *)
(***************************************************************************)
EXTENDS Integers, Sequences, FiniteSets

CONSTANTS
    MaxCommands,     \* bound: commands that operators give
    MaxChildren,     \* bound: children started
    MaxLosses        \* bound: losses of the connection to a command record

ASSUME LauncherAssumption == {MaxCommands, MaxChildren, MaxLosses} \subseteq Nat

Commands == {"START", "STOP", "ABORT"}

VARIABLES
    linked,          \* is the channel of a command record connected?
    connected,       \* Delta::connected of each command
    events,          \* the queue of the loop
    loop,            \* where the loop is
    event,           \* the one being handled
    status,          \* current_status
    STS,             \* the status record: 0 crash, 1 complete, 2 running
    child,           \* the last child started, 0 for None
    alive, killed,   \* children running, and those sent SIGKILL
    exit,            \* exit status of the last child that ended
    sigchld,         \* a SIGCHLD has not been passed to poke_all
    closing,
    given,           \* commands that the channel delivered (history)
    signalled,       \* commands put into the queue (history)
    losses,
    aborted          \* children running when ABORT was queued (history)

channelVars == <<linked, connected, given, signalled, losses>>
childVars == <<child, alive, killed, exit>>
launcherVars == <<channelVars, events, loop, event, status, STS, childVars, sigchld, closing, aborted>>

Total(f) == f["START"] + f["STOP"] + f["ABORT"]

----------------------------------------------------------------------------
\* An update of a command record, or its loss: Delta::__call__.
Delta_KeepsConnected(c, ok) ==
    /\ connected' = [connected EXCEPT ![c] = connected[c] \/ ok]
    /\ IF ok /\ connected[c]
       THEN /\ events' = Append(events, c)
            /\ signalled' = [signalled EXCEPT ![c] = @ + 1]
            /\ aborted' = IF c = "ABORT" THEN aborted \cup alive ELSE aborted
       ELSE UNCHANGED <<events, signalled, aborted>>

Delta(c, ok) ==
    /\ connected' = [connected EXCEPT ![c] = ok]
    /\ IF ok /\ connected[c]
       THEN /\ events' = Append(events, c)
            /\ signalled' = [signalled EXCEPT ![c] = @ + 1]
            /\ aborted' = IF c = "ABORT" THEN aborted \cup alive ELSE aborted
       ELSE UNCHANGED <<events, signalled, aborted>>

\* An operator gives a command.
Give(c) ==
    /\ linked[c] /\ Total(given) < MaxCommands
    /\ given' = [given EXCEPT ![c] = @ + 1]
    /\ Delta(c, TRUE)
    /\ UNCHANGED <<linked, losses, loop, event, status, STS, childVars, sigchld, closing>>

Unlink(c) ==
    /\ linked[c] /\ losses < MaxLosses
    /\ losses' = losses + 1
    /\ linked' = [linked EXCEPT ![c] = FALSE]
    /\ Delta(c, FALSE)
    /\ UNCHANGED <<given, loop, event, status, STS, childVars, sigchld, closing>>

\* The channel connects (again), which delivers the present value first.
Link(c) ==
    /\ ~linked[c]
    /\ linked' = [linked EXCEPT ![c] = TRUE]
    /\ Delta(c, TRUE)
    /\ UNCHANGED <<given, losses, loop, event, status, STS, childVars, sigchld, closing>>

\* close(): the program ends.
Close ==
    /\ ~closing
    /\ closing' = TRUE
    /\ events' = events \o <<"ABORT", "JOIN">>
    /\ aborted' = aborted \cup alive
    /\ UNCHANGED <<channelVars, loop, event, status, STS, childVars, sigchld>>

----------------------------------------------------------------------------
\* What check_status finds: poll() of the child.
Polled ==
    IF child = 0 THEN 0
    ELSE IF child \in alive THEN 2
    ELSE IF exit = 0 THEN 1 ELSE 0

At(from, to) == loop = from /\ loop' = to

\* The loop wakes up, and check_status starts to write the status.
Wakeup ==
    /\ events # <<>>
    /\ At("wait", "check")
    /\ event' = Head(events)
    /\ events' = Tail(events)
    /\ status' = Polled
    /\ UNCHANGED <<channelVars, STS, childVars, sigchld, closing, aborted>>

Checked ==
    /\ loop = "check"
    /\ STS' = status
    /\ loop' = IF event = "JOIN" THEN "joined"
               ELSE IF event = "SIGCHLD" THEN "wait" ELSE "handle"
    /\ UNCHANGED <<channelVars, events, event, status, childVars, sigchld, closing, aborted>>

HandleStart ==
    /\ event = "START" /\ status # 2 /\ child < MaxChildren
    /\ At("handle", "running")
    /\ child' = child + 1
    /\ alive' = alive \cup {child + 1}
    /\ UNCHANGED <<channelVars, events, event, status, STS, killed, exit, sigchld, closing, aborted>>

\* The second half of handle_start: the status, then the time of the start.
Started ==
    /\ \/ At("running", "stamp") /\ STS' = 2
       \/ At("stamp", "wait") /\ UNCHANGED STS
    /\ UNCHANGED <<channelVars, events, event, status, childVars, sigchld, closing, aborted>>

\* SIGINT, which the child may heed or not.
HandleStop ==
    /\ event = "STOP" /\ status = 2
    /\ At("handle", "wait")
    /\ UNCHANGED <<channelVars, events, event, status, STS, childVars, sigchld, closing, aborted>>

HandleAbort_Interrupts ==
    /\ event = "ABORT" /\ status = 2
    /\ At("handle", "wait")
    /\ UNCHANGED <<channelVars, events, event, status, STS, childVars, sigchld, closing, aborted>>

HandleAbort ==
    /\ event = "ABORT" /\ status = 2
    /\ At("handle", "wait")
    /\ killed' = killed \cup ({child} \cap alive)
    /\ UNCHANGED <<channelVars, events, event, status, STS, child, alive, exit, sigchld, closing,
                   aborted>>

\* The command does not apply: the child runs already, or no more (and the bound).
HandleNothing ==
    /\ \/ event = "START" /\ (status = 2 \/ child = MaxChildren)
       \/ event \in {"STOP", "ABORT"} /\ status # 2
    /\ At("handle", "wait")
    /\ UNCHANGED <<channelVars, events, event, status, STS, childVars, sigchld, closing, aborted>>

\* Popen, or a caput, raises: the loop ends.
Raise ==
    /\ \/ loop \in {"check", "running", "stamp"}
       \/ loop = "handle" /\ event = "START" /\ status # 2
    /\ loop' = "dead"
    /\ UNCHANGED <<channelVars, events, event, status, STS, childVars, sigchld, closing, aborted>>

----------------------------------------------------------------------------
\* A child ends, by itself or by a signal.
ChildExits(n) ==
    /\ n \in alive
    /\ alive' = alive \ {n}
    /\ exit' \in IF n \in killed THEN {1} ELSE {0, 1}
    /\ sigchld' = TRUE
    /\ UNCHANGED <<channelVars, events, loop, event, status, STS, child, killed, closing, aborted>>

Poke_WhenIdle ==
    /\ sigchld
    /\ sigchld' = FALSE
    /\ events' = IF loop = "wait" THEN Append(events, "SIGCHLD") ELSE events
    /\ UNCHANGED <<channelVars, loop, event, status, STS, childVars, closing, aborted>>

\* handle_child and poke_all: signals that come close together are one.
Poke ==
    /\ sigchld
    /\ sigchld' = FALSE
    /\ events' = Append(events, "SIGCHLD")
    /\ UNCHANGED <<channelVars, loop, event, status, STS, childVars, closing, aborted>>

----------------------------------------------------------------------------
\* The command records have connected, and their first values have been dropped.
LauncherInit ==
    /\ linked = [c \in Commands |-> TRUE] /\ connected = linked
    /\ events = <<>> /\ loop = "wait" /\ event = "JOIN"
    /\ status = 0 /\ STS = 0
    /\ child = 0 /\ alive = {} /\ killed = {} /\ exit = 0
    /\ sigchld = FALSE /\ closing = FALSE
    /\ given = [c \in Commands |-> 0] /\ signalled = given
    /\ losses = 0 /\ aborted = {}

Loop ==
    \/ Wakeup \/ Checked \/ HandleStart \/ Started \/ HandleStop \/ HandleAbort \/ HandleNothing

LauncherNext ==
    \/ Loop \/ Raise \/ Poke \/ Close
    \/ \E c \in Commands : Give(c) \/ Unlink(c) \/ Link(c)
    \/ \E n \in 1 .. MaxChildren : ChildExits(n)

LauncherSpec == LauncherInit /\ [][LauncherNext]_launcherVars

(***************************************************************************)
(* The cothread scheduler runs what is ready, and a child does not survive *)
(* SIGKILL.                                                                *)
(***************************************************************************)
LauncherFair ==
    /\ WF_launcherVars(Loop) /\ WF_launcherVars(Poke)
    /\ \A n \in 1 .. MaxChildren : WF_launcherVars(n \in killed /\ ChildExits(n))

----------------------------------------------------------------------------
\* No second child is started beside a first, although the status that START looks
\* at was taken before a caput that yields.
OneChild == alive \subseteq {child}

\* A command is executed at most once for each time it was given: the value that
\* comes first after a (re)connection is that of a command executed before.
NoReplay == \A c \in Commands : signalled[c] <= given[c]

\* Once nothing is left to handle, the status record tells the truth, although it
\* is written by caputs during which the child may end.
StatusSettles ==
    loop = "wait" /\ events = <<>> /\ ~sigchld => STS = Polled

\* A child that runs when ABORT is given, or the launcher closed, ends, unless the
\* loop has ended with an exception.
AbortKills ==
    \A n \in 1 .. MaxChildren : n \in aborted ~> n \notin alive \/ loop = "dead"
=============================================================================
