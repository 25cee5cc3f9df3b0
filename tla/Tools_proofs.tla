---------------------------- MODULE Tools_proofs ----------------------------
(***************************************************************************)
(* Theorems about the parts beside the driver that share nothing (MCTools  *)
(* checks the same ones): the process launcher, the waveform calculator,   *)
(* the JSON reader and the ROM reader, for every value of their constants. *)
(***************************************************************************)
EXTENDS Descriptor, Generator, Launcher,
        FiniteSetTheorems, SequenceTheorems, WellFoundedInduction, TLAPS

----------------------------------------------------------------------------
(***************************************************************************)
(* Launcher: for every number of commands, children and losses of the      *)
(* connection.                                                             *)
(***************************************************************************)
Locations == {"wait", "check", "handle", "running", "stamp", "joined", "dead"}

\* The parts of the state that the arguments below speak of.
LauncherType ==
    /\ linked \in [Commands -> BOOLEAN]
    /\ connected \in [Commands -> BOOLEAN]
    /\ events \in Seq(Commands \cup {"SIGCHLD", "JOIN"})
    /\ event \in Commands \cup {"SIGCHLD", "JOIN"}
    /\ loop \in Locations
    /\ status \in 0 .. 2
    /\ child \in Nat
    /\ alive \subseteq Nat \ {0}
    /\ given \in [Commands -> Nat]
    /\ signalled \in [Commands -> Nat]

\* The value that follows a loss is dropped because Delta has seen the loss.
LossSeen == connected = linked

\* A status that says that no child is running stays true: only the loop starts one.
StatusHolds == loop \in {"check", "handle"} /\ status # 2 => alive = {}

\* The loop, or a SIGCHLD, has yet to look at the child.
Pending == sigchld \/ \E k \in DOMAIN events : events[k] = "SIGCHLD"

\* What the status record shows once the caput in progress has been done.
Reported ==
    IF loop = "check" THEN status
    ELSE IF loop = "running" THEN 2
    ELSE STS

StatusPending == loop \notin {"joined", "dead"} => Reported = Polled \/ Pending

LauncherHolds == LauncherType /\ LossSeen /\ OneChild /\ NoReplay /\ StatusHolds /\ StatusPending

----------------------------------------------------------------------------
\* What putting an event into the queue, or taking one from it, does to SIGCHLDs.
LEMMA Appended ==
    ASSUME NEW S, NEW q \in Seq(S), NEW e \in S
    PROVE  /\ Append(q, e) \in Seq(S)
           /\ \A k \in DOMAIN q : k \in DOMAIN Append(q, e) /\ Append(q, e)[k] = q[k]
           /\ Len(q) + 1 \in DOMAIN Append(q, e)
           /\ Append(q, e)[Len(q) + 1] = e
    OBVIOUS

LEMMA Taken ==
    ASSUME NEW S, NEW q \in Seq(S), q # <<>>
    PROVE  /\ Head(q) \in S
           /\ Tail(q) \in Seq(S)
    OBVIOUS

LEMMA Two ==
    ASSUME NEW S, NEW q \in Seq(S), NEW a \in S, NEW b \in S
    PROVE  /\ q \o <<a, b>> \in Seq(S)
           /\ \A k \in DOMAIN q : k \in DOMAIN (q \o <<a, b>>) /\ (q \o <<a, b>>)[k] = q[k]
    OBVIOUS

\* A command record is updated.
LEMMA DeltaTyped ==
    ASSUME LauncherType, NEW c \in Commands, NEW ok \in BOOLEAN, Delta(c, ok),
           UNCHANGED <<loop, status, STS, childVars, sigchld>>
    PROVE  /\ connected' \in [Commands -> BOOLEAN]
           /\ events' \in Seq(Commands \cup {"SIGCHLD", "JOIN"})
           /\ signalled' \in [Commands -> Nat]
           /\ Pending => Pending'
<1> DEFINE E == Commands \cup {"SIGCHLD", "JOIN"}
<1>1. events \in Seq(E) /\ c \in E  BY DEF LauncherType
<1>2. CASE ok /\ connected[c]
    <2>1. events' = Append(events, c)  BY <1>2 DEF Delta
    <2>2. Pending => Pending'
        BY <1>1, <2>1, Appended DEF Pending
    <2>3. events' \in Seq(E)  BY <1>1, <2>1, Appended
    <2>4. connected' \in [Commands -> BOOLEAN]  BY Zenon DEF LauncherType, Delta
    <2>5. signalled' \in [Commands -> Nat]  BY <1>2 DEF LauncherType, Delta
    <2> QED  BY <2>2, <2>3, <2>4, <2>5
<1>3. CASE ~(ok /\ connected[c])
    BY <1>3 DEF LauncherType, Delta, Pending
<1> QED  BY <1>2, <1>3

LEMMA GiveStep == ASSUME LauncherHolds, NEW c \in Commands, Give(c) PROVE LauncherHolds'
<1> USE DEF LauncherHolds
<1>1. /\ connected' \in [Commands -> BOOLEAN]
      /\ events' \in Seq(Commands \cup {"SIGCHLD", "JOIN"})
      /\ signalled' \in [Commands -> Nat]
      /\ Pending => Pending'
    <2>1. Delta(c, TRUE) /\ UNCHANGED <<loop, status, STS, childVars, sigchld>>
        BY DEF Give
    <2> QED  BY <2>1, DeltaTyped
<1>2. LauncherType'
    <2>1. given' \in [Commands -> Nat]  BY DEF LauncherType, Give
    <2>2. UNCHANGED <<linked, event, loop, status, child, alive>>  BY DEF Give, childVars
    <2> QED  BY <1>1, <2>1, <2>2 DEF LauncherType
<1>3. LossSeen'  BY DEF LossSeen, LauncherType, Give, Delta
<1>4. OneChild' /\ StatusHolds'  BY DEF OneChild, StatusHolds, Give, childVars
<1>5. NoReplay'  BY DEF NoReplay, LauncherType, LossSeen, Give, Delta
<1>6. StatusPending'
    BY <1>1 DEF StatusPending, Reported, Polled, Give, childVars
<1> QED  BY <1>2, <1>3, <1>4, <1>5, <1>6

LEMMA UnlinkStep == ASSUME LauncherHolds, NEW c \in Commands, Unlink(c) PROVE LauncherHolds'
<1> USE DEF LauncherHolds
<1>1. /\ connected' \in [Commands -> BOOLEAN]
      /\ events' \in Seq(Commands \cup {"SIGCHLD", "JOIN"})
      /\ signalled' \in [Commands -> Nat]
      /\ Pending => Pending'
    BY DeltaTyped DEF Unlink
<1>2. LauncherType'  BY <1>1 DEF LauncherType, Unlink, childVars
<1>3. LossSeen'  BY DEF LossSeen, LauncherType, Unlink, Delta
<1>4. OneChild' /\ StatusHolds'  BY DEF OneChild, StatusHolds, Unlink, childVars
<1>5. NoReplay'  BY DEF NoReplay, Unlink, Delta
<1>6. StatusPending'
    BY <1>1 DEF StatusPending, Reported, Polled, Unlink, childVars
<1> QED  BY <1>2, <1>3, <1>4, <1>5, <1>6

\* The first value after a loss finds ~connected, and is not executed.
LEMMA LinkStep == ASSUME LauncherHolds, NEW c \in Commands, Link(c) PROVE LauncherHolds'
<1> USE DEF LauncherHolds
<1>1. /\ connected' \in [Commands -> BOOLEAN]
      /\ events' \in Seq(Commands \cup {"SIGCHLD", "JOIN"})
      /\ signalled' \in [Commands -> Nat]
      /\ Pending => Pending'
    BY DeltaTyped DEF Link
<1>2. LauncherType'  BY <1>1 DEF LauncherType, Link, childVars
<1>3. LossSeen'  BY DEF LossSeen, LauncherType, Link, Delta
<1>4. OneChild' /\ StatusHolds'  BY DEF OneChild, StatusHolds, Link, childVars
<1>5. ~connected[c]  BY DEF Link, LossSeen
<1>6. signalled' = signalled /\ given' = given  BY <1>5 DEF Link, Delta
<1>7. NoReplay'  BY <1>6 DEF NoReplay
<1>8. StatusPending'
    BY <1>1 DEF StatusPending, Reported, Polled, Link, childVars
<1> QED  BY <1>2, <1>3, <1>4, <1>7, <1>8

LEMMA CloseStep == ASSUME LauncherHolds, Close PROVE LauncherHolds'
<1> USE DEF LauncherHolds
<1> DEFINE E == Commands \cup {"SIGCHLD", "JOIN"}
<1>1. events \in Seq(E) /\ "ABORT" \in E /\ "JOIN" \in E  BY DEF LauncherType, Commands
<1>2. events' = events \o <<"ABORT", "JOIN">>  BY DEF Close
<1>3. events' \in Seq(E)  BY <1>1, <1>2, Two
<1>4. Pending => Pending'
    BY <1>1, <1>2, Two DEF Pending, Close
<1>5. LauncherType'  BY <1>3 DEF LauncherType, Close, channelVars, childVars
<1>6. LossSeen' /\ OneChild' /\ NoReplay' /\ StatusHolds'
    BY DEF LossSeen, OneChild, NoReplay, StatusHolds, Close, channelVars, childVars
<1>7. StatusPending'
    BY <1>4 DEF StatusPending, Reported, Polled, Close, childVars
<1> QED  BY <1>5, <1>6, <1>7

----------------------------------------------------------------------------
\* The loop polls the child before it looks at the command.
LEMMA WakeupStep == ASSUME LauncherHolds, Wakeup PROVE LauncherHolds'
<1> USE DEF LauncherHolds
<1>1. Head(events) \in Commands \cup {"SIGCHLD", "JOIN"}
      /\ Tail(events) \in Seq(Commands \cup {"SIGCHLD", "JOIN"})
    BY Taken DEF LauncherType, Wakeup
<1>2. Polled \in 0 .. 2  BY DEF Polled
<1>3. loop = "wait" /\ loop' = "check"  BY DEF Wakeup, At
<1>4. LauncherType'
    BY <1>1, <1>2, <1>3 DEF LauncherType, Wakeup, channelVars, childVars, Locations
<1>5. LossSeen' /\ OneChild' /\ NoReplay'
    BY DEF LossSeen, OneChild, NoReplay, Wakeup, channelVars, childVars
<1>6. Polled # 2 => alive = {}
    BY DEF Polled, OneChild, LauncherType
<1>7. status' = Polled /\ UNCHANGED childVars  BY DEF Wakeup
<1>8. Polled' = Polled  BY <1>7 DEF Polled, childVars
<1>9. StatusHolds'  BY <1>6, <1>7 DEF StatusHolds, childVars
<1>10. StatusPending'  BY <1>3, <1>7, <1>8 DEF StatusPending, Reported
<1> QED  BY <1>4, <1>5, <1>9, <1>10

LEMMA CheckedStep == ASSUME LauncherHolds, Checked PROVE LauncherHolds'
<1> USE DEF LauncherHolds
<1>1. LauncherType'
    BY DEF LauncherType, Checked, channelVars, childVars, Locations
<1>2. LossSeen' /\ OneChild' /\ NoReplay'
    BY DEF LossSeen, OneChild, NoReplay, Checked, channelVars, childVars
<1>3. StatusHolds'  BY DEF StatusHolds, Checked, childVars
<1>4. Polled' = Polled /\ Pending' = Pending
    BY DEF Polled, Pending, Checked, childVars
<1>5. StatusPending'
    BY <1>4 DEF StatusPending, Reported, Checked
<1> QED  BY <1>1, <1>2, <1>3, <1>5

\* START is obeyed only if no child was running when it was polled.
LEMMA HandleStartStep == ASSUME LauncherHolds, HandleStart PROVE LauncherHolds'
<1> USE DEF LauncherHolds
<1>1. loop = "handle" /\ loop' = "running"  BY DEF HandleStart, At
<1>2. LauncherType'
    BY <1>1 DEF LauncherType, HandleStart, channelVars, Locations
<1>3. LossSeen' /\ NoReplay'
    BY DEF LossSeen, NoReplay, HandleStart, channelVars
<1>4. alive = {}  BY <1>1 DEF StatusHolds, HandleStart
<1>5. alive' = {child'} /\ child' # 0  BY <1>4 DEF HandleStart, LauncherType
<1>6. OneChild'  BY <1>5 DEF OneChild
<1>7. StatusHolds'  BY <1>1 DEF StatusHolds
<1>8. Polled' = 2  BY <1>5 DEF Polled
<1>9. StatusPending'  BY <1>1, <1>8 DEF StatusPending, Reported
<1> QED  BY <1>2, <1>3, <1>6, <1>7, <1>9

\* The other steps of the loop leave the child alone.
LEMMA LoopStep ==
    ASSUME LauncherHolds, Started \/ HandleStop \/ HandleAbort \/ HandleNothing \/ Raise
    PROVE  LauncherHolds'
<1> USE DEF LauncherHolds, At
<1>0. UNCHANGED <<channelVars, events, event, status, child, alive, exit, sigchld>>
    BY DEF Started, HandleStop, HandleAbort, HandleNothing, Raise, childVars
<1>1. loop' \in Locations /\ loop' \notin {"check", "handle"}
    BY DEF Started, HandleStop, HandleAbort, HandleNothing, Raise, Locations
<1>2. LauncherType'
    BY <1>0, <1>1 DEF LauncherType, channelVars
<1>3. LossSeen' /\ OneChild' /\ NoReplay'
    BY <1>0 DEF LossSeen, OneChild, NoReplay, channelVars
<1>4. StatusHolds'  BY <1>1 DEF StatusHolds
<1>5. Polled' = Polled /\ Pending' = Pending  BY <1>0 DEF Polled, Pending
<1>6. StatusPending'
    BY <1>5 DEF StatusPending, Reported, Started, HandleStop, HandleAbort, HandleNothing, Raise
<1> QED  BY <1>2, <1>3, <1>4, <1>6

LEMMA ChildExitsStep == ASSUME LauncherHolds, NEW n \in 1 .. MaxChildren, ChildExits(n) PROVE LauncherHolds'
<1> USE DEF LauncherHolds
<1>1. LauncherType'  BY DEF LauncherType, ChildExits, channelVars
<1>2. LossSeen' /\ OneChild' /\ NoReplay' /\ StatusHolds'
    BY DEF LossSeen, OneChild, NoReplay, StatusHolds, ChildExits, channelVars
<1>3. Pending'  BY DEF Pending, ChildExits
<1> QED  BY <1>1, <1>2, <1>3 DEF StatusPending

LEMMA PokeStep == ASSUME LauncherHolds, Poke PROVE LauncherHolds'
<1> USE DEF LauncherHolds
<1> DEFINE E == Commands \cup {"SIGCHLD", "JOIN"}
<1>1. events \in Seq(E) /\ "SIGCHLD" \in E  BY DEF LauncherType
<1>2. events' = Append(events, "SIGCHLD")  BY DEF Poke
<1>3. events' \in Seq(E) /\ Pending'
    BY <1>1, <1>2, Appended DEF Pending
<1>4. LauncherType'  BY <1>3 DEF LauncherType, Poke, channelVars, childVars
<1>5. LossSeen' /\ OneChild' /\ NoReplay' /\ StatusHolds'
    BY DEF LossSeen, OneChild, NoReplay, StatusHolds, Poke, channelVars, childVars
<1> QED  BY <1>3, <1>4, <1>5 DEF StatusPending

----------------------------------------------------------------------------
LEMMA LauncherStart == LauncherInit => LauncherHolds
<1> SUFFICES ASSUME LauncherInit PROVE LauncherHolds  OBVIOUS
<1>1. LauncherType  BY DEF LauncherInit, LauncherType, Commands, Locations
<1>2. LossSeen /\ OneChild /\ NoReplay /\ StatusHolds
    BY DEF LauncherInit, LossSeen, OneChild, NoReplay, StatusHolds, Commands
<1>3. StatusPending
    BY DEF LauncherInit, StatusPending, Reported, Polled
<1> QED  BY <1>1, <1>2, <1>3 DEF LauncherHolds

LEMMA LauncherStep == LauncherHolds /\ [LauncherNext]_launcherVars => LauncherHolds'
<1> SUFFICES ASSUME LauncherHolds, [LauncherNext]_launcherVars PROVE LauncherHolds'  OBVIOUS
<1>1. CASE UNCHANGED launcherVars
    BY <1>1 DEF LauncherHolds, LauncherType, LossSeen, OneChild, NoReplay, StatusHolds, StatusPending, Reported,
        Polled, Pending, launcherVars, channelVars, childVars
<1>2. CASE Loop
    BY <1>2, WakeupStep, CheckedStep, HandleStartStep, LoopStep DEF Loop
<1>3. CASE Raise \/ Poke \/ Close
    BY <1>3, LoopStep, PokeStep, CloseStep
<1>4. CASE \E c \in Commands : Give(c) \/ Unlink(c) \/ Link(c)
    BY <1>4, GiveStep, UnlinkStep, LinkStep
<1>5. CASE \E n \in 1 .. MaxChildren : ChildExits(n)
    BY <1>5, ChildExitsStep
<1> QED  BY <1>1, <1>2, <1>3, <1>4, <1>5 DEF LauncherNext

\* The inductive invariant, from which the theorems below follow.
THEOREM LauncherInv == LauncherSpec => []LauncherHolds
<1> QED  BY LauncherStart, LauncherStep, PTL DEF LauncherSpec

\* However caputs, commands and the end of a child interleave, HandleStart never
\* starts a child beside another (handle_start, check_status).
THEOREM OnlyOneChild == LauncherSpec => []OneChild
<1>1. LauncherHolds => OneChild  BY DEF LauncherHolds
<1> QED  BY <1>1, LauncherInv, PTL

\* No loss of a connection makes Delta execute a command again.
THEOREM NeverReplayed == LauncherSpec => []NoReplay
<1>1. LauncherHolds => NoReplay  BY DEF LauncherHolds
<1> QED  BY <1>1, LauncherInv, PTL

\* Whenever the loop has nothing left to handle, the status record is that of the
\* child, although it is written by caputs during which the child may end.
THEOREM StatusTrue == LauncherSpec => []StatusSettles
<1>1. LauncherHolds => StatusSettles
    <2> SUFFICES ASSUME LauncherHolds, loop = "wait", events = <<>>, ~sigchld PROVE STS = Polled
        BY DEF StatusSettles
    <2>1. ~Pending  BY DEF Pending
    <2>2. Reported = Polled  BY <2>1 DEF LauncherHolds, StatusPending
    <2> QED  BY <2>2 DEF Reported
<1> QED  BY <1>1, LauncherInv, PTL

----------------------------------------------------------------------------
(***************************************************************************)
(* Generator: for every set of arguments and every code, whatever a run of *)
(* it computes.                                                            *)
(***************************************************************************)
\* A set of natural numbers has a least element.
LEMMA Smallest == ASSUME NEW S \in SUBSET Nat, S # {} PROVE \E x \in S : \A y \in S : x <= y
<1> DEFINE R == OpToRel(<, Nat)
<1>1. IsWellFoundedOn(R, Nat)  BY NatLessThanWellFounded, Zenon
<1>2. \A x, y \in Nat : x < y => <<x, y>> \in R  BY DEF OpToRel
<1> HIDE DEF R
<1>3. PICK x \in S : \A y \in S : ~(<<y, x>> \in R)  BY <1>1, WFMin
<1>4. \A y \in S : ~(y < x)  BY <1>2, <1>3
<1> QED  BY <1>3, <1>4

\* A finite set of integers that is not empty has a highest.
LEMMA HighestIn ==
    ASSUME NEW S \in SUBSET Int, IsFiniteSet(S), S # {}
    PROVE  Highest(S) \in S /\ \A n \in S : n <= Highest(S)
<1> DEFINE HasHighest(T) == \E m \in T : \A n \in T : n <= m
           Sizes == {Cardinality(T) : T \in {U \in SUBSET S : U # {} /\ ~HasHighest(U)}}
<1>1. \A T \in SUBSET S : IsFiniteSet(T) /\ Cardinality(T) \in Nat
    BY FS_Subset, FS_CardinalityType
<1>2. Sizes \subseteq Nat  BY <1>1
<1>3. ASSUME Sizes # {} PROVE FALSE
    <2>1. PICK k \in Sizes : \A j \in Sizes : k <= j  BY <1>2, <1>3, Smallest
    <2>2. PICK T \in SUBSET S : k = Cardinality(T) /\ T # {} /\ ~HasHighest(T)  BY <2>1
    <2>3. PICK x \in T : TRUE  BY <2>2
    <2> DEFINE U == T \ {x}
    <2>4. Cardinality(U) = k - 1  BY <1>1, <2>2, <2>3, FS_RemoveElement
    <2>5. Cardinality(U) \notin Sizes  BY <1>1, <2>1, <2>4
    <2>6. U = {} \/ HasHighest(U)  BY <2>5
    <2>7. CASE U = {}
        <3>1. \A n \in T : n = x  BY <2>7
        <3> QED  BY <2>2, <2>3, <3>1
    <2>8. CASE HasHighest(U)
        <3>1. PICK m \in U : \A n \in U : n <= m  BY <2>8
        <3>2. m \in Int /\ x \in Int /\ m \in T  BY <2>3
        <3>3. CASE x <= m
            <4>1. \A n \in T : n <= m  BY <3>1, <3>3
            <4> QED  BY <2>2, <3>2, <4>1
        <3>4. CASE ~(x <= m)
            <4>1. \A n \in T : n <= x
                <5> TAKE n \in T
                <5>1. n \in Int  OBVIOUS
                <5>2. n = x \/ n <= m  BY <3>1
                <5> QED  BY <3>2, <3>4, <5>1, <5>2
            <4> QED  BY <2>2, <2>3, <4>1
        <3> QED  BY <3>3, <3>4
    <2> QED  BY <2>6, <2>7, <2>8
<1>4. HasHighest(S)  BY <1>3
<1> QED  BY <1>4 DEF Highest

----------------------------------------------------------------------------
\* What a list of the lengths in lens can be.
Lists(in) ==
    /\ DOMAIN in = UseIn
    /\ \A i \in UseIn : Len(in[i]) \in Nat /\ DOMAIN in[i] = 1 .. Len(in[i])
                        /\ (in[i] = <<>> <=> Len(in[i]) = 0)

LEMMA ElementsType ==
    ASSUME NEW in, Lists(in), UseOut # {}
    PROVE  Elements(in) \in Int
<1> DEFINE Lens == {Len(in[i]) : i \in UseIn}
           Rooms == {MaxLen(i) : i \in UseOut}
           len == [i \in UseIn |-> Len(in[i])]
           room == [i \in UseOut |-> MaxLen(i)]
<1>1. IsFiniteSet(Rooms)
    <2>1. room \in Surjection(UseOut, Rooms)  BY DEF Surjection
    <2> HIDE DEF room, Rooms
    <2> QED  BY <2>1, ArgumentsAssumption, FS_Surjection
<1>2. IsFiniteSet(Lens)
    <2>1. len \in Surjection(UseIn, Lens)  BY DEF Surjection
    <2> HIDE DEF len, Lens
    <2>2. IsFiniteSet(UseIn)  BY ArgumentsAssumption
    <2> QED  BY <2>1, <2>2, FS_Surjection, Zenon
<1>3. IsFiniteSet({1} \cup Lens)  BY <1>2, FS_Union, FS_Singleton
<1>4. Rooms \in SUBSET Int /\ Rooms # {}
    <2>1. \A i \in UseOut : MaxLen(i) \in Int  BY ArgumentsAssumption
    <2> QED  BY <2>1
<1>5. {1} \cup Lens \in SUBSET Int /\ {1} \cup Lens # {}  BY DEF Lists
<1> HIDE DEF Lens, Rooms
<1>6. Highest(Rooms) \in Int  BY <1>1, <1>4, HighestIn
<1>7. Highest({1} \cup Lens) \in Int  BY <1>3, <1>5, HighestIn
<1> QED  BY <1>6, <1>7 DEF Elements, Least, Rooms, Lens

----------------------------------------------------------------------------
\* The function that Evaluations picks meets its equation: there is one, for any
\* number of samples.
Start == [i \in UseIn \cup UseOut \cup {0} |-> IF i = 0 THEN PI ELSE <<>>]

Arguments(code, in, args, s) ==
    Loaded(IF s = 1 THEN Start ELSE Perform(code, args[s - 1]), in, s)

Evaluated(code, in, n, args) == args = [s \in 1 .. n |-> Arguments(code, in, args, s)]

LEMMA EvaluationExists ==
    ASSUME NEW code, NEW in, NEW n \in Nat
    PROVE  \E args : Evaluated(code, in, n, args)
<1> DEFINE Missing == {k \in Nat : ~\E args : Evaluated(code, in, k, args)}
<1>1. SUFFICES ASSUME Missing # {} PROVE FALSE  OBVIOUS
<1>2. PICK k \in Missing : \A j \in Missing : k <= j  BY <1>1, Smallest
<1>3. CASE k = 0
    <2>1. 1 .. 0 = {}  OBVIOUS
    <2>2. <<>> = [s \in 1 .. 0 |-> Arguments(code, in, <<>>, s)]  BY <2>1
    <2> QED  BY <1>2, <1>3, <2>2 DEF Evaluated
<1>4. CASE k # 0
    <2>1. k - 1 \in Nat /\ k - 1 \notin Missing  BY <1>2, <1>4
    <2>2. PICK before : Evaluated(code, in, k - 1, before)  BY <2>1
    <2> DEFINE args == [s \in 1 .. k |-> IF s = k THEN Arguments(code, in, before, k) ELSE before[s]]
    <2>3. ASSUME NEW s \in 1 .. k PROVE args[s] = Arguments(code, in, args, s)
        <3>1. s = 1 \/ args[s - 1] = before[s - 1]  OBVIOUS
        <3>2. Arguments(code, in, args, s) = Arguments(code, in, before, s)
            <4> HIDE DEF args
            <4> QED  BY <3>1 DEF Arguments
        <3>3. CASE s = k  BY <3>2, <3>3
        <3>4. CASE s # k
            <4>1. s \in 1 .. k - 1  BY <3>4
            <4>2. before[s] = Arguments(code, in, before, s)  BY <2>2, <4>1 DEF Evaluated
            <4> QED  BY <3>2, <3>4, <4>2
        <3> QED  BY <3>3, <3>4
    <2>4. args = [s \in 1 .. k |-> args[s]]  OBVIOUS
    <2> HIDE DEF args
    <2>5. args = [s \in 1 .. k |-> Arguments(code, in, args, s)]  BY <2>3, <2>4
    <2> QED  BY <1>2, <2>5 DEF Evaluated
<1> QED  BY <1>3, <1>4

LEMMA EvaluationsEquation ==
    ASSUME NEW code, NEW in, Elements(in) \in Int
    PROVE  LET args == Evaluations(code, in)
           IN  args = [s \in 1 .. Elements(in) |-> Arguments(code, in, args, s)]
<1> DEFINE n == IF Elements(in) >= 0 THEN Elements(in) ELSE 0
<1>1. n \in Nat /\ 1 .. n = 1 .. Elements(in)  OBVIOUS
<1>2. PICK f : Evaluated(code, in, n, f)  BY <1>1, EvaluationExists
<1>3. f = [s \in 1 .. Elements(in) |->
              Loaded(IF s = 1 THEN Start ELSE Perform(code, f[s - 1]), in, s)]
    BY <1>1, <1>2 DEF Evaluated, Arguments
<1>4. Evaluations(code, in) =
        CHOOSE args : args = [s \in 1 .. Elements(in) |->
              Loaded(IF s = 1 THEN Start ELSE Perform(code, args[s - 1]), in, s)]
    BY DEF Evaluations, Start
<1>5. Evaluations(code, in) =
        [s \in 1 .. Elements(in) |->
              Loaded(IF s = 1 THEN Start ELSE Perform(code, Evaluations(code, in)[s - 1]), in, s)]
    <2> HIDE DEF n
    <2> QED  BY <1>3, <1>4, Zenon
<1> QED  BY <1>5 DEF Arguments
----------------------------------------------------------------
\* Sample s of an input, or its last, or zero if it has none.
HeldOf(x, s) == IF x = <<>> THEN <<>> ELSE x[Least(s, Len(x))]

\* An argument that the expression leaves alone holds the last element it has been given.
LEMMA ArgumentsHeld ==
    ASSUME NEW code, NEW in, Lists(in), NEW n \in Int, NEW args,
           args = [s \in 1 .. n |-> Arguments(code, in, args, s)]
    PROVE  \A s \in 1 .. n :
               /\ DOMAIN args[s] = UseIn \cup UseOut \cup {0}
               /\ code # NoCode => \A i \in UseIn \ Assigns(code) : args[s][i] = HeldOf(in[i], s)
<1> DEFINE Right(s) ==
               /\ DOMAIN args[s] = UseIn \cup UseOut \cup {0}
               /\ code # NoCode => \A i \in UseIn \ Assigns(code) : args[s][i] = HeldOf(in[i], s)
           Wrong == {s \in 1 .. n : ~Right(s)}
<1>1. SUFFICES ASSUME Wrong # {} PROVE FALSE  OBVIOUS
<1> HIDE DEF Right
<1>2. PICK s \in Wrong : \A r \in Wrong : s <= r
    <2>1. Wrong \in SUBSET Nat  OBVIOUS
    <2> HIDE DEF Wrong
    <2> QED  BY <1>1, <2>1, Smallest
<1> USE DEF Right
<1>3. s \in 1 .. n /\ args[s] = Arguments(code, in, args, s)  OBVIOUS
<1>4. 0 \notin UseIn  BY ArgumentsAssumption
<1>5. CASE s = 1
    <2>1. args[s] = Loaded(Start, in, 1)  BY <1>3, <1>5 DEF Arguments
    <2>2. DOMAIN args[s] = UseIn \cup UseOut \cup {0}  BY <2>1 DEF Loaded, Start
    <2>3. ASSUME NEW i \in UseIn PROVE args[s][i] = HeldOf(in[i], s)
        <3>1. args[s][i] = IF 1 <= Len(in[i]) THEN in[i][1] ELSE <<>>
            BY <1>4, <2>1, <2>3 DEF Loaded, Start
        <3>2. Len(in[i]) \in Nat /\ (in[i] = <<>> <=> Len(in[i]) = 0)  BY DEF Lists
        <3> QED  BY <1>5, <3>1, <3>2 DEF HeldOf, Least
    <2> QED  BY <2>2, <2>3
<1>6. CASE s # 1
    <2>1. s - 1 \in 1 .. n /\ s - 1 \notin Wrong  BY <1>2, <1>3, <1>6
    <2>2. Right(s - 1)  BY <2>1
    <2>3. args[s] = Loaded(Perform(code, args[s - 1]), in, s)  BY <1>3, <1>6 DEF Arguments
    <2>4. DOMAIN args[s] = UseIn \cup UseOut \cup {0}  BY <2>2, <2>3 DEF Loaded, Perform
    <2>5. ASSUME NEW i \in UseIn \ Assigns(code), code # NoCode PROVE args[s][i] = HeldOf(in[i], s)
        <3>1. Perform(code, args[s - 1])[i] = args[s - 1][i]  BY <2>2, <2>5 DEF Perform
        <3>2. args[s][i] = IF s <= Len(in[i]) THEN in[i][s] ELSE args[s - 1][i]
            BY <2>2, <2>3, <3>1 DEF Loaded, Perform
        <3>3. args[s - 1][i] = HeldOf(in[i], s - 1)  BY <2>2, <2>5
        <3>4. Len(in[i]) \in Nat /\ (in[i] = <<>> <=> Len(in[i]) = 0)  BY DEF Lists
        <3> QED  BY <1>3, <1>6, <3>2, <3>3, <3>4 DEF HeldOf, Least
    <2> QED  BY <2>4, <2>5
<1> QED  BY <1>5, <1>6

----------------------------------------------------------------------------
\* The code that is kept is that of the text in prev, which is never "".
Compiled ==
    postfix # NoCode =>
        /\ postfix = prev /\ prev \notin Broken /\ Source(prev) = prev
        /\ valOut = ResultOutput(prev)

GeneratorHolds == Compiled /\ HeldInputs

\* update_expr leaves the code of the expression now in A, or none.
LEMMA CompileStep ==
    ASSUME Compiled, NEW expr, Compile(expr), postfix' # NoCode
    PROVE  /\ Compiled'
           /\ postfix' = Source(expr) /\ Source(expr) \notin Broken
           /\ valOut' = ResultOutput(Source(expr))
           /\ ~(prev # expr /\ Source(expr) \in Broken)
<1>1. CASE prev = expr
    BY <1>1 DEF Compile, Compiled, Source
<1>2. CASE prev # expr
    <2>1. Source(expr) \notin Broken  BY <1>2 DEF Compile
    <2>2. prev' = Source(expr) /\ postfix' = Source(expr) /\ valOut' = ResultOutput(Source(expr))
        BY <1>2, <2>1 DEF Compile
    <2>3. Source(Source(expr)) = Source(expr)  BY DEF Source
    <2> QED  BY <2>1, <2>2, <2>3 DEF Compiled
<1> QED  BY <1>1, <1>2

\* The result goes to one of the outputs.
LEMMA ResultOutputType ==
    ASSUME NEW expr, ResultOutput(expr) # Nobody
    PROVE  ResultOutput(expr) \in UseOut
<1> DEFINE free == UseOut \ Assigns(expr)
<1>1. free # {}  BY DEF ResultOutput
<1>2. free \in SUBSET Nat  BY ArgumentsAssumption
<1>3. \E i \in free : \A j \in free : i <= j  BY <1>1, <1>2, Smallest
<1> QED  BY <1>1, <1>3 DEF ResultOutput

LEMMA GenerateStep ==
    ASSUME Compiled, NEW expr, NEW in, Lists(in), Generate(expr, in)
    PROVE  GeneratorHolds'
<1>1. Compile(expr) /\ inputs' = [expr |-> expr, of |-> in]  BY DEF Generate
<1>2. CASE postfix' = NoCode
    <2>1. alarm'  BY <1>2 DEF Generate
    <2> QED  BY <1>2, <2>1 DEF GeneratorHolds, Compiled, HeldInputs
<1>3. CASE postfix' # NoCode
    <2> DEFINE code == Source(expr)
               out == ResultOutput(code)
               args == Evaluations(code, in)
    <2>1. Compiled' /\ postfix' = code /\ code \notin Broken /\ valOut' = out
          /\ ~(prev # expr /\ code \in Broken)
        BY <1>1, <1>3, CompileStep
    <2>2. ASSUME out # Nobody, NEW s \in 1 .. nev'[out]
          PROVE  /\ vals'[out][s][1] = code
                 /\ \A i \in UseIn \ Assigns(code) : vals'[out][s][2][i] = HeldOf(in[i], s)
        <3>1. out \in UseOut /\ MaxLen(out) \in Nat
            BY <2>2, ResultOutputType, ArgumentsAssumption
        <3>2. Elements(in) \in Int  BY <3>1, ElementsType
        <3>3. args = [r \in 1 .. Elements(in) |-> Arguments(code, in, args, r)]
            BY <3>2, EvaluationsEquation
        <3> HIDE DEF out, code
        <3>4. nev' = [i \in UseOut |-> Least(Elements(in), MaxLen(i))]
            BY <2>1 DEF Generate, code
        <3>5. s \in 1 .. Elements(in) /\ s \in 1 .. MaxLen(out)
            BY <2>2, <3>1, <3>2, <3>4 DEF Least
        <3> DEFINE Results(all) ==
                     [i \in UseOut |->
                         [r \in 1 .. MaxLen(i) |->
                             IF r > Elements(in) THEN vals[i][r]
                             ELSE IF i = valOut'
                             THEN [t \in DOMAIN all |->
                                     IF postfix' = NoCode THEN Garbage ELSE <<postfix', all[t]>>][r]
                             ELSE Perform(postfix', all[r])[i]]]
        <3>6. vals' = Results(args)
            <4>1. Evaluations(postfix', in) = args  BY <2>1 DEF code
            <4>2. ~(prev # expr /\ Source(expr) \in Broken)  BY <2>1 DEF code
            <4>3. vals' = Results(Evaluations(postfix', in))  BY <4>2 DEF Generate
            <4> HIDE DEF args, Results
            <4> QED  BY <4>1, <4>3
        <3> HIDE DEF args
        <3>7. DOMAIN args = 1 .. Elements(in)  BY <3>3
        <3>8. vals'[out][s] = <<code, args[s]>>
            BY <1>3, <2>1, <3>1, <3>2, <3>5, <3>6, <3>7
        <3>9. \A i \in UseIn \ Assigns(code) : args[s][i] = HeldOf(in[i], s)
            BY <1>3, <2>1, <3>2, <3>3, <3>5, ArgumentsHeld
        <3> QED  BY <3>8, <3>9
    <2>3. inputs'.expr = expr /\ inputs'.of = in  BY <1>1
    <2>4. HeldInputs'
        <3> HIDE DEF args
        <3> QED  BY <2>1, <2>2, <2>3 DEF HeldInputs, Held, HeldOf
    <2> QED  BY <2>1, <2>4 DEF GeneratorHolds
<1> QED  BY <1>2, <1>3

\* What is fetched for the inputs.
LEMMA FetchedGiven ==
    ASSUME NEW lens \in [UseIn -> InLens]
    PROVE  Lists([i \in UseIn |-> [s \in 1 .. lens[i] |-> <<i, s, run>>]])
<1> SUFFICES ASSUME NEW i \in UseIn
             PROVE  LET x == [s \in 1 .. lens[i] |-> <<i, s, run>>]
                    IN  Len(x) \in Nat /\ DOMAIN x = 1 .. Len(x) /\ (x = <<>> <=> Len(x) = 0)
    BY DEF Lists
<1> DEFINE x == [s \in 1 .. lens[i] |-> <<i, s, run>>]
           S == {<<i, s, run>> : s \in 1 .. lens[i]}
<1>1. lens[i] \in Nat  BY ArgumentsAssumption
<1>2. x \in Seq(S)  BY <1>1
<1>3. DOMAIN x = 1 .. Len(x) /\ Len(x) \in Nat
    <2> HIDE DEF x, S
    <2> QED  BY <1>2
<1>4. x = <<>> <=> Len(x) = 0
    <2> HIDE DEF x, S
    <2> QED  BY <1>2, EmptySeq
<1> QED  BY <1>3, <1>4

THEOREM GeneratorInv == GeneratorSpec => []GeneratorHolds
<1>1. GeneratorInit => GeneratorHolds
    BY DEF GeneratorInit, GeneratorHolds, Compiled, HeldInputs
<1>2. GeneratorHolds /\ [GeneratorNext]_generatorVars => GeneratorHolds'
    <2> SUFFICES ASSUME GeneratorHolds, [GeneratorNext]_generatorVars PROVE GeneratorHolds'
        OBVIOUS
    <2>1. CASE GeneratorNext
        <3>1. PICK expr \in Expressions, lens \in [UseIn -> InLens] :
                  Generate(expr, [i \in UseIn |-> [s \in 1 .. lens[i] |-> <<i, s, run>>]])
            BY <2>1 DEF GeneratorNext
        <3> DEFINE in == [i \in UseIn |-> [s \in 1 .. lens[i] |-> <<i, s, run>>]]
        <3>2. Lists(in) /\ Generate(expr, in)  BY <3>1, FetchedGiven
        <3> HIDE DEF in
        <3> QED  BY <3>2, GenerateStep DEF GeneratorHolds
    <2>2. CASE UNCHANGED generatorVars
        BY <2>2 DEF GeneratorHolds, Compiled, HeldInputs, Held, generatorVars
    <2> QED  BY <2>1, <2>2
<1> QED  BY <1>1, <1>2, PTL DEF GeneratorSpec

\* Without an alarm, the result is that of the expression now in A, for the inputs
\* now fetched.
THEOREM ResultsCurrent == GeneratorSpec => []HeldInputs
<1>1. GeneratorHolds => HeldInputs  BY DEF GeneratorHolds
<1> QED  BY <1>1, GeneratorInv, PTL

----------------------------------------------------------------------------
(***************************************************************************)
(* Descriptor: for every set of registers, numbers and strings, and every  *)
(* document made of them.                                                  *)
(***************************************************************************)
\* Objects of a document that define a register, or metadata.
Params == {"", "base_addr", "data_width", "access"}
Names == RegNames \cup {Meta}
Values == Ints \cup Strings
Definitions == [name : Names, given : Seq([param : Params, val : Values]), plain : BOOLEAN]

Kinds == {"root", "key", "value", "array", "end"}

DocumentType ==
    /\ jsonPhase \in {"parse", "accepted", "failed"}
    /\ nesting \in Seq(Kinds)
    /\ depth \in 0 .. 2
    /\ inMetadata \in BOOLEAN
    /\ ignoreScratch \in BOOLEAN
    /\ regname \in Names \cup {""}
    /\ param \in Params
    /\ defined \in Seq(Definitions)

\* A key comes before the value: whatever a map has in it has a name.
Named == depth >= 1 => regname \in Names \/ (depth = 1 /\ Inner = "key")

\* As many maps are open as the context counts.
Opened == {k \in DOMAIN nesting : nesting[k] \in {"key", "value"}}

Deep ==
    /\ depth = 1 => \E k \in Opened : TRUE
    /\ depth = 2 => \E j, k \in Opened : j < k

Current == defined[Len(defined)]

\* The register being read: what its object has given so far.
ScratchHolds ==
    IF depth = 2
    THEN /\ defined # <<>> /\ Current.name = regname
         /\ Current.plain = (inMetadata = (regname = Meta))
         /\ inMetadata => scratch = Blank /\ ~ignoreScratch
         /\ ~inMetadata => /\ ignoreScratch = ~WellFormed(Current)
                           /\ ~ignoreScratch => scratch = RegisterOf(Current)
    ELSE scratch = Blank /\ ~ignoreScratch

\* The objects that have ended.
Ended == 1 .. (IF depth = 2 THEN Len(defined) - 1 ELSE Len(defined))

AllPlain == \A i \in DOMAIN defined : defined[i].plain

EndedDefs(name) == {i \in Ended : defined[i].name = name /\ WellFormed(defined[i])}

RegistersHold ==
    (\A i \in Ended : defined[i].plain) =>
        /\ DOMAIN registers \ {Meta} = {name \in RegNames : EndedDefs(name) # {}}
        /\ \A name \in DOMAIN registers \ {Meta} :
               \E i \in EndedDefs(name) :
                   /\ \A j \in EndedDefs(name) : j <= i
                   /\ registers[name] = RegisterOf(defined[i])

\* info32 is what the metadata have given.
MetaDefs == {i \in DOMAIN defined : defined[i].name = Meta}

InfoHolds ==
    AllPlain =>
        /\ \A p \in DOMAIN info32 : \E i \in MetaDefs : \E k \in DOMAIN defined[i].given :
               Says(defined[i].given[k], p, info32[p])
        /\ \A i \in MetaDefs : \A k \in DOMAIN defined[i].given :
               defined[i].given[k].val \in Ints => defined[i].given[k].param \in DOMAIN info32

Holds == DocumentType /\ Named /\ Deep /\ ScratchHolds /\ RegistersHold /\ InfoHolds

DocumentInv == jsonPhase # "failed" => Holds
----------------------------------------------------------------------------
\* SumSet, of at most one number.
LEMMA SumEmpty == SumSet({}) = 0
<1> DEFINE f == [s \in SUBSET {} |-> 0]
<1>1. SumSet({}) =
        (CHOOSE iter : iter = [s \in SUBSET {} |->
            IF s = {} THEN 0
            ELSE (CHOOSE y \in s : TRUE) + iter[s \ {CHOOSE y \in s : TRUE}]])[{}]
    BY DEF SumSet, FoldSet, MapThenFoldSet
<1>2. \E iter : iter = [s \in SUBSET {} |->
            IF s = {} THEN 0
            ELSE (CHOOSE y \in s : TRUE) + iter[s \ {CHOOSE y \in s : TRUE}]]
    <2>1. f = [s \in SUBSET {} |->
            IF s = {} THEN 0
            ELSE (CHOOSE y \in s : TRUE) + f[s \ {CHOOSE y \in s : TRUE}]]
        OBVIOUS
    <2> QED  BY <2>1
<1> QED  BY <1>1, <1>2

LEMMA ChosenOne == ASSUME NEW x PROVE (CHOOSE y \in {x} : TRUE) = x
    OBVIOUS

LEMMA SumOne == ASSUME NEW x \in Int PROVE SumSet({x}) = x
<1> DEFINE Pick(s) == CHOOSE y \in s : TRUE
           f == [s \in SUBSET {x} |-> IF s = {} THEN 0 ELSE x]
           IsSum(iter) == iter = [s \in SUBSET {x} |->
                                    IF s = {} THEN 0 ELSE Pick(s) + iter[s \ {Pick(s)}]]
           g == CHOOSE iter : IsSum(iter)
<1>1. SumSet({x}) =
        (CHOOSE iter : iter = [s \in SUBSET {x} |->
            IF s = {} THEN 0
            ELSE (CHOOSE y \in s : TRUE) + iter[s \ {CHOOSE y \in s : TRUE}]])[{x}]
    BY DEF SumSet, FoldSet, MapThenFoldSet
<1>8. SumSet({x}) = g[{x}]  BY <1>1, Zenon
<1>2. Pick({x}) = x  BY ChosenOne
<1> HIDE DEF Pick
<1>3. IsSum(f)
    <2>1. ASSUME NEW s \in SUBSET {x}
          PROVE  f[s] = IF s = {} THEN 0 ELSE Pick(s) + f[s \ {Pick(s)}]
        <3>1. CASE s = {}  BY <3>1
        <3>2. CASE s = {x}
            <4>1. {x} \ {Pick({x})} = {} /\ f[{}] = 0 /\ f[{x}] = x  BY <1>2
            <4>2. f[{x}] = IF {x} = {} THEN 0 ELSE Pick({x}) + f[{x} \ {Pick({x})}]
                <5> HIDE DEF f
                <5> QED  BY <1>2, <4>1
            <4> HIDE DEF f
            <4> QED  BY <3>2, <4>2
        <3> QED  BY <3>1, <3>2
    <2>2. f = [s \in SUBSET {x} |-> f[s]]  OBVIOUS
    <2> HIDE DEF f
    <2> QED  BY <2>1, <2>2
<1> HIDE DEF f
<1>4. IsSum(g)  BY <1>3, Zenon
<1> HIDE DEF g
<1>5. g[{}] = 0  BY <1>4
<1>6. g[{x}] = x + g[{x} \ {x}]  BY <1>2, <1>4
<1>7. {x} \ {x} = {}  OBVIOUS
<1> QED  BY <1>5, <1>6, <1>7, <1>8
----------------------------------------------------------------------------
\* What a definition says when one more value has been given.
Numbers == {val \in Values : IsNumber(val)}

LastIn(def, name, V) ==
    LET at == {i \in DOMAIN def.given : def.given[i].param = name /\ def.given[i].val \in V}
    IN  {def.given[i].val : i \in {i \in at : \A j \in at : j <= i}}

LEMMA LastGivenIn ==
    ASSUME NEW def \in Definitions, NEW name
    PROVE  /\ LastGiven(def, name, IsNumber) = LastIn(def, name, Numbers)
           /\ LastGiven(def, name, IsString) = LastIn(def, name, Strings)
<1>1. \A i \in DOMAIN def.given : def.given[i].val \in Values
    <2> DEFINE R == [param : Params, val : Values]
    <2>1. def.given \in Seq(R)  BY DEF Definitions
    <2>2. \A r \in R : r.val \in Values  OBVIOUS
    <2> HIDE DEF R
    <2>3. \A i \in DOMAIN def.given : def.given[i] \in R  BY <2>1
    <2> QED  BY <2>2, <2>3
<1>2. \A i \in DOMAIN def.given : IsNumber(def.given[i].val) <=> def.given[i].val \in Numbers
    BY <1>1 DEF Numbers
<1>3. LastGiven(def, name, IsNumber) = LastIn(def, name, Numbers)
    BY <1>2 DEF LastGiven, LastIn
<1>4. LastGiven(def, name, IsString) = LastIn(def, name, Strings)
    BY DEF LastGiven, LastIn, IsString
<1> QED  BY <1>3, <1>4

Given(def, p, v) == [def EXCEPT !.given = Append(@, [param |-> p, val |-> v])]

LEMMA GivenType ==
    ASSUME NEW def \in Definitions, NEW p \in Params, NEW v \in Values
    PROVE  /\ Given(def, p, v) \in Definitions
           /\ Given(def, p, v).name = def.name /\ Given(def, p, v).plain = def.plain
           /\ DOMAIN Given(def, p, v).given = 1 .. Len(def.given) + 1
           /\ \A i \in 1 .. Len(def.given) : Given(def, p, v).given[i] = def.given[i]
           /\ Given(def, p, v).given[Len(def.given) + 1].param = p
           /\ Given(def, p, v).given[Len(def.given) + 1].val = v
<1>1. def.given \in Seq([param : Params, val : Values])  BY DEF Definitions
<1>2. [param |-> p, val |-> v] \in [param : Params, val : Values]  OBVIOUS
<1>3. Given(def, p, v).given = Append(def.given, [param |-> p, val |-> v])
    BY DEF Given, Definitions
<1>4. Given(def, p, v).given \in Seq([param : Params, val : Values])  BY <1>1, <1>2, <1>3
<1>5. Given(def, p, v) \in Definitions  BY <1>4 DEF Given, Definitions
<1>6. Given(def, p, v).name = def.name /\ Given(def, p, v).plain = def.plain
    BY DEF Given, Definitions
<1>7. Given(def, p, v).given[Len(def.given) + 1] = [param |-> p, val |-> v]  BY <1>1, <1>2, <1>3
<1> QED  BY <1>1, <1>2, <1>3, <1>5, <1>6, <1>7

LEMMA LastAppended ==
    ASSUME NEW def \in Definitions, NEW p \in Params, NEW v \in Values, NEW name, NEW V
    PROVE  LastIn(Given(def, p, v), name, V)
             = IF p = name /\ v \in V THEN {v} ELSE LastIn(def, name, V)
<1> DEFINE new == Given(def, p, v)
           n == Len(def.given)
           Places(d) == {i \in DOMAIN d.given : d.given[i].param = name /\ d.given[i].val \in V}
           Top(S) == {i \in S : \A j \in S : j <= i}
<1>1. n \in Nat /\ DOMAIN def.given = 1 .. n  BY DEF Definitions
<1>2. /\ DOMAIN new.given = 1 .. n + 1
      /\ \A i \in 1 .. n : new.given[i] = def.given[i]
      /\ new.given[n + 1].param = p /\ new.given[n + 1].val = v
    BY GivenType
<1>3. \A d : LastIn(d, name, V) = {d.given[i].val : i \in Top(Places(d))}  BY DEF LastIn
<1> HIDE DEF new
<1>4. CASE p = name /\ v \in V
    <2>1. n + 1 \in Places(new)  BY <1>1, <1>2, <1>4
    <2>2. \A j \in Places(new) : j \in 1 .. n + 1  BY <1>2
    <2>3. Top(Places(new)) = {n + 1}
        <3> HIDE DEF Places
        <3> QED  BY <1>1, <2>1, <2>2
    <2> QED  BY <1>2, <1>3, <1>4, <2>3 DEF new
<1>5. CASE ~(p = name /\ v \in V)
    <2>1. Places(new) = Places(def)  BY <1>1, <1>2, <1>5
    <2>2. \A i \in Top(Places(def)) : i \in 1 .. n  BY <1>1
    <2> HIDE DEF Places, Top, n
    <2>3. {new.given[i].val : i \in Top(Places(new))} = {def.given[i].val : i \in Top(Places(def))}
        BY <1>2, <2>1, <2>2
    <2> QED  BY <1>3, <1>5, <2>3 DEF new
<1> QED  BY <1>4, <1>5

\* The register that a definition says, with one more value.
LEMMA RegisterAppended ==
    ASSUME NEW def \in Definitions, NEW p \in Params, NEW v \in Values,
           IsNumber(v) => Number(v) \in Int
    PROVE  LET new == RegisterOf(Given(def, p, v))
               reg == RegisterOf(def)
           IN  /\ new.base_addr = IF p = "base_addr" /\ IsNumber(v) THEN Number(v) % WordSize
                                  ELSE reg.base_addr
               /\ new.data_width = IF p = "data_width" /\ IsNumber(v) THEN Number(v) % 256
                                   ELSE reg.data_width
               /\ new.readable = IF p = "access" /\ v \in Strings THEN "r" \in Letters(v)
                                 ELSE reg.readable
               /\ new.writable = IF p = "access" /\ v \in Strings THEN "w" \in Letters(v)
                                 ELSE reg.writable
<1> DEFINE new == Given(def, p, v)
           Latest(d, name) == SumSet({Number(val) : val \in LastIn(d, name, Numbers)})
           Access(d) == UNION {Letters(val) : val \in LastIn(d, "access", Strings)}
<1>1. new \in Definitions  BY GivenType
<1>2. \A d \in Definitions :
         RegisterOf(d) = [base_addr |-> Latest(d, "base_addr") % WordSize,
                          data_width |-> Latest(d, "data_width") % 256,
                          readable |-> "r" \in Access(d), writable |-> "w" \in Access(d)]
    BY LastGivenIn DEF RegisterOf
<1>3. v \in Numbers <=> IsNumber(v)  BY DEF Numbers
<1>4. ASSUME NEW name
      PROVE  Latest(new, name) = IF p = name /\ IsNumber(v) THEN Number(v) ELSE Latest(def, name)
    <2>1. LastIn(new, name, Numbers)
            = IF p = name /\ v \in Numbers THEN {v} ELSE LastIn(def, name, Numbers)
        BY LastAppended
    <2>2. CASE p = name /\ IsNumber(v)
        <3>1. {Number(val) : val \in LastIn(new, name, Numbers)} = {Number(v)}
            BY <1>3, <2>1, <2>2
        <3> QED  BY <2>2, <3>1, SumOne
    <2>3. CASE ~(p = name /\ IsNumber(v))
        BY <1>3, <2>1, <2>3
    <2> QED  BY <2>2, <2>3
<1>5. Access(new) = IF p = "access" /\ v \in Strings THEN Letters(v) ELSE Access(def)
    <2>1. LastIn(new, "access", Strings)
            = IF p = "access" /\ v \in Strings THEN {v} ELSE LastIn(def, "access", Strings)
        BY LastAppended
    <2> QED  BY <2>1
<1> HIDE DEF new, Latest, Access
<1>6. RegisterOf(new) = [base_addr |-> Latest(new, "base_addr") % WordSize,
                          data_width |-> Latest(new, "data_width") % 256,
                          readable |-> "r" \in Access(new), writable |-> "w" \in Access(new)]
    BY <1>1, <1>2
<1>7. RegisterOf(def) = [base_addr |-> Latest(def, "base_addr") % WordSize,
                          data_width |-> Latest(def, "data_width") % 256,
                          readable |-> "r" \in Access(def), writable |-> "w" \in Access(def)]
    BY <1>2
<1>8. /\ RegisterOf(new).base_addr = Latest(new, "base_addr") % WordSize
      /\ RegisterOf(new).data_width = Latest(new, "data_width") % 256
      /\ RegisterOf(new).readable = ("r" \in Access(new))
      /\ RegisterOf(new).writable = ("w" \in Access(new))
    BY <1>6
<1>9. /\ RegisterOf(def).base_addr = Latest(def, "base_addr") % WordSize
      /\ RegisterOf(def).data_width = Latest(def, "data_width") % 256
      /\ RegisterOf(def).readable = ("r" \in Access(def))
      /\ RegisterOf(def).writable = ("w" \in Access(def))
    BY <1>7
<1> HIDE DEF new
<1>10. /\ RegisterOf(new).base_addr
            = IF p = "base_addr" /\ IsNumber(v) THEN Number(v) % WordSize
              ELSE RegisterOf(def).base_addr
       /\ RegisterOf(new).data_width
            = IF p = "data_width" /\ IsNumber(v) THEN Number(v) % 256 ELSE RegisterOf(def).data_width
    BY <1>4, <1>8, <1>9
<1>11. /\ RegisterOf(new).readable
            = IF p = "access" /\ v \in Strings THEN "r" \in Letters(v) ELSE RegisterOf(def).readable
       /\ RegisterOf(new).writable
            = IF p = "access" /\ v \in Strings THEN "w" \in Letters(v) ELSE RegisterOf(def).writable
    BY <1>5, <1>8, <1>9
<1> QED  BY <1>10, <1>11 DEF new

LEMMA WellFormedAppended ==
    ASSUME NEW def \in Definitions, NEW p \in Params, NEW v \in Values
    PROVE  WellFormed(Given(def, p, v))
             <=> WellFormed(def) /\ (p # "access" /\ IsNumber(v) => ~OutOfRange(p, Number(v)))
<1> DEFINE n == Len(def.given)
<1>1. n \in Nat /\ DOMAIN def.given = 1 .. n  BY DEF Definitions
<1>2. /\ DOMAIN Given(def, p, v).given = 1 .. n + 1
      /\ \A i \in 1 .. n : Given(def, p, v).given[i] = def.given[i]
      /\ Given(def, p, v).given[n + 1].param = p /\ Given(def, p, v).given[n + 1].val = v
    BY GivenType
<1>3. \A i \in 1 .. n + 1 : i \in 1 .. n \/ i = n + 1  BY <1>1
<1>4. n + 1 \in 1 .. n + 1 /\ 1 .. n \subseteq 1 .. n + 1  BY <1>1
<1> HIDE DEF n
<1> QED  BY <1>1, <1>2, <1>3, <1>4, Zenon DEF WellFormed
----------------------------------------------------------------------------
\* The stack of yajl: a value does not close a map.
LEMMA ReplacedLast ==
    ASSUME NEW S, NEW q \in Seq(S), NEW x \in S
    PROVE  LET r == [q EXCEPT ![Len(q)] = x]
           IN  r \in Seq(S) /\ DOMAIN r = DOMAIN q /\ Len(r) = Len(q)
<1> DEFINE r == [q EXCEPT ![Len(q)] = x]
<1>1. Len(q) \in Nat /\ DOMAIN q = 1 .. Len(q) /\ \A k \in 1 .. Len(q) : q[k] \in S  OBVIOUS
<1>2. DOMAIN r = DOMAIN q /\ \A k \in DOMAIN q : r[k] \in S  BY <1>1
<1>3. r = [k \in 1 .. Len(q) |-> r[k]]  BY <1>1
<1> HIDE DEF r
<1>4. r \in [1 .. Len(q) -> S]  BY <1>1, <1>2, <1>3
<1>5. r \in Seq(S) /\ Len(r) = Len(q)
    <2> DEFINE n == Len(q)
    <2> HIDE DEF n
    <2> SUFFICES ASSUME n \in Nat, r \in [1 .. n -> S] PROVE r \in Seq(S) /\ Len(r) = n
        BY <1>1, <1>4 DEF n
    <2> QED  OBVIOUS
<1> QED  BY <1>2, <1>5 DEF r

LEMMA ValueDoneType ==
    ASSUME nesting \in Seq(Kinds), Inner \in {"root", "value", "array"}
    PROVE  /\ ValueDone \in Seq(Kinds) /\ DOMAIN ValueDone = DOMAIN nesting
           /\ Len(ValueDone) = Len(nesting)
           /\ \A k \in Opened : ValueDone[k] \in {"key", "value"}
<1> DEFINE top == CASE Inner = "root" -> "end" [] Inner = "value" -> "key" [] OTHER -> Inner
<1>1. top \in Kinds /\ (Inner = "value" => top = "key")
    <2>1. CASE Inner = "root"  BY <2>1 DEF Kinds
    <2>2. CASE Inner = "value"  BY <2>2 DEF Kinds
    <2>3. CASE Inner = "array"
        <3>1. top = Inner  BY <2>3
        <3> QED  BY <2>3, <3>1 DEF Kinds
    <2> QED  BY <2>1, <2>2, <2>3
<1>2. ValueDone = [nesting EXCEPT ![Len(nesting)] = top]  BY DEF ValueDone
<1> HIDE DEF top
<1>3. ValueDone \in Seq(Kinds) /\ DOMAIN ValueDone = DOMAIN nesting /\ Len(ValueDone) = Len(nesting)
    BY <1>1, <1>2, ReplacedLast
<1>4. ASSUME NEW k \in Opened PROVE ValueDone[k] \in {"key", "value"}
    <2>1. k \in DOMAIN nesting /\ nesting[k] \in {"key", "value"}  BY DEF Opened
    <2>2. CASE k = Len(nesting)
        <3>1. Inner = "value"  BY <2>1, <2>2 DEF Inner
        <3> QED  BY <1>1, <1>2, <2>1, <2>2, <3>1
    <2>3. CASE k # Len(nesting)  BY <1>2, <2>1, <2>3
    <2> QED  BY <2>2, <2>3
<1> QED  BY <1>3, <1>4

LEMMA DeepKept ==
    ASSUME Deep, depth' = depth, \A k \in Opened : k \in Opened'
    PROVE  Deep'
<1>1. CASE depth = 2
    <2>1. PICK j, k \in Opened : j < k  BY <1>1 DEF Deep
    <2>2. j \in Opened' /\ k \in Opened'  OBVIOUS
    <2> QED  BY <1>1, <2>1, <2>2 DEF Deep
<1>2. CASE depth = 1
    <2>1. PICK k \in Opened : TRUE  BY <1>2 DEF Deep
    <2>2. k \in Opened'  OBVIOUS
    <2> QED  BY <1>2, <2>2 DEF Deep
<1>3. CASE depth # 1 /\ depth # 2  BY <1>3 DEF Deep
<1> QED  BY <1>1, <1>2, <1>3

\* The registers read do not change while a definition goes on.
LEMMA RegistersKept ==
    ASSUME RegistersHold, registers' = registers, Ended' = Ended,
           \A i \in Ended : defined'[i] = defined[i]
    PROVE  RegistersHold'
<1>1. \A name : EndedDefs(name)' = EndedDefs(name)
    <2> TAKE name
    <2> QED  BY Zenon DEF EndedDefs, WellFormed
<1>2. (\A i \in Ended : defined[i].plain) <=> (\A i \in Ended : defined[i].plain)'
    BY Zenon
<1>3. ASSUME NEW name, NEW i \in EndedDefs(name) PROVE RegisterOf(defined'[i]) = RegisterOf(defined[i])
    <2>1. defined'[i] = defined[i]  BY Zenon DEF EndedDefs
    <2> QED  BY <2>1
<1>4. CASE \A i \in Ended : defined[i].plain
    <2>1. /\ DOMAIN registers \ {Meta} = {name \in RegNames : EndedDefs(name) # {}}
          /\ \A name \in DOMAIN registers \ {Meta} :
               \E i \in EndedDefs(name) :
                   /\ \A j \in EndedDefs(name) : j <= i
                   /\ registers[name] = RegisterOf(defined[i])
        BY <1>4, Zenon DEF RegistersHold
    <2>2. DOMAIN registers' \ {Meta} = {name \in RegNames : EndedDefs(name)' # {}}
        BY <1>1, <2>1, Zenon
    <2>3. ASSUME NEW name \in DOMAIN registers' \ {Meta}
          PROVE  \E i \in EndedDefs(name)' :
                   /\ \A j \in EndedDefs(name)' : j <= i
                   /\ registers'[name] = RegisterOf(defined'[i])
        <3>1. PICK i \in EndedDefs(name) : /\ \A j \in EndedDefs(name) : j <= i
                                           /\ registers[name] = RegisterOf(defined[i])
            BY <2>1, <2>3, Zenon
        <3> QED  BY <1>1, <1>3, <3>1, Zenon
    <2> QED  BY <2>2, <2>3, Zenon DEF RegistersHold
<1> QED  BY <1>2, <1>4 DEF RegistersHold
----------------------------------------------------------------------------
\* What the calls for a number and for a text have in common.
IllFormed(v) == param # "access" /\ IsNumber(v) /\ OutOfRange(param, Number(v))

Updated(v) ==
    [base_addr |-> IF param = "base_addr" /\ IsNumber(v) THEN Number(v) % WordSize
                   ELSE scratch.base_addr,
     data_width |-> IF param = "data_width" /\ IsNumber(v) THEN Number(v) % 256
                    ELSE scratch.data_width,
     readable |-> IF param = "access" /\ v \in Strings THEN "r" \in Letters(v) ELSE scratch.readable,
     writable |-> IF param = "access" /\ v \in Strings THEN "w" \in Letters(v) ELSE scratch.writable]

IsRegister(reg) ==
    reg = [base_addr |-> reg.base_addr, data_width |-> reg.data_width,
           readable |-> reg.readable, writable |-> reg.writable]

Takes(v) ==
    /\ nesting' = ValueDone /\ Inner \in {"root", "value", "array"}
    /\ defined' = Noted(v)
    /\ UNCHANGED <<jsonPhase, depth, inMetadata, regname, param, registers>>
    /\ depth # 2 => UNCHANGED <<scratch, ignoreScratch, info32>>
    /\ depth = 2 /\ inMetadata =>
           /\ UNCHANGED <<scratch, ignoreScratch>>
           /\ info32' = IF v \in Ints
                        THEN [p \in DOMAIN info32 \cup {param} |->
                                 IF p = param THEN Signed(v) ELSE info32[p]]
                        ELSE info32
    /\ depth = 2 /\ ~inMetadata =>
           /\ UNCHANGED info32
           /\ ignoreScratch' = (ignoreScratch \/ IllFormed(v))
           /\ ~ignoreScratch' /\ IsRegister(scratch) => scratch' = Updated(v)

LEMMA TakesNumber ==
    ASSUME param \in Params, NEW v \in Values, NEW n \in Int, IsNumber(v), n = Number(v),
           depth = 2, ~inMetadata, v \in Strings => param # "access",
           TakeInteger(n)
    PROVE  /\ UNCHANGED info32
           /\ ignoreScratch' = (ignoreScratch \/ IllFormed(v))
           /\ ~ignoreScratch' /\ IsRegister(scratch) => scratch' = Updated(v)
<1>1. UNCHANGED info32  BY DEF TakeInteger
<1>2. IllFormed(v) <=> OutOfRange(param, n)
    <2>1. param = "access" => ~OutOfRange(param, n)  BY DEF OutOfRange
    <2> QED  BY <2>1 DEF IllFormed
<1>3. IllFormed(v) \in BOOLEAN  BY DEF IllFormed
<1>4. ignoreScratch' = (ignoreScratch \/ IllFormed(v))
    BY <1>2, <1>3 DEF TakeInteger
<1>5. ASSUME ~ignoreScratch', IsRegister(scratch) PROVE scratch' = Updated(v)
    <2>1. ~OutOfRange(param, n)  BY <1>2, <1>4, <1>5
    <2>2. scratch' = IF param \in {"base_addr", "data_width"}
                     THEN [scratch EXCEPT ![param] = Stored(param, n)]
                     ELSE scratch
        BY <2>1 DEF TakeInteger
    <2>3. CASE param = "base_addr"
        <3>1. scratch' = [scratch EXCEPT !["base_addr"] = n % WordSize]  BY <2>2, <2>3 DEF Stored
        <3>2. scratch' = [base_addr |-> n % WordSize, data_width |-> scratch.data_width,
                          readable |-> scratch.readable, writable |-> scratch.writable]
            BY <1>5, <3>1 DEF IsRegister
        <3> QED  BY <2>3, <3>2 DEF Updated
    <2>4. CASE param = "data_width"
        <3>1. scratch' = [scratch EXCEPT !["data_width"] = n % 256]  BY <2>2, <2>4 DEF Stored
        <3>2. scratch' = [base_addr |-> scratch.base_addr, data_width |-> n % 256,
                          readable |-> scratch.readable, writable |-> scratch.writable]
            BY <1>5, <3>1 DEF IsRegister
        <3> QED  BY <2>4, <3>2 DEF Updated
    <2>5. CASE param \notin {"base_addr", "data_width"}
        <3>1. scratch' = scratch  BY <2>2, <2>5
        <3>2. ~(param = "access" /\ v \in Strings)  OBVIOUS
        <3>3. Updated(v) = [base_addr |-> scratch.base_addr, data_width |-> scratch.data_width,
                            readable |-> scratch.readable, writable |-> scratch.writable]
            BY <2>5, <3>2 DEF Updated
        <3> QED  BY <1>5, <3>1, <3>3 DEF IsRegister
    <2> QED  BY <2>3, <2>4, <2>5
<1> QED  BY <1>1, <1>4, <1>5

LEMMA IntegerTakes ==
    ASSUME param \in Params, inMetadata \in BOOLEAN, NEW v \in Ints, Integer(v)
    PROVE  Takes(v)
<1>1. v \in Values /\ v \in Int /\ v \notin Strings /\ Number(v) = v /\ IsNumber(v)
    BY DocumentAssumption DEF Values, Number, IsNumber
<1>2. TakeInteger(v)  BY DEF Integer
<1>3. depth # 2 => UNCHANGED <<scratch, ignoreScratch, info32>>  BY <1>2 DEF TakeInteger
<1>4. depth = 2 /\ inMetadata =>
           /\ UNCHANGED <<scratch, ignoreScratch>>
           /\ info32' = [p \in DOMAIN info32 \cup {param} |->
                             IF p = param THEN Signed(v) ELSE info32[p]]
    BY <1>2 DEF TakeInteger
<1>5. depth = 2 /\ ~inMetadata =>
           /\ UNCHANGED info32
           /\ ignoreScratch' = (ignoreScratch \/ IllFormed(v))
           /\ ~ignoreScratch' /\ IsRegister(scratch) => scratch' = Updated(v)
    BY <1>1, <1>2, TakesNumber
<1> QED  BY <1>3, <1>4, <1>5 DEF Takes, Integer, TakesValue

LEMMA StringTakes ==
    ASSUME param \in Params, inMetadata \in BOOLEAN, ignoreScratch \in BOOLEAN, NEW v \in Strings,
           String(v)
    PROVE  Takes(v)
<1>1. v \in Values /\ v \notin Ints /\ Number(v) = IntOf(v) /\ (IsNumber(v) <=> IntOf(v) # NoInt)
    BY DocumentAssumption DEF Values, Number, IsNumber
<1>2. depth # 2 \/ inMetadata => UNCHANGED <<scratch, ignoreScratch, info32>>
    BY DEF String
<1>3. ASSUME depth = 2, ~inMetadata
      PROVE  /\ UNCHANGED info32
             /\ ignoreScratch' = (ignoreScratch \/ IllFormed(v))
             /\ ~ignoreScratch' /\ IsRegister(scratch) => scratch' = Updated(v)
    <2>1. CASE param = "access"
        <3>1. scratch' = [scratch EXCEPT !.readable = "r" \in Letters(v),
                                         !.writable = "w" \in Letters(v)]
              /\ UNCHANGED <<info32, ignoreScratch>>
            BY <1>3, <2>1 DEF String
        <3>2. ~IllFormed(v)  BY <2>1 DEF IllFormed
        <3>3. ASSUME IsRegister(scratch) PROVE scratch' = Updated(v)
            <4>1. scratch' = [base_addr |-> scratch.base_addr, data_width |-> scratch.data_width,
                              readable |-> "r" \in Letters(v), writable |-> "w" \in Letters(v)]
                BY <3>1, <3>3 DEF IsRegister
            <4> QED  BY <2>1, <4>1 DEF Updated
        <3> QED  BY <3>1, <3>2, <3>3
    <2>2. CASE param # "access" /\ IntOf(v) # NoInt
        <3>1. TakeInteger(IntOf(v))  BY <1>3, <2>2 DEF String
        <3>2. IntOf(v) \in Int  BY <2>2, DocumentAssumption
        <3> QED  BY <1>1, <1>3, <2>2, <3>1, <3>2, TakesNumber
    <2>3. CASE param # "access" /\ IntOf(v) = NoInt
        <3>1. UNCHANGED <<scratch, info32, ignoreScratch>>  BY <1>3, <2>3 DEF String
        <3>2. ~IllFormed(v) /\ ~IsNumber(v)  BY <1>1, <2>3 DEF IllFormed
        <3>3. Updated(v) = [base_addr |-> scratch.base_addr, data_width |-> scratch.data_width,
                            readable |-> scratch.readable, writable |-> scratch.writable]
            BY <2>3, <3>2 DEF Updated
        <3> QED  BY <3>1, <3>2, <3>3 DEF IsRegister
    <2> QED  BY <2>1, <2>2, <2>3
<1> QED  BY <1>1, <1>2, <1>3 DEF Takes, String, TakesValue
LEMMA RegisterOfRecord == ASSUME NEW def PROVE IsRegister(RegisterOf(def))
    BY DEF IsRegister, RegisterOf

\* At depth 2, what is noted is noted of the current definition.
LEMMA NotedCurrent ==
    ASSUME DocumentType, ScratchHolds, depth = 2, NEW v \in Values, defined' = Noted(v)
    PROVE  /\ defined' \in Seq(Definitions) /\ Len(defined') = Len(defined)
           /\ DOMAIN defined' = DOMAIN defined /\ Len(defined) \in DOMAIN defined
           /\ DOMAIN defined = 1 .. Len(defined) /\ Len(defined) \in Nat \ {0}
           /\ Current \in Definitions
           /\ defined'[Len(defined)] = Given(Current, param, v)
           /\ \A i \in DOMAIN defined : i # Len(defined) => defined'[i] = defined[i]
<1> DEFINE n == Len(defined)
<1>1. defined \in Seq(Definitions) /\ defined # <<>> /\ param \in Params
    BY DEF DocumentType, ScratchHolds
<1>2. n \in Nat \ {0} /\ DOMAIN defined = 1 .. n  BY <1>1
<1>3. n \in DOMAIN defined /\ defined[n] \in Definitions  BY <1>1, <1>2
<1>4. Given(defined[n], param, v) \in Definitions  BY <1>1, <1>3, GivenType
<1>5. defined' = [defined EXCEPT ![n] = Given(defined[n], param, v)]
    BY DEF Noted, Given
<1>6. defined' \in Seq(Definitions) /\ DOMAIN defined' = DOMAIN defined /\ Len(defined') = Len(defined)
    BY <1>1, <1>4, <1>5, ReplacedLast
<1>7. defined'[n] = Given(defined[n], param, v)  BY <1>3, <1>5
<1>8. \A i \in DOMAIN defined : i # n => defined'[i] = defined[i]  BY <1>5
<1> QED  BY <1>2, <1>3, <1>6, <1>7, <1>8 DEF Current

LEMMA TakesInfo ==
    ASSUME DocumentType, ScratchHolds, InfoHolds, NEW v \in Values, Takes(v), depth = 2
    PROVE  InfoHolds'
<1> DEFINE n == Len(defined)
           g == Len(Current.given) + 1
<1>1. /\ DOMAIN defined' = DOMAIN defined /\ n \in DOMAIN defined
      /\ Current \in Definitions /\ defined'[n] = Given(Current, param, v)
      /\ \A i \in DOMAIN defined : i # n => defined'[i] = defined[i]
    BY NotedCurrent DEF Takes
<1>2. Current = defined[n]  BY DEF Current
<1>3. param \in Params  BY DEF DocumentType
<1>4. /\ DOMAIN defined'[n].given = 1 .. g
      /\ \A k \in 1 .. g - 1 : defined'[n].given[k] = Current.given[k]
      /\ defined'[n].given[g].param = param /\ defined'[n].given[g].val = v
      /\ defined'[n].name = Current.name /\ defined'[n].plain = Current.plain
    BY <1>1, <1>3, GivenType
<1>5. g - 1 \in Nat /\ DOMAIN Current.given = 1 .. g - 1 /\ g \in 1 .. g
    BY <1>1 DEF Definitions
<1> HIDE DEF n, g
<1>6. \A i \in DOMAIN defined : /\ defined'[i].name = defined[i].name
                                /\ defined'[i].plain = defined[i].plain
    BY <1>1, <1>2, <1>4
<1>7. SUFFICES ASSUME AllPlain'
               PROVE  /\ \A p \in DOMAIN info32' : \E i \in MetaDefs' : \E k \in DOMAIN defined'[i].given :
                           Says(defined'[i].given[k], p, info32'[p])
                      /\ \A i \in MetaDefs' : \A k \in DOMAIN defined'[i].given :
                           defined'[i].given[k].val \in Ints
                             => defined'[i].given[k].param \in DOMAIN info32'
    BY DEF InfoHolds
<1>8. AllPlain  BY <1>1, <1>6, <1>7 DEF AllPlain
<1>9. MetaDefs' = MetaDefs  BY <1>1, <1>6 DEF MetaDefs
<1>10. /\ \A p \in DOMAIN info32 : \E i \in MetaDefs : \E k \in DOMAIN defined[i].given :
               Says(defined[i].given[k], p, info32[p])
       /\ \A i \in MetaDefs : \A k \in DOMAIN defined[i].given :
               defined[i].given[k].val \in Ints => defined[i].given[k].param \in DOMAIN info32
    BY <1>8 DEF InfoHolds
<1>11. n \in MetaDefs <=> inMetadata
    <2>1. Current.name = regname /\ Current.plain = (inMetadata = (regname = Meta)) /\ Current.plain
        BY <1>1, <1>2, <1>8 DEF ScratchHolds, AllPlain
    <2> QED  BY <1>1, <1>2, <2>1 DEF MetaDefs, DocumentType
\* What a definition has given stays.
<1>12. ASSUME NEW i \in DOMAIN defined, NEW k \in DOMAIN defined[i].given
       PROVE  k \in DOMAIN defined'[i].given /\ defined'[i].given[k] = defined[i].given[k]
    <2>1. CASE i = n
        <3>1. k \in 1 .. g - 1  BY <1>2, <1>5, <2>1
        <3> QED  BY <1>2, <1>4, <1>5, <2>1, <3>1
    <2>2. CASE i # n  BY <1>1, <2>2
    <2> QED  BY <2>1, <2>2
<1>13. ASSUME NEW i \in DOMAIN defined, NEW k \in DOMAIN defined'[i].given
       PROVE  \/ k \in DOMAIN defined[i].given /\ defined'[i].given[k] = defined[i].given[k]
              \/ i = n /\ k = g
    <2>1. CASE i = n
        <3>1. k \in 1 .. g - 1 \/ k = g  BY <1>4, <1>5, <2>1
        <3> QED  BY <1>2, <1>4, <1>5, <2>1, <3>1
    <2>2. CASE i # n  BY <1>1, <2>2
    <2> QED  BY <2>1, <2>2
<1>14. DOMAIN info32 \subseteq DOMAIN info32'
       /\ (inMetadata /\ v \in Ints => param \in DOMAIN info32' /\ info32'[param] = Signed(v))
       /\ \A p \in DOMAIN info32' : \/ p \in DOMAIN info32 /\ info32'[p] = info32[p]
                                    \/ p = param /\ inMetadata /\ v \in Ints /\ info32'[p] = Signed(v)
    <2>1. CASE inMetadata /\ v \in Ints
        <3>1. info32' = [p \in DOMAIN info32 \cup {param} |-> IF p = param THEN Signed(v) ELSE info32[p]]
            BY <2>1 DEF Takes
        <3> QED  BY <2>1, <3>1
    <2>2. CASE ~(inMetadata /\ v \in Ints)
        <3>1. info32' = info32  BY <2>2 DEF Takes, DocumentType
        <3> QED  BY <2>2, <3>1
    <2> QED  BY <2>1, <2>2
<1>15. ASSUME NEW p \in DOMAIN info32'
       PROVE  \E i \in MetaDefs : \E k \in DOMAIN defined'[i].given :
                  Says(defined'[i].given[k], p, info32'[p])
    <2>1. CASE p \in DOMAIN info32 /\ info32'[p] = info32[p]
        <3>1. PICK i \in MetaDefs : \E k \in DOMAIN defined[i].given :
                  Says(defined[i].given[k], p, info32[p])
            BY <1>10, <2>1
        <3>2. PICK k \in DOMAIN defined[i].given :
                  Says(defined[i].given[k], p, info32[p])
            BY <3>1
        <3>3. i \in DOMAIN defined  BY <3>1 DEF MetaDefs
        <3>4. k \in DOMAIN defined'[i].given /\ defined'[i].given[k] = defined[i].given[k]
            BY <1>12, <3>3
        <3> QED  BY <2>1, <3>1, <3>2, <3>4
    <2>2. CASE p = param /\ inMetadata /\ v \in Ints /\ info32'[p] = Signed(v)
        <3>1. n \in MetaDefs /\ g \in DOMAIN defined'[n].given  BY <1>4, <1>5, <1>11, <2>2
        <3>2. Says(defined'[n].given[g], p, info32'[p])  BY <1>4, <2>2 DEF Says
        <3> QED  BY <3>1, <3>2
    <2> QED  BY <1>14, <2>1, <2>2
<1>16. ASSUME NEW i \in MetaDefs, NEW k \in DOMAIN defined'[i].given, defined'[i].given[k].val \in Ints
       PROVE  defined'[i].given[k].param \in DOMAIN info32'
    <2>1. i \in DOMAIN defined  BY DEF MetaDefs
    <2>2. CASE k \in DOMAIN defined[i].given /\ defined'[i].given[k] = defined[i].given[k]
        <3>1. defined[i].given[k].param \in DOMAIN info32  BY <1>10, <1>16, <2>2
        <3> QED  BY <1>14, <2>2, <3>1
    <2>3. CASE i = n /\ k = g
        BY <1>4, <1>11, <1>14, <1>16, <2>3
    <2> QED  BY <1>13, <2>1, <2>2, <2>3
<1> QED  BY <1>9, <1>15, <1>16

LEMMA TakesScratch ==
    ASSUME DocumentType, ScratchHolds, NEW v \in Values, Takes(v), depth = 2
    PROVE  ScratchHolds'
<1>1. /\ Len(defined') = Len(defined) /\ Len(defined) \in Nat \ {0}
      /\ defined' \in Seq(Definitions)
      /\ Current \in Definitions /\ defined'[Len(defined)] = Given(Current, param, v)
    BY NotedCurrent DEF Takes
<1>2. Current' = Given(Current, param, v) /\ defined' # <<>>
    BY <1>1 DEF Current
<1>3. param \in Params /\ inMetadata \in BOOLEAN /\ ignoreScratch \in BOOLEAN  BY DEF DocumentType
<1>4. Current'.name = Current.name /\ Current'.plain = Current.plain
    BY <1>1, <1>2, <1>3, GivenType
<1>5. UNCHANGED <<depth, inMetadata, regname>>  BY DEF Takes
<1>6. Current'.name = regname' /\ Current'.plain = (inMetadata' = (regname' = Meta))
    BY <1>4, <1>5 DEF ScratchHolds
<1>7. inMetadata' => scratch' = Blank /\ ~ignoreScratch'
    BY <1>5 DEF ScratchHolds, Takes
<1>8. ASSUME ~inMetadata'
      PROVE  ignoreScratch' = ~WellFormed(Current') /\ (~ignoreScratch' => scratch' = RegisterOf(Current'))
    <2>1. ~inMetadata /\ ignoreScratch = ~WellFormed(Current)
          /\ (~ignoreScratch => scratch = RegisterOf(Current))
        BY <1>5, <1>8 DEF ScratchHolds
    <2>2. ignoreScratch' = (ignoreScratch \/ IllFormed(v))
          /\ (~ignoreScratch' /\ IsRegister(scratch) => scratch' = Updated(v))
        BY <2>1 DEF Takes
    <2>3. WellFormed(Current') <=> WellFormed(Current) /\ ~IllFormed(v)
        BY <1>1, <1>2, <1>3, WellFormedAppended DEF IllFormed
    <2>4. WellFormed(Current') \in BOOLEAN /\ WellFormed(Current) \in BOOLEAN /\ IllFormed(v) \in BOOLEAN
        BY DEF WellFormed, IllFormed
    <2>5. ignoreScratch' = ~WellFormed(Current')
        BY <2>1, <2>2, <2>3, <2>4
    <2>6. ASSUME ~ignoreScratch' PROVE scratch' = RegisterOf(Current')
        <3>1. scratch = RegisterOf(Current)  BY <2>1, <2>2, <2>6
        <3>2. scratch' = Updated(v)  BY <2>2, <2>6, <3>1, RegisterOfRecord
        <3>3. IsNumber(v) => Number(v) \in Int
            BY DocumentAssumption DEF IsNumber, Number, Values
        <3> DEFINE new == RegisterOf(Given(Current, param, v))
        <3>4. /\ new.base_addr = IF param = "base_addr" /\ IsNumber(v) THEN Number(v) % WordSize
                                 ELSE scratch.base_addr
              /\ new.data_width = IF param = "data_width" /\ IsNumber(v) THEN Number(v) % 256
                                  ELSE scratch.data_width
              /\ new.readable = IF param = "access" /\ v \in Strings THEN "r" \in Letters(v)
                                ELSE scratch.readable
              /\ new.writable = IF param = "access" /\ v \in Strings THEN "w" \in Letters(v)
                                ELSE scratch.writable
            BY <1>1, <1>3, <3>1, <3>3, RegisterAppended
        <3>5. IsRegister(new)  BY RegisterOfRecord
        <3> HIDE DEF new
        <3>6. new = Updated(v)  BY <3>4, <3>5 DEF IsRegister, Updated
        <3> QED  BY <1>2, <3>2, <3>6 DEF new
    <2> QED  BY <2>5, <2>6
<1>9. depth' = 2  BY <1>5
<1> QED  BY <1>2, <1>6, <1>7, <1>8, <1>9 DEF ScratchHolds

LEMMA TakesStep == ASSUME Holds, NEW v \in Values, Takes(v) PROVE Holds'
<1> USE DEF Holds
<1>1. /\ nesting' = ValueDone /\ Inner \in {"root", "value", "array"}
      /\ UNCHANGED <<jsonPhase, depth, inMetadata, regname, param, registers>>
    BY DEF Takes
<1>2. nesting \in Seq(Kinds)  BY DEF DocumentType
<1>3. /\ nesting' \in Seq(Kinds) /\ DOMAIN nesting' = DOMAIN nesting
      /\ \A k \in Opened : nesting'[k] \in {"key", "value"}
    BY <1>1, <1>2, ValueDoneType
<1>4. Deep'
    <2>1. \A k \in Opened : k \in Opened'  BY <1>3 DEF Opened
    <2> QED  BY <1>1, <2>1, DeepKept
<1>5. Named'
    <2>1. Inner # "key"  BY <1>1
    <2> QED  BY <1>1, <2>1 DEF Named
<1>6. CASE depth = 2
    <2>1. /\ defined' \in Seq(Definitions) /\ Len(defined') = Len(defined)
          /\ DOMAIN defined' = DOMAIN defined
          /\ DOMAIN defined = 1 .. Len(defined) /\ Len(defined) \in Nat \ {0}
          /\ \A i \in DOMAIN defined : i # Len(defined) => defined'[i] = defined[i]
        BY <1>6, NotedCurrent DEF Takes
    <2>2. ScratchHolds' /\ InfoHolds'  BY <1>6, TakesScratch, TakesInfo
    <2>3. ignoreScratch' \in BOOLEAN
        BY <1>6 DEF Takes, DocumentType
    <2>4. DocumentType'  BY <1>1, <1>3, <2>1, <2>3 DEF DocumentType
    <2>5. RegistersHold'
        <3>1. Ended' = Ended  BY <1>1, <2>1 DEF Ended
        <3>2. \A i \in Ended : defined'[i] = defined[i]  BY <1>6, <2>1 DEF Ended
        <3> QED  BY <1>1, <3>1, <3>2, RegistersKept
    <2> QED  BY <1>4, <1>5, <2>2, <2>4, <2>5
<1>7. CASE depth # 2
    <2>1. UNCHANGED <<defined, scratch, ignoreScratch, info32>>  BY <1>7 DEF Takes, Noted
    <2>2. DocumentType'  BY <1>1, <1>3, <2>1 DEF DocumentType
    <2>3. ScratchHolds'  BY <1>1, <1>7, <2>1 DEF ScratchHolds
    <2>4. RegistersHold'
        <3>1. Ended' = Ended /\ \A i \in Ended : defined'[i] = defined[i]  BY <1>1, <2>1 DEF Ended
        <3> QED  BY <1>1, <3>1, RegistersKept
    <2>5. InfoHolds'  BY <2>1 DEF InfoHolds, AllPlain, MetaDefs
    <2> QED  BY <1>4, <1>5, <2>2, <2>3, <2>4, <2>5
<1> QED  BY <1>6, <1>7
----------------------------------------------------------------------------
\* The calls that open and close maps and arrays.
LEMMA Pushed ==
    ASSUME NEW S, NEW q \in Seq(S), NEW x \in S
    PROVE  /\ Append(q, x) \in Seq(S) /\ Len(Append(q, x)) = Len(q) + 1
           /\ Append(q, x)[Len(q) + 1] = x /\ Len(q) \in Nat
           /\ DOMAIN Append(q, x) = 1 .. Len(q) + 1 /\ DOMAIN q = 1 .. Len(q)
           /\ \A k \in 1 .. Len(q) : Append(q, x)[k] = q[k]
    OBVIOUS

LEMMA Popped ==
    ASSUME NEW S, NEW q \in Seq(S)
    PROVE  /\ Front(q) \in Seq(S)
           /\ \A k \in DOMAIN q : k # Len(q) => k \in DOMAIN Front(q) /\ Front(q)[k] = q[k]
<1>1. Len(q) \in Nat /\ DOMAIN q = 1 .. Len(q)  OBVIOUS
<1>2. Front(q) \in Seq(S)  BY DEF Front
<1>3. Len(q) # 0 => DOMAIN Front(q) = 1 .. Len(q) - 1 /\ \A k \in 1 .. Len(q) - 1 : Front(q)[k] = q[k]
    BY DEF Front
<1> QED  BY <1>1, <1>2, <1>3

LEMMA ArrayStep == ASSUME Holds, Array PROVE Holds'
<1> USE DEF Holds
<1>1. UNCHANGED <<jsonPhase, depth, inMetadata, ignoreScratch, regname, param, scratch, registers,
                  info32, defined>>
    BY DEF Array
<1>2. nesting \in Seq(Kinds)  BY DEF DocumentType
<1>3. Inner # "key" /\ nesting' \in Seq(Kinds) /\ \A k \in Opened : k \in Opened'
    <2>1. CASE TakesValue /\ nesting' = Append(ValueDone, "array")
        <3>1. Inner \in {"root", "value", "array"}  BY <2>1 DEF TakesValue
        <3>2. ValueDone \in Seq(Kinds) /\ DOMAIN ValueDone = DOMAIN nesting
              /\ \A k \in Opened : ValueDone[k] \in {"key", "value"}
            BY <1>2, <3>1, ValueDoneType
        <3>3. "array" \in Kinds  BY DEF Kinds
        <3>4. nesting' \in Seq(Kinds)
              /\ \A k \in DOMAIN ValueDone : k \in DOMAIN nesting' /\ nesting'[k] = ValueDone[k]
            BY <2>1, <3>2, <3>3, Pushed
        <3> QED  BY <3>1, <3>2, <3>4 DEF Opened
    <2>2. CASE Event /\ Inner = "array" /\ nesting' = Front(nesting)
        <3>1. \A k \in Opened : k # Len(nesting)  BY <2>2 DEF Opened, Inner
        <3>2. /\ nesting' \in Seq(Kinds)
              /\ \A k \in DOMAIN nesting : k # Len(nesting)
                    => k \in DOMAIN nesting' /\ nesting'[k] = nesting[k]
            BY <1>2, <2>2, Popped
        <3> QED  BY <2>2, <3>1, <3>2 DEF Opened
    <2> QED  BY <2>1, <2>2 DEF Array
<1>4. DocumentType'  BY <1>1, <1>3 DEF DocumentType
<1>5. Deep'  BY <1>1, <1>3, DeepKept
<1>6. Named'  BY <1>1, <1>3 DEF Named
<1>7. ScratchHolds'  BY <1>1 DEF ScratchHolds, Current
<1>8. RegistersHold'
    <2>1. Ended' = Ended /\ \A i \in Ended : defined'[i] = defined[i]  BY <1>1 DEF Ended
    <2> QED  BY <1>1, <2>1, RegistersKept
<1>9. InfoHolds'  BY <1>1 DEF InfoHolds, AllPlain, MetaDefs
<1> QED  BY <1>4, <1>5, <1>6, <1>7, <1>8, <1>9

LEMMA MapKeyStep ==
    ASSUME Holds, NEW key, MapKey(key),
           key \in IF depth = 1 THEN Names ELSE {"base_addr", "data_width", "access"}
    PROVE  Holds'
<1> USE DEF Holds
<1>1. UNCHANGED <<jsonPhase, depth, ignoreScratch, scratch, registers, info32, defined>>
      /\ Inner = "key" /\ nesting' = [nesting EXCEPT ![Len(nesting)] = "value"]
    BY DEF MapKey
<1>2. nesting \in Seq(Kinds) /\ "value" \in Kinds  BY DEF DocumentType, Kinds
<1>3. nesting' \in Seq(Kinds) /\ DOMAIN nesting' = DOMAIN nesting  BY <1>1, <1>2, ReplacedLast
<1>4. \A k \in Opened : k \in Opened'  BY <1>1, <1>2, <1>3 DEF Opened
<1>5. IF depth = 1
      THEN regname' \in Names /\ regname' = key /\ inMetadata' \in BOOLEAN /\ param' = param
      ELSE param' \in Params /\ UNCHANGED <<regname, inMetadata>>
    BY DEF MapKey, Params
<1>6. DocumentType'  BY <1>1, <1>3, <1>5 DEF DocumentType
<1>7. Deep'  BY <1>1, <1>4, DeepKept
<1>8. Named'  BY <1>1, <1>5 DEF Named
<1>9. ScratchHolds'  BY <1>1, <1>5 DEF ScratchHolds, Current
<1>10. RegistersHold'
    <2>1. Ended' = Ended /\ \A i \in Ended : defined'[i] = defined[i]  BY <1>1 DEF Ended
    <2> QED  BY <1>1, <2>1, RegistersKept
<1>11. InfoHolds'  BY <1>1 DEF InfoHolds, AllPlain, MetaDefs
<1> QED  BY <1>6, <1>7, <1>8, <1>9, <1>10, <1>11

\* A new definition has given nothing.
LEMMA BlankRegister ==
    ASSUME NEW def \in Definitions, def.given = <<>>
    PROVE  WellFormed(def) /\ RegisterOf(def) = Blank
<1> DEFINE Latest(name) == SumSet({Number(val) : val \in LastIn(def, name, Numbers)})
           Access == UNION {Letters(val) : val \in LastIn(def, "access", Strings)}
<1>1. DOMAIN def.given = {}  OBVIOUS
<1>2. RegisterOf(def) = [base_addr |-> Latest("base_addr") % WordSize, data_width |-> Latest("data_width") % 256,
                         readable |-> "r" \in Access, writable |-> "w" \in Access]
    BY LastGivenIn DEF RegisterOf
<1>3. WellFormed(def)  BY <1>1 DEF WellFormed
<1>4. \A name, V : LastIn(def, name, V) = {}  BY <1>1 DEF LastIn
<1>5. \A name : Latest(name) = 0
    <2> TAKE name
    <2>1. {Number(val) : val \in LastIn(def, name, Numbers)} = {}  BY <1>4
    <2> QED  BY <2>1, SumEmpty
<1>6. Access = {}  BY <1>4
<1> HIDE DEF Latest, Access
<1>7. ("r" \in Access) = FALSE /\ ("w" \in Access) = FALSE  BY <1>6
<1>8. Latest("base_addr") % WordSize = 0 /\ Latest("data_width") % 256 = 0
    BY <1>5, DocumentAssumption
<1>9. RegisterOf(def) = Blank  BY <1>2, <1>7, <1>8, Zenon DEF Blank
<1> QED  BY <1>3, <1>9

LEMMA StartMapStep == ASSUME Holds, StartMap, depth # 2 PROVE Holds'
<1> USE DEF Holds
<1>1. /\ Inner \in {"root", "value", "array"} /\ nesting' = Append(ValueDone, "key")
      /\ depth' = depth + 1 /\ jsonPhase' = jsonPhase
      /\ UNCHANGED <<inMetadata, regname, param, scratch, registers, info32>>
    BY DEF StartMap, TakesValue
<1>2. nesting \in Seq(Kinds) /\ "key" \in Kinds /\ depth \in {0, 1}
    <2>1. "key" \in Kinds  BY DEF Kinds
    <2>2. nesting \in Seq(Kinds) /\ depth \in 0 .. 2  BY DEF DocumentType
    <2> QED  BY <2>1, <2>2
<1>3. ValueDone \in Seq(Kinds) /\ DOMAIN ValueDone = DOMAIN nesting /\ Len(ValueDone) = Len(nesting)
      /\ \A k \in Opened : ValueDone[k] \in {"key", "value"}
    BY <1>1, <1>2, ValueDoneType
<1> DEFINE n == Len(ValueDone)
<1>4. /\ nesting' \in Seq(Kinds) /\ Len(nesting') = n + 1 /\ nesting'[n + 1] = "key"
      /\ n \in Nat /\ DOMAIN nesting' = 1 .. n + 1 /\ DOMAIN ValueDone = 1 .. n
      /\ \A k \in 1 .. n : nesting'[k] = ValueDone[k]
    BY <1>1, <1>2, <1>3, Pushed
<1>10. nesting' \in Seq(Kinds)  BY <1>4
<1> HIDE DEF n
<1>5. Inner' = "key"  BY <1>4 DEF Inner
<1>6. n + 1 \in Opened' /\ \A k \in Opened : k \in Opened' /\ k < n + 1
    BY <1>3, <1>4 DEF Opened
<1>7. Deep'
    <2>1. depth = 1 => \E k \in Opened : TRUE  BY DEF Deep
    <2> QED  BY <1>1, <1>2, <1>6, <2>1 DEF Deep
<1>8. CASE depth = 0
    <2>1. UNCHANGED <<defined, ignoreScratch>> /\ depth' = 1  BY <1>1, <1>8 DEF StartMap
    <2>2. DocumentType'
        <3>1. depth' \in 0 .. 2 /\ UNCHANGED <<jsonPhase, inMetadata, ignoreScratch, regname, param, defined>>
            BY <1>1, <2>1
        <3> QED  BY <1>10, <3>1 DEF DocumentType
    <2>3. Named'  BY <1>5, <2>1 DEF Named
    <2>4. ScratchHolds'  BY <1>1, <1>8, <2>1 DEF ScratchHolds
    <2>5. RegistersHold'
        <3>1. Ended' = Ended /\ \A i \in Ended : defined'[i] = defined[i]  BY <1>8, <2>1 DEF Ended
        <3> QED  BY <1>1, <3>1, RegistersKept
    <2>6. InfoHolds'  BY <1>1, <2>1 DEF InfoHolds, AllPlain, MetaDefs
    <2> QED  BY <1>7, <2>2, <2>3, <2>4, <2>5, <2>6
<1>9. CASE depth = 1
    <2> DEFINE new == [name |-> regname, given |-> <<>>, plain |-> inMetadata = (regname = Meta)]
               m == Len(defined)
    <2>1. defined' = Append(defined, new) /\ ignoreScratch' = FALSE /\ depth' = 2
        BY <1>1, <1>9 DEF StartMap
    <2>2. regname \in Names  BY <1>1, <1>9 DEF Named
    <2>3. new \in Definitions
        <3>1. <<>> \in Seq([param : Params, val : Values])  OBVIOUS
        <3>2. (inMetadata = (regname = Meta)) \in BOOLEAN  OBVIOUS
        <3> QED  BY <2>2, <3>1, <3>2 DEF Definitions
    <2>4. new.name = regname /\ new.plain = (inMetadata = (regname = Meta)) /\ new.given = <<>>
        OBVIOUS
    <2> HIDE DEF new
    <2>5. /\ defined' \in Seq(Definitions) /\ Len(defined') = m + 1 /\ defined'[m + 1] = new
          /\ m \in Nat /\ DOMAIN defined' = 1 .. m + 1 /\ DOMAIN defined = 1 .. m
          /\ \A i \in 1 .. m : defined'[i] = defined[i]
        <3>1. defined \in Seq(Definitions)  BY DEF DocumentType
        <3> QED  BY <2>1, <2>3, <3>1, Pushed
    <2> HIDE DEF m
    <2>6. DocumentType'
        <3>1. depth' \in 0 .. 2  BY <2>1
        <3>2. ignoreScratch' \in BOOLEAN  BY <2>1, Zenon
        <3> QED  BY <1>1, <1>10, <2>5, <3>1, <3>2 DEF DocumentType
    <2>7. Named'  BY <1>1, <2>2 DEF Named
    <2>8. Current' = new /\ defined' # <<>>  BY <2>5 DEF Current
    <2>9. ScratchHolds'
        <3>1. scratch = Blank  BY <1>9 DEF ScratchHolds
        <3>2. WellFormed(new) /\ RegisterOf(new) = Blank  BY <2>3, <2>4, BlankRegister
        <3>3. scratch' = Blank /\ UNCHANGED <<regname, inMetadata>>  BY <1>1, <3>1
        <3> QED  BY <2>1, <2>4, <2>8, <3>2, <3>3 DEF ScratchHolds
    <2>10. RegistersHold'
        <3>1. Ended' = Ended /\ \A i \in Ended : defined'[i] = defined[i]
            BY <1>9, <2>1, <2>5 DEF Ended, m
        <3> QED  BY <1>1, <3>1, RegistersKept
    <2>11. InfoHolds'
        <3>1. SUFFICES ASSUME AllPlain'
              PROVE  /\ \A p \in DOMAIN info32 : \E i \in MetaDefs' : \E k \in DOMAIN defined'[i].given :
                           Says(defined'[i].given[k], p, info32[p])
                     /\ \A i \in MetaDefs' : \A k \in DOMAIN defined'[i].given :
                           defined'[i].given[k].val \in Ints
                             => defined'[i].given[k].param \in DOMAIN info32
            BY <1>1 DEF InfoHolds
        <3>2. AllPlain  BY <2>5, <3>1 DEF AllPlain
        <3>3. /\ \A p \in DOMAIN info32 : \E i \in MetaDefs : \E k \in DOMAIN defined[i].given :
                     Says(defined[i].given[k], p, info32[p])
              /\ \A i \in MetaDefs : \A k \in DOMAIN defined[i].given :
                     defined[i].given[k].val \in Ints => defined[i].given[k].param \in DOMAIN info32
            BY <3>2 DEF InfoHolds
        <3>4. \A i \in MetaDefs : i \in MetaDefs' /\ defined'[i] = defined[i]  BY <2>5 DEF MetaDefs
        <3>5. \A i \in MetaDefs' : (i \in MetaDefs /\ defined'[i] = defined[i]) \/ i = m + 1
            BY <2>5 DEF MetaDefs
        <3>6. DOMAIN defined'[m + 1].given = {}  BY <2>4, <2>5
        <3>7. \A p \in DOMAIN info32 : \E i \in MetaDefs' : \E k \in DOMAIN defined'[i].given :
                     Says(defined'[i].given[k], p, info32[p])
            <4> TAKE p \in DOMAIN info32
            <4>1. PICK i \in MetaDefs : \E k \in DOMAIN defined[i].given :
                     Says(defined[i].given[k], p, info32[p])
                BY <3>3
            <4>2. i \in MetaDefs' /\ defined'[i] = defined[i]  BY <3>4
            <4> QED  BY <4>1, <4>2, Zenon
        <3>8. \A i \in MetaDefs' : \A k \in DOMAIN defined'[i].given :
                     defined'[i].given[k].val \in Ints
                       => defined'[i].given[k].param \in DOMAIN info32
            BY <3>3, <3>5, <3>6
        <3> QED  BY <3>7, <3>8
    <2> QED  BY <1>7, <2>6, <2>7, <2>9, <2>10, <2>11
<1> QED  BY <1>2, <1>8, <1>9
\* The definition that ends is the last of its name.
LEMMA EndedNow ==
    ASSUME DocumentType, ScratchHolds, depth = 2, depth' = 1, defined' = defined, NEW name
    PROVE  LET n == Len(defined)
           IN  /\ n \in Nat \ {0} /\ Ended' = 1 .. n /\ Ended = 1 .. n - 1
               /\ EndedDefs(name)' = IF name = regname /\ WellFormed(Current)
                                     THEN EndedDefs(name) \cup {n} ELSE EndedDefs(name)
<1> DEFINE n == Len(defined)
           P(i) == defined[i].name = name /\ WellFormed(defined[i])
<1>1. defined \in Seq(Definitions) /\ defined # <<>> /\ Current.name = regname
    BY DEF DocumentType, ScratchHolds
<1>2. n \in Nat \ {0}  BY <1>1
<1>3. Ended' = 1 .. n /\ Ended = 1 .. n - 1  BY DEF Ended
<1>4. P(n) <=> name = regname /\ WellFormed(Current)  BY <1>1 DEF Current
<1>5. EndedDefs(name)' = {i \in 1 .. n : P(i)} /\ EndedDefs(name) = {i \in 1 .. n - 1 : P(i)}
    BY <1>3 DEF EndedDefs
<1> HIDE DEF n, P
<1>6. P(n) => {i \in 1 .. n : P(i)} = {i \in 1 .. n - 1 : P(i)} \cup {n}  BY <1>2
<1>7. ~P(n) => {i \in 1 .. n : P(i)} = {i \in 1 .. n - 1 : P(i)}  BY <1>2
<1>8. EndedDefs(name)' = IF name = regname /\ WellFormed(Current)
                         THEN EndedDefs(name) \cup {n} ELSE EndedDefs(name)
    BY <1>4, <1>5, <1>6, <1>7, Zenon
<1> QED  BY <1>2, <1>3, <1>8 DEF n

LEMMA EndMapRegisters == ASSUME Holds, EndMap, depth = 2 PROVE RegistersHold'
<1> USE DEF Holds
<1> DEFINE n == Len(defined)
<1>1. /\ depth' = 1 /\ defined' = defined
      /\ registers' = IF ignoreScratch THEN registers
                      ELSE [r \in DOMAIN registers \cup {regname} |->
                               IF r = regname THEN scratch ELSE registers[r]]
    BY DEF EndMap
<1>2. /\ n \in Nat \ {0} /\ Ended' = 1 .. n /\ Ended = 1 .. n - 1
      /\ \A name : EndedDefs(name)' = IF name = regname /\ WellFormed(Current)
                                      THEN EndedDefs(name) \cup {n} ELSE EndedDefs(name)
    BY <1>1, EndedNow
<1>3. n \in 1 .. n /\ 1 .. n - 1 \subseteq 1 .. n  BY <1>2
<1>4. Current = defined[n]  BY DEF Current
<1>5. /\ Current.plain = (inMetadata = (regname = Meta)) /\ Current.name = regname
      /\ inMetadata => ~ignoreScratch
      /\ ~inMetadata => /\ ignoreScratch = ~WellFormed(Current)
                        /\ ~ignoreScratch => scratch = RegisterOf(Current)
    BY DEF ScratchHolds
<1>6. regname \in Names  BY DEF Named
<1> HIDE DEF n
<1>7. SUFFICES ASSUME \A i \in 1 .. n : defined[i].plain
               PROVE  /\ DOMAIN registers' \ {Meta} = {name \in RegNames : EndedDefs(name)' # {}}
                      /\ \A name \in DOMAIN registers' \ {Meta} :
                           \E i \in EndedDefs(name)' :
                               /\ \A j \in EndedDefs(name)' : j <= i
                               /\ registers'[name] = RegisterOf(defined[i])
    BY <1>1, <1>2 DEF RegistersHold
<1>8. /\ DOMAIN registers \ {Meta} = {name \in RegNames : EndedDefs(name) # {}}
      /\ \A name \in DOMAIN registers \ {Meta} :
             \E i \in EndedDefs(name) :
                 /\ \A j \in EndedDefs(name) : j <= i
                 /\ registers[name] = RegisterOf(defined[i])
    BY <1>2, <1>3, <1>7 DEF RegistersHold
<1>9. inMetadata = (regname = Meta)  BY <1>3, <1>4, <1>5, <1>7
<1>10. CASE inMetadata
    <2>1. regname = Meta /\ ~ignoreScratch  BY <1>5, <1>9, <1>10
    <2>2. DOMAIN registers' \ {Meta} = DOMAIN registers \ {Meta}
          /\ \A name \in DOMAIN registers \ {Meta} : registers'[name] = registers[name]
        BY <1>1, <2>1
    <2>3. \A name : name # Meta => EndedDefs(name)' = EndedDefs(name)  BY <1>2, <2>1
    <2>4. \A name \in RegNames : name # Meta  BY DocumentAssumption
    <2>5. {name \in RegNames : EndedDefs(name)' # {}} = {name \in RegNames : EndedDefs(name) # {}}
        BY <2>3, <2>4
    <2>6. ASSUME NEW name \in DOMAIN registers' \ {Meta}
          PROVE  \E i \in EndedDefs(name)' :
                     /\ \A j \in EndedDefs(name)' : j <= i
                     /\ registers'[name] = RegisterOf(defined[i])
        <3>1. EndedDefs(name)' = EndedDefs(name) /\ registers'[name] = registers[name]
            BY <2>2, <2>3, <2>6
        <3> QED  BY <1>8, <2>2, <2>6, <3>1, Zenon
    <2> QED  BY <1>8, <2>2, <2>5, <2>6
<1>11. CASE ~inMetadata
    <2>1. regname \in RegNames /\ regname # Meta  BY <1>6, <1>9, <1>11 DEF Names
    <2>2. CASE ignoreScratch
        <3>1. registers' = registers /\ ~WellFormed(Current)  BY <1>1, <1>5, <1>11, <2>2
        <3>2. \A name : EndedDefs(name)' = EndedDefs(name)  BY <1>2, <3>1
        <3> QED  BY <1>8, <3>1, <3>2, Zenon
    <2>3. CASE ~ignoreScratch
        <3>1. WellFormed(Current) /\ scratch = RegisterOf(defined[n])
            BY <1>4, <1>5, <1>11, <2>3 DEF WellFormed
        <3>2. registers' = [r \in DOMAIN registers \cup {regname} |->
                               IF r = regname THEN scratch ELSE registers[r]]
            BY <1>1, <2>3
        <3>3. /\ \A name : name = regname => EndedDefs(name)' = EndedDefs(name) \cup {n}
              /\ \A name : name # regname => EndedDefs(name)' = EndedDefs(name)
            BY <1>2, <3>1, Zenon
        <3>4. DOMAIN registers' \ {Meta} = (DOMAIN registers \ {Meta}) \cup {regname}
            BY <2>1, <3>2
        <3>5. {name \in RegNames : EndedDefs(name)' # {}}
                = {name \in RegNames : EndedDefs(name) # {}} \cup {regname}
            <4>1. \A name \in RegNames : EndedDefs(name)' # {} <=> EndedDefs(name) # {} \/ name = regname
                <5> TAKE name \in RegNames
                <5>1. CASE name = regname
                    <6>1. n \in EndedDefs(name)'  BY <3>3, <5>1, Zenon
                    <6> QED  BY <5>1, <6>1, Zenon
                <5>2. CASE name # regname  BY <3>3, <5>2, Zenon
                <5> QED  BY <5>1, <5>2
            <4> QED  BY <2>1, <4>1, Zenon
        <3>6. ASSUME NEW name \in DOMAIN registers' \ {Meta}
              PROVE  \E i \in EndedDefs(name)' :
                         /\ \A j \in EndedDefs(name)' : j <= i
                         /\ registers'[name] = RegisterOf(defined[i])
            <4>1. CASE name = regname
                <5>1. n \in EndedDefs(name)'  BY <3>3, <4>1, Zenon
                <5>2. \A j \in EndedDefs(name) : j \in 1 .. n - 1  BY <1>2 DEF EndedDefs
                <5>3. \A j \in EndedDefs(name)' : j <= n  BY <1>2, <3>3, <4>1, <5>2
                <5>4. registers'[name] = RegisterOf(defined[n])  BY <3>1, <3>2, <4>1
                <5> QED  BY <5>1, <5>3, <5>4, Zenon
            <4>2. CASE name # regname
                <5>1. EndedDefs(name)' = EndedDefs(name)  BY <3>3, <4>2
                <5>2. name \in DOMAIN registers \ {Meta} /\ registers'[name] = registers[name]
                    BY <3>2, <3>4, <3>6, <4>2
                <5> QED  BY <1>8, <5>1, <5>2, Zenon
            <4> QED  BY <4>1, <4>2
        <3> QED  BY <1>8, <3>4, <3>5, <3>6
    <2> QED  BY <2>2, <2>3
<1> QED  BY <1>10, <1>11 DEF DocumentType

LEMMA EndMapStep == ASSUME Holds, EndMap PROVE Holds'
<1> USE DEF Holds
<1>1. /\ Inner = "key" /\ depth > 0 /\ nesting' = Front(nesting) /\ depth' = depth - 1
      /\ UNCHANGED <<jsonPhase, regname, param, info32, defined>>
    BY DEF EndMap, Event
<1>2. nesting \in Seq(Kinds) /\ depth \in {1, 2}
    <2>1. nesting \in Seq(Kinds) /\ depth \in 0 .. 2  BY DEF DocumentType
    <2> QED  BY <1>1, <2>1
<1>3. /\ nesting' \in Seq(Kinds) /\ DOMAIN nesting = 1 .. Len(nesting) /\ Len(nesting) \in Nat
      /\ \A k \in DOMAIN nesting : k # Len(nesting) => k \in DOMAIN nesting' /\ nesting'[k] = nesting[k]
    BY <1>1, <1>2, Popped
<1>4. InfoHolds'  BY <1>1 DEF InfoHolds, AllPlain, MetaDefs
<1>5. CASE depth = 2
    <2>1. depth' = 1 /\ ignoreScratch' = FALSE /\ inMetadata' = FALSE /\ scratch' = Blank
        BY <1>1, <1>5 DEF EndMap
    <2>2. DocumentType'
        <3>1. depth' \in 0 .. 2  BY <2>1
        <3>2. ignoreScratch' \in BOOLEAN /\ inMetadata' \in BOOLEAN  BY <2>1, Zenon
        <3>3. nesting' \in Seq(Kinds)  BY <1>3
        <3> QED  BY <1>1, <3>1, <3>2, <3>3 DEF DocumentType
    <2>3. Named'
        <3>1. regname \in Names  BY <1>5 DEF Named
        <3> QED  BY <1>1, <3>1 DEF Named
    <2>4. Deep'
        <3>1. PICK j, k \in Opened : j < k  BY <1>5 DEF Deep
        <3>2. j \in DOMAIN nesting /\ k \in DOMAIN nesting /\ nesting[j] \in {"key", "value"}
            BY <3>1 DEF Opened
        <3>3. j # Len(nesting)  BY <1>3, <3>1, <3>2
        <3>4. j \in Opened'  BY <1>3, <3>2, <3>3 DEF Opened
        <3> QED  BY <2>1, <3>4 DEF Deep
    <2>5. ScratchHolds'  BY <2>1 DEF ScratchHolds
    <2>6. RegistersHold'  BY <1>5, EndMapRegisters
    <2> QED  BY <1>4, <2>2, <2>3, <2>4, <2>5, <2>6
<1>6. CASE depth = 1
    <2>1. depth' = 0 /\ UNCHANGED <<registers, ignoreScratch, inMetadata, scratch>>
        BY <1>1, <1>6 DEF EndMap
    <2>2. DocumentType'
        <3>1. depth' \in 0 .. 2 /\ nesting' \in Seq(Kinds)  BY <1>3, <2>1
        <3> QED  BY <1>1, <2>1, <3>1 DEF DocumentType
    <2>3. Named' /\ Deep'  BY <2>1 DEF Named, Deep
    <2>4. ScratchHolds'  BY <1>6, <2>1 DEF ScratchHolds
    <2>5. RegistersHold'
        <3>1. Ended' = Ended /\ \A i \in Ended : defined'[i] = defined[i]  BY <1>1, <1>6, <2>1 DEF Ended
        <3> QED  BY <2>1, <3>1, RegistersKept
    <2> QED  BY <1>4, <2>2, <2>3, <2>4, <2>5
<1> QED  BY <1>2, <1>5, <1>6

\* A document is accepted when all that it opened has been closed.
LEMMA ParseEndStep == ASSUME Holds, ParseEnd PROVE DocumentInv' /\ (jsonPhase' = "accepted" => depth' = 0)
<1> USE DEF Holds
<1>1. UNCHANGED <<nesting, depth, inMetadata, ignoreScratch, regname, param, scratch, registers,
                  info32, defined>>
      /\ jsonPhase' \in {"accepted", "failed"}
    BY DEF ParseEnd
<1>2. DocumentType'  BY <1>1 DEF DocumentType
<1>3. Named' /\ Deep' /\ ScratchHolds'
    BY <1>1 DEF Named, Deep, ScratchHolds, Inner, Opened, Current
<1>4. InfoHolds'  BY <1>1 DEF InfoHolds, AllPlain, MetaDefs
<1>5. RegistersHold'
    <2>1. Ended' = Ended /\ \A i \in Ended : defined'[i] = defined[i]  BY <1>1 DEF Ended
    <2> QED  BY <1>1, <2>1, RegistersKept
<1>6. ASSUME jsonPhase' = "accepted" PROVE depth' = 0
    <2>1. nesting = <<"end">>  BY <1>6 DEF ParseEnd
    <2>2. Opened = {}  BY <2>1 DEF Opened
    <2>3. depth \notin {1, 2}  BY <2>2 DEF Deep
    <2>4. depth \in 0 .. 2  BY DEF DocumentType
    <2> QED  BY <1>1, <2>3, <2>4
<1> QED  BY <1>2, <1>3, <1>4, <1>5, <1>6 DEF DocumentInv

----------------------------------------------------------------------------
JsonInv == DocumentInv /\ (jsonPhase = "accepted" => depth = 0)

LEMMA JsonInitInv == JsonInit => JsonInv
<1> SUFFICES ASSUME JsonInit PROVE JsonInv  OBVIOUS
<1>1. jsonPhase = "parse" /\ nesting = <<"root">>  BY Zenon DEF JsonInit
<1>2. depth = 0  BY Zenon DEF JsonInit
<1>2a. param = "" /\ regname = ""  BY Zenon DEF JsonInit
<1>3. inMetadata \in BOOLEAN /\ ignoreScratch \in BOOLEAN  BY Zenon DEF JsonInit
<1>4. registers = <<>> /\ info32 = <<>> /\ defined = <<>>  BY Zenon DEF JsonInit
<1>5. scratch = Blank /\ inMetadata = FALSE /\ ignoreScratch = FALSE  BY Zenon DEF JsonInit
<1>6. DOMAIN defined = {} /\ Len(defined) = 0 /\ DOMAIN registers = {} /\ DOMAIN info32 = {}
    BY <1>4
<1>7. DocumentType
    <2>1. nesting \in Seq(Kinds)
        <3>1. "root" \in Kinds  BY DEF Kinds
        <3>2. \A x \in Kinds : <<x>> \in Seq(Kinds)  OBVIOUS
        <3> QED  BY <1>1, <3>1, <3>2
    <2>2. defined \in Seq(Definitions)
        <3> DEFINE D == Definitions
        <3> HIDE DEF D
        <3>1. <<>> \in Seq(D)  OBVIOUS
        <3>2. defined \in Seq(D)  BY <1>4, <3>1, Zenon
        <3> QED  BY <3>2 DEF D
    <2>3. depth \in 0 .. 2  BY <1>2
    <2>4. param \in Params /\ regname \in Names \cup {""}  BY <1>2a DEF Params
    <2>5. jsonPhase \in {"parse", "accepted", "failed"}  BY <1>1
    <2> QED  BY <1>3, <2>1, <2>2, <2>3, <2>4, <2>5 DEF DocumentType
<1>8. depth # 1 /\ depth # 2 /\ ~(depth >= 1)  BY <1>2
<1>9. Named /\ Deep /\ ScratchHolds  BY <1>5, <1>8 DEF Named, Deep, ScratchHolds
<1>10. RegistersHold
    <2>1. Ended = {}  BY <1>6, <1>8 DEF Ended
    <2>2. \A name : EndedDefs(name) = {}  BY <2>1 DEF EndedDefs
    <2> QED  BY <1>6, <2>1, <2>2 DEF RegistersHold
<1>11. InfoHolds
    <2>1. MetaDefs = {}  BY <1>6 DEF MetaDefs
    <2> QED  BY <1>6, <2>1 DEF InfoHolds
<1> QED  BY <1>1, <1>7, <1>9, <1>10, <1>11 DEF JsonInv, DocumentInv, Holds

LEMMA JsonStep == ASSUME JsonInv, JsonNext PROVE JsonInv'
<1>1. jsonPhase = "parse"
    BY DEF JsonNext, Integer, String, Array, StartMap, MapKey, EndMap, ParseEnd, TakesValue, Event
<1>2. Holds  BY <1>1 DEF JsonInv, DocumentInv
<1>3. param \in Params /\ inMetadata \in BOOLEAN /\ ignoreScratch \in BOOLEAN  BY <1>2 DEF Holds, DocumentType
<1>4. CASE \E val \in Ints : Integer(val)
    <2>1. PICK val \in Ints : Integer(val)  BY <1>4
    <2>2. Takes(val) /\ val \in Values  BY <1>3, <2>1, IntegerTakes DEF Values
    <2>3. Holds'  BY <1>2, <2>2, TakesStep
    <2> QED  BY <1>1, <2>2, <2>3 DEF JsonInv, DocumentInv, Takes
<1>5. CASE \E val \in Strings : String(val)
    <2>1. PICK val \in Strings : String(val)  BY <1>5
    <2>2. Takes(val) /\ val \in Values  BY <1>3, <2>1, StringTakes DEF Values
    <2>3. Holds'  BY <1>2, <2>2, TakesStep
    <2> QED  BY <1>1, <2>2, <2>3 DEF JsonInv, DocumentInv, Takes
<1>6. CASE Array
    <2>1. Holds' /\ jsonPhase' = "parse"  BY <1>1, <1>2, <1>6, ArrayStep DEF Array
    <2> QED  BY <2>1 DEF JsonInv, DocumentInv
<1>7. CASE StartMap
    <2>1. CASE depth = 2
        <3>1. jsonPhase' = "failed"  BY <1>7, <2>1 DEF StartMap
        <3> QED  BY <3>1 DEF JsonInv, DocumentInv
    <2>2. CASE depth # 2
        <3>1. Holds' /\ jsonPhase' = "parse"  BY <1>1, <1>2, <1>7, <2>2, StartMapStep DEF StartMap
        <3> QED  BY <3>1 DEF JsonInv, DocumentInv
    <2> QED  BY <2>1, <2>2
<1>8. CASE EndMap
    <2>1. Holds' /\ jsonPhase' = "parse"  BY <1>1, <1>2, <1>8, EndMapStep DEF EndMap
    <2> QED  BY <2>1 DEF JsonInv, DocumentInv
<1>9. CASE ParseEnd
    BY <1>2, <1>9, ParseEndStep DEF JsonInv
<1>10. CASE \E key \in IF depth = 1 THEN RegNames \cup {Meta} ELSE {"base_addr", "data_width", "access"} :
                MapKey(key)
    <2>1. PICK key \in IF depth = 1 THEN Names ELSE {"base_addr", "data_width", "access"} : MapKey(key)
        BY <1>10 DEF Names
    <2>2. Holds' /\ jsonPhase' = "parse"  BY <1>1, <1>2, <2>1, MapKeyStep DEF MapKey
    <2> QED  BY <2>2 DEF JsonInv, DocumentInv
<1> QED  BY <1>4, <1>5, <1>6, <1>7, <1>8, <1>9, <1>10 DEF JsonNext

LEMMA JsonUnchanged == ASSUME JsonInv, UNCHANGED jsonVars PROVE JsonInv'
<1>1. UNCHANGED <<jsonPhase, nesting, calls, depth, inMetadata, ignoreScratch, regname, param, scratch,
                  registers, info32, defined>>
    BY DEF jsonVars
<1>2. CASE jsonPhase = "failed"  BY <1>1, <1>2 DEF JsonInv, DocumentInv
<1>3. CASE jsonPhase # "failed"
    <2>1. DocumentType /\ Named /\ Deep /\ ScratchHolds /\ RegistersHold /\ InfoHolds
        BY <1>3 DEF JsonInv, DocumentInv, Holds
    <2>2. DocumentType'  BY <1>1, <2>1 DEF DocumentType
    <2>3. Named' /\ Deep' /\ ScratchHolds'
        BY <1>1, <2>1 DEF Named, Deep, ScratchHolds, Inner, Opened, Current
    <2>4. InfoHolds'  BY <1>1, <2>1 DEF InfoHolds, AllPlain, MetaDefs
    <2>5. RegistersHold'
        <3>1. Ended' = Ended /\ \A i \in Ended : defined'[i] = defined[i]  BY <1>1 DEF Ended
        <3> QED  BY <1>1, <2>1, <3>1, RegistersKept
    <2> QED  BY <1>1, <2>2, <2>3, <2>4, <2>5 DEF JsonInv, DocumentInv, Holds
<1> QED  BY <1>2, <1>3

THEOREM JsonInvariant == DescriptorSpec => []JsonInv
<1>1. RomInit /\ JsonInit => JsonInv  BY JsonInitInv
<1>2. JsonInv /\ [RomNext \/ JsonNext]_<<romVars, jsonVars>> => JsonInv'
    <2>1. RomNext => UNCHANGED jsonVars  BY DEF RomNext, PrepareOne, PrepareEnd, ParseOne
    <2> QED  BY <2>1, JsonStep, JsonUnchanged
<1> QED  BY <1>1, <1>2, PTL DEF DescriptorSpec

\* Each register is as its last well-formed definition says.
THEOREM DefinitionsRead == DescriptorSpec => []JsonRead
<1>1. JsonInv => JsonRead
    <2> SUFFICES ASSUME JsonInv, jsonPhase = "accepted", \A i \in DOMAIN defined : defined[i].plain
                 PROVE  JsonRead
        BY DEF JsonRead
    <2> DEFINE Defs(name) == {i \in DOMAIN defined : defined[i].name = name /\ WellFormed(defined[i])}
               metas == {i \in DOMAIN defined : defined[i].name = Meta}
    <2>1. Holds /\ depth = 0  BY DEF JsonInv, DocumentInv
    <2>2. defined \in Seq(Definitions)  BY <2>1 DEF Holds, DocumentType
    <2>3. Ended = DOMAIN defined  BY <2>1, <2>2 DEF Ended
    <2>4. \A name : EndedDefs(name) = Defs(name)  BY <2>3 DEF EndedDefs
    <2>5. /\ DOMAIN registers \ {Meta} = {name \in RegNames : Defs(name) # {}}
          /\ \A name \in DOMAIN registers \ {Meta} :
               \E i \in Defs(name) :
                   /\ \A j \in Defs(name) : j <= i
                   /\ registers[name] = RegisterOf(defined[i])
        BY <2>1, <2>3, <2>4, Zenon DEF Holds, RegistersHold
    <2>6. ASSUME NEW name \in DOMAIN registers \ {Meta}
          PROVE  registers[name] = RegisterOf(defined[CHOOSE i \in Defs(name) : \A j \in Defs(name) : j <= i])
        <3>1. PICK i \in Defs(name) : /\ \A j \in Defs(name) : j <= i
                                      /\ registers[name] = RegisterOf(defined[i])
            BY <2>5, <2>6
        <3> DEFINE top == CHOOSE k \in Defs(name) : \A j \in Defs(name) : j <= k
        <3>2. top \in Defs(name) /\ \A j \in Defs(name) : j <= top  BY <3>1, Zenon
        <3>3. Defs(name) \subseteq Int  BY <2>2
        <3> HIDE DEF top, Defs
        <3>4. top = i  BY <3>1, <3>2, <3>3
        <3> QED  BY <3>1, <3>4 DEF top
    <2>7. /\ \A p \in DOMAIN info32 : \E i \in metas : \E k \in DOMAIN defined[i].given :
                 Says(defined[i].given[k], p, info32[p])
          /\ \A i \in metas : \A k \in DOMAIN defined[i].given :
                 defined[i].given[k].val \in Ints => defined[i].given[k].param \in DOMAIN info32
        BY <2>1 DEF Holds, InfoHolds, AllPlain, MetaDefs
    <2> HIDE DEF Defs, metas
    <2> QED  BY <2>5, <2>6, <2>7 DEF JsonRead, Defs, metas
<1> QED  BY <1>1, JsonInvariant, PTL

----------------------------------------------------------------------------
(***************************************************************************)
(* Descriptor: for every list of descriptors, every size of the image, and *)
(* either byte order.                                                      *)
(***************************************************************************)
\* A word of the image, and the bytes it carries.
Words == [1 .. 4 -> Int]

Bytes(info) == Even(Contents(info))

Count(info) == Len(Bytes(info)) \div 2

\* A function on 1 .. n is a sequence of that length.
LEMMA FixedLength ==
    ASSUME NEW S, NEW n \in Nat, NEW f \in [1 .. n -> S]
    PROVE  f \in Seq(S) /\ Len(f) = n
<1>1. f \in Seq(S)  BY SeqDef
<1>2. Len(f) \in Nat /\ DOMAIN f = 1 .. Len(f)  BY <1>1, LenProperties
<1>3. \A m \in Nat : 1 .. m = 1 .. n => m = n  OBVIOUS
<1> QED  BY <1>1, <1>2, <1>3

\* The words of either byte order are those that were written.
LEMMA ReversedTwice ==
    ASSUME NEW w \in Words
    PROVE  Reverse(w) \in Words /\ Reverse(Reverse(w)) = w
<1>1. Len(w) = 4  BY FixedLength DEF Words
<1>2. Reverse(w) = [i \in 1 .. 4 |-> w[5 - i]]  BY <1>1 DEF Reverse
<1>3. Reverse(w) \in [1 .. 4 -> Int]  BY <1>2 DEF Words
<1>4. Len(Reverse(w)) = 4  BY <1>3, FixedLength
<1>5. Reverse(Reverse(w)) = [i \in 1 .. 4 |-> Reverse(w)[5 - i]]
    <2> DEFINE r == Reverse(w)
    <2>1. Len(r) = 4  BY <1>4
    <2> HIDE DEF r
    <2>2. Reverse(r) = [i \in 1 .. 4 |-> r[5 - i]]  BY <2>1 DEF Reverse
    <2> QED  BY <2>2 DEF r
<1>6. \A i \in 1 .. 4 : Reverse(w)[5 - i] = w[i]  BY <1>2
<1>7. w = [i \in 1 .. 4 |-> w[i]]  BY DEF Words
<1> QED  BY <1>3, <1>5, <1>6, <1>7 DEF Words

\* Padding adds a zero at most.
LEMMA Padded ==
    ASSUME NEW b \in Seq(Nat)
    PROVE  /\ Even(b) \in Seq(Nat)
           /\ Len(Even(b)) = IF Len(b) % 2 = 0 THEN Len(b) ELSE Len(b) + 1
           /\ Len(Even(b)) = 2 * (Len(Even(b)) \div 2) /\ Len(Even(b)) \div 2 \in Nat
           /\ \A k \in 1 .. Len(b) : Even(b)[k] = b[k]
           /\ \A k \in Len(b) + 1 .. Len(Even(b)) : Even(b)[k] = 0
<1>1. Len(b) \in Nat  OBVIOUS
<1>2. CASE Len(b) % 2 = 0
    <2>1. Even(b) = b  BY <1>2 DEF Even
    <2> QED  BY <1>1, <1>2, <2>1
<1>3. CASE Len(b) % 2 # 0
    <2>1. Even(b) = Append(b, 0)  BY <1>3 DEF Even
    <2>2. Len(Append(b, 0)) = Len(b) + 1 /\ Append(b, 0) \in Seq(Nat)  OBVIOUS
    <2>3. \A k \in 1 .. Len(b) : Append(b, 0)[k] = b[k]  OBVIOUS
    <2>4. Append(b, 0)[Len(b) + 1] = 0  OBVIOUS
    <2>5. Len(b) + 1 = 2 * ((Len(b) + 1) \div 2)  BY <1>1, <1>3
    <2> QED  BY <1>1, <1>3, <2>1, <2>2, <2>3, <2>4, <2>5
<1> QED  BY <1>2, <1>3

\* What is written of each type.
LEMMA TextContents ==
    ASSUME NEW info \in Descriptors, info.type = Text
    PROVE  Contents(info) = info.value /\ info.value \in Seq(Nat)
<1>1. info.value \in Seq(0 .. 255)  BY DEF Descriptors, Text, BigInt, JSON
<1>2. info.value \in Seq(Nat)
    <2>1. 0 .. 255 \subseteq Nat  OBVIOUS
    <2> QED  BY <1>1, <2>1, SeqMonotonic
<1> QED  BY <1>2 DEF Contents, Text, BigInt, JSON

\* Two digits make a byte.
LEMMA BigIntContents ==
    ASSUME NEW info \in Descriptors, info.type = BigInt
    PROVE  /\ info.value \in Seq(0 .. 15)
           /\ Contents(info) \in Seq(Nat)
           /\ Len(Contents(info)) = (Len(info.value) + 1) \div 2
           /\ \A k \in 1 .. (Len(info.value) + 1) \div 2 :
                 Contents(info)[k] = 16 * info.value[2 * k - 1]
                                     + IF 2 * k > Len(info.value) THEN 0 ELSE info.value[2 * k]
<1> DEFINE v == info.value
           n == (Len(v) + 1) \div 2
           c == [k \in 1 .. n |-> 16 * v[2 * k - 1] + IF 2 * k > Len(v) THEN 0 ELSE v[2 * k]]
<1>1. v \in Seq(0 .. 15)  BY DEF Descriptors, Text, BigInt, JSON
<1>2. Contents(info) = c  BY DEF Contents, Text, BigInt, JSON
<1>2a. Len(v) \in Nat  BY <1>1
<1>3. n \in Nat
    <2>1. \A l \in Nat : (l + 1) \div 2 \in Nat  OBVIOUS
    <2> QED  BY <1>2a, <2>1
<1>4. \A k \in 1 .. n : 16 * v[2 * k - 1] + (IF 2 * k > Len(v) THEN 0 ELSE v[2 * k]) \in Nat
    <2> TAKE k \in 1 .. n
    <2>1. \A l \in Nat : \A j \in 1 .. (l + 1) \div 2 : 2 * j - 1 \in 1 .. l  OBVIOUS
    <2>2. 2 * k - 1 \in 1 .. Len(v)  BY <1>2a, <2>1
    <2>3. v[2 * k - 1] \in 0 .. 15  BY <1>1, <2>2
    <2>4. 2 * k > Len(v) \/ v[2 * k] \in 0 .. 15  BY <1>1, <1>2a
    <2>5. (IF 2 * k > Len(v) THEN 0 ELSE v[2 * k]) \in 0 .. 15  BY <2>4
    <2>6. \A a, b \in 0 .. 15 : 16 * a + b \in Nat  OBVIOUS
    <2> QED  BY <2>3, <2>5, <2>6, Zenon
<1>5. c \in [1 .. n -> Nat]  BY <1>4
<1>6. c \in Seq(Nat) /\ Len(c) = n
    <2> HIDE DEF c, n
    <2> QED  BY <1>3, <1>5, FixedLength
<1>7. \A k \in 1 .. n : c[k] = 16 * v[2 * k - 1] + IF 2 * k > Len(v) THEN 0 ELSE v[2 * k]  OBVIOUS
<1> HIDE DEF c
<1> QED  BY <1>1, <1>2, <1>6, <1>7

\* A compressed text is a prefix, its length and the text.
LEMMA JsonContents ==
    ASSUME NEW info \in Descriptors, info.type = JSON
    PROVE  /\ info.value \in Seq(Nat) /\ Contents(info) \in Seq(Nat)
           /\ Len(Contents(info)) = 2 + Len(info.value)
           /\ Contents(info)[1] = 120 /\ Contents(info)[2] = Len(info.value)
           /\ \A k \in 1 .. Len(info.value) : Contents(info)[2 + k] = info.value[k]
<1> DEFINE v == info.value
<1>1. v \in Seq(0 .. 255)  BY DEF Descriptors, Text, BigInt, JSON
<1>2. v \in Seq(Nat)
    <2>1. 0 .. 255 \subseteq Nat  OBVIOUS
    <2> QED  BY <1>1, <2>1, SeqMonotonic
<1>3. Contents(info) = <<120, Len(v)>> \o v  BY DEF Contents, Deflate, Text, BigInt, JSON
<1> HIDE DEF v
<1>4. <<120, Len(v)>> \in Seq(Nat) /\ Len(<<120, Len(v)>>) = 2  BY <1>2
<1>5. /\ <<120, Len(v)>> \o v \in Seq(Nat)
      /\ Len(<<120, Len(v)>> \o v) = 2 + Len(v)
      /\ (<<120, Len(v)>> \o v)[1] = 120 /\ (<<120, Len(v)>> \o v)[2] = Len(v)
      /\ \A k \in 1 .. Len(v) : (<<120, Len(v)>> \o v)[2 + k] = v[k]
    BY <1>2, <1>4
<1> QED  BY <1>2, <1>3, <1>5 DEF v

\* There are three types.
LEMMA TypeOf == ASSUME NEW info \in Descriptors PROVE info.type \in {Text, BigInt, JSON}
    BY DEF Descriptors

\* Every descriptor is written as bytes.
LEMMA ContentsType == ASSUME NEW info \in Descriptors PROVE Contents(info) \in Seq(Nat)
    BY TypeOf, TextContents, BigIntContents, JsonContents

\* The words of a descriptor: a header that counts them, and the bytes in pairs.
LEMMA EncodedWords ==
    ASSUME NEW info \in Descriptors
    PROVE  /\ Bytes(info) \in Seq(Nat) /\ Count(info) \in Nat /\ Len(Bytes(info)) = 2 * Count(info)
           /\ Encoded(info) \in Seq(Words) /\ Len(Encoded(info)) = Count(info) + 1
           /\ Encoded(info)[1]
                = <<0, 0, 64 * info.type + Count(info) \div 256, Count(info) % 256>>
           /\ \A k \in 1 .. Count(info) :
                 Encoded(info)[k + 1] = <<0, 0, Bytes(info)[2 * k - 1], Bytes(info)[2 * k]>>
<1> DEFINE bytes == Bytes(info)
           count == Count(info)
           header == <<0, 0, 64 * info.type + count \div 256, count % 256>>
           rest == [k \in 1 .. count |-> <<0, 0, bytes[2 * k - 1], bytes[2 * k]>>]
<1>1. bytes \in Seq(Nat) /\ count \in Nat /\ Len(bytes) = 2 * count
    BY ContentsType, Padded DEF Bytes, Count
<1>2. Encoded(info) = <<header>> \o rest  BY DEF Encoded, Bytes, Count
<1>3. info.type \in Nat  BY TypeOf DEF Text, BigInt, JSON
<1> HIDE DEF bytes, count
<1>4. header \in Words
    <2>1. 64 * info.type + count \div 256 \in Int /\ count % 256 \in Int  BY <1>1, <1>3
    <2>2. \A a, b \in Int : <<0, 0, a, b>> \in [1 .. 4 -> Int]  OBVIOUS
    <2> QED  BY <2>1, <2>2 DEF Words
<1>5. \A k \in 1 .. count : <<0, 0, bytes[2 * k - 1], bytes[2 * k]>> \in Words
    <2> TAKE k \in 1 .. count
    <2>1. 2 * k - 1 \in 1 .. Len(bytes) /\ 2 * k \in 1 .. Len(bytes)  BY <1>1
    <2>2. bytes[2 * k - 1] \in Int /\ bytes[2 * k] \in Int  BY <1>1, <2>1
    <2>3. \A a, b \in Int : <<0, 0, a, b>> \in [1 .. 4 -> Int]  OBVIOUS
    <2> QED  BY <2>2, <2>3 DEF Words
<1>6. rest \in Seq(Words) /\ Len(rest) = count
    <2>1. rest \in [1 .. count -> Words]  BY <1>5
    <2> HIDE DEF rest
    <2> QED  BY <1>1, <2>1, FixedLength
<1>7. \A k \in 1 .. count : rest[k] = <<0, 0, bytes[2 * k - 1], bytes[2 * k]>>  OBVIOUS
<1> HIDE DEF header, rest
<1>8. /\ <<header>> \o rest \in Seq(Words) /\ Len(<<header>> \o rest) = count + 1
      /\ (<<header>> \o rest)[1] = header
      /\ \A k \in 1 .. count : (<<header>> \o rest)[k + 1] = rest[k]
    BY <1>1, <1>4, <1>6
<1>9. /\ Encoded(info) \in Seq(Words) /\ Len(Encoded(info)) = count + 1
      /\ Encoded(info)[1] = header
      /\ \A k \in 1 .. count : Encoded(info)[k + 1] = <<0, 0, bytes[2 * k - 1], bytes[2 * k]>>
    BY <1>2, <1>7, <1>8
<1> QED  BY <1>1, <1>9, Zenon DEF bytes, count, header

\* The pairs alone.
LEMMA EncodedPairs ==
    ASSUME NEW info \in Descriptors
    PROVE  \A k \in 1 .. Count(info) :
               Encoded(info)[k + 1] = <<0, 0, Bytes(info)[2 * k - 1], Bytes(info)[2 * k]>>
    BY EncodedWords

\* What the header of a descriptor says.
LEMMA HeaderRead ==
    ASSUME NEW type \in {Text, BigInt, JSON}, NEW count \in Nat, count < 16384
    PROVE  /\ (64 * type + (count \div 256)) \div 64 = type
           /\ ((64 * type + (count \div 256)) % 64) * 256 + (count % 256) = count
<1> DEFINE a == count \div 256
           b == count % 256
<1>1. type \in 1 .. 3  BY DEF Text, BigInt, JSON
<1>2. a \in 0 .. 63 /\ b \in 0 .. 255 /\ count = 256 * a + b  OBVIOUS
<1> HIDE DEF a, b
<1>3. (64 * type + a) \div 64 = type /\ (64 * type + a) % 64 = a  BY <1>1, <1>2
<1>4. a * 256 + b = count  BY <1>2
<1>5. /\ (64 * type + a) \div 64 = type
      /\ ((64 * type + a) % 64) * 256 + b = count
    BY <1>3, <1>4
<1> QED  BY <1>5 DEF a, b

\* The bytes before the first NUL are the same when a NUL is put behind.
LEMMA FirstNul ==
    ASSUME NEW b \in Seq(Nat), NEW k \in 1 .. Len(b), b[k] = 0, \A n \in 1 .. k - 1 : b[n] # 0
    PROVE  UpToNul(b) = SubSeq(b, 1, k - 1)
<1> DEFINE nuls == {n \in DOMAIN b : b[n] = 0}
           first == CHOOSE n \in nuls : \A m \in nuls : n <= m
<1>1. nuls \in SUBSET Int /\ k \in nuls  OBVIOUS
<1>2. \A m \in nuls : k <= m  OBVIOUS
<1>3. UpToNul(b) = SubSeq(b, 1, first - 1)
    <2>1. nuls # {}  BY <1>1
    <2> QED  BY <2>1 DEF UpToNul
<1> HIDE DEF nuls
<1>4. first \in nuls /\ \A m \in nuls : first <= m  BY <1>1, <1>2
<1> HIDE DEF first
<1>5. first = k  BY <1>1, <1>2, <1>4
<1> QED  BY <1>3, <1>5

\* A text is the same up to its first NUL, padded or not.
LEMMA TextRead == ASSUME NEW b \in Seq(Nat) PROVE UpToNul(Even(b)) = UpToNul(b)
<1> DEFINE e == Even(b)
<1>1. /\ e \in Seq(Nat) /\ Len(b) \in Nat /\ Len(e) \in Nat
      /\ Len(b) <= Len(e) /\ Len(e) <= Len(b) + 1
      /\ \A k \in 1 .. Len(b) : e[k] = b[k]
      /\ \A k \in Len(b) + 1 .. Len(e) : e[k] = 0
    BY Padded
<1> HIDE DEF e
<1>2. \A k \in 0 .. Len(b) : SubSeq(e, 1, k) = SubSeq(b, 1, k)
    <2> TAKE k \in 0 .. Len(b)
    <2>1. SubSeq(e, 1, k) \in Seq(Nat) /\ Len(SubSeq(e, 1, k)) = k
          /\ \A i \in 1 .. k : SubSeq(e, 1, k)[i] = e[i]
        BY <1>1
    <2>2. SubSeq(b, 1, k) \in Seq(Nat) /\ Len(SubSeq(b, 1, k)) = k
          /\ \A i \in 1 .. k : SubSeq(b, 1, k)[i] = b[i]
        BY <1>1
    <2>3. \A i \in 1 .. k : SubSeq(e, 1, k)[i] = SubSeq(b, 1, k)[i]  BY <1>1, <2>1, <2>2
    <2> QED  BY <2>1, <2>2, <2>3, SeqEqual
<1>3. CASE \E k \in 1 .. Len(b) : b[k] = 0
    <2> DEFINE N == {k \in 1 .. Len(b) : b[k] = 0}
    <2>1. N \in SUBSET Nat /\ N # {}  BY <1>3
    <2> HIDE DEF N
    <2>2. PICK k \in N : \A n \in N : k <= n  BY <2>1, Smallest
    <2> USE DEF N
    <2>3. k \in 1 .. Len(b) /\ b[k] = 0 /\ \A n \in 1 .. k - 1 : b[n] # 0  BY <2>2
    <2>4. k \in 1 .. Len(e) /\ e[k] = 0 /\ \A n \in 1 .. k - 1 : e[n] # 0
        <3>1. k \in 1 .. Len(e) /\ e[k] = 0  BY <1>1, <2>3
        <3>2. ASSUME NEW n \in 1 .. k - 1 PROVE e[n] # 0
            <4>1. n \in 1 .. Len(b)  BY <1>1, <2>3
            <4> QED  BY <1>1, <2>3, <4>1
        <3> QED  BY <3>1, <3>2
    <2>5. UpToNul(b) = SubSeq(b, 1, k - 1)  BY <2>3, FirstNul
    <2>6. UpToNul(e) = SubSeq(e, 1, k - 1)  BY <1>1, <2>4, FirstNul
    <2>7. k - 1 \in 0 .. Len(b)  BY <2>3
    <2> QED  BY <1>2, <2>5, <2>6, <2>7 DEF e
<1>4. CASE \A k \in 1 .. Len(b) : b[k] # 0
    <2>1. UpToNul(b) = b
        <3>1. {k \in DOMAIN b : b[k] = 0} = {}  BY <1>4
        <3> QED  BY <3>1 DEF UpToNul
    <2>2. CASE Len(e) = Len(b)
        <3>1. e = b  BY <1>1, <2>2, SeqEqual
        <3> QED  BY <3>1 DEF e
    <2>3. CASE Len(e) = Len(b) + 1
        <3>1. Len(b) + 1 \in 1 .. Len(e) /\ e[Len(b) + 1] = 0
            <4>1. Len(b) + 1 \in Len(b) + 1 .. Len(e) /\ Len(b) + 1 \in 1 .. Len(e)  BY <1>1, <2>3
            <4> QED  BY <1>1, <4>1
        <3>2. \A n \in 1 .. (Len(b) + 1) - 1 : e[n] # 0  BY <1>1, <1>4
        <3> DEFINE last == Len(b) + 1
        <3> HIDE DEF last
        <3>3. UpToNul(e) = SubSeq(e, 1, last - 1)
            <4>1. e \in Seq(Nat) /\ last \in 1 .. Len(e) /\ e[last] = 0
                  /\ \A n \in 1 .. last - 1 : e[n] # 0
                BY <1>1, <3>1, <3>2 DEF last
            <4> QED  BY <4>1, FirstNul
        <3>4. last - 1 = Len(b) /\ Len(b) \in 0 .. Len(b)  BY <1>1 DEF last
        <3>5. SubSeq(b, 1, Len(b)) = b
            <4>1. SubSeq(b, 1, Len(b)) \in Seq(Nat) /\ Len(SubSeq(b, 1, Len(b))) = Len(b)
                  /\ \A i \in 1 .. Len(b) : SubSeq(b, 1, Len(b))[i] = b[i]
                BY <1>1
            <4> QED  BY <4>1, SeqEqual
        <3> QED  BY <1>2, <2>1, <3>3, <3>4, <3>5 DEF e
    <2> QED  BY <1>1, <2>2, <2>3
<1> QED  BY <1>3, <1>4

\* Digits are padded to whole words; two of them make a byte.
LEMMA Nibbles ==
    ASSUME NEW y \in 0 .. 15, NEW z \in 0 .. 15
    PROVE  (16 * y + z) \div 16 = y /\ (16 * y + z) % 16 = z
    OBVIOUS

\* Halves of even and odd numbers.
LEMMA Half ==
    ASSUME NEW k \in Nat
    PROVE  /\ k % 2 = 1 => (k + 1) \div 2 \in Nat /\ 2 * ((k + 1) \div 2) = k + 1
           /\ k % 2 # 1 => k \div 2 \in Nat /\ 2 * (k \div 2) = k
    OBVIOUS

\* Digits fill whole words: so many are added.
LEMMA WholeWords ==
    ASSUME NEW n \in Nat
    PROVE  LET h == (n + 1) \div 2
               pad == (4 - (n % 4)) % 4
           IN  /\ h \in Nat /\ 2 * h <= n + 1 /\ n <= 2 * h /\ pad \in Nat
               /\ 2 * (IF h % 2 = 0 THEN h ELSE h + 1) = n + pad
<1> DEFINE q == n \div 4
           r == n % 4
<1>1. q \in Nat /\ r \in 0 .. 3 /\ n = 4 * q + r  OBVIOUS
<1> HIDE DEF q, r
<1>2. CASE r = 0
    <2>1. (n + 1) \div 2 = 2 * q /\ (2 * q) % 2 = 0  BY <1>1, <1>2
    <2>2. (4 - r) % 4 = 0  BY <1>2
    <2> QED  BY <1>1, <1>2, <2>1, <2>2 DEF r
<1>3. CASE r = 1
    <2>1. (n + 1) \div 2 = 2 * q + 1 /\ (2 * q + 1) % 2 = 1  BY <1>1, <1>3
    <2>2. (4 - r) % 4 = 3  BY <1>3
    <2> QED  BY <1>1, <1>3, <2>1, <2>2 DEF r
<1>4. CASE r = 2
    <2>1. (n + 1) \div 2 = 2 * q + 1 /\ (2 * q + 1) % 2 = 1  BY <1>1, <1>4
    <2>2. (4 - r) % 4 = 2  BY <1>4
    <2> QED  BY <1>1, <1>4, <2>1, <2>2 DEF r
<1>5. CASE r = 3
    <2>1. (n + 1) \div 2 = 2 * q + 2 /\ (2 * q + 2) % 2 = 0  BY <1>1, <1>5
    <2>2. (4 - r) % 4 = 1  BY <1>5
    <2> QED  BY <1>1, <1>5, <2>1, <2>2 DEF r
<1> QED  BY <1>1, <1>2, <1>3, <1>4, <1>5

\* The digits of the padded bytes are those that were written, and zeros.
LEMMA DigitsRead ==
    ASSUME NEW v \in Seq(0 .. 15), NEW c \in Seq(Nat),
           Len(c) = (Len(v) + 1) \div 2,
           \A k \in 1 .. (Len(v) + 1) \div 2 :
               c[k] = 16 * v[2 * k - 1] + IF 2 * k > Len(v) THEN 0 ELSE v[2 * k]
    PROVE  Decoded(BigInt, Even(c)) = v \o [k \in 1 .. (4 - (Len(v) % 4)) % 4 |-> 0]
<1> DEFINE n == Len(v)
           b == Even(c)
           h == (n + 1) \div 2
           pad == (4 - (n % 4)) % 4
           zeros == [k \in 1 .. pad |-> 0]
           Digit(k) == IF k % 2 = 1 THEN b[(k + 1) \div 2] \div 16 ELSE b[k \div 2] % 16
<1>1. n \in Nat  OBVIOUS
<1>2. /\ h \in Nat /\ 2 * h <= n + 1 /\ n <= 2 * h /\ pad \in Nat
      /\ 2 * (IF h % 2 = 0 THEN h ELSE h + 1) = n + pad
    BY <1>1, WholeWords
<1>3. zeros \in Seq(0 .. 15) /\ Len(zeros) = pad
    <2>1. zeros \in [1 .. pad -> 0 .. 15]  OBVIOUS
    <2> HIDE DEF zeros, pad
    <2> QED  BY <1>2, <2>1, FixedLength
<1>4. \A k \in 1 .. pad : zeros[k] = 0  OBVIOUS
<1>5. Len(c) = h  OBVIOUS
<1>6. \A j \in 1 .. h : c[j] = 16 * v[2 * j - 1] + IF 2 * j > n THEN 0 ELSE v[2 * j]  OBVIOUS
<1> HIDE DEF zeros
<1>7. /\ b \in Seq(Nat)
      /\ Len(b) = IF h % 2 = 0 THEN h ELSE h + 1
      /\ \A j \in 1 .. h : b[j] = c[j]
      /\ \A j \in h + 1 .. Len(b) : b[j] = 0
    BY <1>5, Padded, Zenon
<1>8. 2 * Len(b) = n + pad /\ Len(b) \in Nat  BY <1>2, <1>7
<1>9. \A k \in 1 .. n : v[k] \in 0 .. 15  BY DEF n
<1>10. Decoded(BigInt, b) = [k \in 1 .. 2 * Len(b) |-> Digit(k)]  BY DEF Decoded, Text, BigInt, JSON
<1> HIDE DEF b, n, pad, h
<1>11. \A k \in 1 .. n : Digit(k) = v[k]
    <2> TAKE k \in 1 .. n
    <2>1. CASE k % 2 = 1
        <3> DEFINE j == (k + 1) \div 2
                   x == IF 2 * j > n THEN 0 ELSE v[2 * j]
        <3>1. j \in Nat /\ 2 * j = k + 1  BY <1>1, <2>1
        <3> HIDE DEF j
        <3>2. j \in 1 .. h /\ 2 * j - 1 = k  BY <1>1, <1>2, <3>1
        <3>3. x \in 0 .. 15
            <4>1. CASE 2 * j > n  BY <4>1
            <4>2. CASE ~(2 * j > n)
                <5>1. 2 * j \in 1 .. n  BY <1>1, <3>1, <4>2
                <5> QED  BY <1>9, <4>2, <5>1
            <4> QED  BY <4>1, <4>2
        <3>4. b[j] = 16 * v[k] + x  BY <1>6, <1>7, <3>2
        <3> HIDE DEF x
        <3>5. (16 * v[k] + x) \div 16 = v[k]  BY <1>9, <3>3, Nibbles
        <3>6. b[j] \div 16 = v[k]  BY <3>4, <3>5
        <3> QED  BY <2>1, <3>6 DEF j
    <2>2. CASE k % 2 # 1
        <3> DEFINE j == k \div 2
        <3>1. j \in Nat /\ 2 * j = k  BY <1>1, <2>2
        <3> HIDE DEF j
        <3>2. j \in 1 .. h /\ 2 * j - 1 \in 1 .. n /\ ~(2 * j > n)  BY <1>1, <1>2, <3>1
        <3>3. b[j] = 16 * v[2 * j - 1] + v[2 * j]  BY <1>6, <1>7, <3>2
        <3>4. b[j] = 16 * v[2 * j - 1] + v[k]  BY <3>1, <3>3
        <3>5. v[2 * j - 1] \in 0 .. 15 /\ v[k] \in 0 .. 15  BY <1>9, <3>2
        <3>6. (16 * v[2 * j - 1] + v[k]) % 16 = v[k]  BY <3>5, Nibbles
        <3>7. b[j] % 16 = v[k]  BY <3>4, <3>6
        <3> QED  BY <2>2, <3>7 DEF j
    <2> QED  BY <2>1, <2>2
<1>12. \A k \in n + 1 .. n + pad : Digit(k) = 0
    <2> TAKE k \in n + 1 .. n + pad
    <2>1. k \in Nat /\ k > n /\ k <= 2 * Len(b) /\ k >= 1  BY <1>1, <1>2, <1>8
    <2>2. CASE k % 2 = 1
        <3> DEFINE j == (k + 1) \div 2
        <3>1. j \in Nat /\ 2 * j = k + 1  BY <2>1, <2>2, Half
        <3> HIDE DEF j
        <3>2. j \in h + 1 .. Len(b)  BY <1>1, <1>2, <1>8, <2>1, <3>1
        <3>3. b[j] = 0  BY <1>7, <3>2
        <3>4. b[j] \div 16 = 0  BY <3>3
        <3> QED  BY <2>2, <3>4 DEF j
    <2>3. CASE k % 2 # 1
        <3> DEFINE j == k \div 2
        <3>1. j \in Nat /\ 2 * j = k  BY <2>1, <2>3
        <3> HIDE DEF j
        <3>2. CASE j > h
            <4>1. j \in h + 1 .. Len(b)  BY <1>1, <1>2, <1>8, <2>1, <3>1, <3>2
            <4>2. b[j] = 0  BY <1>7, <4>1
            <4>3. b[j] % 16 = 0  BY <4>2
            <4> QED  BY <2>3, <4>3 DEF j
        <3>3. CASE ~(j > h)
            <4>1. j \in 1 .. h /\ 2 * j > n /\ 2 * j - 1 \in 1 .. n
                BY <1>1, <1>2, <2>1, <3>1, <3>3
            <4>2. b[j] = 16 * v[2 * j - 1] + 0  BY <1>6, <1>7, <4>1
            <4>3. v[2 * j - 1] \in 0 .. 15 /\ 0 \in 0 .. 15  BY <1>9, <4>1
            <4>4. (16 * v[2 * j - 1] + 0) % 16 = 0  BY <4>3, Nibbles
            <4>5. b[j] % 16 = 0  BY <4>2, <4>4
            <4> QED  BY <2>3, <4>5 DEF j
        <3> QED  BY <3>2, <3>3
    <2> QED  BY <2>2, <2>3
<1> DEFINE all == v \o zeros
<1>13. /\ all \in Seq(0 .. 15) /\ Len(all) = n + pad
       /\ \A k \in 1 .. n : all[k] = v[k]
       /\ \A k \in n + 1 .. n + pad : all[k] = 0
    <2>1. all \in Seq(0 .. 15) /\ Len(all) = n + pad
          /\ \A k \in 1 .. n + pad : all[k] = IF k <= n THEN v[k] ELSE zeros[k - n]
        BY <1>3, ConcatProperties DEF n
    <2> HIDE DEF all
    <2>2. \A k \in 1 .. n : k \in 1 .. n + pad /\ k <= n  BY <1>1, <1>2
    <2>3. \A k \in n + 1 .. n + pad : k \in 1 .. n + pad /\ ~(k <= n) /\ k - n \in 1 .. pad
        BY <1>1, <1>2
    <2> QED  BY <1>4, <2>1, <2>2, <2>3
<1> HIDE DEF Digit, all
<1>14. Decoded(BigInt, b) = all
    <2>1. all = [k \in 1 .. n + pad |-> all[k]]
        <3>1. all \in [1 .. n + pad -> 0 .. 15]  BY <1>13, LenProperties
        <3> QED  BY <3>1
    <2>2. \A k \in 1 .. n + pad : Digit(k) = all[k]
        <3> TAKE k \in 1 .. n + pad
        <3>1. CASE k \in 1 .. n  BY <1>11, <1>13, <3>1
        <3>2. CASE k \in n + 1 .. n + pad  BY <1>12, <1>13, <3>2
        <3> QED  BY <1>1, <1>2, <3>1, <3>2
    <2> QED  BY <1>8, <1>10, <2>1, <2>2
<1> QED  BY <1>14 DEF b, zeros, pad, n, all

\* A compressed text is taken out of the padded bytes again.
LEMMA JsonTextRead ==
    ASSUME NEW v \in Seq(Nat), NEW c \in Seq(Nat), Len(c) = 2 + Len(v),
           c[1] = 120, c[2] = Len(v), \A k \in 1 .. Len(v) : c[2 + k] = v[k]
    PROVE  Inflates(Even(c)) /\ Decoded(JSON, Even(c)) = v
<1> DEFINE b == Even(c)
<1>1. b \in Seq(Nat) /\ Len(b) >= Len(c) /\ Len(b) \in Nat /\ \A k \in 1 .. Len(c) : b[k] = c[k]
    <2>1. /\ b \in Seq(Nat)
          /\ Len(b) = IF Len(c) % 2 = 0 THEN Len(c) ELSE Len(c) + 1
          /\ \A k \in 1 .. Len(c) : b[k] = c[k]
        BY Padded, Zenon
    <2>2. Len(c) \in Nat  OBVIOUS
    <2> HIDE DEF b
    <2> QED  BY <2>1, <2>2
<1> HIDE DEF b
<1>2. Len(v) \in Nat  OBVIOUS
<1>3. b[1] = 120 /\ b[2] = Len(v) /\ \A k \in 1 .. Len(v) : b[2 + k] = v[k]
    <2>1. 1 \in 1 .. Len(c) /\ 2 \in 1 .. Len(c)  BY <1>2
    <2>2. \A k \in 1 .. Len(v) : 2 + k \in 1 .. Len(c)  BY <1>2
    <2> QED  BY <1>1, <2>1, <2>2
<1>4. Inflates(b)  BY <1>1, <1>2, <1>3 DEF Inflates
<1>5. Decoded(JSON, b) = SubSeq(b, 3, 2 + Len(v))  BY <1>3 DEF Decoded, Text, BigInt, JSON
<1>6. SubSeq(b, 3, 2 + Len(v)) = v
    <2> DEFINE t == SubSeq(b, 3, 2 + Len(v))
    <2>1. t \in Seq(Nat) /\ Len(t) = Len(v) /\ \A k \in 1 .. Len(v) : t[k] = b[2 + k]
        BY <1>1, <1>2
    <2> HIDE DEF t
    <2>2. \A k \in 1 .. Len(t) : t[k] = v[k]  BY <1>3, <2>1
    <2>3. t = v  BY <2>1, <2>2, SeqEqual
    <2> QED  BY <2>3 DEF t
<1> QED  BY <1>4, <1>5, <1>6 DEF b

\* A descriptor that has been written and read.
LEMMA DescriptorRead ==
    ASSUME NEW info \in Descriptors
    PROVE  /\ [type |-> info.type, value |-> Decoded(info.type, Bytes(info))] = AsRead(info)
           /\ info.type = JSON => Inflates(Bytes(info))
<1>1. info = [type |-> info.type, value |-> info.value]  BY DEF Descriptors
<1>2. CASE info.type = Text
    <2>1. Contents(info) = info.value /\ info.value \in Seq(Nat)  BY <1>2, TextContents
    <2>2. Decoded(Text, Bytes(info)) = UpToNul(info.value)
        BY <2>1, TextRead DEF Decoded, Bytes, Text, BigInt, JSON
    <2>3. AsRead(info) = [info EXCEPT !.value = UpToNul(@)]  BY <1>2 DEF AsRead, Text, BigInt, JSON
    <2>4. AsRead(info) = [type |-> info.type, value |-> UpToNul(info.value)]  BY <1>1, <2>3
    <2> QED  BY <1>2, <2>2, <2>4 DEF Text, JSON
<1>3. CASE info.type = BigInt
    <2> DEFINE w == info.value \o [k \in 1 .. (4 - (Len(info.value) % 4)) % 4 |-> 0]
    <2>1. Decoded(BigInt, Bytes(info)) = w  BY <1>3, BigIntContents, DigitsRead DEF Bytes
    <2>2. AsRead(info) = [info EXCEPT !.value = w]  BY <1>3 DEF AsRead, Text, BigInt, JSON
    <2> HIDE DEF w
    <2>3. AsRead(info) = [type |-> info.type, value |-> w]  BY <1>1, <2>2
    <2> QED  BY <1>3, <2>1, <2>3 DEF BigInt, JSON
<1>4. CASE info.type = JSON
    <2>1. Inflates(Bytes(info)) /\ Decoded(JSON, Bytes(info)) = info.value
        BY <1>4, JsonContents, JsonTextRead DEF Bytes
    <2>2. AsRead(info) = info  BY <1>4 DEF AsRead, Text, BigInt, JSON
    <2> QED  BY <1>1, <1>4, <2>1, <2>2
<1> QED  BY <1>2, <1>3, <1>4, TypeOf

----------------------------------------------------------------------------
\* Where each descriptor of a list begins, and where the last one ends.
Upto(list, n, pos) ==
    /\ pos \in [1 .. n + 1 -> Nat]
    /\ pos[1] = 0
    /\ \A i \in 1 .. n : pos[i + 1] = pos[i] + Len(Encoded(list[i]))

Position(list) == CHOOSE pos : Upto(list, Len(list), pos)

\* Every descriptor of a list takes a word at least.
LEMMA EncodedLength ==
    ASSUME NEW list \in Seq(Descriptors), NEW i \in 1 .. Len(list)
    PROVE  /\ list[i] \in Descriptors /\ Len(Encoded(list[i])) \in Nat \ {0}
           /\ Encoded(list[i]) \in Seq(Words)
<1>1. list[i] \in Descriptors  OBVIOUS
<1>2. Count(list[i]) \in Nat /\ Len(Encoded(list[i])) = Count(list[i]) + 1
      /\ Encoded(list[i]) \in Seq(Words)
    BY <1>1, EncodedWords
<1> QED  BY <1>1, <1>2

\* Every list has its positions (by induction over a prefix of it).
LEMMA PositionExists ==
    ASSUME NEW list \in Seq(Descriptors)
    PROVE  Upto(list, Len(list), Position(list))
<1> DEFINE N == Len(list)
           Missing == {n \in 0 .. N : ~\E pos : Upto(list, n, pos)}
<1>1. SUFFICES ASSUME Missing # {} PROVE FALSE
    <2>1. N \in 0 .. N  OBVIOUS
    <2>2. \E pos : Upto(list, N, pos)  BY <1>1, <2>1
    <2> QED  BY <2>2, Zenon DEF Position
<1>2. PICK n \in Missing : \A m \in Missing : n <= m
    <2>1. Missing \in SUBSET Nat  OBVIOUS
    <2> HIDE DEF Missing
    <2> QED  BY <1>1, <2>1, Smallest
<1>3. n \in 0 .. N  BY <1>2
<1>4. CASE n = 0
    <2> DEFINE pos == [i \in 1 .. 0 + 1 |-> 0]
    <2>1. Upto(list, 0, pos)  BY DEF Upto
    <2> QED  BY <1>2, <1>4, <2>1
<1>5. CASE n # 0
    <2>1. n - 1 \in 0 .. N /\ n - 1 \notin Missing  BY <1>2, <1>3, <1>5
    <2>2. PICK before : Upto(list, n - 1, before)  BY <2>1
    <2>3. (n - 1) + 1 = n /\ n \in 1 .. N  BY <1>3, <1>5
    <2>4. /\ before \in [1 .. n -> Nat] /\ before[1] = 0
          /\ \A i \in 1 .. n - 1 : before[i + 1] = before[i] + Len(Encoded(list[i]))
        BY <2>2, <2>3 DEF Upto
    <2> DEFINE size == Len(Encoded(list[n]))
               pos == [i \in 1 .. n + 1 |-> IF i = n + 1 THEN before[n] + size ELSE before[i]]
    <2>5. size \in Nat  BY <2>3, EncodedLength
    <2> HIDE DEF size
    <2>6. pos \in [1 .. n + 1 -> Nat]  BY <2>3, <2>4, <2>5
    <2>7. \A i \in 1 .. n : pos[i] = before[i]  BY <2>3
    <2>8. pos[n + 1] = before[n] + size  BY <2>3
    <2> HIDE DEF pos
    <2>9. pos[1] = 0  BY <2>3, <2>4, <2>7
    <2>10. ASSUME NEW i \in 1 .. n PROVE pos[i + 1] = pos[i] + Len(Encoded(list[i]))
        <3>1. CASE i = n  BY <2>7, <2>8, <3>1 DEF size
        <3>2. CASE i # n
            <4>1. i \in 1 .. n - 1 /\ i + 1 \in 1 .. n  BY <2>3, <3>2
            <4> QED  BY <2>4, <2>7, <4>1
        <3> QED  BY <3>1, <3>2
    <2>11. Upto(list, n, pos)  BY <2>6, <2>9, <2>10 DEF Upto
    <2> QED  BY <1>2, <2>11
<1> QED  BY <1>4, <1>5

\* Positions grow along the list.
LEMMA PositionsGrow ==
    ASSUME NEW list \in Seq(Descriptors), NEW i \in 1 .. Len(list) + 1, NEW j \in 1 .. Len(list) + 1,
           i <= j
    PROVE  Position(list)[i] <= Position(list)[j]
<1> DEFINE N == Len(list)
           pos == Position(list)
           Falls == {k \in i .. N + 1 : ~(pos[i] <= pos[k])}
<1>1. /\ pos \in [1 .. N + 1 -> Nat]
      /\ \A k \in 1 .. N : pos[k + 1] = pos[k] + Len(Encoded(list[k]))
    BY PositionExists DEF Upto
<1>2. N \in Nat  OBVIOUS
<1>3. \A k \in 1 .. N : Len(Encoded(list[k])) \in Nat  BY EncodedLength
<1> HIDE DEF pos
<1>4. SUFFICES ASSUME Falls # {} PROVE FALSE
    <2>1. j \in i .. N + 1  BY <1>2
    <2> QED  BY <1>4, <2>1 DEF pos
<1>5. PICK k \in Falls : \A m \in Falls : k <= m
    <2>1. Falls \in SUBSET Nat  BY <1>2
    <2> HIDE DEF Falls
    <2> QED  BY <1>4, <2>1, Smallest
<1>6. k \in i .. N + 1 /\ ~(pos[i] <= pos[k])  BY <1>5
<1>7. k # i  BY <1>1, <1>6
<1>8. k - 1 \in i .. N + 1 /\ k - 1 \in 1 .. N /\ (k - 1) + 1 = k  BY <1>2, <1>6, <1>7
<1>9. pos[i] <= pos[k - 1]
    <2>1. ~(k <= k - 1)  BY <1>8
    <2> QED  BY <1>5, <1>8, <2>1
<1>10. pos[k] = pos[k - 1] + Len(Encoded(list[k - 1]))  BY <1>1, <1>8
<1>11. pos[i] \in Nat /\ pos[k - 1] \in Nat /\ pos[k] \in Nat
    <2>1. k \in 1 .. N + 1 /\ k - 1 \in 1 .. N + 1  BY <1>2, <1>6, <1>8
    <2> QED  BY <1>1, <2>1
<1> QED  BY <1>3, <1>6, <1>8, <1>9, <1>10, <1>11

\* All the words of a list end at the last position.
LEMMA FlattenedLength ==
    ASSUME NEW list \in Seq(Descriptors)
    PROVE  Len(FlattenSeq([i \in DOMAIN list |-> Encoded(list[i])])) = Position(list)[Len(list) + 1]
<1> DEFINE N == Len(list)
           pos == Position(list)
           seqs == [i \in DOMAIN list |-> Encoded(list[i])]
           Flat(n, f) == f = [i \in 1 .. n |-> IF i = 1 THEN seqs[i] ELSE f[i - 1] \o seqs[i]]
           flatten == CHOOSE f : Flat(N, f)
<1>1. N \in Nat /\ DOMAIN list = 1 .. N  OBVIOUS
<1>2. \A i \in 1 .. N : seqs[i] = Encoded(list[i]) /\ seqs[i] \in Seq(Words)
                        /\ Len(seqs[i]) = Len(Encoded(list[i])) /\ Len(seqs[i]) \in Nat
    BY <1>1, EncodedLength
<1>3. Len(seqs) = N
    <2>1. seqs \in [1 .. N -> Seq(Words)]  BY <1>1, EncodedLength
    <2> HIDE DEF seqs
    <2> QED  BY <1>1, <2>1, FixedLength
<1>4. /\ pos \in [1 .. N + 1 -> Nat] /\ pos[1] = 0
      /\ \A k \in 1 .. N : pos[k + 1] = pos[k] + Len(Encoded(list[k]))
    BY PositionExists DEF Upto
<1> HIDE DEF seqs, pos
<1>5. FlattenSeq(seqs) = IF N = 0 THEN seqs ELSE flatten[N]  BY <1>3 DEF FlattenSeq
<1>6. CASE N = 0
    <2>1. Len(FlattenSeq(seqs)) = 0  BY <1>3, <1>5, <1>6
    <2> QED  BY <1>4, <1>6, <2>1 DEF pos, seqs
<1>7. CASE N # 0
    <2> DEFINE Missing == {n \in 0 .. N : ~\E f : Flat(n, f)}
    <2> HIDE DEF Flat
    <2>1. Missing = {}
        <3>1. SUFFICES ASSUME Missing # {} PROVE FALSE  OBVIOUS
        <3>2. PICK n \in Missing : \A m \in Missing : n <= m
            <4>1. Missing \in SUBSET Nat  BY <1>1
            <4> HIDE DEF Missing
            <4> QED  BY <3>1, <4>1, Smallest
        <3>3. n \in 0 .. N /\ n \in Nat  BY <1>1, <3>2
        <3>4. CASE n = 0
            <4>1. 1 .. 0 = {}  OBVIOUS
            <4>2. Flat(0, <<>>)  BY <4>1 DEF Flat
            <4> QED  BY <3>2, <3>4, <4>2
        <3>5. CASE n # 0
            <4>1. n - 1 \in 0 .. N /\ n - 1 \notin Missing  BY <1>1, <3>2, <3>3, <3>5
            <4>2. PICK before : Flat(n - 1, before)  BY <4>1
            <4> DEFINE f == [i \in 1 .. n |-> IF i = n
                                              THEN (IF n = 1 THEN seqs[n] ELSE before[n - 1] \o seqs[n])
                                              ELSE before[i]]
            <4>3. ASSUME NEW i \in 1 .. n
                  PROVE  f[i] = IF i = 1 THEN seqs[i] ELSE f[i - 1] \o seqs[i]
                <5>1. i = 1 \/ f[i - 1] = before[i - 1]  BY <3>3
                <5>2. CASE i = n  BY <5>1, <5>2
                <5>3. CASE i # n
                    <6>1. i \in 1 .. n - 1  BY <3>3, <5>3
                    <6>2. before[i] = IF i = 1 THEN seqs[i] ELSE before[i - 1] \o seqs[i]
                        BY <4>2, <6>1 DEF Flat
                    <6> QED  BY <5>1, <5>3, <6>2
                <5> QED  BY <5>2, <5>3
            <4>4. f = [i \in 1 .. n |-> f[i]]  OBVIOUS
            <4> HIDE DEF f
            <4>5. Flat(n, f)  BY <4>3, <4>4 DEF Flat
            <4> QED  BY <3>2, <4>5
        <3> QED  BY <3>4, <3>5
    <2>2. Flat(N, flatten)
        <3>1. \E f : Flat(N, f)
            <4>1. N \in 0 .. N  BY <1>1
            <4> QED  BY <2>1, <4>1
        <3> QED  BY <3>1, Zenon
    <2> HIDE DEF flatten
    <2> DEFINE Wrong == {i \in 1 .. N : ~(flatten[i] \in Seq(Words) /\ Len(flatten[i]) = pos[i + 1])}
    <2>3. Wrong = {}
        <3>1. SUFFICES ASSUME Wrong # {} PROVE FALSE  OBVIOUS
        <3>2. PICK i \in Wrong : \A m \in Wrong : i <= m
            <4>1. Wrong \in SUBSET Nat  BY <1>1
            <4> HIDE DEF Wrong
            <4> QED  BY <3>1, <4>1, Smallest
        <3>3. i \in 1 .. N /\ ~(flatten[i] \in Seq(Words) /\ Len(flatten[i]) = pos[i + 1])  BY <3>2
        <3>4. flatten[i] = IF i = 1 THEN seqs[i] ELSE flatten[i - 1] \o seqs[i]  BY <2>2, <3>3 DEF Flat
        <3>5. CASE i = 1
            <4>1. pos[2] = 0 + Len(seqs[1])  BY <1>2, <1>4, <3>3, <3>5
            <4> QED  BY <1>2, <3>3, <3>4, <3>5, <4>1
        <3>6. CASE i # 1
            <4>1. i - 1 \in 1 .. N /\ (i - 1) + 1 = i /\ ~(i <= i - 1)  BY <1>1, <3>3, <3>6
            <4>2. flatten[i - 1] \in Seq(Words) /\ Len(flatten[i - 1]) = pos[i]  BY <3>2, <4>1
            <4>3. seqs[i] \in Seq(Words) /\ pos[i + 1] = pos[i] + Len(seqs[i])  BY <1>2, <1>4, <3>3
            <4>4. flatten[i] = flatten[i - 1] \o seqs[i]  BY <3>4, <3>6
            <4>5. flatten[i - 1] \o seqs[i] \in Seq(Words)
                  /\ Len(flatten[i - 1] \o seqs[i]) = Len(flatten[i - 1]) + Len(seqs[i])
                BY <4>2, <4>3, ConcatProperties
            <4> QED  BY <3>3, <4>2, <4>3, <4>4, <4>5
        <3> QED  BY <3>5, <3>6
    <2>4. N \in 1 .. N  BY <1>1, <1>7
    <2>5. Len(flatten[N]) = pos[N + 1]  BY <2>3, <2>4
    <2> QED  BY <1>5, <1>7, <2>5 DEF pos, seqs
<1> QED  BY <1>6, <1>7

----------------------------------------------------------------------------
Zeros == <<0, 0, 0, 0>>

\* The first n descriptors of the list stand in the words w, and what was there
\* before follows.
Carries(w, n) ==
    /\ \A i \in 1 .. n : \A k \in 1 .. Len(Encoded(image[i])) :
           w[Position(image)[i] + k] = Encoded(image[i])[k]
    /\ \A m \in Position(image)[n + 1] + 1 .. RomSize : w[m] = old

\* The words as they were before they became numbers of either byte order.
Original == [m \in 1 .. RomSize |-> Word(m)]

RomType ==
    /\ romPhase \in {"prepare", "parse", "done", "failed"}
    /\ image \in Seq(Descriptors)
    /\ todo \in 0 .. Len(image)
    /\ old \in [1 .. 4 -> 0 .. 255]
    /\ rom \in [1 .. RomSize -> Words]
    /\ hostOrder \in BOOLEAN
    /\ swap \in BOOLEAN

Prepared ==
    romPhase = "prepare" =>
        /\ romAt = Position(image)[Len(image) - todo + 1]
        /\ \A i \in 1 .. Len(image) - todo : Len(Encoded(image[i])) - 1 < SizeLimit
        /\ Carries(rom, Len(image) - todo)
        /\ infos = <<>>

\* What has been read is what was written, in order; more only where something else was.
Parsed ==
    romPhase \in {"parse", "done"} /\ swap = ~hostOrder =>
        /\ \A i \in 1 .. Len(image) : Len(Encoded(image[i])) - 1 < SizeLimit
        /\ Position(image)[Len(image) + 1] < RomSize
        /\ Carries(Original, Len(image))
        /\ \E S : infos \in Seq(S)
        /\ \A i \in 1 .. Len(image) : i <= Len(infos) => infos[i] = AsRead(image[i])
        /\ Len(infos) <= Len(image) => romAt = Position(image)[Len(infos) + 1]
        /\ Len(infos) > Len(image) => old # Zeros
        /\ romPhase = "done" => Len(infos) >= Len(image)

RomFailed == romPhase = "failed" /\ swap = ~hostOrder /\ old = Zeros => ~Fits

RomInv == RomType /\ Prepared /\ Parsed /\ RomFailed

\* What a list that fits says of its positions.
LEMMA FitsWhole ==
    ASSUME RomType, Fits
    PROVE  Position(image)[Len(image) + 1] < RomSize
<1>1. image \in Seq(Descriptors)  BY DEF RomType
<1>2. Len(FlattenSeq([j \in DOMAIN image |-> Encoded(image[j])])) = Position(image)[Len(image) + 1]
    BY <1>1, FlattenedLength
<1> QED  BY <1>2 DEF Fits

\* Every descriptor of a list that fits has room.
LEMMA FitsBelow ==
    ASSUME RomType, Fits, NEW i \in 1 .. Len(image)
    PROVE  /\ Len(Encoded(image[i])) - 1 < SizeLimit
           /\ Position(image)[i + 1] < RomSize
<1>1. image \in Seq(Descriptors) /\ Len(image) \in Nat  BY DEF RomType
<1>2. Len(Encoded(image[i])) - 1 < SizeLimit
    <2>1. i \in DOMAIN image  BY <1>1
    <2> QED  BY <2>1 DEF Fits
<1>3. i + 1 \in 1 .. Len(image) + 1 /\ Len(image) + 1 \in 1 .. Len(image) + 1 /\ i + 1 <= Len(image) + 1
    BY <1>1
<1>4. Position(image)[i + 1] <= Position(image)[Len(image) + 1]  BY <1>1, <1>3, PositionsGrow
<1>5. Position(image) \in [1 .. Len(image) + 1 -> Nat]  BY <1>1, PositionExists DEF Upto
<1>6. Position(image)[i + 1] \in Nat /\ Position(image)[Len(image) + 1] \in Nat  BY <1>3, <1>5
<1> QED  BY <1>2, <1>4, <1>6, FitsWhole, RomAssumption

\* The invariant holds when nothing is written.
LEMMA RomInitInv == RomInit => RomInv
<1> SUFFICES ASSUME RomInit PROVE RomInv  OBVIOUS
<1>1. /\ romPhase = "prepare" /\ image \in Images /\ todo = Len(image) /\ romAt = 0
      /\ old \in OldWords /\ rom = [i \in 1 .. RomSize |-> old] /\ infos = <<>>
    BY DEF RomInit
<1>2. hostOrder \in BOOLEAN /\ swap \in BOOLEAN  BY DEF RomInit
<1>3. image \in Seq(Descriptors) /\ Len(image) \in Nat  BY <1>1, RomAssumption
<1>4. old \in [1 .. 4 -> 0 .. 255] /\ old \in Words
    <2>1. old \in [1 .. 4 -> 0 .. 255]  BY <1>1, RomAssumption
    <2>2. \A w \in [1 .. 4 -> 0 .. 255] : w \in [1 .. 4 -> Int]  OBVIOUS
    <2> QED  BY <2>1, <2>2 DEF Words
<1>5. rom \in [1 .. RomSize -> Words]  BY <1>1, <1>4
<1>6. RomType  BY <1>1, <1>2, <1>3, <1>4, <1>5 DEF RomType
<1>7. Position(image)[1] = 0  BY <1>3, PositionExists DEF Upto
<1>8. Len(image) - todo = 0  BY <1>1, <1>3
<1>9. Carries(rom, 0)
    <2>1. \A m \in 0 + 1 .. RomSize : rom[m] = old  BY <1>1
    <2>2. 0 + 1 = 1 /\ 1 .. 0 = {}  OBVIOUS
    <2> QED  BY <1>7, <2>1, <2>2 DEF Carries
<1>10. Prepared  BY <1>1, <1>7, <1>8, <1>9 DEF Prepared
<1> QED  BY <1>1, <1>6, <1>10 DEF RomInv, Parsed, RomFailed

\* One descriptor more stands in the image, or there was no room for it.
LEMMA PrepareOneStep == ASSUME RomInv, PrepareOne PROVE RomInv'
<1> DEFINE n == Len(image) - todo
           pos == Position(image)
           words == Encoded(image[n + 1])
<1>1. RomType /\ romPhase = "prepare" /\ todo > 0
      /\ UNCHANGED <<image, old, hostOrder, swap, infos>> /\ todo' = todo - 1
    BY DEF PrepareOne, RomInv
<1>2. image \in Seq(Descriptors) /\ Len(image) \in Nat /\ todo \in 1 .. Len(image)
    BY <1>1 DEF RomType
<1>3. n \in 0 .. Len(image) /\ n + 1 \in 1 .. Len(image) /\ Len(image) - (todo - 1) = n + 1  BY <1>2
<1>4. romAt = pos[n + 1] /\ infos = <<>> /\ Carries(rom, n)
      /\ \A i \in 1 .. n : Len(Encoded(image[i])) - 1 < SizeLimit
    BY <1>1 DEF RomInv, Prepared
<1>5. image[n + 1] \in Descriptors /\ Len(words) \in Nat \ {0} /\ words \in Seq(Words)
    BY <1>2, <1>3, EncodedLength
<1>6. /\ pos \in [1 .. Len(image) + 1 -> Nat]
      /\ \A i \in 1 .. Len(image) : pos[i + 1] = pos[i] + Len(Encoded(image[i]))
    BY <1>2, PositionExists DEF Upto
<1>7. IF Len(words) - 1 < SizeLimit /\ romAt + Len(words) <= RomSize
      THEN /\ rom' = [i \in 1 .. RomSize |->
                         IF i - romAt \in DOMAIN words THEN words[i - romAt] ELSE rom[i]]
           /\ romAt' = romAt + Len(words)
           /\ UNCHANGED romPhase
      ELSE romPhase' = "failed" /\ UNCHANGED <<rom, romAt>>
    BY DEF PrepareOne
<1> HIDE DEF n, words
<1>8. DOMAIN words = 1 .. Len(words)  BY <1>5
<1>9. romAt \in Nat /\ RomSize \in Nat /\ SizeLimit \in Int  BY <1>3, <1>4, <1>6, RomAssumption
<1>10. CASE Len(words) - 1 < SizeLimit /\ romAt + Len(words) <= RomSize
    <2>1. /\ rom' = [i \in 1 .. RomSize |->
                         IF i - romAt \in DOMAIN words THEN words[i - romAt] ELSE rom[i]]
          /\ romAt' = romAt + Len(words) /\ romPhase' = "prepare"
        BY <1>1, <1>7, <1>10
    <2>2. rom' \in [1 .. RomSize -> Words]
        <3>1. \A i \in DOMAIN words : words[i] \in Words  BY <1>5, <1>8
        <3>2. rom \in [1 .. RomSize -> Words]  BY <1>1 DEF RomType
        <3> HIDE DEF pos
        <3> QED  BY <2>1, <3>1, <3>2
    <2>3. todo' \in 0 .. Len(image)  BY <1>1, <1>2
    <2>4. RomType'  BY <1>1, <2>1, <2>2, <2>3 DEF RomType
    <2>5. Len(image)' - todo' = n + 1  BY <1>1, <1>3
    <2>6. romAt' = pos[(n + 1) + 1]  BY <1>3, <1>4, <1>6, <2>1 DEF words
    <2>7. \A i \in 1 .. n + 1 : Len(Encoded(image[i])) - 1 < SizeLimit
        <3> TAKE i \in 1 .. n + 1
        <3>1. CASE i = n + 1  BY <1>10, <3>1 DEF words
        <3>2. CASE i # n + 1
            <4>1. i \in 1 .. n  BY <1>3, <3>2
            <4> QED  BY <1>4, <4>1
        <3> QED  BY <3>1, <3>2
    <2>8. \A i \in 1 .. n + 1 : \A k \in 1 .. Len(Encoded(image[i])) :
              rom'[pos[i] + k] = Encoded(image[i])[k]
        <3> TAKE i \in 1 .. n + 1
        <3> TAKE k \in 1 .. Len(Encoded(image[i]))
        <3>1. CASE i = n + 1
            <4>1. pos[i] + k \in 1 .. RomSize /\ (pos[i] + k) - romAt = k /\ k \in DOMAIN words
                BY <1>4, <1>5, <1>8, <1>9, <1>10, <3>1 DEF words
            <4>2. rom'[pos[i] + k] = words[k]  BY <2>1, <4>1
            <4> QED  BY <3>1, <4>2 DEF words
        <3>2. CASE i # n + 1
            <4>1. i \in 1 .. n /\ i \in 1 .. Len(image)  BY <1>3, <3>2
            <4>2. Len(Encoded(image[i])) \in Nat  BY <1>2, <4>1, EncodedLength
            <4>3. pos[i + 1] <= pos[n + 1]
                <5>1. i + 1 \in 1 .. Len(image) + 1 /\ n + 1 \in 1 .. Len(image) + 1 /\ i + 1 <= n + 1
                    BY <1>2, <1>3, <4>1
                <5> QED  BY <1>2, <5>1, PositionsGrow
            <4>4. pos[i] \in Nat /\ pos[i + 1] = pos[i] + Len(Encoded(image[i]))
                <5>1. i \in 1 .. Len(image) + 1  BY <1>2, <4>1
                <5> QED  BY <1>6, <4>1, <5>1
            <4> DEFINE m == pos[i] + k
            <4>5. m \in 1 .. RomSize /\ m <= romAt
                <5> DEFINE size == Len(Encoded(image[i]))
                <5>1. size \in Nat /\ k \in 1 .. size  BY <4>2
                <5> HIDE DEF size, pos
                <5>2. pos[i] + size <= romAt  BY <1>4, <4>3, <4>4 DEF size
                <5>3. romAt <= RomSize  BY <1>5, <1>9, <1>10
                <5>4. pos[i] \in Nat  BY <4>4
                <5> QED  BY <1>9, <5>1, <5>2, <5>3, <5>4
            <4>6. rom[m] = Encoded(image[i])[k]  BY <1>4, <4>1 DEF Carries
            <4> HIDE DEF m
            <4>7. m - romAt \notin DOMAIN words  BY <1>8, <1>9, <4>5
            <4>8. rom'[m] = rom[m]  BY <2>1, <4>5, <4>7
            <4> QED  BY <4>6, <4>8 DEF m
        <3> QED  BY <3>1, <3>2
    <2>9. \A m \in pos[(n + 1) + 1] + 1 .. RomSize : rom'[m] = old
        <3>1. pos[(n + 1) + 1] = romAt + Len(words)  BY <2>1, <2>6
        <3> TAKE m \in pos[(n + 1) + 1] + 1 .. RomSize
        <3>2. m \in Nat /\ m > romAt + Len(words) /\ m <= RomSize /\ m \in 1 .. RomSize
            BY <1>5, <1>9, <3>1
        <3>3. m - romAt \notin DOMAIN words  BY <1>5, <1>8, <1>9, <3>2
        <3>4. rom'[m] = rom[m]  BY <2>1, <3>2, <3>3
        <3>5. m \in pos[n + 1] + 1 .. RomSize  BY <1>4, <1>5, <1>9, <3>2
        <3>6. rom[m] = old  BY <1>4, <3>5 DEF Carries
        <3> QED  BY <3>4, <3>6
    <2>10. Prepared'
        <3>1. Carries(rom', n + 1)  BY <2>8, <2>9 DEF Carries
        <3>2. Carries(rom, Len(image) - todo)' <=> Carries(rom', n + 1)
            BY <1>1, <2>5 DEF Carries
        <3>3. image' = image /\ infos' = <<>>  BY <1>1, <1>4
        <3> QED  BY <2>5, <2>6, <2>7, <3>1, <3>2, <3>3 DEF Prepared
    <2> QED  BY <2>1, <2>4, <2>10 DEF RomInv, Parsed, RomFailed
<1>11. CASE ~(Len(words) - 1 < SizeLimit /\ romAt + Len(words) <= RomSize)
    <2>1. romPhase' = "failed" /\ UNCHANGED <<rom, romAt>>  BY <1>7, <1>11
    <2>2. RomType'
        <3>1. todo' \in 0 .. Len(image)  BY <1>1, <1>2
        <3> QED  BY <1>1, <2>1, <3>1 DEF RomType
    <2>3. ~Fits
        <3>1. SUFFICES ASSUME Fits PROVE FALSE  OBVIOUS
        <3>2. Len(words) - 1 < SizeLimit /\ pos[(n + 1) + 1] < RomSize
            BY <1>1, <1>3, <3>1, FitsBelow DEF words
        <3>3. pos[(n + 1) + 1] = romAt + Len(words)  BY <1>3, <1>4, <1>6 DEF words
        <3> QED  BY <1>5, <1>9, <1>11, <3>2, <3>3
    <2>4. ~Fits'  BY <1>1, <2>3 DEF Fits
    <2> QED  BY <2>1, <2>2, <2>4 DEF RomInv, Prepared, Parsed, RomFailed
<1> QED  BY <1>10, <1>11

\* The words become numbers, and are the original ones in the order of parse().
LEMMA PrepareEndStep == ASSUME RomInv, PrepareEnd PROVE RomInv'
<1> DEFINE N == Len(image)
           pos == Position(image)
<1>1. /\ RomType /\ romPhase = "prepare" /\ todo = 0
      /\ UNCHANGED <<image, todo, old, hostOrder, swap, infos>> /\ romAt' = 0
      /\ rom' = [i \in 1 .. RomSize |-> IF hostOrder THEN Reverse(rom[i]) ELSE rom[i]]
    BY DEF PrepareEnd, RomInv
<1>2. romPhase' = IF romAt < RomSize THEN "parse" ELSE "failed"  BY DEF PrepareEnd
<1>3. image \in Seq(Descriptors) /\ N \in Nat /\ rom \in [1 .. RomSize -> Words]
      /\ hostOrder \in BOOLEAN /\ swap \in BOOLEAN
    BY <1>1 DEF RomType
<1>4. N - todo = N /\ N - todo + 1 = N + 1  BY <1>1, <1>3
<1>5. romAt = pos[N + 1] /\ infos = <<>> /\ Carries(rom, N)
      /\ \A i \in 1 .. N : Len(Encoded(image[i])) - 1 < SizeLimit
    BY <1>1, <1>4 DEF RomInv, Prepared
<1>6. \A i \in 1 .. RomSize : rom[i] \in Words /\ Reverse(rom[i]) \in Words
                                /\ Reverse(Reverse(rom[i])) = rom[i]
    BY <1>3, ReversedTwice
<1>7. RomType'
    <2>1. rom' \in [1 .. RomSize -> Words]  BY <1>1, <1>6
    <2>2. romPhase' \in {"parse", "failed"}  BY <1>2
    <2>3. todo' \in 0 .. N  BY <1>1, <1>3
    <2> QED  BY <1>1, <2>1, <2>2, <2>3 DEF RomType
<1>8. CASE romAt < RomSize
    <2>1. romPhase' = "parse"  BY <1>2, <1>8
    <2>2. ASSUME (swap = ~hostOrder)' PROVE Carries(Original, N)'
        <3>1. \A m \in 1 .. RomSize : Original'[m] = rom[m]
            <4> TAKE m \in 1 .. RomSize
            <4>1. Original'[m] = IF swap' THEN rom'[m] ELSE Reverse(rom'[m])
                BY DEF Original, Word
            <4>2. rom'[m] = IF hostOrder THEN Reverse(rom[m]) ELSE rom[m]  BY <1>1
            <4>3. CASE hostOrder
                <5>1. ~swap'  BY <1>1, <2>2, <4>3
                <5> QED  BY <1>6, <4>1, <4>2, <4>3, <5>1
            <4>4. CASE ~hostOrder
                <5>1. swap'  BY <1>1, <2>2, <4>4
                <5> QED  BY <4>1, <4>2, <4>4, <5>1
            <4> QED  BY <4>3, <4>4
        <3>2. Carries(Original, N)' <=> Carries(Original', N)  BY <1>1 DEF Carries
        <3>3. \A i \in 1 .. N : \A k \in 1 .. Len(Encoded(image[i])) : pos[i] + k \in 1 .. RomSize
            <4> TAKE i \in 1 .. N
            <4> TAKE k \in 1 .. Len(Encoded(image[i]))
            <4> DEFINE size == Len(Encoded(image[i]))
            <4>1. size \in Nat /\ k \in 1 .. size  BY <1>3, EncodedLength
            <4>2. pos \in [1 .. N + 1 -> Nat] /\ pos[i + 1] = pos[i] + size
                BY <1>3, PositionExists DEF Upto
            <4>3. i + 1 \in 1 .. N + 1 /\ N + 1 \in 1 .. N + 1 /\ i + 1 <= N + 1 /\ i \in 1 .. N + 1
                BY <1>3
            <4>4. pos[i + 1] <= pos[N + 1]  BY <1>3, <4>3, PositionsGrow
            <4>5. pos[i] \in Nat /\ pos[N + 1] \in Nat  BY <4>2, <4>3
            <4> HIDE DEF size, pos, N
            <4>6. pos[i] + size < RomSize /\ RomSize \in Nat  BY <1>5, <1>8, <4>2, <4>4, RomAssumption, <4>1, <4>5
            <4> QED  BY <4>1, <4>5, <4>6
        <3>4. \A m \in pos[N + 1] + 1 .. RomSize : m \in 1 .. RomSize
            <4>1. pos \in [1 .. N + 1 -> Nat] /\ N + 1 \in 1 .. N + 1
                BY <1>3, PositionExists DEF Upto
            <4>2. pos[N + 1] \in Nat  BY <4>1
            <4> QED  BY <4>2, RomAssumption
        <3> HIDE DEF N
        <3>5. Carries(Original', N)  BY <1>5, <3>1, <3>3, <3>4 DEF Carries
        <3> QED  BY <3>2, <3>5
    <2>3. pos[1] = 0 /\ Len(infos') = 0 /\ infos' \in Seq({}) /\ 0 + 1 = 1 /\ 0 <= N /\ ~(0 > N)
        <3>1. pos[1] = 0  BY <1>3, PositionExists DEF Upto
        <3>2. infos' = <<>>  BY <1>1, <1>5
        <3> QED  BY <1>3, <3>1, <3>2, EmptySeq
    <2>4. \A i \in 1 .. N : ~(i <= 0)  BY <1>3
    <2>5. Parsed'
        <3>1. image' = image /\ romAt' = 0  BY <1>1
        <3> HIDE DEF pos
        <3>2. (Carries(Original, Len(image)))' <=> (Carries(Original, N))'  BY <1>1 DEF Carries
        <3> QED  BY <1>1, <1>5, <1>8, <2>1, <2>2, <2>3, <2>4, <3>1, <3>2 DEF Parsed, pos
    <2> QED  BY <1>7, <2>1, <2>5 DEF RomInv, Prepared, RomFailed
<1>9. CASE ~(romAt < RomSize)
    <2>1. romPhase' = "failed"  BY <1>2, <1>9
    <2>2. ~Fits  BY <1>1, <1>5, <1>9, FitsWhole
    <2>3. ~Fits'  BY <1>1, <2>2 DEF Fits
    <2> QED  BY <1>7, <2>1, <2>3 DEF RomInv, Prepared, Parsed, RomFailed
<1> QED  BY <1>8, <1>9

\* What ParseOne takes the words that follow for.
SizeAt(at) == (Word(at + 1)[3] % 64) * 256 + Word(at + 1)[4]

BytesAt(at) ==
    [k \in 1 .. 2 * SizeAt(at) |-> Word(at + 1 + (k + 1) \div 2)[IF k % 2 = 1 THEN 3 ELSE 4]]

\* Words of the form that a header and pairs of bytes have are taken for these.
Pairs(at, count, bytes, type, high, low) ==
    /\ at \in Nat /\ count \in Nat /\ bytes \in Seq(Nat) /\ Len(bytes) = 2 * count
    /\ high \div 64 = type /\ (high % 64) * 256 + low = count
    /\ Word(at + 1) = <<0, 0, high, low>>
    /\ \A j \in 1 .. count : Word(at + 1 + j) = <<0, 0, bytes[2 * j - 1], bytes[2 * j]>>

\* Words of this form are taken for their header and bytes.
LEMMA PairsRead ==
    ASSUME NEW at, NEW count, NEW bytes, NEW type, NEW high, NEW low,
           Pairs(at, count, bytes, type, high, low)
    PROVE  /\ Word(at + 1)[1] = 0 /\ Word(at + 1)[2] = 0
           /\ Word(at + 1)[3] \div 64 = type
           /\ SizeAt(at) = count
           /\ BytesAt(at) = bytes
<1> DEFINE header == Word(at + 1)
           Byte(k) == Word(at + 1 + (k + 1) \div 2)[IF k % 2 = 1 THEN 3 ELSE 4]
<1>0. /\ at \in Nat /\ count \in Nat /\ bytes \in Seq(Nat) /\ Len(bytes) = 2 * count
      /\ high \div 64 = type /\ (high % 64) * 256 + low = count
      /\ header = <<0, 0, high, low>>
      /\ \A j \in 1 .. count : Word(at + 1 + j) = <<0, 0, bytes[2 * j - 1], bytes[2 * j]>>
    BY DEF Pairs
<1>1. header[1] = 0 /\ header[2] = 0 /\ header[3] = high /\ header[4] = low  BY <1>0
<1>2. SizeAt(at) = count /\ header[3] \div 64 = type
    <2>1. SizeAt(at) = (header[3] % 64) * 256 + header[4]  BY DEF SizeAt
    <2> HIDE DEF header
    <2> QED  BY <1>0, <1>1, <2>1
<1>3. \A k \in 1 .. 2 * count : Byte(k) = bytes[k]
    <2> TAKE k \in 1 .. 2 * count
    <2>0. /\ (k + 1) \div 2 \in 1 .. count
          /\ k % 2 = 1 => 2 * ((k + 1) \div 2) - 1 = k
          /\ k % 2 # 1 => 2 * ((k + 1) \div 2) = k
        <3>1. k \in Nat /\ 1 <= k /\ k <= 2 * count  BY <1>0
        <3>2. count \in Nat  BY <1>0
        <3>3. (k + 1) \div 2 \in 1 .. count  BY <3>1, <3>2
        <3>4. k % 2 = 1 => 2 * ((k + 1) \div 2) - 1 = k  BY <3>1
        <3>5. k % 2 # 1 => 2 * ((k + 1) \div 2) = k  BY <3>1
        <3> QED  BY <3>3, <3>4, <3>5
    <2> DEFINE j == (k + 1) \div 2
    <2>1. j \in 1 .. count /\ (k % 2 = 1 => 2 * j - 1 = k) /\ (k % 2 # 1 => 2 * j = k)
        BY <2>0
    <2>2. Byte(k) = Word(at + 1 + j)[IF k % 2 = 1 THEN 3 ELSE 4]  OBVIOUS
    <2> HIDE DEF j, Byte
    <2>3. Word(at + 1 + j) = <<0, 0, bytes[2 * j - 1], bytes[2 * j]>>  BY <1>0, <2>1
    <2>4. Word(at + 1 + j)[3] = bytes[2 * j - 1] /\ Word(at + 1 + j)[4] = bytes[2 * j]  BY <2>3
    <2>5. CASE k % 2 = 1  BY <2>1, <2>2, <2>4, <2>5
    <2>6. CASE k % 2 # 1  BY <2>1, <2>2, <2>4, <2>6
    <2> QED  BY <2>5, <2>6
<1>4. bytes = [k \in 1 .. 2 * count |-> bytes[k]]
    <2>1. bytes \in [1 .. 2 * count -> Nat]  BY <1>0, LenProperties
    <2> QED  BY <2>1
<1>5. BytesAt(at) = [k \in 1 .. 2 * SizeAt(at) |-> Byte(k)]  BY DEF BytesAt
<1> HIDE DEF Byte
<1>6. BytesAt(at) = bytes
    <2>1. BytesAt(at) = [k \in 1 .. 2 * count |-> Byte(k)]  BY <1>2, <1>5
    <2>2. [k \in 1 .. 2 * count |-> Byte(k)] = [k \in 1 .. 2 * count |-> bytes[k]]  BY <1>3
    <2> QED  BY <1>4, <2>1, <2>2
<1> QED  BY <1>1, <1>2, <1>6

\* The words of a descriptor stand at this place.
Stands(info, at) == \A k \in 1 .. Len(Encoded(info)) : Word(at + k) = Encoded(info)[k]

\* The words of a descriptor are taken for what they are.
LEMMA WordsRead ==
    ASSUME NEW info \in Descriptors, NEW at \in Nat, Count(info) < 16384,
           Stands(info, at)
    PROVE  /\ Word(at + 1)[1] = 0 /\ Word(at + 1)[2] = 0
           /\ Word(at + 1)[3] \div 64 = info.type
           /\ SizeAt(at) = Count(info)
           /\ BytesAt(at) = Bytes(info)
<1> DEFINE type == info.type
           count == Count(info)
           bytes == Bytes(info)
           words == Encoded(info)
           high == 64 * type + (count \div 256)
           low == count % 256
<1>1. bytes \in Seq(Nat) /\ count \in Nat /\ Len(bytes) = 2 * count  BY EncodedWords
<1>2. Len(words) = count + 1  BY EncodedWords
<1>3. words[1] = <<0, 0, high, low>>  BY EncodedWords
<1>4. \A k \in 1 .. count : words[k + 1] = <<0, 0, bytes[2 * k - 1], bytes[2 * k]>>
    BY EncodedPairs
<1>5. \A k \in 1 .. Len(words) : Word(at + k) = words[k]  BY DEF Stands
<1>6. type \in {Text, BigInt, JSON} /\ count < 16384  BY TypeOf
<1> HIDE DEF type, count, bytes, words
<1>7. high \div 64 = type /\ (high % 64) * 256 + low = count  BY <1>1, <1>6, HeaderRead
<1> HIDE DEF high, low
<1>8. Word(at + 1) = <<0, 0, high, low>>
    <2>1. 1 \in 1 .. Len(words)  BY <1>1, <1>2
    <2>2. Word(at + 1) = words[1]  BY <1>5, <2>1
    <2> QED  BY <1>3, <2>2
<1>9. \A j \in 1 .. count : Word(at + 1 + j) = <<0, 0, bytes[2 * j - 1], bytes[2 * j]>>
    <2> TAKE j \in 1 .. count
    <2>1. j + 1 \in 1 .. Len(words) /\ at + (j + 1) = at + 1 + j  BY <1>1, <1>2
    <2>2. Word(at + (j + 1)) = words[j + 1]  BY <1>5, <2>1
    <2>3. words[j + 1] = <<0, 0, bytes[2 * j - 1], bytes[2 * j]>>  BY <1>4
    <2> QED  BY <2>1, <2>2, <2>3
<1>10. Pairs(at, count, bytes, type, high, low)  BY <1>1, <1>7, <1>8, <1>9 DEF Pairs
<1>11. /\ Word(at + 1)[1] = 0 /\ Word(at + 1)[2] = 0
       /\ Word(at + 1)[3] \div 64 = type
       /\ SizeAt(at) = count
       /\ BytesAt(at) = bytes
    BY <1>10, PairsRead
<1> QED  BY <1>11 DEF type, count, bytes

\* One descriptor more is read; or the list ends; or it is ill-formed.
TypeAt(at) == Word(at + 1)[3] \div 64

ReadsOne ==
    /\ TypeAt(romAt) # 0
    /\ infos' = Append(infos, [type |-> TypeAt(romAt),
                               value |-> Decoded(TypeAt(romAt), BytesAt(romAt))])
    /\ romAt' = romAt + 1 + SizeAt(romAt)
    /\ romPhase' = "parse"

ReadsEnd ==
    /\ romAt = RomSize \/ TypeAt(romAt) = 0 \/ SizeAt(romAt) > RomSize - romAt - 1
    /\ romPhase' = "done" /\ romAt' = romAt /\ infos' = infos

ReadsIll ==
    /\ \/ Word(romAt + 1)[1] # 0
       \/ Word(romAt + 1)[2] # 0
       \/ TypeAt(romAt) = JSON /\ ~Inflates(BytesAt(romAt))
    /\ romPhase' = "failed"

\* A step of parse() is one of these.
LEMMA ParseOneCases ==
    ASSUME ParseOne
    PROVE  /\ romPhase = "parse" /\ (ReadsOne \/ ReadsEnd \/ ReadsIll)
           /\ image' = image /\ todo' = todo /\ rom' = rom /\ old' = old
           /\ hostOrder' = hostOrder /\ swap' = swap
<1>1. /\ romPhase = "parse" /\ image' = image /\ todo' = todo /\ rom' = rom /\ old' = old
      /\ hostOrder' = hostOrder /\ swap' = swap
    BY DEF ParseOne
<1>2. CASE romAt = RomSize
    <2>1. romPhase' = "done" /\ romAt' = romAt /\ infos' = infos  BY <1>2 DEF ParseOne
    <2> QED  BY <1>1, <1>2, <2>1 DEF ReadsEnd
<1>3. CASE romAt # RomSize
    <2> DEFINE type == TypeAt(romAt)
               size == SizeAt(romAt)
               bytes == BytesAt(romAt)
    <2>1. IF Word(romAt + 1)[1] # 0 \/ Word(romAt + 1)[2] # 0
          THEN romPhase' = "failed" /\ UNCHANGED <<romAt, infos>>
          ELSE IF type = 0 \/ size > RomSize - romAt - 1
          THEN romPhase' = "done" /\ UNCHANGED <<romAt, infos>>
          ELSE IF type = JSON /\ ~Inflates(bytes)
          THEN romPhase' = "failed" /\ UNCHANGED <<romAt, infos>>
          ELSE /\ infos' = Append(infos, [type |-> type, value |-> Decoded(type, bytes)])
               /\ romAt' = romAt + 1 + size
               /\ UNCHANGED romPhase
        BY <1>3, Zenon DEF ParseOne, TypeAt, SizeAt, BytesAt
    <2> HIDE DEF type, size, bytes
    <2>2. CASE Word(romAt + 1)[1] # 0 \/ Word(romAt + 1)[2] # 0
        BY <1>1, <2>1, <2>2 DEF ReadsIll
    <2>3. CASE ~(Word(romAt + 1)[1] # 0 \/ Word(romAt + 1)[2] # 0)
        <3>1. CASE type = 0 \/ size > RomSize - romAt - 1
            BY <1>1, <2>1, <2>3, <3>1 DEF ReadsEnd, type, size
        <3>2. CASE ~(type = 0 \/ size > RomSize - romAt - 1)
            <4>1. CASE type = JSON /\ ~Inflates(bytes)
                BY <1>1, <2>1, <2>3, <3>2, <4>1 DEF ReadsIll, type, bytes
            <4>2. CASE ~(type = JSON /\ ~Inflates(bytes))
                BY <1>1, <2>1, <2>3, <3>2, <4>2 DEF ReadsOne, type, bytes, size
            <4> QED  BY <4>1, <4>2
        <3> QED  BY <3>1, <3>2
    <2> QED  BY <2>2, <2>3
<1> QED  BY <1>2, <1>3

\* Where a descriptor was written that has not been read, it is read.
LEMMA ReadsWritten ==
    ASSUME RomInv, romPhase = "parse", swap = ~hostOrder, Len(infos) < Len(image)
    PROVE  LET i == Len(infos) + 1
           IN  /\ i \in 1 .. Len(image) /\ image[i] \in Descriptors
               /\ romAt \in Nat /\ romAt # RomSize
               /\ Word(romAt + 1)[1] = 0 /\ Word(romAt + 1)[2] = 0
               /\ TypeAt(romAt) = image[i].type
               /\ SizeAt(romAt) = Count(image[i])
               /\ BytesAt(romAt) = Bytes(image[i])
               /\ romAt + 1 + SizeAt(romAt) = Position(image)[i + 1]
               /\ ~(SizeAt(romAt) > RomSize - romAt - 1)
<1> DEFINE N == Len(image)
           i == Len(infos) + 1
           pos == Position(image)
           info == image[i]
<1>1. image \in Seq(Descriptors) /\ N \in Nat  BY DEF RomInv, RomType
<1>2. PICK S : infos \in Seq(S)  BY DEF RomInv, Parsed
<1>3. Len(infos) \in Nat  BY <1>2
<1>4. i \in 1 .. N /\ i \in 1 .. N + 1 /\ i + 1 \in 1 .. N + 1 /\ N + 1 \in 1 .. N + 1 /\ i + 1 <= N + 1
    BY <1>1, <1>3
<1>5. info \in Descriptors /\ Len(Encoded(info)) \in Nat \ {0}  BY <1>1, <1>4, EncodedLength
<1>6. Count(info) \in Nat /\ Len(Encoded(info)) = Count(info) + 1  BY <1>5, EncodedWords
<1>7. pos \in [1 .. N + 1 -> Nat] /\ pos[i + 1] = pos[i] + Len(Encoded(info))
    BY <1>1, <1>4, PositionExists DEF Upto
<1>8. pos[i + 1] <= pos[N + 1]  BY <1>1, <1>4, PositionsGrow
<1>9. /\ Len(Encoded(info)) - 1 < SizeLimit
      /\ pos[N + 1] < RomSize
      /\ Carries(Original, N)
      /\ romAt = pos[i]
    BY <1>1, <1>3, <1>4 DEF RomInv, Parsed
<1>10. pos[i] \in Nat /\ pos[i + 1] \in Nat /\ pos[N + 1] \in Nat  BY <1>4, <1>7
<1>11. \A k \in 1 .. Len(Encoded(info)) : Original[romAt + k] = Encoded(info)[k]
    BY <1>4, <1>9 DEF Carries
<1> HIDE DEF N, i, pos, info
<1>12. RomSize \in Nat /\ SizeLimit \in Nat /\ SizeLimit <= 16384  BY RomAssumption
<1>13. /\ romAt \in Nat /\ romAt + 1 + Count(info) = pos[i + 1] /\ pos[i + 1] < RomSize
       /\ Count(info) < 16384
    <2>1. romAt \in Nat /\ romAt = pos[i]  BY <1>9, <1>10
    <2>2. pos[i + 1] = pos[i] + (Count(info) + 1)  BY <1>6, <1>7
    <2>3. romAt + 1 + Count(info) = pos[i + 1]  BY <1>6, <2>1, <2>2
    <2>4. pos[N + 1] < RomSize  BY <1>9
    <2>5. pos[i + 1] < RomSize  BY <1>8, <1>10, <1>12, <2>4
    <2>6. (Count(info) + 1) - 1 < SizeLimit  BY <1>6, <1>9
    <2>7. Count(info) < 16384  BY <1>6, <1>12, <2>6
    <2> QED  BY <2>1, <2>3, <2>5, <2>7
<1>14. Stands(info, romAt)
    <2> SUFFICES ASSUME NEW k \in 1 .. Len(Encoded(info))
                 PROVE  Word(romAt + k) = Encoded(info)[k]
        BY DEF Stands
    <2>1. romAt + k \in 1 .. RomSize  BY <1>6, <1>12, <1>13
    <2>2. Original[romAt + k] = Word(romAt + k)  BY <2>1 DEF Original
    <2> QED  BY <1>11, <2>2
<1>15. /\ Word(romAt + 1)[1] = 0 /\ Word(romAt + 1)[2] = 0
       /\ Word(romAt + 1)[3] \div 64 = info.type
       /\ SizeAt(romAt) = Count(info)
       /\ BytesAt(romAt) = Bytes(info)
    <2>1. info \in Descriptors /\ romAt \in Nat /\ Count(info) < 16384  BY <1>5, <1>13
    <2> QED  BY <1>14, <2>1, WordsRead
<1>16. romAt # RomSize /\ ~(Count(info) > RomSize - romAt - 1)  BY <1>6, <1>12, <1>13
<1>17. TypeAt(romAt) = info.type  BY <1>15 DEF TypeAt
<1> QED  BY <1>4, <1>5, <1>13, <1>15, <1>16, <1>17 DEF N, i, pos, info

\* Behind the last one there is an end, if the words held zeros.
LEMMA ReadsRest ==
    ASSUME RomInv, romPhase = "parse", swap = ~hostOrder, Len(infos) >= Len(image),
           ReadsOne \/ ReadsIll
    PROVE  old # Zeros
<1>1. SUFFICES ASSUME old = Zeros PROVE FALSE  OBVIOUS
<1>2. Len(image) \in Nat /\ image \in Seq(Descriptors)  BY DEF RomInv, RomType
<1>3. PICK S : infos \in Seq(S)  BY DEF RomInv, Parsed
<1>4. Len(infos) = Len(image)
    <2>1. ~(Len(infos) > Len(image))  BY <1>1 DEF RomInv, Parsed
    <2>2. Len(infos) \in Nat  BY <1>3
    <2> QED  BY <1>2, <2>1, <2>2
<1> DEFINE at == Position(image)[Len(image) + 1]
<1>5. at < RomSize /\ Carries(Original, Len(image)) /\ romAt = at
    BY <1>2, <1>4 DEF RomInv, Parsed
<1>6. at \in Nat
    <2>1. Position(image) \in [1 .. Len(image) + 1 -> Nat]  BY <1>2, PositionExists DEF Upto
    <2>2. Len(image) + 1 \in 1 .. Len(image) + 1  BY <1>2
    <2> QED  BY <2>1, <2>2
<1>7. \A m \in at + 1 .. RomSize : Original[m] = old  BY <1>5 DEF Carries
<1> HIDE DEF at
<1>8. at + 1 \in at + 1 .. RomSize /\ at + 1 \in 1 .. RomSize  BY <1>5, <1>6, RomAssumption
<1>9. Original[at + 1] = Word(at + 1)  BY <1>8 DEF Original
<1>10. Word(romAt + 1) = <<0, 0, 0, 0>>  BY <1>1, <1>5, <1>7, <1>8, <1>9 DEF Zeros
<1>11. Word(romAt + 1)[1] = 0 /\ Word(romAt + 1)[2] = 0 /\ Word(romAt + 1)[3] = 0  BY <1>10
<1>12. TypeAt(romAt) = 0
    <2>1. TypeAt(romAt) = 0 \div 64  BY <1>11 DEF TypeAt
    <2> QED  BY <2>1
<1> QED  BY <1>11, <1>12 DEF ReadsOne, ReadsIll, JSON

\* One descriptor more is read, and it is the one that was written.
LEMMA ParseOneStep == ASSUME RomInv, ParseOne PROVE RomInv'
<1>1. /\ romPhase = "parse" /\ (ReadsOne \/ ReadsEnd \/ ReadsIll)
      /\ image' = image /\ todo' = todo /\ rom' = rom /\ old' = old
      /\ hostOrder' = hostOrder /\ swap' = swap
    BY ParseOneCases
<1>2. romPhase' \in {"parse", "done", "failed"}
    BY <1>1 DEF ReadsOne, ReadsEnd, ReadsIll
<1>3. RomType'  BY <1>1, <1>2 DEF RomInv, RomType
<1>4. Prepared'  BY <1>2 DEF Prepared
<1>5. SUFFICES ASSUME swap = ~hostOrder PROVE Parsed' /\ RomFailed'
    BY <1>1, <1>3, <1>4 DEF RomInv, Parsed, RomFailed
<1> DEFINE N == Len(image)
           n == Len(infos)
           pos == Position(image)
<1>6. image \in Seq(Descriptors) /\ N \in Nat  BY DEF RomInv, RomType
<1>7. PICK S : infos \in Seq(S)  BY <1>1, <1>5 DEF RomInv, Parsed
<1>8. n \in Nat  BY <1>7
<1>9. /\ \A i \in 1 .. N : Len(Encoded(image[i])) - 1 < SizeLimit
      /\ pos[N + 1] < RomSize
      /\ Carries(Original, N)
      /\ \A i \in 1 .. N : i <= n => infos[i] = AsRead(image[i])
      /\ n <= N => romAt = pos[n + 1]
      /\ n > N => old # Zeros
    BY <1>1, <1>5 DEF RomInv, Parsed
<1>10. /\ N' = N /\ pos' = pos
       /\ (Carries(Original, Len(image)))' <=> Carries(Original, N)
    <2>1. Original' = Original
        <3>1. \A m : Word(m)' = Word(m)  BY <1>1 DEF Word
        <3> QED  BY <3>1 DEF Original
    <2> QED  BY <1>1, <2>1 DEF Carries
<1>11. CASE ReadsEnd
    <2>1. romPhase' = "done" /\ romAt' = romAt /\ infos' = infos  BY <1>11 DEF ReadsEnd
    <2>2. n >= N
        <3>1. SUFFICES ASSUME n < N PROVE FALSE  BY <1>6, <1>8
        <3>2. /\ romAt # RomSize /\ TypeAt(romAt) = image[n + 1].type
              /\ image[n + 1] \in Descriptors
              /\ ~(SizeAt(romAt) > RomSize - romAt - 1)
            BY <1>1, <1>5, <3>1, ReadsWritten
        <3>3. image[n + 1].type # 0  BY <3>2, TypeOf DEF Text, BigInt, JSON
        <3> QED  BY <1>11, <3>2, <3>3 DEF ReadsEnd
    <2>3. Parsed'  BY <1>1, <1>7, <1>9, <1>10, <2>1, <2>2 DEF Parsed
    <2> QED  BY <2>1, <2>3 DEF RomFailed
<1>12. CASE ReadsIll
    <2>1. romPhase' = "failed"  BY <1>12 DEF ReadsIll
    <2>2. n >= N
        <3>1. SUFFICES ASSUME n < N PROVE FALSE  BY <1>6, <1>8
        <3>2. /\ Word(romAt + 1)[1] = 0 /\ Word(romAt + 1)[2] = 0
              /\ TypeAt(romAt) = image[n + 1].type
              /\ BytesAt(romAt) = Bytes(image[n + 1])
              /\ image[n + 1] \in Descriptors
            BY <1>1, <1>5, <3>1, ReadsWritten
        <3>3. image[n + 1].type = JSON => Inflates(Bytes(image[n + 1]))
            BY <3>2, DescriptorRead
        <3> QED  BY <1>12, <3>2, <3>3 DEF ReadsIll
    <2>3. old # Zeros  BY <1>1, <1>5, <1>12, <2>2, ReadsRest
    <2> QED  BY <1>1, <2>1, <2>3 DEF Parsed, RomFailed
<1>13. CASE ReadsOne
    <2> DEFINE new == [type |-> TypeAt(romAt), value |-> Decoded(TypeAt(romAt), BytesAt(romAt))]
    <2>1. /\ infos' = Append(infos, new) /\ romAt' = romAt + 1 + SizeAt(romAt)
          /\ romPhase' = "parse"
        BY <1>13 DEF ReadsOne
    <2> HIDE DEF new
    <2>2. infos' \in Seq(S \cup {new}) /\ Len(infos') = n + 1
        <3>1. infos \in Seq(S \cup {new})
            <4>1. S \subseteq S \cup {new}  OBVIOUS
            <4> QED  BY <1>7, <4>1, SeqMonotonic
        <3> QED  BY <2>1, <3>1
    <2>3. \A i \in 1 .. n : infos'[i] = infos[i]  BY <1>7, <2>1
    <2>4. infos'[n + 1] = new  BY <1>7, <2>1
    <2>5. \E T : infos' \in Seq(T)  BY <2>2
    <2>6. CASE n < N
        <3>1. /\ image[n + 1] \in Descriptors
              /\ TypeAt(romAt) = image[n + 1].type
              /\ BytesAt(romAt) = Bytes(image[n + 1])
              /\ romAt + 1 + SizeAt(romAt) = pos[(n + 1) + 1]
            BY <1>1, <1>5, <2>6, ReadsWritten
        <3>2. new = AsRead(image[n + 1])
            <4>1. new = [type |-> image[n + 1].type,
                         value |-> Decoded(image[n + 1].type, Bytes(image[n + 1]))]
                BY <3>1 DEF new
            <4> QED  BY <3>1, <4>1, DescriptorRead
        <3>3. \A i \in 1 .. N : i <= n + 1 => infos'[i] = AsRead(image[i])
            <4> TAKE i \in 1 .. N
            <4>1. i <= n \/ i = n + 1 \/ i > n + 1  BY <1>6, <1>8
            <4>2. CASE i <= n  BY <1>8, <1>9, <2>3, <4>2
            <4>3. CASE i = n + 1  BY <2>4, <3>2, <4>3
            <4>4. CASE i > n + 1  BY <1>8, <4>4
            <4> QED  BY <4>1, <4>2, <4>3, <4>4
        <3>4. n + 1 <= N /\ ~(n + 1 > N)  BY <1>6, <1>8, <2>6
        <3>5. Parsed'
            <4> HIDE DEF N, n, pos
            <4>1. /\ (\A i \in 1 .. Len(image) : Len(Encoded(image[i])) - 1 < SizeLimit)'
                  /\ (Position(image)[Len(image) + 1] < RomSize)'
                  /\ (Carries(Original, Len(image)))'
                BY <1>1, <1>9, <1>10 DEF N, pos
            <4>2. (\A i \in 1 .. Len(image) : i <= Len(infos) => infos[i] = AsRead(image[i]))'
                BY <1>1, <2>2, <3>3 DEF N
            <4>3. (Len(infos) <= Len(image) => romAt = Position(image)[Len(infos) + 1])'
                BY <1>1, <2>1, <2>2, <3>1 DEF pos
            <4>4. ~(Len(infos) > Len(image))'  BY <1>1, <2>2, <3>4 DEF N
            <4> QED  BY <2>1, <2>5, <4>1, <4>2, <4>3, <4>4 DEF Parsed
        <3> QED  BY <2>1, <3>5 DEF RomFailed
    <2>7. CASE n >= N
        <3>1. old # Zeros  BY <1>1, <1>5, <1>13, <2>7, ReadsRest
        <3>2. \A i \in 1 .. N : infos'[i] = AsRead(image[i])
            <4> TAKE i \in 1 .. N
            <4>1. i \in 1 .. n  BY <1>6, <1>8, <2>7
            <4> QED  BY <1>9, <2>3, <4>1
        <3>3. ~(n + 1 <= N)  BY <1>6, <1>8, <2>7
        <3>4. Parsed'
            <4> HIDE DEF N, n, pos
            <4>1. /\ (\A i \in 1 .. Len(image) : Len(Encoded(image[i])) - 1 < SizeLimit)'
                  /\ (Position(image)[Len(image) + 1] < RomSize)'
                  /\ (Carries(Original, Len(image)))'
                BY <1>1, <1>9, <1>10 DEF N, pos
            <4>2. (\A i \in 1 .. Len(image) : i <= Len(infos) => infos[i] = AsRead(image[i]))'
                BY <1>1, <3>2 DEF N
            <4>3. ~(Len(infos) <= Len(image))'  BY <1>1, <2>2, <3>3 DEF N
            <4>4. (Len(infos) > Len(image) => old # Zeros)'  BY <1>1, <3>1
            <4> QED  BY <2>1, <2>5, <4>1, <4>2, <4>3, <4>4 DEF Parsed
        <3> QED  BY <2>1, <3>4 DEF RomFailed
    <2> QED  BY <1>6, <1>8, <2>6, <2>7
<1> QED  BY <1>1, <1>11, <1>12, <1>13

\* The JSON reader leaves the image alone.
LEMMA RomUnchanged == ASSUME RomInv, UNCHANGED romVars PROVE RomInv'
<1>1. /\ romPhase' = romPhase /\ image' = image /\ todo' = todo /\ rom' = rom /\ romAt' = romAt
      /\ old' = old /\ hostOrder' = hostOrder /\ swap' = swap /\ infos' = infos
    BY DEF romVars
<1>2. Original' = Original
    <2>1. \A m : Word(m)' = Word(m)  BY <1>1 DEF Word
    <2> QED  BY <2>1 DEF Original
<1>3. RomType'  BY <1>1 DEF RomInv, RomType
<1>4. Prepared'  BY <1>1 DEF RomInv, Prepared, Carries
<1>5. Parsed'
    <2>1. (Carries(Original, Len(image)))' <=> Carries(Original, Len(image))
        BY <1>1, <1>2 DEF Carries
    <2> QED  BY <1>1, <2>1 DEF RomInv, Parsed
<1>6. RomFailed'  BY <1>1 DEF RomInv, RomFailed, Fits
<1> QED  BY <1>3, <1>4, <1>5, <1>6 DEF RomInv

\* Of the descriptors that prepare() writes, each stands at its place among the
\* words, in the byte order asked for; and those that parse() has read are the
\* first of the list.
THEOREM RomInvariant == DescriptorSpec => []RomInv
<1>1. RomInit /\ JsonInit => RomInv  BY RomInitInv
<1>2. RomInv /\ [RomNext \/ JsonNext]_<<romVars, jsonVars>> => RomInv'
    <2> SUFFICES ASSUME RomInv, [RomNext \/ JsonNext]_<<romVars, jsonVars>> PROVE RomInv'
        OBVIOUS
    <2>1. CASE PrepareOne  BY <2>1, PrepareOneStep
    <2>2. CASE PrepareEnd  BY <2>2, PrepareEndStep
    <2>3. CASE ParseOne  BY <2>3, ParseOneStep
    <2>4. CASE JsonNext
        <3>1. Event => UNCHANGED romVars  BY DEF Event
        <3>2. ASSUME NEW val, Integer(val) PROVE UNCHANGED romVars
            BY <3>1, <3>2 DEF Integer, TakesValue
        <3>3. ASSUME NEW val, String(val) PROVE UNCHANGED romVars
            BY <3>1, <3>3 DEF String, TakesValue
        <3>4. Array => UNCHANGED romVars  BY <3>1 DEF Array, TakesValue
        <3>5. StartMap => UNCHANGED romVars  BY <3>1 DEF StartMap, TakesValue
        <3>6. EndMap => UNCHANGED romVars  BY <3>1 DEF EndMap
        <3>7. ASSUME NEW key, MapKey(key) PROVE UNCHANGED romVars  BY <3>1, <3>7 DEF MapKey
        <3>8. ParseEnd => UNCHANGED romVars  BY DEF ParseEnd
        <3>9. UNCHANGED romVars
            BY <2>4, <3>2, <3>3, <3>4, <3>5, <3>6, <3>7, <3>8, Zenon DEF JsonNext
        <3> QED  BY <3>9, RomUnchanged
    <2>5. CASE UNCHANGED <<romVars, jsonVars>>
        <3>1. UNCHANGED romVars  BY <2>5
        <3> QED  BY <3>1, RomUnchanged
    <2> QED  BY <2>1, <2>2, <2>3, <2>4, <2>5 DEF RomNext
<1> QED  BY <1>1, <1>2, PTL DEF DescriptorSpec

\* The invariant says what has been read back.
LEMMA ReadBackHolds == ASSUME RomInv PROVE RomReadBack
<1> DEFINE N == Len(image)
           expected == [i \in DOMAIN image |-> AsRead(image[i])]
<1>1. image \in Seq(Descriptors) /\ N \in Nat /\ DOMAIN image = 1 .. N
    BY DEF RomInv, RomType
<1>2. \A i \in 1 .. N : expected[i] = AsRead(image[i])  BY <1>1
<1>3. expected \in [1 .. N -> {AsRead(image[i]) : i \in 1 .. N}]  BY <1>1
<1> HIDE DEF expected
<1>4. expected \in Seq({AsRead(image[i]) : i \in 1 .. N}) /\ Len(expected) = N
    BY <1>1, <1>3, FixedLength
<1>5. ASSUME swap = ~hostOrder, romPhase = "done"
      PROVE  IF old = <<0, 0, 0, 0>> THEN infos = expected ELSE IsPrefix(expected, infos)
    <2>1. PICK S : infos \in Seq(S)  BY <1>5 DEF RomInv, Parsed
    <2>2. Len(infos) \in Nat /\ Len(infos) >= N  BY <1>5, <2>1 DEF RomInv, Parsed
    <2>3. \A i \in 1 .. N : infos[i] = expected[i]
        <3>1. \A i \in 1 .. N : i <= Len(infos)  BY <1>1, <2>2
        <3> QED  BY <1>2, <1>5, <3>1 DEF RomInv, Parsed
    <2>4. CASE old = <<0, 0, 0, 0>>
        <3>1. ~(Len(infos) > N)  BY <1>5, <2>4 DEF RomInv, Parsed, Zeros
        <3>2. Len(infos) = Len(expected)  BY <1>1, <1>4, <2>2, <3>1
        <3>3. infos = expected
            <4>1. infos = [i \in 1 .. N |-> infos[i]] /\ expected = [i \in 1 .. N |-> expected[i]]
                BY <1>4, <2>1, <3>2
            <4> QED  BY <2>3, <4>1
        <3> QED  BY <2>4, <3>3
    <2>5. CASE old # <<0, 0, 0, 0>>
        <3>1. SubSeq(expected, 1, Len(expected)) = SubSeq(infos, 1, Len(expected))
            <4>1. /\ SubSeq(expected, 1, N) = [i \in 1 .. N |-> expected[i]]
                  /\ SubSeq(infos, 1, N) = [i \in 1 .. N |-> infos[i]]
                BY <1>1, <1>4, <2>1, <2>2
            <4> QED  BY <1>4, <2>3, <4>1
        <3>2. Len(expected) <= Len(infos)  BY <1>1, <1>4, <2>2
        <3>3. IsPrefix(expected, infos)  BY <3>1, <3>2 DEF IsPrefix
        <3> QED  BY <2>5, <3>3
    <2> QED  BY <2>4, <2>5
<1>6. swap = ~hostOrder /\ romPhase = "failed" /\ old = <<0, 0, 0, 0>> => ~Fits
    BY DEF RomInv, RomFailed, Zeros
<1> QED  BY <1>5, <1>6 DEF RomReadBack, expected

\* What prepare() has written, of any list that it had room for and in either
\* byte order, parse() reads back descriptor by descriptor (rom.cpp); and neither
\* fails but for want of room, where the words were cleared before.
THEOREM ReadBack == DescriptorSpec => []RomReadBack
    BY RomInvariant, ReadBackHolds, PTL
=============================================================================
