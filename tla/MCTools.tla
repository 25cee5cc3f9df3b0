------------------------------- MODULE MCTools -------------------------------
(***************************************************************************)
(* Four parts beside the driver that share nothing: the ROM reader and the *)
(* JSON reader (Descriptor), the waveform calculator (Generator) and the   *)
(* process launcher (Launcher).  A behavior is one of one of them; the     *)
(* others stay in their initial state.                                     *)
(***************************************************************************)
EXTENDS Descriptor, Generator, Launcher

CONSTANTS rw, five,                                   \* strings of a document
          noText, zero, plain, assigning, broken      \* expressions

VARIABLE part

MCImages ==
    LET info == [type : {Text}, value : {<<65>>, <<65, 0, 66>>}]
                \cup [type : {BigInt}, value : {<<1, 2>>, <<1, 2, 3>>, <<10, 11, 12, 13, 14>>}]
                \cup [type : {JSON}, value : {<<>>, <<97>>, <<97, 98, 99, 100>>}]
    IN  UNION {[1 .. n -> info] : n \in 0 .. 2}

Cleared == <<0, 0, 0, 0>>
MCOldWords == {Cleared, <<0, 0, 64, 1>>}

\* One that is too large, a negative one, and one too wide that looks like 6.
MCInts == {700, -1, 1030}
MCNoInt == -99
MCIntOf(string) == IF string = five THEN 5 ELSE MCNoInt
MCLetters(string) == IF string = rw THEN {"r", "w"} ELSE {}

MCAssigns(expr) == IF expr = assigning THEN {0, 2} ELSE {}
MCMaxLen(output) == 3 - output

Init ==
    /\ part \in {"rom", "json", "generator", "launcher"}
    /\ RomInit /\ JsonInit /\ GeneratorInit /\ LauncherInit
    /\ part # "rom" => image = <<>> /\ old = Cleared /\ hostOrder /\ ~swap

Next ==
    /\ \/ part = "rom" /\ RomNext /\ UNCHANGED <<generatorVars, launcherVars>>
       \/ part = "json" /\ JsonNext /\ UNCHANGED <<generatorVars, launcherVars>>
       \/ part = "generator" /\ GeneratorNext /\ UNCHANGED <<romVars, jsonVars, launcherVars>>
       \/ part = "launcher" /\ LauncherNext /\ UNCHANGED <<romVars, jsonVars, generatorVars>>
    /\ UNCHANGED part

vars == <<romVars, jsonVars, generatorVars, launcherVars, part>>

Spec == Init /\ [][Next]_vars /\ (part = "launcher" => LauncherFair)
=============================================================================
