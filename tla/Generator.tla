------------------------------ MODULE Generator ------------------------------
(***************************************************************************)
(* The element-wise calculator of calc.c, "WG Gen": an aSub record whose   *)
(* input A is an expression, which it compiles when it changes, and        *)
(* evaluates once for each sample of its output on a stack that holds the  *)
(* arguments.                                                              *)
(*                                                                         *)
(* Arithmetic is uninterpreted: a value is <<>> (zero), a sample of an     *)
(* input, or <<expression, arguments>>.  postfix and calcPerform belong to *)
(* EPICS.                                                                  *)
(***************************************************************************)
EXTENDS Integers, Sequences, FiniteSets

CONSTANTS
    Expressions,          \* what the string in A can be
    Empty, Zero,          \* "" and "0"
    Broken,               \* those that postfix rejects
    Assigns(_),           \* the arguments that an expression assigns to
    UseIn, UseOut,        \* arguments and outputs of type DOUBLE, by number; A is 0
    MaxLen(_),            \* elements of an output
    InLens,               \* lengths of inputs
    MaxRuns               \* bound: how often the record is processed

\* A is not one of the inputs; there are finitely many arguments.
ASSUME ArgumentsAssumption ==
    /\ UseIn \subseteq Nat \ {0} /\ IsFiniteSet(UseIn)
    /\ UseOut \subseteq Nat /\ IsFiniteSet(UseOut)
    /\ \A i \in UseOut : MaxLen(i) \in Nat
    /\ InLens \subseteq Nat

VARIABLES
    prev, postfix, valOut,  \* calcPriv: the text compiled, its code, the output of the result
    vals, nev,              \* the outputs, and how much of them is valid
    alarm,                  \* INVALID
    inputs, run             \* what was processed last, and how often (history)
generatorVars == <<prev, postfix, valOut, vals, nev, alarm, inputs, run>>

Unlikely == "Something highly unlikely"
NoCode == "no code"
Nobody == -1              \* no output takes the result
PI == <<"PI", 0, 0>>
Garbage == <<"uninitialized">>

Source(expr) == IF expr = Empty THEN Zero ELSE expr

Least(a, b) == IF a < b THEN a ELSE b
Highest(S) == CHOOSE m \in S : \A n \in S : n <= m

\* The result goes to the first output that the expression does not assign.
ResultOutput(expr) ==
    LET free == UseOut \ Assigns(expr)
    IN  IF free = {} THEN Nobody ELSE CHOOSE i \in free : \A j \in free : i <= j

\* update_expr, for the expression in A: code, or none when it cannot be compiled.
Compile_IgnoresFailure(expr) ==
    /\ prev' = Source(expr)
    /\ IF Source(expr) \in Broken
       THEN UNCHANGED <<postfix, valOut>>
       ELSE postfix' = Source(expr) /\ valOut' = ResultOutput(Source(expr))

Compile(expr) ==
    IF prev = expr THEN UNCHANGED <<prev, postfix, valOut>>
    ELSE /\ prev' = Source(expr)
         /\ IF Source(expr) \in Broken
            THEN postfix' = NoCode /\ UNCHANGED valOut
            ELSE postfix' = Source(expr) /\ valOut' = ResultOutput(Source(expr))

\* How many samples are computed: A, a string, counts as an input of one element.
Elements(in) ==
    Least(Highest({MaxLen(i) : i \in UseOut}), Highest({1} \cup {Len(in[i]) : i \in UseIn}))

\* The stack is zero but for PI; each sample takes the next element of each input
\* that has one left, and leaves what the expression assigned.
Loaded_Rewinds(stack, in, s) ==
    [i \in DOMAIN stack |->
        IF i \in UseIn /\ s <= Len(in[i]) THEN in[i][s] ELSE IF i \in UseIn THEN <<>> ELSE stack[i]]

Loaded(stack, in, s) ==
    [i \in DOMAIN stack |-> IF i \in UseIn /\ s <= Len(in[i]) THEN in[i][s] ELSE stack[i]]

Perform(code, stack) ==
    [i \in DOMAIN stack |-> IF code # NoCode /\ i \in Assigns(code) THEN <<code, stack>> ELSE stack[i]]

\* For each sample, the arguments of the evaluation; and those it left.
Evaluations(code, in) ==
    LET start == [i \in UseIn \cup UseOut \cup {0} |-> IF i = 0 THEN PI ELSE <<>>]
        args[s \in 1 .. Elements(in)] ==
            Loaded(IF s = 1 THEN start ELSE Perform(code, args[s - 1]), in, s)
    IN  args

\* gen_waveform.
Generate(expr, in) ==
    /\ Compile(expr)
    /\ inputs' = [expr |-> expr, of |-> in]
    /\ run' = run + 1
    /\ IF prev # expr /\ Source(expr) \in Broken
       THEN alarm' = TRUE /\ UNCHANGED <<vals, nev>>
       ELSE LET args == Evaluations(postfix', in)
                result == [s \in DOMAIN args |->
                             IF postfix' = NoCode THEN Garbage ELSE <<postfix', args[s]>>]
            IN  /\ nev' = [i \in UseOut |-> Least(Elements(in), MaxLen(i))]
                /\ vals' = [i \in UseOut |->
                              [s \in 1 .. MaxLen(i) |->
                                  IF s > Elements(in) THEN vals[i][s]
                                  ELSE IF i = valOut' THEN result[s]
                                  ELSE Perform(postfix', args[s])[i]]]
                /\ alarm' = (postfix' = NoCode)

GeneratorInit ==
    /\ prev = Unlikely /\ postfix = NoCode /\ valOut = Nobody
    /\ vals = [i \in UseOut |-> [s \in 1 .. MaxLen(i) |-> <<>>]]
    /\ nev = [i \in UseOut |-> 1]
    /\ alarm = TRUE
    /\ inputs = [expr |-> Empty, of |-> [i \in UseIn |-> <<>>]] /\ run = 0

\* The record's input links are fetched whenever it is processed: every expression,
\* and every length of each input, may come next.
GeneratorNext ==
    /\ run < MaxRuns
    /\ \E expr \in Expressions : \E lens \in [UseIn -> InLens] :
           Generate(expr, [i \in UseIn |-> [s \in 1 .. lens[i] |-> <<i, s, run>>]])

GeneratorSpec == GeneratorInit /\ [][GeneratorNext]_generatorVars

----------------------------------------------------------------------------
\* Sample s of input i, or its last, or zero if it has none.
Held(i, s) ==
    LET in == inputs.of[i] IN IF in = <<>> THEN <<>> ELSE in[Least(s, Len(in))]

\* Without an alarm, each sample of the result is the value of the expression now in
\* A, not of one compiled before, for the corresponding elements of the inputs now
\* fetched, the last one standing in for those that are missing (calc.c:60-62); an
\* expression that assigns to an input changes what is held.
HeldInputs ==
    ~alarm =>
        LET code == Source(inputs.expr)
            out == ResultOutput(code)
        IN  /\ code \notin Broken
            /\ out # Nobody =>
                  \A s \in 1 .. nev[out] :
                      /\ vals[out][s][1] = code
                      /\ \A i \in UseIn \ Assigns(code) : vals[out][s][2][i] = Held(i, s)
=============================================================================
