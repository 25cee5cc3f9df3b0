----------------------------- MODULE Freshness -----------------------------
(***************************************************************************)
(* What the FFT worker promises to the displays: a waveform shown is never *)
(* older than one shown before, never newer than what was measured, and    *)
(* what was handed over is shown in the end, unless the worker is down.    *)
(* FFT.tla implements this specification.                                  *)
(***************************************************************************)
EXTENDS Naturals

CONSTANTS
    Signals,
    Counts      \* the numbers of waveforms that CatchesUp speaks of

VARIABLES
    measured,   \* measured[s]: how many waveforms of s have been measured
    accepted,   \* accepted[s]: the last of them handed over to the worker
    shown,      \* shown[s]: the one the display shows
    down        \* the worker has stopped

vars == <<measured, accepted, shown, down>>

Init ==
    /\ measured = [s \in Signals |-> 0]
    /\ accepted = [s \in Signals |-> 0]
    /\ shown = [s \in Signals |-> 0]
    /\ down = FALSE

Measure(s) ==
    /\ measured' = [measured EXCEPT ![s] = @ + 1]
    /\ UNCHANGED <<accepted, shown, down>>

Accept(s) ==
    /\ accepted' = [accepted EXCEPT ![s] = measured[s]]
    /\ UNCHANGED <<measured, shown, down>>

Show(s) ==
    /\ \E n \in shown[s] .. measured[s] : shown' = [shown EXCEPT ![s] = n]
    /\ UNCHANGED <<measured, accepted, down>>

GoDown ==
    /\ down' = TRUE
    /\ UNCHANGED <<measured, accepted, shown>>

Next ==
    \/ \E s \in Signals : Measure(s) \/ Accept(s) \/ Show(s)
    \/ GoDown

CatchesUp ==
    \A s \in Signals, n \in Counts :
        (accepted[s] >= n) ~> (shown[s] >= n \/ down)

Safe == Init /\ [][Next]_vars

Spec == Safe /\ CatchesUp
============================================================================
