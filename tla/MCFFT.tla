------------------------------- MODULE MCFFT -------------------------------
(***************************************************************************)
(* An instance of FFT for TLC: a complex signal and a real one, of at most *)
(* four samples; their records are initialized in the order in which       *)
(* feed_wf_fft_pair.template lists them.                                   *)
(***************************************************************************)
EXTENDS FFT

CONSTANTS iq, real

MCType == [s \in Signals |-> IF s = iq THEN "C2C" ELSE "R2C"]
MCSize == [s \in Signals |-> 4]
MCOrder == <<Sender(iq), Receiver(iq), Sender(real), Receiver(real)>>
MCShapes == {<<3, 3>>, <<4, 4>>, <<4, 1>>}
MCMaxSends == [s \in Signals |-> IF s = iq THEN 2 ELSE 1]
============================================================================
