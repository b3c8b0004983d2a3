------------------------------ MODULE MCPlayer ------------------------------
(* Player on a small instance.                                             *)
EXTENDS Player

\* Two rows, of which next accepts the first alone, or four, with an extension.
MCBatchSizes == {2, 4}

\* The form that plays through the audio tap does not report its end.
MCNativeEnds == {"hls"}
=============================================================================
