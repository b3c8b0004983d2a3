-------------------------- MODULE MCPlayerTransport --------------------------
(* PlayerTransport on a small instance.                                    *)
EXTENDS PlayerTransport

\* The form that plays through the audio tap does not report its end.
MCNativeEnds == {"hls"}
=============================================================================
