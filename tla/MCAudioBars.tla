----------------------------- MODULE MCAudioBars -----------------------------
(* AudioBars on a small instance.                                          *)
EXTENDS AudioBars

\* Below nothing, a column inside the view, and one above it.
MCLoudness == {-1, 2, 5}

\* Upright and on its side.
MCLimits == {2, 3}
=============================================================================
