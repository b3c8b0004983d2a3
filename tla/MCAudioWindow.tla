---------------------------- MODULE MCAudioWindow ----------------------------
(* AudioWindow on a small instance.                                        *)
EXTENDS AudioWindow

\* Rates at which the columns end behind the buffer and at its middle.
MCRates == {4, 12}

\* Callbacks that fill the buffer, that leave something over, an empty one and one too long.
MCLengths == {0, 2, 3, 4, 5}
=============================================================================
