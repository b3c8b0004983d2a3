---------------------------- MODULE MCTokenStore ----------------------------
(* TokenStore on a small instance: a general and a private token, and one   *)
(* more of either, over three launches.                                     *)
EXTENDS TokenStore

MCLengths == {1, 2}
=============================================================================
