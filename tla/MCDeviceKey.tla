----------------------------- MODULE MCDeviceKey -----------------------------
(* DeviceKey on a small instance.                                          *)
EXTENDS DeviceKey

\* Lengths on both sides of one and of two blocks, and of each remainder modulo three.
MCLengths == {0, 1, 2, 15, 16, 17, 20, 32, 33}
=============================================================================
