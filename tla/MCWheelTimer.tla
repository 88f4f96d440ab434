---------------------------- MODULE MCWheelTimer ----------------------------
(* Small instances of WheelTimer for TLC.                                  *)
EXTENDS WheelTimer
=============================================================================
