----------------------------- MODULE MCUasTrans -----------------------------
(* Small instances of UasTrans: the cfg files take Methods from AllMethods. *)
EXTENDS UasTrans
=============================================================================
