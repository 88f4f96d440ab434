----------------------------- MODULE MCUacTrans -----------------------------
(* Two targets, over UDP and TCP, for model checking UacTrans.             *)
EXTENDS UacTrans

UdpThenTcp == {2}
BothMethods == {"INVITE", "OTHER"}
=============================================================================
