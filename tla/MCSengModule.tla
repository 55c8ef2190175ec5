---------------------------- MODULE MCSengModule ----------------------------
(* Model-checking instance of loading and unloading xt_seng.               *)
EXTENDS SengModule, TLC

MCShortNames == {<<"x">>}
=============================================================================
