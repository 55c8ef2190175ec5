---------------------------- MODULE MCSengProtocol ----------------------------
(* Model-checking instance of the control server against the protocol.   *)
EXTENDS SengProtocol, TLC

MCShortNames == {<<"x">>, <<"x", "x">>}

MCSymmetry == Permutations(Hash) \cup Permutations(EncSlot) \cup Permutations(AppSlot)
=============================================================================
