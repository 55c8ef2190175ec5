----------------------------- MODULE MCSengDemo -----------------------------
(* Model-checking instance of seng_app on the client library and the       *)
(* control server, with the demo's own addresses.                          *)
EXTENDS SengDemo, TLC

(* "category_a" and "category_b", shorter than MAX_CAT_NAME_LENGTH.        *)
MCCategoryA == <<"a">>
MCCategoryB == <<"b">>
MCNames == {MCCategoryA, MCCategoryB}

(* The calls seng_app makes.                                               *)
MCCalls == {run_test[j] : j \in 1..Len(run_test)} \cup {flush_script[1]}

MCArgv == SUBSET {"t", "f", "h"}
=============================================================================
