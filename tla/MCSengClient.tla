---------------------------- MODULE MCSengClient ----------------------------
(* Model-checking instance of the client library's retry wrappers driving  *)
(* the control server: every call the library offers, on two IPs, two      *)
(* hashes and two category names, with and without a cat_name.            *)
EXTENDS SengClient, TLC

MCShortNames == {<<"x">>, <<"x", "x">>}

(* Each library function with the arguments it takes; the others fixed.   *)
MCCalls ==
    LET ip0 == CHOOSE x \in Ip : TRUE
        h0  == CHOOSE h \in Hash : TRUE
        h   == CHOOSE x \in Host : TRUE
        Mk(fn, e, a, c) == [fn |-> fn, enc |-> e, app |-> a, host |-> h, cat |-> c]
    IN  {Mk("add_enclave", e, a, c) : e \in Ip, a \in Hash, c \in Names \cup {NULL}}
        \cup {Mk(fn, ip0, a, c) : fn \in {"cat_to_app", "remove_cat_from_app"},
                                  a \in Hash, c \in Names \cup {NULL}}
        \cup {Mk("remove_enclave", e, h0, NULL) : e \in Ip}
        \cup {Mk("flush_module", ip0, h0, NULL)}

(* Only the calls the demo application's test sequence makes (a cat_name  *)
(* is always given) and flush.                                             *)
MCDemoCalls == {c \in MCCalls : c.fn = "remove_enclave" \/ c.cat # NULL
                                \/ c.fn = "flush_module"}

MCSlotSymmetry == Permutations(EncSlot) \cup Permutations(AppSlot)
=============================================================================
