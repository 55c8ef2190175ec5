----------------------------- MODULE MCSengGenl -----------------------------
(* Model-checking instance of the control server over the identity store, *)
(* and of seng_mt's decision on every store the server builds.  A rule    *)
(* names one or two of the six criteria, each plain or inverted; its app  *)
(* hash is either hash, its category names are the two the server can     *)
(* store, and its host, 3 or 1 under the mask 3, equals the enclave host  *)
(* 7 under that mask or does not.                                          *)
EXTENDS SengGenl, SengMatch, TLC

(* Category names over one character: with MAX_CAT_NAME_LENGTH = 3 a name  *)
(* is stored on at most 2 characters.                                      *)
MCShortNames == {<<"x">>, <<"x", "x">>}

\* One or two criteria, each plain or inverted.
MCFlags == UNION { {{c1, c2} \cup I : I \in SUBSET {Inv(c1), Inv(c2)}}
                   : c1, c2 \in {Criteria[i] : i \in 1..6} }

MCRules == {[flags |-> fl, app_hash_src |-> h, app_hash_dst |-> h,
             category_name_src |-> <<"x">>, category_name_dst |-> <<"x", "x">>,
             host_src |-> hh, src_subnet |-> 3, host_dst |-> hh, dst_subnet |-> 3]
            : fl \in MCFlags, h \in Hash, hh \in {1, 3}}

MCSymmetry == Permutations(Hash) \cup Permutations(EncSlot) \cup Permutations(AppSlot)
=============================================================================
