--------------------------- MODULE MCSengPacketPath ---------------------------
(* Model-checking instance of SengPacketPath: two enclave addresses, two    *)
(* apps, one category name, and three rules, one per kind of read seng_mt  *)
(* makes through the pointers it holds (app record, category list, enclave *)
(* record).                                                                *)
EXTENDS SengPacketPath, TLC

MCOneName == {<<"x">>}

MCRule(flags, h) ==
    [flags |-> flags, app_hash_src |-> h, app_hash_dst |-> h,
     category_name_src |-> <<"x">>, category_name_dst |-> <<"x">>,
     host_src |-> 1, host_dst |-> 1, src_subnet |-> 3, dst_subnet |-> 3]

MCPacketRules ==
    {MCRule({"APP_SRC"}, h) : h \in Hash}
    \cup {MCRule({"CAT_SRC"}, CHOOSE h \in Hash : TRUE),
          MCRule({"HOST_SRC", "HOST_SRC_INV"}, CHOOSE h \in Hash : TRUE)}

(* One attribute set per branch of seng_nl_recv_msg: within a branch the    *)
(* attributes the branch does not read change nothing.                      *)
MCBranchAttrs ==
    {{"ENC", "APP", "HOST", "ADD"}, {"ENC", "APP", "HOST", "ADD", "CAT"},
     {"ENC", "RMV"}, {"ENC"}, {"APP", "CAT", "ADD"}, {"APP", "CAT", "RMV"},
     {"APP", "CAT"}, {"FLUSH"}, {}}

MCControlMsg == {m \in Msg : m.attrs \in MCBranchAttrs}

(* Enclave adds and removals: a removed enclave's slot can be handed to  *)
(* the next enclave added.                                                 *)
MCAbaMsg == {m \in MCControlMsg : m.attrs \in {{"ENC", "APP", "HOST", "ADD"}, {"ENC", "RMV"}}}

MCSlotSymmetry == Permutations(EncSlot) \cup Permutations(AppSlot)

=============================================================================
