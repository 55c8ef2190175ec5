-------------------------- MODULE MCSengConntrack --------------------------
(* Two enclaves of one app, a rule accepting packets from that app, and   *)
(* the authority adding both and removing the first.                      *)
EXTENDS SengConntrack, TLC

MCNames == {<<"x">>}

(* iptables -A ... -m seng --src-app <h> -j ACCEPT                         *)
MCRule ==
    {[flags |-> {"APP_SRC"}, app_hash_src |-> h, app_hash_dst |-> h,
      category_name_src |-> <<>>, category_name_dst |-> <<>>,
      host_src |-> 0, src_subnet |-> 0, host_dst |-> 0, dst_subnet |-> 0]
     : h \in {CHOOSE h \in Hash : TRUE}}

MCRemovalCalls ==
    LET h0 == CHOOSE h \in Hash : TRUE
        host == CHOOSE x \in Host : TRUE
        e1 == CHOOSE x \in Ip : TRUE
    IN  {[fn |-> "add_enclave", enc |-> e, app |-> h0, host |-> host, cat |-> NULL] : e \in Ip}
        \cup {[fn |-> "remove_enclave", enc |-> e1, app |-> h0, host |-> host, cat |-> NULL]}
=============================================================================
