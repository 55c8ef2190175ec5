----------------------------- MODULE SengModule -----------------------------
(***************************************************************************)
(* Loading and unloading xt_seng (src/seng-module/xt_seng.c, module_init   *)
(* and module_exit) around the control server of SengGenl.                 *)
(*                                                                         *)
(* seng_mt_init registers the "seng" match with ip_tables, then the genl   *)
(* family "seng" whose one op is seng_nl_recv_msg.  xt_register_match adds *)
(* the match to a list under a mutex and returns 0, so init succeeds; the  *)
(* family's registration may fail (-EEXIST, -ENOMEM) and its result is     *)
(* ignored.  The module's statics (the enclave table and the apps list     *)
(* head) live in the module image: a fresh image has them empty, and they  *)
(* vanish when the image is freed.  kmalloc'd records outlive the image    *)
(* unless freed.                                                           *)
(***************************************************************************)
EXTENDS SengGenl

CONSTANT
    GenlMayFail     \* may genl_register_family fail (e.g. -EEXIST)?

VARIABLES
    loaded,     \* is a module image of xt_seng in the kernel?
    xtReg,      \* is seng_mt4_reg registered with ip_tables?
    genlReg     \* is genl_seng_family registered?

modVars == <<loaded, xtReg, genlReg>>
sysVars == <<vars, modVars>>

(* The statics of a fresh image; kmalloc'd slots keep what they hold.      *)
FreshStatics ==
    /\ enclaves' = [k \in Buckets |-> <<>>]
    /\ apps' = <<>>

GenlRegisterOK == IF GenlMayFail THEN BOOLEAN ELSE {TRUE}

(* insmod: seng_mt_init registers the match, then the family, ignores the  *)
(* family's result and returns the match's, which is 0.                    *)
seng_mt_init ==
    /\ ~loaded
    /\ loaded' = TRUE /\ xtReg' = TRUE
    /\ genlReg' \in GenlRegisterOK
    /\ FreshStatics
    /\ UNCHANGED <<emem, amem, fault, reply>>

(* rmmod: unregister the match and the family, del_all_enclaves, then the *)
(* image and its statics are freed.                                        *)
seng_mt_exit ==
    /\ loaded
    /\ loaded' = FALSE /\ xtReg' = FALSE /\ genlReg' = FALSE
    /\ LET d == del_all_enclaves(db)
       IN  /\ emem' = d.emem /\ amem' = d.amem /\ fault' = d.fault
    /\ FreshStatics
    /\ UNCHANGED reply

(* A message to the family "seng": genl runs seng_nl_recv_msg.             *)
DeliverToFamily(m) == genlReg /\ seng_nl_recv_msg(m) /\ UNCHANGED modVars

ModInit == Init /\ loaded = FALSE /\ xtReg = FALSE /\ genlReg = FALSE

ModNext == seng_mt_init \/ seng_mt_exit \/ \E m \in Msg : DeliverToFamily(m)

ModSpec == ModInit /\ [][ModNext]_sysVars

(***************************************************************************)
(* Properties.                                                             *)
(***************************************************************************)
Allocated == {s \in EncSlot : emem[s] # NULL} \cup {s \in AppSlot : amem[s] # NULL}

(* Once no image of xt_seng is loaded (before insmod or after rmmod), it   *)
(* has left nothing behind: no match or genl family registered, and no    *)
(* enclave or app record allocated ("Unregisters against ip_tables and     *)
(* generic netlink. Also cleans up the remainings of the hash table.").    *)
NothingOutlivesModule ==
    ~loaded => ~xtReg /\ ~genlReg /\ Allocated = {}

=============================================================================
