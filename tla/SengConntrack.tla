---------------------------- MODULE SengConntrack ----------------------------
(***************************************************************************)
(* remove_enclave_ack (src/user-library/seng_genl.c) followed by the        *)
(* connection-tracking purge it runs once the removal has been sent        *)
(* (src/user-library/seng_conntrack.c), while packets keep crossing the    *)
(* firewall.                                                               *)
(*                                                                         *)
(* The firewall accepts the first packet of a flow when some seng rule     *)
(* matches it (seng_mt on the current store) and lets every later packet   *)
(* of a tracked flow through without evaluating the rules; that is why    *)
(* the flows of a removed enclave are purged.  A first packet gets an      *)
(* unconfirmed conntrack entry when it is accepted, which is confirmed    *)
(* into the table when the packet leaves the hook chain.                   *)
(*                                                                         *)
(* The purge elevates to root, dumps the conntrack table (NFCT_Q_DUMP) and *)
(* destroys, from the dump callback, every entry whose source or           *)
(* destination is the enclave, then reverts the privileges.  Entries       *)
(* confirmed while the dump runs may or may not be visited.                *)
(***************************************************************************)
EXTENDS SengClient, SengMatch

CONSTANTS
    PrivMayFail,    \* may seteuid/setegid fail (change_privs returns -1)?
    NfctMayFail     \* may nfct_open fail?

Flow == {f \in [src : PacketAddr, dst : PacketAddr] : f.src # f.dst}

VARIABLES
    ct,         \* confirmed conntrack entries
    unconfirmed,\* accepted first packets whose entry is not yet confirmed
    ppc,        \* the purge: "none", "elevate", "open", "dump" or "revert"
    todo,       \* entries the running dump has still to hand to cb
    removed     \* cb_data.removed

ctVars == <<ct, unconfirmed, ppc, todo, removed>>
ctAllVars == <<allVars, ctVars>>

Involves(f, ip) == ip \in {f.src, f.dst}

(* The firewall's decision for the first packet of a flow.                 *)
Accepts(d, f) == \E r \in Rule : seng_mt(d, r, f.src, f.dst)

(***************************************************************************)
(* Packets.                                                                *)
(***************************************************************************)
NewPacket(f) ==
    /\ Alive
    /\ f \notin ct \cup unconfirmed
    /\ Accepts(db, f)
    /\ unconfirmed' = unconfirmed \cup {f}
    /\ UNCHANGED <<allVars, ct, ppc, todo, removed>>

(* The entry is inserted into the table; a dump under way may or may not   *)
(* reach the bucket it lands in.                                           *)
Confirm(f) ==
    /\ f \in unconfirmed
    /\ unconfirmed' = unconfirmed \ {f}
    /\ ct' = ct \cup {f}
    /\ \E seen \in IF ppc = "dump" THEN BOOLEAN ELSE {FALSE} :
           todo' = IF seen THEN todo \cup {f} ELSE todo
    /\ UNCHANGED <<allVars, ppc, removed>>

(* A tracked flow times out.                                               *)
Expire(f) ==
    /\ f \in ct
    /\ ct' = ct \ {f}
    /\ UNCHANGED <<allVars, unconfirmed, ppc, todo, removed>>

(***************************************************************************)
(* The client.  A call begins only when the last one has returned; a       *)
(* remove_enclave whose attempt returns success goes on to                 *)
(* delete_conntrack_entries(enclave) before remove_enclave_ack returns 0.  *)
(***************************************************************************)
CtBegin ==
    /\ ppc = "none"
    /\ Begin
    /\ UNCHANGED ctVars

CtAttemptLocalFail == AttemptLocalFail /\ UNCHANGED ctVars

CtGiveUp == GiveUp /\ UNCHANGED ctVars

CtAttemptDelivered ==
    /\ AttemptDelivered
    /\ ppc' = IF call.fn = "remove_enclave" /\ cpc' = "idle" THEN "elevate" ELSE ppc
    /\ UNCHANGED <<ct, unconfirmed, todo, removed>>

(***************************************************************************)
(* delete_conntrack_entries and _delete_conntrack_entries.                 *)
(***************************************************************************)
(* change_privs(0, 0, false): on failure return -1 at once.                *)
Elevate ==
    /\ ppc = "elevate"
    /\ \/ ppc' = "open"
       \/ PrivMayFail /\ ppc' = "none"
    /\ UNCHANGED <<allVars, ct, unconfirmed, todo, removed>>

(* d.removed = 0; nfct_open, then NFCT_Q_DUMP with cb registered.           *)
OpenDump ==
    /\ ppc = "open"
    /\ removed' = 0
    /\ \/ ppc' = "dump" /\ todo' = ct
       \/ NfctMayFail /\ ppc' = "revert" /\ UNCHANGED todo
    /\ UNCHANGED <<allVars, ct, unconfirmed>>

(* cb for one entry: skip it unless the enclave is its source or           *)
(* destination; nfct_open failing returns -1, which ends the dump; a       *)
(* failed NFCT_Q_DESTROY (the entry is gone) is printed and skipped.       *)
Visit(f) ==
    /\ ppc = "dump" /\ f \in todo
    /\ todo' = todo \ {f}
    /\ \/ ~Involves(f, call.enc) /\ UNCHANGED <<ppc, ct, removed>>
       \/ Involves(f, call.enc) /\ NfctMayFail
          /\ ppc' = "revert" /\ UNCHANGED <<ct, removed>>
       \/ Involves(f, call.enc) /\ ppc' = ppc
          /\ ct' = ct \ {f}
          /\ removed' = IF f \in ct THEN removed + 1 ELSE removed
    /\ UNCHANGED <<allVars, unconfirmed>>

(* The dump has handed every entry to cb.                                  *)
DumpDone ==
    /\ ppc = "dump" /\ todo = {}
    /\ ppc' = "revert"
    /\ UNCHANGED <<allVars, ct, unconfirmed, todo, removed>>

(* change_privs back; a failure is printed only.  remove_enclave_ack       *)
(* prints the result and returns 0.                                        *)
Revert ==
    /\ ppc = "revert"
    /\ ppc' = "none" /\ todo' = {}
    /\ UNCHANGED <<allVars, ct, unconfirmed, removed>>

CtInit ==
    /\ ClientInit
    /\ ct = {} /\ unconfirmed = {} /\ ppc = "none" /\ todo = {} /\ removed = 0

CtNext ==
    \/ CtBegin \/ CtAttemptLocalFail \/ CtAttemptDelivered \/ CtGiveUp
    \/ Elevate \/ OpenDump \/ DumpDone \/ Revert
    \/ \E f \in Flow : NewPacket(f) \/ Confirm(f) \/ Expire(f) \/ Visit(f)

CtSpec == CtInit /\ [][CtNext]_ctAllVars

(***************************************************************************)
(* Properties.                                                             *)
(***************************************************************************)
(* remove_enclave_ack has returned success for the last call.              *)
RemovalReturned ==
    cpc = "idle" /\ ppc = "none" /\ call.fn = "remove_enclave" /\ result = "ok"

(* When remove_enclave_ack returns, no tracked flow of the removed enclave *)
(* survives that the rules would refuse on the store as it now is: the     *)
(* purge exists so that established connections do not outlive the        *)
(* identity that admitted them (spec.md 1, connection purge).              *)
NoStaleFlowAfterRemoval ==
    RemovalReturned =>
        \A f \in ct \cup unconfirmed : Involves(f, call.enc) => Accepts(db, f)

=============================================================================
