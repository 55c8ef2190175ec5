------------------------------ MODULE SengGenl ------------------------------
(***************************************************************************)
(* The generic-netlink control server of xt_seng: seng_nl_recv_msg         *)
(* (src/seng-module/xt_seng_genl.c) applied to the identity store.         *)
(*                                                                         *)
(* There is no operation field: the attributes present in a message select *)
(* the operation, tested in a fixed order.  The family registers no policy *)
(* and no GENL_ADMIN_PERM, so any local process may send any combination   *)
(* of attributes; the model draws every message from Msg.  Messages to a   *)
(* genl family without parallel_ops are handled one at a time under        *)
(* genl_mutex, so each handler run is one atomic step.                     *)
(***************************************************************************)
EXTENDS SengMetaDB

VARIABLE
    reply   \* [op, ret]: the branch the last message took and the handler's
            \* result

vars == <<storeVars, reply>>

(* The genl attributes; ADD, RMV and FLUSH are zero-length flags.           *)
Attr == {"APP", "CAT", "HOST", "ENC", "ADD", "RMV", "FLUSH"}

Msg == [attrs : SUBSET Attr, enc : Ip, app : Hash, host : Host, cat : Names]

EINVAL == 22   \* the handler returns -EINVAL
Reply(op, m, ok) ==
    reply' = [op |-> op, ret |-> IF ok THEN 0 ELSE -EINVAL]

(* The four tests of the if / else-if chain, in their order.                *)
IsAddEnclave(m) == {"ENC", "APP", "HOST", "ADD"} \subseteq m.attrs
IsEnclaveOp(m)  == ~IsAddEnclave(m) /\ "ENC" \in m.attrs
IsCategoryOp(m) == ~IsAddEnclave(m) /\ ~IsEnclaveOp(m)
                   /\ {"APP", "CAT"} \subseteq m.attrs
IsFlush(m)      == ~IsAddEnclave(m) /\ ~IsEnclaveOp(m) /\ ~IsCategoryOp(m)
                   /\ "FLUSH" \in m.attrs

Alive == fault = "none"

(***************************************************************************)
(* Each branch as a function of the store: the kmalloc results it may get  *)
(* (an enclave slot, an app slot, whether a struct cat fits) are an input  *)
(* ch = <<es, as, catOK>>; the result is [db, ok].                          *)
(***************************************************************************)
AllocResults(d) == Kmalloc(d.emem) \X Kmalloc(d.amem) \X CatAllocOK(d)

(* Case 1: add the enclave, then, if CAT is present, attach the category   *)
(* to e->a.  A failed attach is reported as an error, but the enclave      *)
(* stays added.                                                            *)
AddEnclaveResult(d, m, ch) ==
    LET r == add_enclave(d, m.enc, m.app, m.host, ch[1], ch[2]) IN
    IF r.ret = NULL THEN [db |-> r.db, ok |-> FALSE]
    ELSE IF "CAT" \in m.attrs
    THEN LET c == add_cat_to_app(r.db, r.db.emem[r.ret].a, m.cat, ch[3])
         IN  [db |-> c.db, ok |-> c.ret]
    ELSE [db |-> r.db, ok |-> TRUE]

(* Case 2: ENC with RMV removes (an unknown IP is still success, the       *)
(* result of del_enclave is dropped); ENC with anything else is an unknown *)
(* operation.                                                              *)
EnclaveOpResult(d, m) ==
    IF "RMV" \in m.attrs THEN [db |-> del_enclave(d, m.enc).db, ok |-> TRUE]
    ELSE [db |-> d, ok |-> FALSE]

(* Case 3: RMV is tested before ADD; an unknown app is an error.           *)
CategoryOpResult(d, m, ch) ==
    LET a == lookup_app_hash(d, m.app)
        r == CASE a # NULL /\ "RMV" \in m.attrs -> del_cat_from_app(d, a, m.cat)
               [] a # NULL /\ "ADD" \in m.attrs -> add_cat_to_app(d, a, m.cat, ch[3])
               [] OTHER -> [db |-> d, ret |-> FALSE]
    IN  [db |-> r.db, ok |-> r.ret]

(* The branch a message takes and its result: case 4 (FLUSH) empties the  *)
(* store, and a message no case matches falls through to success.         *)
Handle(d, m, ch) ==
    CASE IsAddEnclave(m) -> [op |-> "add"] @@ AddEnclaveResult(d, m, ch)
      [] IsEnclaveOp(m)  -> [op |-> "remove"] @@ EnclaveOpResult(d, m)
      [] IsCategoryOp(m) -> [op |-> "category"] @@ CategoryOpResult(d, m, ch)
      [] IsFlush(m)      -> [op |-> "flush", db |-> del_all_enclaves(d), ok |-> TRUE]
      [] OTHER           -> [op |-> "unmatched", db |-> d, ok |-> TRUE]

(* One run of seng_nl_recv_msg for a message m; inBranch is the test of   *)
(* the branch it takes.                                                    *)
Recv(m, inBranch) ==
    /\ Alive /\ inBranch
    /\ \E ch \in AllocResults(db) :
        LET r == Handle(db, m, ch) IN SetDB(r.db) /\ Reply(r.op, m, r.ok)

IsUnmatched(m) == ~IsAddEnclave(m) /\ ~IsEnclaveOp(m) /\ ~IsCategoryOp(m) /\ ~IsFlush(m)

RecvAddEnclave(m) == Recv(m, IsAddEnclave(m))
RecvEnclaveOp(m)  == Recv(m, IsEnclaveOp(m))
RecvCategoryOp(m) == Recv(m, IsCategoryOp(m))
RecvFlush(m)      == Recv(m, IsFlush(m))
RecvUnmatched(m)  == Recv(m, IsUnmatched(m))

seng_nl_recv_msg(m) ==
    \/ RecvAddEnclave(m)
    \/ RecvEnclaveOp(m)
    \/ RecvCategoryOp(m)
    \/ RecvFlush(m)
    \/ RecvUnmatched(m)

Init == InitStore /\ reply = [op |-> "idle", ret |-> 0]
Next == \E m \in Msg : seng_nl_recv_msg(m)

Spec == Init /\ [][Next]_vars

(***************************************************************************)
(* Properties of the handler.                                              *)
(***************************************************************************)
data == <<emem, amem, enclaves, apps>>

(* A message that seng_nl_recv_msg answers with an error changes nothing,  *)
(* with the one exception the protocol documents: an add-enclave whose      *)
(* category attach fails keeps the new enclave.  Even then nothing else    *)
(* moves: no other enclave, and no category on any app.                    *)
FailedRequestLeavesStoreUnchanged ==
    [][reply'.ret = -EINVAL =>
         \/ UNCHANGED data
         \/ /\ reply'.op = "add"
            /\ \E e \in EncSlot \ InTable : InTable' = InTable \cup {e}
            /\ \A a \in ToSet(apps) : amem'[a].categories = amem[a].categories]_vars

(* After a FLUSH message the table holds no enclave and the list no app    *)
(* (del_all_enclaves followed by del_all_apps).                            *)
FlushLeavesStoreEmpty ==
    [][reply'.op = "flush" =>
           /\ \A k \in Buckets : enclaves'[k] = <<>>
           /\ apps' = <<>>]_vars

(***************************************************************************)
(* Refinement of the abstract store.  The mapping reads, for each IP, the  *)
(* enclave the table holds for it, and for each hash the categories of the *)
(* apps on the list with that hash.  A pointer to a freed record maps to   *)
(* None rather than being followed.                                        *)
(***************************************************************************)
StoredNames == {Truncate(n) : n \in Names}

EnclaveAt(ip) == {s \in InTable : emem[s].enclave_ip = ip}
EnclaveAppHash(s) == IF emem[s].a = NULL \/ amem[emem[s].a] = NULL THEN NULL
            ELSE amem[emem[s].a].app_hash
MappedEncApp ==
    [ip \in Ip |-> IF EnclaveAt(ip) = {} THEN NULL
                   ELSE EnclaveAppHash(CHOOSE s \in EnclaveAt(ip) : TRUE)]
MappedEncHost ==
    [ip \in Ip |-> IF EnclaveAt(ip) = {} THEN NULL
                   ELSE emem[CHOOSE s \in EnclaveAt(ip) : TRUE].host_ip]
MappedCats ==
    [h \in Hash |-> UNION {ToSet(amem[a].categories) :
                           a \in {x \in ToSet(apps) : amem[x] # NULL /\ amem[x].app_hash = h}}]

IS == INSTANCE IdentityStore WITH
          CatName <- StoredNames, None <- NULL,
          encApp <- MappedEncApp, encHost <- MappedEncHost, cats <- MappedCats

(* Every run of seng_nl_recv_msg is, seen through the mapping, one step of *)
(* the abstract store or no step at all: the handler's composition of the  *)
(* store functions implements the operations spec.md 4.1 defines.          *)
RefinesIdentityStore == IS!Spec

=============================================================================
