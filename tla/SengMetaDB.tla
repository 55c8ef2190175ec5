----------------------------- MODULE SengMetaDB -----------------------------
(***************************************************************************)
(* The kernel-side identity store of xt_seng (src/seng-module/             *)
(* xt_seng_metadb.c): a 2^8-bucket hash table of enclaves keyed by the     *)
(* low byte of the enclave IP, a linked list of apps shared by reference   *)
(* count, and per-app linked lists of category names.                      *)
(*                                                                         *)
(* Memory is explicit: enclave and app records live in slots that kmalloc  *)
(* hands out and kfree returns, so a pointer kept in one record can refer  *)
(* to a freed slot.  The store's functions are operators from a store      *)
(* value to a new store value, so that a netlink handler (SengGenl) can    *)
(* compose several of them into one atomic step.  A dereference of NULL or *)
(* of a freed slot does not stop the model: it records a fault.            *)
(***************************************************************************)
EXTENDS Integers, Sequences, SequencesExt, FiniteSets

CONSTANTS
    Ip,                 \* enclave IPs (the u32 of the ENC attribute)
    Hash,               \* app measurement hashes (32-byte blobs), model values
    Host,               \* host IPs (the u32 of the HOST attribute)
    Names,              \* category names as sent: sequences of characters
    MaxCatNameLength,   \* MAX_CAT_NAME_LENGTH (20 + 1 in the code)
    EncSlot,            \* memory for struct enclave
    AppSlot,            \* memory for struct app
    MaxCats,            \* bound: struct cat records that fit in memory
    MayFail,            \* may kmalloc return NULL while memory is left?
    NULL

ASSUME MaxCatNameLength \in Nat \ {0}
ASSUME MaxCats \in Nat /\ MayFail \in BOOLEAN
ASSUME NULL \notin EncSlot \cup AppSlot

VARIABLES
    emem,       \* emem[s]: the struct enclave in slot s, or NULL if free
    amem,       \* amem[s]: the struct app in slot s, or NULL if free
    enclaves,   \* enclaves[k]: the hlist of bucket k, head first
    apps,       \* the apps list, head first
    fault       \* "none", or the first memory fault a step committed

storeVars == <<emem, amem, enclaves, apps, fault>>

(***************************************************************************)
(* hash_func: the low 8 bits of the IP select the bucket.                  *)
(***************************************************************************)
hash_func(ip) == ip % 256

(* Only the buckets an enclave IP hashes to are represented; the others of *)
(* the 2^8 buckets stay empty.                                             *)
Buckets == {hash_func(ip) : ip \in Ip}
Bucket(d, k) == IF k \in Buckets THEN d.enclaves[k] ELSE <<>>

(***************************************************************************)
(* Strings.  A name is NUL-terminated; past its end every character reads  *)
(* as NUL.  strncmp(s, t, n) = 0 iff the first n characters agree, and     *)
(* strncpy(dst, s, MAX - 1) with dst[MAX - 1] = 0 keeps a prefix.          *)
(***************************************************************************)
NUL == ""
CharAt(s, i) == IF i <= Len(s) THEN s[i] ELSE NUL
StrnEq(s, t, n) == \A i \in 1..n : CharAt(s, i) = CharAt(t, i)
Truncate(s) == SubSeq(s, 1, IF Len(s) < MaxCatNameLength THEN Len(s)
                                                          ELSE MaxCatNameLength - 1)

EncRec == [enclave_ip : Ip, enclave_key : Buckets,
           a : AppSlot \cup {NULL}, host_ip : Host]
AppRec == [reference_counter : Nat, app_hash : Hash,
           categories : Seq({Truncate(n) : n \in Names})]

(* The store as one value, and a step that installs a new store value.     *)
db == [emem |-> emem, amem |-> amem, enclaves |-> enclaves,
       apps |-> apps, fault |-> fault]
SetDB(d) == /\ emem' = d.emem /\ amem' = d.amem /\ enclaves' = d.enclaves
            /\ apps' = d.apps /\ fault' = d.fault

Fault(d, f) == IF d.fault = "none" THEN [d EXCEPT !.fault = f] ELSE d

(* The module's hash table and list start empty (DEFINE_HASHTABLE, LIST_HEAD). *)
InitStore == /\ emem = [s \in EncSlot |-> NULL] /\ amem = [s \in AppSlot |-> NULL]
             /\ enclaves = [k \in Buckets |-> <<>>] /\ apps = <<>>
             /\ fault = "none"

(***************************************************************************)
(* kmalloc: any free slot, or NULL when memory is exhausted or, if MayFail,*)
(* at any time.  TotalCats counts the struct cat records in use.           *)
(***************************************************************************)
FreeSlots(mem) == {s \in DOMAIN mem : mem[s] = NULL}
Kmalloc(mem) == IF FreeSlots(mem) = {} THEN {NULL}
                ELSE FreeSlots(mem) \cup (IF MayFail THEN {NULL} ELSE {})
TotalCats(d) == MapThenSumSet(LAMBDA s : Len(d.amem[s].categories),
                               {s \in AppSlot : d.amem[s] # NULL})
CatAllocOK(d) == IF TotalCats(d) >= MaxCats THEN {FALSE}
                 ELSE IF MayFail THEN BOOLEAN ELSE {TRUE}

(***************************************************************************)
(* Lookups.                                                                *)
(***************************************************************************)
\* find_enclave: scan the bucket of ip for a node with that IP.
find_enclave(d, ip) ==
    LET b == Bucket(d, hash_func(ip))
        i == SelectInSeq(b, LAMBDA s : d.emem[s].enclave_ip = ip)
    IN  IF i = 0 THEN NULL ELSE b[i]

\* lookup_app_hash: first app in the list whose hash is equal.
lookup_app_hash(d, h) ==
    LET i == SelectInSeq(d.apps, LAMBDA s : d.amem[s].app_hash = h)
    IN  IF i = 0 THEN NULL ELSE d.apps[i]

\* find_cat / match_category: is name (compared on MAX chars) in the list?
match_category(d, a, name) ==
    \E i \in 1..Len(d.amem[a].categories) :
        StrnEq(d.amem[a].categories[i], name, MaxCatNameLength)

(***************************************************************************)
(* Apps.  A result is a record [db |-> store, ret |-> returned value].     *)
(***************************************************************************)
(* Mutations: each definition below is a plausible slip in the function   *)
(* named after it; the runs must tell it from the code.                    *)
\* add_app without INIT_LIST_HEAD(&a->categories).
add_app_noinit(d, h, slot) ==
    LET a == lookup_app_hash(d, h) IN
    IF a # NULL
    THEN [db |-> [d EXCEPT !.amem[a].reference_counter = @ + 1], ret |-> a]
    ELSE IF slot = NULL THEN [db |-> d, ret |-> NULL]
    ELSE [db |-> [d EXCEPT !.amem[slot] = [reference_counter |-> 1, app_hash |-> h],
                           !.apps = Cons(slot, @)],
          ret |-> slot]
\* add_app sharing an existing app without reference_counter++.
add_app_noinc(d, h, slot) ==
    LET a == lookup_app_hash(d, h) IN
    IF a # NULL THEN [db |-> d, ret |-> a]
    ELSE IF slot = NULL THEN [db |-> d, ret |-> NULL]
    ELSE [db |-> [d EXCEPT !.amem[slot] = [reference_counter |-> 1, app_hash |-> h,
                                            categories |-> <<>>],
                           !.apps = Cons(slot, @)],
          ret |-> slot]
\* add_app without lookup_app_hash: a new app for every enclave.
add_app_nolookup(d, h, slot) ==
    IF slot = NULL THEN [db |-> d, ret |-> NULL]
    ELSE [db |-> [d EXCEPT !.amem[slot] = [reference_counter |-> 1, app_hash |-> h,
                                            categories |-> <<>>],
                           !.apps = Cons(slot, @)],
          ret |-> slot]

\* add_app: share an existing app (reference_counter++) or kmalloc one.
add_app(d, h, slot) ==
    LET a == lookup_app_hash(d, h) IN
    IF a # NULL
    THEN [db |-> [d EXCEPT !.amem[a].reference_counter = @ + 1], ret |-> a]
    ELSE IF slot = NULL THEN [db |-> d, ret |-> NULL]
    ELSE [db |-> [d EXCEPT !.amem[slot] = [reference_counter |-> 1, app_hash |-> h,
                                            categories |-> <<>>],
                           !.apps = Cons(slot, @)],
          ret |-> slot]

\* Mutation: del_app testing reference_counter <= 2 (a decrement too many).
del_app_early(d, a) ==
    CASE a = NULL            -> Fault(d, "null_deref")
      [] d.amem[a] = NULL    -> Fault(d, "use_after_free")
      [] d.amem[a].reference_counter <= 2 ->
             [d EXCEPT !.amem[a] = NULL, !.apps = Remove(@, a)]
      [] OTHER -> [d EXCEPT !.amem[a].reference_counter = @ - 1]

\* Mutation: del_app that frees on the last reference but never decrements.
del_app_nodec(d, a) ==
    CASE a = NULL            -> Fault(d, "null_deref")
      [] d.amem[a] = NULL    -> Fault(d, "use_after_free")
      [] d.amem[a].reference_counter = 1 ->
             [d EXCEPT !.amem[a] = NULL, !.apps = Remove(@, a)]
      [] OTHER -> d

\* del_app: free the app (and its categories) on the last reference.
del_app(d, a) ==
    CASE a = NULL            -> Fault(d, "null_deref")
      [] d.amem[a] = NULL    -> Fault(d, "use_after_free")
      [] d.amem[a].reference_counter = 1 ->
             [d EXCEPT !.amem[a] = NULL, !.apps = Remove(@, a)]
      [] OTHER -> [d EXCEPT !.amem[a].reference_counter = @ - 1]

(***************************************************************************)
(* Enclaves.                                                               *)
(***************************************************************************)
\* Mutation: add_enclave calling add_app before the duplicate check.
add_enclave_app_first(d, ip, h, host, eslot, aslot) ==
    LET r == add_app(d, h, aslot)
        k == hash_func(ip)
    IN  IF find_enclave(d, ip) # NULL THEN [db |-> r.db, ret |-> NULL]
        ELSE IF eslot = NULL THEN [db |-> Fault(r.db, "null_deref"), ret |-> NULL]
        ELSE [db |-> [r.db EXCEPT
                        !.emem[eslot] = [enclave_ip |-> ip, enclave_key |-> k,
                                         a |-> r.ret, host_ip |-> host],
                        !.enclaves[k] = Cons(eslot, @)],
              ret |-> eslot]

\* add_enclave: reject a duplicate IP; the kmalloc result is not checked,
\* nor is the app add_app returns.  hash_add puts the node at the head.
add_enclave(d, ip, h, host, eslot, aslot) ==
    IF find_enclave(d, ip) # NULL THEN [db |-> d, ret |-> NULL]
    ELSE IF eslot = NULL THEN [db |-> Fault(d, "null_deref"), ret |-> NULL]
    ELSE LET r == add_app(d, h, aslot)
             k == hash_func(ip)
         IN  [db |-> [r.db EXCEPT
                        !.emem[eslot] = [enclave_ip |-> ip, enclave_key |-> k,
                                         a |-> r.ret, host_ip |-> host],
                        !.enclaves[k] = Cons(eslot, @)],
              ret |-> eslot]

\* Mutation: del_enclave without kfree(e).
del_enclave_nofree(d, ip) ==
    LET e == find_enclave(d, ip) IN
    IF e = NULL THEN [db |-> d, ret |-> FALSE]
    ELSE LET d1 == del_app(d, d.emem[e].a) IN
         [db |-> [d1 EXCEPT !.enclaves[hash_func(ip)] = Remove(@, e)], ret |-> TRUE]

\* del_enclave: unlink and free the node of ip after releasing its app.
del_enclave(d, ip) ==
    LET e == find_enclave(d, ip) IN
    IF e = NULL THEN [db |-> d, ret |-> FALSE]
    ELSE LET d1 == del_app(d, d.emem[e].a) IN
         [db |-> [d1 EXCEPT !.emem[e] = NULL,
                            !.enclaves[hash_func(ip)] = Remove(@, e)],
          ret |-> TRUE]

\* del_all_apps: free every app on the list with its categories.
del_all_apps(d) == [d EXCEPT !.amem = [s \in AppSlot |-> NULL], !.apps = <<>>]

\* Mutations: del_all_enclaves without the call to del_all_apps, and with
\* only that call (the enclave loop left out).
del_all_enclaves_noapps(d) ==
    LET heads == {d.enclaves[k][1] : k \in {k \in Buckets : d.enclaves[k] # <<>>}}
    IN  [d EXCEPT !.emem = [s \in EncSlot |-> IF s \in heads THEN NULL ELSE @[s]],
                  !.enclaves = [k \in Buckets |-> IF @[k] = <<>> THEN @[k] ELSE Tail(@[k])]]
del_all_apps_only(d) == del_all_apps(d)

\* del_all_enclaves: hash_for_each is not the _safe iterator.  After
\* hash_del (hlist_del_init) and kfree of a node it reads the freed node's
\* next pointer.  hlist_del_init has set it to NULL and SLUB keeps its free
\* pointer elsewhere in the object, so the read returns NULL: only the head
\* of each bucket is freed.  del_all_apps then frees every app.
del_all_enclaves(d) ==
    LET heads == {d.enclaves[k][1] : k \in {k \in Buckets : d.enclaves[k] # <<>>}}
    IN  del_all_apps(
          [d EXCEPT !.emem = [s \in EncSlot |-> IF s \in heads THEN NULL ELSE @[s]],
                    !.enclaves = [k \in Buckets |-> IF @[k] = <<>> THEN @[k] ELSE Tail(@[k])]])

(***************************************************************************)
(* Categories.                                                             *)
(***************************************************************************)
\* Mutation: add_cat_to_app without the duplicate scan.
add_cat_to_app_nodup(d, a, name, allocOK) ==
    CASE a = NULL         -> [db |-> Fault(d, "null_deref"), ret |-> FALSE]
      [] d.amem[a] = NULL -> [db |-> Fault(d, "use_after_free"), ret |-> FALSE]
      [] ~allocOK         -> [db |-> d, ret |-> FALSE]
      [] OTHER -> [db |-> [d EXCEPT !.amem[a].categories = Cons(Truncate(name), @)],
                   ret |-> TRUE]

\* add_cat_to_app: a name equal on MAX chars is a no-op success; else a
\* struct cat is kmalloc'd (false on OOM) holding the truncated name.
add_cat_to_app(d, a, name, allocOK) ==
    CASE a = NULL         -> [db |-> Fault(d, "null_deref"), ret |-> FALSE]
      [] d.amem[a] = NULL -> [db |-> Fault(d, "use_after_free"), ret |-> FALSE]
      [] match_category(d, a, name) -> [db |-> d, ret |-> TRUE]
      [] ~allocOK         -> [db |-> d, ret |-> FALSE]
      [] OTHER -> [db |-> [d EXCEPT !.amem[a].categories = Cons(Truncate(name), @)],
                   ret |-> TRUE]

\* del_cat_from_app: free the first category equal on MAX chars.
del_cat_from_app(d, a, name) ==
    LET cs == d.amem[a].categories
        i  == SelectInSeq(cs, LAMBDA c : StrnEq(name, c, MaxCatNameLength))
    IN  IF i = 0 THEN [db |-> d, ret |-> FALSE]
        ELSE [db |-> [d EXCEPT !.amem[a].categories = RemoveAt(cs, i)], ret |-> TRUE]

(***************************************************************************)
(* Invariants of the store.                                                *)
(***************************************************************************)
TypeOK ==
    /\ emem \in [EncSlot -> EncRec \cup {NULL}]
    /\ amem \in [AppSlot -> AppRec \cup {NULL}]
    /\ enclaves \in [Buckets -> Seq(EncSlot)]
    /\ apps \in Seq(AppSlot)
    /\ fault \in {"none", "null_deref", "use_after_free"}

InTable == UNION {ToSet(enclaves[k]) : k \in Buckets}
Users(a) == {e \in InTable : emem[e].a = a}

(* No handler dereferences NULL or a freed record: add_enclave uses its    *)
(* kmalloc result and e->a unchecked, del_app and add_cat_to_app follow    *)
(* e->a wherever it points.                                                *)
NoMemoryFault == fault = "none"

(* Refcounting (add_app / del_app): every app on the list counts exactly   *)
(* the enclaves in the table that point to it, so it is freed with its     *)
(* last user and never before.                                             *)
RefcountExact ==
    \A a \in ToSet(apps) : amem[a].reference_counter = Cardinality(Users(a))

(* One app record per measurement hash (add_app looks the hash up before   *)
(* it allocates).                                                          *)
OneAppPerHash ==
    \A i, j \in 1..Len(apps) :
        amem[apps[i]].app_hash = amem[apps[j]].app_hash => i = j

(* Every enclave reachable from the hash table points to a live app on     *)
(* the apps list: seng_mt follows e->a on every packet.                    *)
NoDanglingApp ==
    \A e \in InTable : emem[e].a # NULL /\ emem[e].a \in ToSet(apps)

(* Every allocated enclave or app is reachable from the table or the list, *)
(* and every reachable one is allocated: nothing leaks, nothing is freed   *)
(* while linked.                                                           *)
NoLeak ==
    /\ {s \in EncSlot : emem[s] # NULL} = InTable
    /\ {s \in AppSlot : amem[s] # NULL} = ToSet(apps)

(* Category names are unique within one app (add_cat_to_app's duplicate    *)
(* scan), so del_cat_from_app removes the name entirely.                   *)
CatsUnique ==
    \A a \in ToSet(apps) :
        LET cs == amem[a].categories IN
        \A i, j \in 1..Len(cs) : cs[i] = cs[j] => i = j

=============================================================================
