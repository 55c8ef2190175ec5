------------------------------ MODULE SengMatch ------------------------------
(***************************************************************************)
(* The packet-path decision of xt_seng: seng_mt (src/seng-module/          *)
(* xt_seng.c) evaluates a compiled rule (struct seng_mt_info) against the  *)
(* enclaves of a packet's source and destination address, read from the   *)
(* identity store.  seng_mt_check rejects a rule without any criterion.    *)
(*                                                                         *)
(* seng_mt is written block by block as in the code, counting the criteria *)
(* "searched" and "found"; SpecMatch is the decision as the specification *)
(* states it, criterion by criterion.                                      *)
(***************************************************************************)
EXTENDS SengMetaDB, SengFlags, Bitwise

CONSTANTS
    Rule,       \* compiled rules (struct seng_mt_info) to evaluate
    PacketAddr  \* source and destination addresses of packets

(* seng_mt_check: a rule must name at least one criterion.                  *)
seng_mt_check(info) == info.flags \cap {Criteria[i] : i \in 1..6} # {}

(***************************************************************************)
(* The raw test of criterion c against the enclave e and its app a, both   *)
(* resolved on the criterion's side.  It is only used when the side's      *)
(* pointer (app for APP/CAT, enclave for HOST) is not NULL.                *)
(***************************************************************************)
RawTest(d, info, c, e, a) ==
    CASE c = "APP_SRC"  -> d.amem[a].app_hash = info.app_hash_src
      [] c = "APP_DST"  -> d.amem[a].app_hash = info.app_hash_dst
      [] c = "CAT_SRC"  -> match_category(d, a, info.category_name_src)
      [] c = "CAT_DST"  -> match_category(d, a, info.category_name_dst)
      [] c = "HOST_SRC" -> (info.host_src & info.src_subnet)
                               = (d.emem[e].host_ip & info.src_subnet)
      [] c = "HOST_DST" -> (info.host_dst & info.dst_subnet)
                               = (d.emem[e].host_ip & info.dst_subnet)

(* The enclave and app a packet address resolves to (NULL if unknown).      *)
EncOf(d, addr) == find_enclave(d, addr)
AppOf(d, addr) == IF EncOf(d, addr) = NULL THEN NULL ELSE d.emem[EncOf(d, addr)].a

(* The pointers seng_mt holds: src_enc, dst_enc, src_app, dst_app.          *)
Ptrs(d, saddr, daddr) ==
    [src_enc |-> EncOf(d, saddr), dst_enc |-> EncOf(d, daddr),
     src_app |-> AppOf(d, saddr), dst_app |-> AppOf(d, daddr)]

(* The enclave and app pointer a criterion's block uses, and the one it     *)
(* tests for NULL before it counts the criterion as found.                  *)
SideEnc(p, c) == IF IsSrc(c) THEN p.src_enc ELSE p.dst_enc
SideApp(p, c) == IF IsSrc(c) THEN p.src_app ELSE p.dst_app
Guard(p, c) == IF c \in {"HOST_SRC", "HOST_DST"} THEN SideEnc(p, c) ELSE SideApp(p, c)

(***************************************************************************)
(* seng_mt: look both addresses up, then one block per criterion; a block  *)
(* for a present criterion increments searched, and increments found when  *)
(* its pointer is not NULL and the test, xor its inversion flag, holds.    *)
(* searched = found is a match.                                            *)
(***************************************************************************)
(* Mutations of a block: one that counts an unresolved criterion as found  *)
(* when it is negated (the inversion applied to a "no match" default), and *)
(* one that reads the inversion bit of the other side (a copy-paste slip). *)
Block_failopen(d, info, c, p, cnt) ==
    LET hit == IF Guard(p, c) = NULL THEN Inv(c) \in info.flags
               ELSE RawTest(d, info, c, SideEnc(p, c), SideApp(p, c)) # (Inv(c) \in info.flags)
    IN  IF c \notin info.flags THEN cnt
        ELSE [searched |-> cnt.searched + 1,
              found    |-> cnt.found + (IF hit THEN 1 ELSE 0)]
Other(c) == CASE c = "APP_SRC" -> "APP_DST" [] c = "APP_DST" -> "APP_SRC"
              [] c = "CAT_SRC" -> "CAT_DST" [] c = "CAT_DST" -> "CAT_SRC"
              [] c = "HOST_SRC" -> "HOST_DST" [] c = "HOST_DST" -> "HOST_SRC"
Block_wronginv(d, info, c, p, cnt) ==
    LET hit == /\ Guard(p, c) # NULL
               /\ RawTest(d, info, c, SideEnc(p, c), SideApp(p, c)) # (Inv(Other(c)) \in info.flags)
    IN  IF c \notin info.flags THEN cnt
        ELSE [searched |-> cnt.searched + 1,
              found    |-> cnt.found + (IF hit THEN 1 ELSE 0)]

Block(d, info, c, p, cnt) ==
    LET hit == /\ Guard(p, c) # NULL
               /\ RawTest(d, info, c, SideEnc(p, c), SideApp(p, c)) # (Inv(c) \in info.flags)
    IN  IF c \notin info.flags THEN cnt
        ELSE [searched |-> cnt.searched + 1,
              found    |-> cnt.found + (IF hit THEN 1 ELSE 0)]

NoCount == [searched |-> 0, found |-> 0]
Verdict(cnt) == cnt.searched = cnt.found

seng_mt(d, info, saddr, daddr) ==
    LET p == Ptrs(d, saddr, daddr) IN
    Verdict(FoldLeft(LAMBDA acc, c : Block(d, info, c, p, acc), NoCount, Criteria))

(***************************************************************************)
(* The decision as specified: a rule matches iff it names at least one     *)
(* criterion and every criterion it names is satisfied, where a criterion  *)
(* on an address the store does not know is never satisfied, negated or    *)
(* not.                                                                    *)
(***************************************************************************)
Satisfied(d, info, c, saddr, daddr) ==
    LET addr  == IF IsSrc(c) THEN saddr ELSE daddr
        known == IF c \in {"HOST_SRC", "HOST_DST"} THEN EncOf(d, addr) # NULL
                                                   ELSE AppOf(d, addr) # NULL
    IN  /\ known
        /\ RawTest(d, info, c, EncOf(d, addr), AppOf(d, addr)) = (Inv(c) \notin info.flags)

SpecMatch(d, info, saddr, daddr) ==
    LET named == {Criteria[i] : i \in 1..6} \cap info.flags IN
    /\ named # {}
    /\ \A c \in named : Satisfied(d, info, c, saddr, daddr)

(* For every rule iptables accepts and every packet, seng_mt's counting of   *)
(* searched and found criteria gives the specified decision, on every store *)
(* the control server can build.                                            *)
MatchAgreesWithSpec ==
    \A info \in Rule : seng_mt_check(info) =>
        \A saddr, daddr \in PacketAddr :
            seng_mt(db, info, saddr, daddr) = SpecMatch(db, info, saddr, daddr)

=============================================================================
