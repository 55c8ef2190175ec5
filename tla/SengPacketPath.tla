---------------------------- MODULE SengPacketPath ----------------------------
(***************************************************************************)
(* The packet path and the control server running at the same time.        *)
(*                                                                         *)
(* seng_mt (src/seng-module/xt_seng.c) runs in softirq context for every   *)
(* packet that reaches a rule with "-m seng"; seng_nl_recv_msg runs in the *)
(* process context of the netlink sender.  Neither takes a lock, RCU read  *)
(* section or reference on the store, and kfree is immediate, so a packet  *)
(* evaluation may be interleaved with any number of handler runs.  Here    *)
(* one packet at a time goes through seng_mt step by step, between         *)
(* handler runs (each handler run is still one step, which only removes    *)
(* interleavings: whatever is found here can happen).                      *)
(***************************************************************************)
EXTENDS SengGenl, SengMatch

CONSTANT
    ControlMsg  \* the messages the control server receives meanwhile

ASSUME ControlMsg \subseteq Msg

VARIABLES
    pc,     \* where seng_mt is: "idle", "lookup_src", "lookup_dst",
            \* "load_apps", "match" (block blk next) or "done"
    pkt,    \* [info, saddr, daddr] of the packet being evaluated
    ptr,    \* the pointers seng_mt holds: src_enc, dst_enc, src_app, dst_app
    blk,    \* the index in Criteria of the next block whose criterion the
            \* rule names (the blocks of other criteria only test a flag)
    cnt,    \* [searched, found]
    seen    \* history: the specified decisions on every store the
            \* evaluation of the current packet has overlapped

pathVars == <<pc, pkt, ptr, blk, cnt, seen>>
allVars == <<vars, pathVars>>

NoPtrs == [src_enc |-> NULL, dst_enc |-> NULL, src_app |-> NULL, dst_app |-> NULL]
SpecNow == SpecMatch(db, pkt.info, pkt.saddr, pkt.daddr)

\* A read through a pointer to a record that has been freed.
ReadFreed(p, isEnc) == p # NULL /\ IF isEnc THEN emem[p] = NULL ELSE amem[p] = NULL
UseAfterFree == fault' = "use_after_free" /\ UNCHANGED <<emem, amem, enclaves, apps, reply>>

(* The index of the first criterion after i the rule names; 7 after the last. *)
NextBlock(info, i) ==
    LET later == {j \in i+1..Len(Criteria) : Criteria[j] \in info.flags}
    IN  IF later = {} THEN Len(Criteria) + 1 ELSE Min(later)

(***************************************************************************)
(* seng_mt, step by step.                                                  *)
(***************************************************************************)
PacketArrives ==
    /\ Alive /\ pc = "idle"
    /\ \E info \in Rule, saddr, daddr \in PacketAddr :
        /\ seng_mt_check(info)
        /\ pkt' = [info |-> info, saddr |-> saddr, daddr |-> daddr]
        /\ seen' = {SpecMatch(db, info, saddr, daddr)}
        /\ blk' = NextBlock(info, 0)
    /\ pc' = "lookup_src" /\ ptr' = NoPtrs /\ cnt' = NoCount
    /\ UNCHANGED vars

LookupSrc ==
    /\ Alive /\ pc = "lookup_src"
    /\ ptr' = [ptr EXCEPT !.src_enc = find_enclave(db, pkt.saddr)]
    /\ pc' = "lookup_dst"
    /\ UNCHANGED <<vars, pkt, blk, cnt, seen>>

LookupDst ==
    /\ Alive /\ pc = "lookup_dst"
    /\ ptr' = [ptr EXCEPT !.dst_enc = find_enclave(db, pkt.daddr)]
    /\ pc' = "load_apps"
    /\ UNCHANGED <<vars, pkt, blk, cnt, seen>>

\* src_app = src_enc->a; dst_app = dst_enc->a
LoadApps ==
    /\ Alive /\ pc = "load_apps"
    /\ IF ReadFreed(ptr.src_enc, TRUE) \/ ReadFreed(ptr.dst_enc, TRUE)
       THEN UseAfterFree /\ UNCHANGED pathVars
       ELSE /\ ptr' = [ptr EXCEPT
                 !.src_app = IF ptr.src_enc = NULL THEN NULL ELSE emem[ptr.src_enc].a,
                 !.dst_app = IF ptr.dst_enc = NULL THEN NULL ELSE emem[ptr.dst_enc].a]
            /\ pc' = "match"
            /\ UNCHANGED <<vars, pkt, blk, cnt, seen>>

\* One criterion's block: it reads through the pointer it tested.
MatchBlock ==
    /\ Alive /\ pc = "match"
    /\ LET c == Criteria[blk]
           isHost == c \in {"HOST_SRC", "HOST_DST"}
       IN
       IF ReadFreed(Guard(ptr, c), isHost)
       THEN UseAfterFree /\ UNCHANGED pathVars
       ELSE /\ cnt' = Block(db, pkt.info, c, ptr, cnt)
            /\ blk' = NextBlock(pkt.info, blk)
            /\ pc' = IF blk' > Len(Criteria) THEN "done" ELSE "match"
            /\ UNCHANGED <<vars, pkt, ptr, seen>>

\* The verdict is returned to xtables; the CPU takes the next packet.
PacketDone ==
    /\ Alive /\ pc = "done"
    /\ pc' = "idle"
    /\ UNCHANGED <<vars, pkt, ptr, blk, cnt, seen>>

(* A handler run; while a packet is in flight its decision on the new store *)
(* joins the history.                                                      *)
HandlerStep ==
    /\ \E m \in ControlMsg : seng_nl_recv_msg(m)
    /\ UNCHANGED <<pc, pkt, ptr, blk, cnt>>
    /\ seen' = IF pc = "idle" THEN seen ELSE seen \cup {SpecNow'}

PathInit ==
    /\ Init
    /\ pc = "idle" /\ pkt = [info |-> CHOOSE r \in Rule : TRUE,
                              saddr |-> CHOOSE x \in PacketAddr : TRUE,
                              daddr |-> CHOOSE x \in PacketAddr : TRUE]
    /\ ptr = NoPtrs /\ blk = 1 /\ cnt = NoCount /\ seen = {}

PathNext ==
    \/ HandlerStep
    \/ PacketArrives \/ LookupSrc \/ LookupDst \/ LoadApps \/ MatchBlock \/ PacketDone

PathSpec == PathInit /\ [][PathNext]_allVars

(***************************************************************************)
(* Properties.                                                             *)
(***************************************************************************)
(* The verdict seng_mt returns is the specified decision on some store that *)
(* existed while the packet was being evaluated: a reader never acts on a   *)
(* mixture of records or on a record recycled for another enclave.         *)
VerdictLinearizable == pc = "done" => Verdict(cnt) \in seen

=============================================================================
