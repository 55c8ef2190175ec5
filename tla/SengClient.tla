----------------------------- MODULE SengClient -----------------------------
(***************************************************************************)
(* The client library (src/user-library/seng_genl.c) driving the control   *)
(* server.                                                                 *)
(*                                                                         *)
(* Each operation has a message builder (add_enclave, cat_to_app,          *)
(* remove_cat_from_app, remove_enclave, send_signal) that resolves the     *)
(* family, allocates the message, puts the attributes and sends it with    *)
(* nl_send_sync, returning its result; and an *_ack wrapper that calls     *)
(* the builder again while the result is negative, giving up when i > 4.   *)
(* One authority process makes one call at a time.  An attempt can fail    *)
(* before the message leaves the process, reach the server and return the *)
(* server's result, or reach the server and lose the ack (nl_send_sync     *)
(* then returns a receive error).                                          *)
(***************************************************************************)
EXTENDS SengGenl

CONSTANT
    Calls   \* [fn, enc, app, host, cat]: the calls the authority may make;
            \* cat = NULL is a NULL cat_name

Fn == {"add_enclave", "cat_to_app", "remove_cat_from_app", "remove_enclave",
       "flush_module"}

ASSUME \A c \in Calls : c.fn \in Fn /\ c.cat \in Names \cup {NULL}

VARIABLES
    cpc,        \* "idle" or "calling" (inside an *_ack wrapper)
    call,       \* the call being made
    i,          \* the wrapper's count of failed attempts
    start,      \* the store when the call began
    result      \* what the last wrapper returned: "none", "ok" or "failed"

clientVars == <<cpc, call, i, start, result>>
allVars == <<vars, clientVars>>

(***************************************************************************)
(* The attributes each builder puts; CAT only when cat_name is not NULL.   *)
(***************************************************************************)
CatAttr(c) == IF c.cat = NULL THEN {} ELSE {"CAT"}

AddEnclaveAttrs(c)  == {"HOST", "APP", "ADD", "ENC"} \cup CatAttr(c)
CatToAppAttrs(c)    == {"APP", "ADD"} \cup CatAttr(c)
RemoveCatAttrs(c)   == {"APP", "RMV"} \cup CatAttr(c)
RemoveEnclaveAttrs  == {"ENC", "RMV"}
SendSignalAttrs     == {"FLUSH"}   \* flush_module: send_signal(XT_SENG_ATTR_FLUSH)

ToMsg(c) ==
    [attrs |-> CASE c.fn = "add_enclave"         -> AddEnclaveAttrs(c)
                 [] c.fn = "cat_to_app"          -> CatToAppAttrs(c)
                 [] c.fn = "remove_cat_from_app" -> RemoveCatAttrs(c)
                 [] c.fn = "remove_enclave"      -> RemoveEnclaveAttrs
                 [] c.fn = "flush_module"        -> SendSignalAttrs,
     enc |-> c.enc, app |-> c.app, host |-> c.host,
     cat |-> IF c.cat = NULL THEN CHOOSE n \in Names : TRUE ELSE c.cat]

(* A builder's result when genl_ctrl_resolve fails: -1, except send_signal, *)
(* which returns EXIT_FAILURE.                                             *)
ENOMEM == 12
ResolveFailRet(c) == IF c.fn = "flush_module" THEN 1 ELSE -1

(* The results of an attempt that never reaches the server: the resolve    *)
(* failure, -ENOMEM from nlmsg_alloc or genlmsg_put, a negative error of   *)
(* nla_put or of the send inside nl_send_sync.                             *)
LocalFailRets(c) == {ResolveFailRet(c), -ENOMEM}

(* nl_send_sync's result when the message was handled but the ack could   *)
(* not be received.                                                        *)
ACK_LOST == -1   \* e.g. the socket's receive buffer overran (ENOBUFS)

(* The wrapper's loop test: if (i > 4) give up.                            *)
Exhausted == i > 4

(***************************************************************************)
(* The wrapper's steps.                                                    *)
(***************************************************************************)
Begin ==
    /\ Alive /\ cpc = "idle"
    /\ \E c \in Calls : call' = c
    /\ cpc' = "calling" /\ i' = 0 /\ start' = db
    /\ result' = "none"
    /\ UNCHANGED vars

(* The retry step with the increment of i forgotten.                      *)
Conclude_noinc(ret) ==
    IF ret < 0 THEN UNCHANGED <<i, cpc, result>>
    ELSE cpc' = "idle" /\ result' = "ok" /\ UNCHANGED i

(* The retry step that returns success whatever the attempt gave.          *)
Conclude_nocheck(ret) == cpc' = "idle" /\ result' = "ok" /\ UNCHANGED i

(* The attempt's result ret: ret < 0 means i += 1 and repeat, otherwise    *)
(* the wrapper returns success.                                            *)
Conclude(ret) ==
    IF ret < 0 THEN i' = i + 1 /\ UNCHANGED <<cpc, result>>
    ELSE cpc' = "idle" /\ result' = "ok" /\ UNCHANGED i

AttemptLocalFail ==
    /\ Alive /\ cpc = "calling" /\ ~Exhausted
    /\ \E ret \in LocalFailRets(call) : Conclude(ret)
    /\ UNCHANGED <<vars, call, start>>

(* The message reaches seng_nl_recv_msg, which runs under genl_mutex.      *)
AttemptDelivered ==
    /\ Alive /\ cpc = "calling" /\ ~Exhausted
    /\ seng_nl_recv_msg(ToMsg(call))
    /\ \E acked \in BOOLEAN : Conclude(IF acked THEN reply'.ret ELSE ACK_LOST)
    /\ UNCHANGED <<call, start>>

GiveUp ==
    /\ Alive /\ cpc = "calling" /\ Exhausted
    /\ cpc' = "idle" /\ result' = "failed"
    /\ UNCHANGED <<vars, call, i, start>>

ClientInit ==
    /\ Init
    /\ cpc = "idle" /\ call = (CHOOSE c \in Calls : TRUE) /\ i = 0 /\ start = db
    /\ result = "none"

ClientNext == Begin \/ AttemptLocalFail \/ AttemptDelivered \/ GiveUp

ClientSpec == ClientInit /\ [][ClientNext]_allVars

(* The authority process runs each wrapper to its return: the wrapper does *)
(* not wait on anything but nl_send_sync, which returns on an ack or on a  *)
(* receive error.  Beginning a call is the caller's choice, so not fair.   *)
WrapperSteps == AttemptLocalFail \/ AttemptDelivered \/ GiveUp
ClientFairSpec == ClientSpec /\ WF_allVars(WrapperSteps)

(***************************************************************************)
(* Properties of the retry layer.                                          *)
(***************************************************************************)
(* What a store holds, without memory slots or reference counts: the bag   *)
(* of enclaves (IP, host, and the app's hash and bag of categories) and    *)
(* the bag of apps on the list.                                            *)
AppView(d, a) ==
    IF a = NULL THEN "none"
    ELSE IF d.amem[a] = NULL THEN "freed"
    ELSE [hash |-> d.amem[a].app_hash, cats |-> ToBag(d.amem[a].categories)]
EncView(d, s) ==
    [ip |-> d.emem[s].enclave_ip, host |-> d.emem[s].host_ip,
     app |-> AppView(d, d.emem[s].a)]
TableSlots(d) == UNION {ToSet(d.enclaves[k]) : k \in Buckets}
View(d) ==
    [enc  |-> ToBag([s \in TableSlots(d) |-> EncView(d, s)]),
     apps |-> ToBag([j \in 1..Len(d.apps) |-> AppView(d, d.apps[j])])]

(* The stores one handler run of the call's message can produce from s.    *)
AppliedOnce(s, c) == {View(Handle(s, ToMsg(c), ch).db) : ch \in AllocResults(s)}

(* However many attempts of a wrapper reached the server (an ack lost      *)
(* makes the wrapper send its message again), the store is as if the       *)
(* message had been handled at most once: spec.md 4.4 relies on every      *)
(* operation being safe to deliver more than once.                         *)
AtMostOnceEffect == View(db) \in {View(start)} \cup AppliedOnce(start, call)

(* Every call of a wrapper returns: the retry loop ends whatever the       *)
(* channel and the server do.                                              *)
CallReturns == cpc = "calling" ~> cpc = "idle"

=============================================================================
