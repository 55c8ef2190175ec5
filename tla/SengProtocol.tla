----------------------------- MODULE SengProtocol -----------------------------
(***************************************************************************)
(* The control server of SengGenl seen as the control protocol of spec.md  *)
(* 4.3: each run of seng_nl_recv_msg, with the message it handled (the     *)
(* attributes of its genl_info), against the request that message carries *)
(* and the result the protocol allows for it.                              *)
(***************************************************************************)
EXTENDS SengGenl

VARIABLE
    lastMsg     \* the message of the last handler run ("none" before any)

protoVars == <<vars, lastMsg>>

(* One run of seng_nl_recv_msg on the message m, whose attributes the run *)
(* reads from info->attrs.                                                 *)
HandleMsg(m) == seng_nl_recv_msg(m) /\ lastMsg' = m

ProtoInit == Init /\ lastMsg = "none"
ProtoNext == \E m \in Msg : HandleMsg(m)
ProtoSpec == ProtoInit /\ [][ProtoNext]_protoVars

(***************************************************************************)
(* The request a message carries, as spec.md 4.3 reads it: the four cases *)
(* in their priority order; ENC without case 1 and without RMV, APP with   *)
(* CAT but neither ADD nor RMV, FLUSH with anything else, and every other *)
(* combination are errors.  The category is the name as the store keeps   *)
(* it.                                                                     *)
(***************************************************************************)
Has(m, S) == S \subseteq m.attrs
Invalid == [op |-> "invalid"]
None == [op |-> "none"]

RequestOf(m) ==
    CASE Has(m, {"ENC", "APP", "HOST", "ADD"}) ->
             [op |-> "add_enclave", ip |-> m.enc, h |-> m.app, host |-> m.host,
              tags |-> IF "CAT" \in m.attrs THEN {Truncate(m.cat)} ELSE {}]
      [] Has(m, {"ENC", "RMV"})        -> [op |-> "remove_enclave", ip |-> m.enc]
      [] "ENC" \in m.attrs             -> Invalid
      [] Has(m, {"APP", "CAT", "RMV"}) -> [op |-> "remove_category", h |-> m.app,
                                           n |-> Truncate(m.cat)]
      [] Has(m, {"APP", "CAT", "ADD"}) -> [op |-> "add_category", h |-> m.app,
                                           n |-> Truncate(m.cat)]
      [] m.attrs = {"FLUSH"}           -> [op |-> "flush"]
      [] OTHER                         -> Invalid

MappedAnswer ==
    IF reply.op = "idle" THEN [req |-> None, ok |-> TRUE]
    ELSE [req |-> RequestOf(lastMsg), ok |-> reply.ret = 0]

CP == INSTANCE ControlProtocol WITH
          CatName <- StoredNames, None <- NULL, NoRequest <- None,
          encApp <- MappedEncApp, encHost <- MappedEncHost, cats <- MappedCats,
          answer <- MappedAnswer

(* Every answer of seng_nl_recv_msg is one the protocol allows for the     *)
(* request its message carries: 0 only when that request's operation was   *)
(* done, -EINVAL only when nothing changed (or the enclave of a failed     *)
(* attach stayed).                                                         *)
RefinesControlProtocol == CP!ProtoSpec

=============================================================================
