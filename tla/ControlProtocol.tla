--------------------------- MODULE ControlProtocol ---------------------------
(***************************************************************************)
(* What the control protocol promises (spec.md 4.3 and 4.4), over the      *)
(* abstract identity store.  A message carries one request, selected by    *)
(* the attributes it holds, and gets one result.  Success means that the   *)
(* request's operation was done; failure means that nothing changed, with  *)
(* the one documented exception: an add-enclave whose category attach      *)
(* fails keeps the enclave.  A request that names no operation, a          *)
(* removal of an enclave that is not there ("not found") and a category   *)
(* operation on an absent app or category can only fail.  Any request may *)
(* fail for lack of memory, so failure is always allowed.                  *)
(***************************************************************************)
EXTENDS IdentityStore

CONSTANT
    NoRequest   \* the request before the first message

VARIABLE
    answer      \* [req, ok]: the request the last message carried, its result

protoVars == <<absVars, answer>>

Request ==
    [op : {"add_enclave"}, ip : Ip, h : Hash, host : Host, tags : SUBSET CatName]
    \cup [op : {"remove_enclave"}, ip : Ip]
    \cup [op : {"add_category", "remove_category"}, h : Hash, n : CatName]
    \cup [op : {"flush", "invalid"}]

Answer(r, ok) == answer' = [req |-> r, ok |-> ok]

(* The store operation r names; an invalid request names none.             *)
Perform(r) ==
    \/ r.op = "add_enclave"     /\ AddEnclave(r.ip, r.h, r.host, r.tags)
    \/ r.op = "remove_enclave"  /\ RemoveEnclave(r.ip)
    \/ r.op = "add_category"    /\ AddCategory(r.h, r.n)
    \/ r.op = "remove_category" /\ RemoveCategory(r.h, r.n)
    \/ r.op = "flush"           /\ Flush

Succeed(r) == Perform(r) /\ Answer(r, TRUE)

Refuse(r) == UNCHANGED absVars /\ Answer(r, FALSE)

(* Case 1 of 4.3: the enclave is added, attaching its category fails, and  *)
(* the whole request is reported as failed.                                *)
AttachFails(r) ==
    /\ r.op = "add_enclave" /\ r.tags # {}
    /\ AddEnclave(r.ip, r.h, r.host, {})
    /\ Answer(r, FALSE)

Serve(r) == Succeed(r) \/ Refuse(r) \/ AttachFails(r)

ProtoInit == Init /\ answer = [req |-> NoRequest, ok |-> TRUE]

ProtoNext == \E r \in Request : Serve(r)

ProtoSpec == ProtoInit /\ [][ProtoNext]_protoVars

=============================================================================
