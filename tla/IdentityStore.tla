---------------------------- MODULE IdentityStore ----------------------------
(***************************************************************************)
(* What the identity store promises (spec.md 3 and 4.1), without memory,   *)
(* buckets, lists or reference counts: each enclave IP names at most one   *)
(* app hash and one host; each app hash has a set of category tags, which  *)
(* exists only while some enclave names the hash.                          *)
(*                                                                         *)
(* A request that fails leaves everything unchanged, which is a stuttering *)
(* step.  The one documented partial outcome, an add-enclave whose         *)
(* category attach fails, is an AddEnclave with no tag.                    *)
(***************************************************************************)
EXTENDS Naturals, FiniteSets

CONSTANTS
    Ip,         \* enclave addresses
    Hash,       \* identity hashes
    Host,       \* host addresses
    CatName,    \* category tags as stored
    None        \* no enclave at this address

VARIABLES
    encApp,     \* encApp[ip]: the hash of the enclave at ip, or None
    encHost,    \* encHost[ip]: its host, or None
    cats        \* cats[h]: the tags of the app with hash h

absVars == <<encApp, encHost, cats>>

Live(h) == \E ip \in Ip : encApp[ip] = h

TypeOK ==
    /\ encApp \in [Ip -> Hash \cup {None}]
    /\ encHost \in [Ip -> Host \cup {None}]
    /\ cats \in [Hash -> SUBSET CatName]

Init ==
    /\ encApp = [ip \in Ip |-> None]
    /\ encHost = [ip \in Ip |-> None]
    /\ cats = [h \in Hash |-> {}]

(* A new enclave at a free address; its app gains at most one tag.         *)
AddEnclave(ip, h, host, tags) ==
    /\ encApp[ip] = None
    /\ Cardinality(tags) <= 1
    /\ encApp' = [encApp EXCEPT ![ip] = h]
    /\ encHost' = [encHost EXCEPT ![ip] = host]
    /\ cats' = [cats EXCEPT ![h] = @ \cup tags]

(* The enclave goes; its app's tags go with the last enclave naming it.    *)
RemoveEnclave(ip) ==
    /\ encApp[ip] # None
    /\ encApp' = [encApp EXCEPT ![ip] = None]
    /\ encHost' = [encHost EXCEPT ![ip] = None]
    /\ LET h == encApp[ip] IN
       cats' = IF \E j \in Ip \ {ip} : encApp[j] = h THEN cats
               ELSE [cats EXCEPT ![h] = {}]

AddCategory(h, n) ==
    /\ Live(h)
    /\ cats' = [cats EXCEPT ![h] = @ \cup {n}]
    /\ UNCHANGED <<encApp, encHost>>

RemoveCategory(h, n) ==
    /\ Live(h) /\ n \in cats[h]
    /\ cats' = [cats EXCEPT ![h] = @ \ {n}]
    /\ UNCHANGED <<encApp, encHost>>

Flush ==
    /\ encApp' = [ip \in Ip |-> None]
    /\ encHost' = [ip \in Ip |-> None]
    /\ cats' = [h \in Hash |-> {}]

Next ==
    \/ \E ip \in Ip, h \in Hash, host \in Host, tags \in SUBSET CatName :
           AddEnclave(ip, h, host, tags)
    \/ \E ip \in Ip : RemoveEnclave(ip)
    \/ \E h \in Hash, n \in CatName : AddCategory(h, n) \/ RemoveCategory(h, n)
    \/ Flush

Spec == Init /\ [][Next]_absVars

(* An app that no enclave names has no tags (spec.md 8, refcount           *)
(* invariant).                                                             *)
TagsOnlyWhileLive == \A h \in Hash : ~Live(h) => cats[h] = {}

=============================================================================
