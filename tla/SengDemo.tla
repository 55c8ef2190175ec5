------------------------------ MODULE SengDemo ------------------------------
(***************************************************************************)
(* The demo application seng_app (src/demo-app/seng_app.c) on the client   *)
(* library: main reads -h, -f and -t, opens the netlink socket with        *)
(* prep_nl_sock, runs flush_module or run_test through the *_ack wrappers  *)
(* of SengClient, and frees the socket with cleanup_nl_sock.               *)
(*                                                                         *)
(* nlsock is a global pointer, NULL at start.  prep_nl_sock leaves it NULL *)
(* when nl_socket_alloc fails, and freed but not reset when a later step   *)
(* fails (genl_connect, resolving the family, which fails when xt_seng is  *)
(* not loaded, or joining the group).  main ignores prep_nl_sock's result. *)
(***************************************************************************)
EXTENDS SengClient

CONSTANTS
    ModuleLoaded,   \* is xt_seng loaded (its genl family registered)?
    PrepMayFail,    \* may nl_socket_alloc, genl_connect or the group join fail?
    Argv,           \* the option sets getopt_long may return ("t", "f", "h")
    Ip8888, Ip19216814, Ip127001,              \* run_test's enclave IPs (u32)
    AppHashA, AppHashB, CategoryA, CategoryB   \* run_test's hashes and names

VARIABLES
    dpc,        \* main: "main", "prep", "run", "cleanup", "exited", "crashed"
    opts,       \* the options getopt_long returned
    sock,       \* nlsock: "null", "open" or "freed"
    ufault,     \* "none", or the first misuse of nlsock
    k,          \* the next call of the script
    allOk,      \* has every wrapper of the script returned success?
    exitCode    \* main's return value

demoVars == <<dpc, opts, sock, ufault, k, allOk, exitCode>>
sysVars == <<allVars, demoVars>>

Call(fn, e, a, h, c) == [fn |-> fn, enc |-> e, app |-> a, host |-> h, cat |-> c]

(* run_test: the seven wrapper calls, return values ignored.  The host is  *)
(* 134744072 (8.8.8.8) throughout; Ip8888 is the same number.              *)
run_test ==
    << Call("add_enclave", Ip8888, AppHashA, Ip8888, CategoryA),
       Call("add_enclave", Ip19216814, AppHashA, Ip8888, CategoryA),
       Call("add_enclave", Ip127001, AppHashB, Ip8888, CategoryA),
       Call("cat_to_app", 0, AppHashA, 0, CategoryB),
       Call("remove_cat_from_app", 0, AppHashB, 0, CategoryA),
       Call("remove_enclave", Ip127001, AppHashA, 0, NULL),
       Call("remove_enclave", Ip19216814, AppHashA, 0, NULL) >>

(* flush_module: send_signal_ack(XT_SENG_ATTR_FLUSH).                        *)
flush_script == << Call("flush_module", 0, AppHashA, 0, NULL) >>

Script == IF "f" \in opts THEN flush_script ELSE run_test

(* What prep_nl_sock leaves in nlsock.                                      *)
PrepOutcomes ==
    (IF ModuleLoaded THEN {"open"} ELSE {"freed"})
    \cup (IF PrepMayFail THEN {"null", "freed"} ELSE {})

DemoInit ==
    /\ ClientInit
    /\ dpc = "main" /\ opts \in Argv /\ sock = "null" /\ ufault = "none"
    /\ k = 1 /\ allOk = TRUE /\ exitCode = 0

(* main after getopt: help wins, then flush, then test; otherwise a hint.  *)
main ==
    /\ dpc = "main"
    /\ IF "h" \in opts \/ opts \cap {"f", "t"} = {}
       THEN dpc' = "exited" /\ exitCode' = 0
       ELSE dpc' = "prep" /\ UNCHANGED exitCode
    /\ UNCHANGED <<allVars, opts, sock, ufault, k, allOk>>

prep_nl_sock ==
    /\ dpc = "prep"
    /\ sock' \in PrepOutcomes
    /\ dpc' = "run"
    /\ UNCHANGED <<allVars, opts, ufault, k, allOk, exitCode>>

(* The script makes its next call once the previous one has returned.      *)
NextCall ==
    /\ dpc = "run" /\ k <= Len(Script)
    /\ Begin /\ call' = Script[k]
    /\ k' = k + 1
    /\ UNCHANGED <<dpc, opts, sock, ufault, allOk, exitCode>>

ScriptDone ==
    /\ dpc = "run" /\ cpc = "idle" /\ k > Len(Script)
    /\ dpc' = "cleanup"
    /\ UNCHANGED <<allVars, opts, sock, ufault, k, allOk, exitCode>>

(* A builder's attempt on an open socket.                                  *)
DemoAttempt ==
    /\ sock = "open"
    /\ AttemptLocalFail \/ AttemptDelivered
    /\ UNCHANGED demoVars

(* On a freed socket genl_ctrl_resolve reads freed memory: the outcome is  *)
(* undefined, and the attempt is taken to fail before sending.             *)
AttemptFreedSocket ==
    /\ sock = "freed"
    /\ AttemptLocalFail
    /\ ufault' = IF ufault = "none" THEN "use_after_free" ELSE ufault
    /\ UNCHANGED <<dpc, opts, sock, k, allOk, exitCode>>

(* On a NULL socket libnl dereferences NULL: the process is killed.        *)
AttemptNullSocket ==
    /\ sock = "null" /\ Alive /\ cpc = "calling" /\ ~Exhausted
    /\ dpc = "run" /\ dpc' = "crashed"
    /\ ufault' = IF ufault = "none" THEN "null_deref" ELSE ufault
    /\ UNCHANGED <<allVars, opts, sock, k, allOk, exitCode>>

DemoGiveUp ==
    /\ GiveUp
    /\ allOk' = FALSE
    /\ UNCHANGED <<dpc, opts, sock, ufault, k, exitCode>>

(* cleanup_nl_sock: return if nlsock is NULL, else nl_socket_free; a freed *)
(* nlsock is freed again (glibc may abort).  main returns flush_module's   *)
(* result for -f and 0 for -t.                                             *)
cleanup_nl_sock ==
    /\ dpc = "cleanup"
    /\ sock' = IF sock = "open" THEN "freed" ELSE sock
    /\ ufault' = IF sock = "freed" /\ ufault = "none" THEN "double_free" ELSE ufault
    /\ \/ dpc' = "exited"
       \/ sock = "freed" /\ dpc' = "crashed"
    /\ exitCode' = IF "f" \in opts /\ result # "ok" THEN 1 ELSE 0
    /\ UNCHANGED <<allVars, opts, k, allOk>>

DemoSteps ==
    \/ main \/ prep_nl_sock \/ NextCall \/ ScriptDone \/ cleanup_nl_sock
    \/ DemoAttempt \/ AttemptFreedSocket \/ AttemptNullSocket \/ DemoGiveUp

DemoNext == DemoSteps

(* seng_app is one thread that never waits but on nl_send_sync, which      *)
(* returns: every step it can take, it takes.                              *)
DemoSpec == DemoInit /\ [][DemoNext]_sysVars /\ WF_sysVars(DemoSteps)

(***************************************************************************)
(* Properties.                                                             *)
(***************************************************************************)
(* seng_app uses and frees nlsock only while it is an open socket: no      *)
(* netlink call on a NULL or freed socket, no second nl_socket_free.       *)
SocketUsedOnlyWhileOpen == ufault = "none"

(* The store spec.md 4.1 gives after run_test's seven operations: the      *)
(* enclave 8.8.8.8 of app a, whose tags are category_a and category_b.     *)
TestEnd ==
    /\ MappedEncApp = [ip \in Ip |-> IF ip = Ip8888 THEN AppHashA ELSE NULL]
    /\ MappedEncHost = [ip \in Ip |-> IF ip = Ip8888 THEN Ip8888 ELSE NULL]
    /\ MappedCats = [h \in Hash |-> IF h = AppHashA THEN {CategoryA, CategoryB} ELSE {}]

(* When seng_app -t exits after every wrapper of run_test reported         *)
(* success, the module holds what the test's operations define, however    *)
(* many of the messages were delivered twice after a lost ack.            *)
TestOutcome ==
    dpc = "exited" /\ "t" \in opts /\ opts \cap {"f", "h"} = {} /\ allOk
        => TestEnd

(* seng_app always ends: it exits or is killed, whatever the socket and    *)
(* the channel do.                                                         *)
DemoEnds == <>(dpc \in {"exited", "crashed"})

=============================================================================
