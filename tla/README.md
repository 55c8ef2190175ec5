# TLA+ models of seng-netfilter

This directory holds TLA+ models of the SENG netfilter extension. The extension is an iptables match (`-m seng`) that accepts or rejects packets by the identity of the enclave at each end. Each module is written from the C code under `src/`. `PROJECT.json` lists the components, the TLC runs, the mutants, the map from every definition to the lines it models, the findings, and the hazards.

## The system

| part | code | role |
|---|---|---|
| identity store | `src/seng-module/xt_seng_metadb.c` | Enclaves live in a 2^8-bucket hlist table (`enclaves`), keyed by `ip & 0xFF`. Apps live in a list (`apps`), shared by `reference_counter`. Each app has a list of category names. |
| control server | `src/seng-module/xt_seng_genl.c` | `seng_nl_recv_msg`, the generic-netlink handler. The attributes present pick the operation: add enclave (with an optional category), remove enclave, add or remove a category, flush. |
| decision engine | `src/seng-module/xt_seng.c` | `seng_mt` runs per packet in softirq context. It looks up the source and destination enclave, then runs six blocks that count the criteria `searched` and `found`; `searched == found` is a match. `seng_mt_check` rejects rules with no criterion. |
| client library | `src/user-library/seng_genl.c` | One message builder per operation, sent with `nl_send_sync`. Each has an `*_ack` wrapper that retries while the result is negative, 5 attempts in all. `remove_enclave_ack` then purges conntrack. |
| conntrack purge | `src/user-library/seng_conntrack.c` | Raises to root, dumps the conntrack table, and destroys the entries of an IP. |
| rule parser | `src/iptables-extension/libxt_seng.c` | Turns rule text into `struct seng_mt_info`. |
| demo | `src/demo-app/seng_app.c` | CLI: `-f` flushes, `-t` runs a fixed add/remove sequence. |

The parts interact as follows:
- The authority process calls the client library.
- The library sends genl messages.
- `seng_nl_recv_msg` runs them under `genl_mutex`, one at a time, and mutates the store.
- At the same time, `seng_mt` reads the store on every packet that reaches a seng rule.
- The only shared state is the store, and nothing synchronises its readers with its writer.

## Modules

| module | models | state | actions |
|---|---|---|---|
| `SengMetaDB` | the store's functions | `emem`/`amem` (enclave/app records by memory slot, `NULL` = free), `enclaves` (bucket -> slots, head first), `apps` (slots, head first), `fault` | none: each C function is an operator from a store value to `[db, ret]` |
| `SengGenl` | `seng_nl_recv_msg` | store + `reply` (branch, result) | `RecvAddEnclave`, `RecvEnclaveOp`, `RecvCategoryOp`, `RecvFlush`, `RecvUnmatched` |
| `SengMatch` | `seng_mt`, `seng_mt_check` | none | `seng_mt` folds `Block` over the six criteria; `SpecMatch` is the decision as spec.md 4.2 states it |
| `SengPacketPath` | `seng_mt` running concurrently with the server | store + `pc`, `pkt`, `ptr` (held pointers), `blk`, `cnt`, `seen` | `PacketArrives`, `LookupSrc`, `LookupDst`, `LoadApps`, `MatchBlock`, `PacketDone`, `HandlerStep` |
| `SengProtocol` | `seng_nl_recv_msg` with the message it handled | `SengGenl`'s state + `lastMsg` | `HandleMsg` (one handler run, recording `info->attrs`); `RequestOf` reads the request spec.md 4.3 defines in a message |
| `ControlProtocol` | what spec.md 4.3 and 4.4 promise of a request and its result, over `IdentityStore` | `IdentityStore`'s state + `answer` (last request, result) | `Succeed` (the request's operation done, result success), `Refuse` (nothing changes, failure), `AttachFails` (case 1's enclave kept, failure) |
| `IdentityStore` | what spec.md 3 and 4.1 promise of the store | `encApp`, `encHost` (per IP), `cats` (per hash, a set) | `AddEnclave` (with at most one tag), `RemoveEnclave`, `AddCategory`, `RemoveCategory`, `Flush` |
| `SengClient` | the builders and `*_ack` wrappers of `seng_genl.c`, driving `SengGenl` | store + `reply` + `cpc`, `call`, `i` (the wrapper's counter), `start` (store at the call), `result` | `Begin`, `AttemptLocalFail`, `AttemptDelivered` (handled, then acked or ack lost), `GiveUp` |
| `SengFlags` | `enum flags` of `xt_seng.h` | none | `Criteria`, `Inv`: shared by the kernel match and the iptables extension |
| `SengRuleParser` | `seng_mt4_parse`, `seng_mt_check` (final check) and `seng_mt4_save` of `libxt_seng.c` | `line` (options given), `st` (exited?, match data), `phase` | `ParseOption` (one `seng_mt4_parse` call), `FinalCheck`; `ParseLine` folds `seng_mt4_parse` over an option line and applies the final check; `seng_mt4_save` gives the words printed; `Restore` reads them back as `iptables-restore` does; `SpecRule` is the rule spec.md 6 defines |
| `SengConntrack` | `remove_enclave_ack` with `delete_conntrack_entries`, `_delete_conntrack_entries` and `cb`, composed with `SengClient`, `SengMatch` and the firewall's conntrack | client state + `ct` (confirmed entries), `unconfirmed` (accepted first packets), `ppc` (purge step), `todo` (entries the dump has yet to visit), `removed` | the client's steps (`CtBegin`, ...), `Elevate`, `OpenDump`, `Visit`, `DumpDone`, `Revert`, and the environment's `NewPacket`, `Confirm`, `Expire` |
| `SengModule` | `seng_mt_init`, `seng_mt_exit` (`xt_seng.c`) and the genl family and ops (`xt_seng_genl.c`) around `SengGenl` | store + `reply` + `loaded` (a module image is in the kernel), `xtReg` (the match is registered), `genlReg` (the family is registered) | `seng_mt_init`, `seng_mt_exit`, `DeliverToFamily` (a message runs `seng_nl_recv_msg`) |
| `SengDemo` | `main` and `run_test` of `seng_app.c`, `prep_nl_sock` and `cleanup_nl_sock` of `seng_genl.c`, on `SengClient` | client state + `dpc` (main's step), `opts`, `sock` (`nlsock`: `"null"`, `"open"`, `"freed"`), `ufault`, `k` (next call of the script), `allOk`, `exitCode` | `main`, `prep_nl_sock`, `NextCall`, `ScriptDone`, `DemoAttempt`, `AttemptFreedSocket`, `AttemptNullSocket`, `DemoGiveUp`, `cleanup_nl_sock` |
| `MC*` | TLC instances | | small sets of messages, rules and symmetry |

**Modelling choices.**
- **Buckets.** `hash_add` places key `ip & 0xFF` in bucket `hash_min(key, 8)`. The model takes the key as the bucket. Two different keys can share a bucket under `hash_32`; for the keys the runs use (1, 2, and 1 = 257 & 0xFF), equal keys share a bucket and different keys do not, under both golden-ratio constants the kernel has used.
- **Memory.** `kmalloc` returns any free slot (`Kmalloc`), or `NULL` when none is left or when `MayFail` is set. `kfree` sets the slot to `NULL`. A pointer kept across a `kfree` therefore points to a freed slot, and a later access through it records `fault = "use_after_free"`; a dereference of NULL records `"null_deref"`. Every action requires `fault = "none"`, because the kernel is then in undefined territory.
- **Category memory.** It is bounded by `MaxCats`, and `add_cat_to_app` fails when it is exhausted, as the code's `kmalloc` check does.
- **Strings.** Names are sequences of one-character strings. `StrnEq` is `strncmp(...) == 0`, and `Truncate` is the `strncpy` to `MAX_CAT_NAME_LENGTH - 1`.
- **Handlers.** One handler run is one step: generic netlink families without `parallel_ops` run under `genl_mutex`. Each handler action composes the store functions the branch calls, in the code's order.
- **Flush.** `del_all_enclaves` reads the next pointer of the node it has just freed (`hash_for_each` is not the `_safe` variant). `hlist_del_init` has set that pointer to NULL, and SLUB keeps its free pointer in the middle of the 64-byte object, away from `enclave_node.next`. So the outcome the build produces is "stop after the bucket's head".
- **Client.** The five wrappers share one loop (`if (i > 4)` give up; call the builder; `ret < 0` means `i += 1` and repeat), so one set of actions models them all, with `ToMsg` giving the attributes each builder puts. An attempt either fails before leaving the process (the builder's resolve, allocation or put failures), or is handled by `seng_nl_recv_msg` in one step and returns its result, or is handled and returns a receive error (the ack lost to a receive-buffer overrun).
- **Refinement.** `SengGenl` maps to `IdentityStore` through `MappedEncApp`, `MappedEncHost` and `MappedCats`: the enclave the table holds for each IP, and the category names of the listed apps of each hash. `RefinesIdentityStore` (`IS!Spec`) says that every handler run is one abstract step or a stutter. This mapping does not see the message, so an operation applied with the wrong argument can still look like a legal abstract step. `SengProtocol` closes that gap: it records the message of each handler run (`lastMsg`) and maps it, with the reply, to `ControlProtocol`'s `answer`: the request `RequestOf` reads in the message as spec.md 4.3 states the four cases, and whether the result was 0. `ControlProtocol` allows success only when that request's operation is the step taken, and failure only when nothing changed or, for case 1, the enclave stayed without its tag. Failure is always allowed, as kmalloc may fail. A message with both ADD and RMV beside APP and CAT is read as a removal: spec.md lists RMV first, and so does the code.
- **Rule parser.** iptables calls `seng_mt4_parse` once per option on zeroed match data (`seng_mt_init` is empty), and `xtables_error` exits, so the first error ends the parse. Argument texts are abstracted: a hash text is a model value with its `strlen`, a host is an address and mask that parse or do not. The userspace `seng_mt_check` is named `final_check` in the model, because `SengMatch` already has the kernel's `seng_mt_check`. `Strncpy` keeps `NameChars` characters, the literal 20 of the code. Save output is a sequence of words. `--dst-app` and its hex form one word, because the format string has no space. `iptables-restore` reads the words with the `seng_mt_opts` table: an optional `!`, then an option word and an argument word.
- **Conntrack purge.** The firewall admits the first packet of a flow when some rule matches it on the current store (`Accepts`). It then creates an unconfirmed entry, which is confirmed into the table when the packet leaves the hook chain. Later packets of a tracked flow pass through without the rules. The purge is a sequence of steps after the successful attempt of `remove_enclave_ack`: elevate (`change_privs`, one step that may fail), `nfct_open`, the dump, `cb` once per entry, the end of the dump, and the revert. The dump starts from the table's entries. An entry confirmed during the dump may or may not be visited, as the netlink dump walks buckets while entries are inserted.
- **Module lifecycle.** The enclave table and the apps list head are statics of the module image: a new image starts with them empty, and `kmalloc`'d records not freed by `seng_mt_exit` stay allocated after it. `xt_register_match` adds the match to a list under a mutex and returns 0, without checking the name, so `seng_mt_init` always succeeds. `genl_register_family` may fail (`GenlMayFail`), and its result is ignored: the module is then loaded with no control channel. iptables rules that use the match hold a reference on the module, so `rmmod` cannot run while they exist; the model has no packets here.
- **Demo.** `main` ignores `prep_nl_sock`'s result. `prep_nl_sock` is one step, because it runs before any call and talks only to the kernel's genl controller. It ends with `nlsock` open, NULL (`nl_socket_alloc` failed), or freed but not reset (`genl_connect`, the family lookup or the group join failed). The family lookup fails when `ModuleLoaded` is FALSE; the other failures happen only under `PrepMayFail`. On a freed socket, the outcome of `genl_ctrl_resolve` is undefined. The model takes it as a failure before sending, and records `ufault = "use_after_free"`. On a NULL socket, libnl dereferences NULL and the process dies. `cleanup_nl_sock` frees a freed socket again, and glibc may abort. run_test's addresses are u32 values larger than TLC's 32-bit signed integers, so the cfg represents each by its low byte (8, 44, 1). That is its bucket, and the three stay distinct. The hashes are model values, and the category names are one character long, below `MAX_CAT_NAME_LENGTH`.
- **Packet path.** `SengPacketPath` splits `seng_mt` at every read of shared memory: the two lookups, the load of `e->a`, and one step per named criterion. The blocks of criteria a rule does not name only test the rule's flags, so they are skipped in the same step. Each handler run still happens between two of these steps.

## Runs

| run | cfg | expect | what it shows |
|---|---|---|---|
| `genl_store` | `MCSengGenl.cfg` | pass | Any sequence of control messages keeps `RefcountExact`, `OneAppPerHash`, `NoDanglingApp`, `NoLeak`, `CatsUnique`, `NoMemoryFault` and `TypeOK`. A FLUSH empties the store, and a failed request changes nothing except the documented case-1 enclave. The handler refines `IdentityStore` (`RefinesIdentityStore`). On every store reached, `seng_mt` equals `SpecMatch` (`MatchAgreesWithSpec`). This covers every rule with one or two criteria, with all inversion choices, both hashes, a stored and an unstored category name, and a host that equals the enclave host under the mask (3) or does not (1). It covers every packet between the two enclave IPs and an unknown one (9). Bounds: 2 IPs in distinct buckets, 2 hashes, one host IP (7), 2 enclave and 2 app slots, category names of 1 and 2 characters with MAX = 3, and room for 2 categories, so the category-OOM path is reached. |
| `genl_flush` | `MCSengGenl_flush.cfg` | violation | IPs 1 and 257 share bucket 1. FLUSH frees e1 only; e2 survives, pointing to a freed app. |
| `protocol` | `MCSengProtocol.cfg` | violation | `genl_store`'s bounds, each answer checked against the request its message carries (`RefinesControlProtocol`). A message with no attribute is answered 0, where spec.md 4.3 says a message matching no case is an error. The same property fails on its own for each of two further cases. One is FLUSH with another attribute, which flushes and answers 0 where spec.md 4.3 says FLUSH "alone". The other is ENC+RMV for an IP with no enclave, answered 0 where spec.md 4.4 says "not found". To see each, restrict `Msg` in the cfg to that class of message. With all three classes left out, the property holds: 7,333 states, about ten minutes. |
| `parse` | `MCSengRuleParser.cfg` | pass | Every iptables command of up to two options is checked. The options cover all six kinds, plain or inverted, with names of 1 to 3 characters (2 kept, standing for the code's 20), hash texts of 63 and 64 characters, and hosts that parse or do not. Each command is parsed option by option and then final-checked. Within spec.md 6's domain (names no longer than kept), it ends with `SpecRule`'s rule, or exits where `SpecRule` rejects the line (`ParseAgreesWithSpec`). |
| `save_restore` | `MCSengRuleParser_save.cfg` | violation | A rule with `--dst-app` is saved as `--dst-app<hex>`, one word that `iptables-restore` refuses. With the space added to the model, `SaveRestores` holds for every accepted line. |
| `purge_race` | `MCSengConntrack.cfg` | violation | Two enclaves of app h1 and a rule `--src-app h1`. A packet from IP 1 is accepted, and then `remove_enclave(1)` is handled. The purge's dump runs before the packet's entry is confirmed, and `remove_enclave_ack` returns with a flow of IP 1 that the rules now refuse. Privilege changes and `nfct_open` do not fail in this run. With no packet in flight during a call, the property holds; with either failure enabled, it is violated without a race. |
| `path_aba` | `MCSengPacketPath_aba.cfg` | violation | The server adds and removes enclaves. `seng_mt` looks up IP 1's enclave, and then `remove_enclave(1)` frees its slot. `add_enclave(2)` is given the same slot, and `seng_mt` reads `e->a` from it. The packet is decided with IP 2's app, which is a verdict of no store during the evaluation (`VerdictLinearizable`). |
| `path_uaf` | `MCSengPacketPath_uaf.cfg` | violation | A remove between the lookup and `src_enc->a` makes the packet path read freed memory. |
| `client_retry` | `MCSengClient.cfg` | pass | The calls the demo makes (every function with a `cat_name`, both IPs and hashes) over a channel that fails, delivers or loses acks. The store ends as if the message were handled at most once (`AtMostOnceEffect`, compared on a slot-free view of the store). Under weak fairness of the wrapper's steps every call returns (`CallReturns`). |
| `demo` | `MCSengDemo.cfg` | pass | `seng_app` with every set of options. xt_seng is loaded, socket setup may fail, and the channel fails, delivers or loses acks. When `-t` exits after every wrapper of `run_test` returned success, the module holds what spec.md 4.1 gives for the seven operations (`TestOutcome`). That store is the enclave 8.8.8.8 of `app_hash_a`, with category_a and category_b, even when an add was delivered twice. Under weak fairness of the process's steps, `seng_app` always exits or is killed (`DemoEnds`). |
| `demo_nomodule` | `MCSengDemo_nomodule.cfg` | violation | `seng_app -t` with xt_seng not loaded. `prep_nl_sock` fails to resolve the family and frees the socket. `main` goes on, and the first wrapper calls `genl_ctrl_resolve` on the freed socket (`SocketUsedOnlyWhileOpen`). `cleanup_nl_sock` would later free it again. |
| `module_init` | `MCSengModule.cfg` | violation | `insmod`, then two enclaves whose IPs (1 and 257) share bucket 1, then `rmmod`. `seng_mt_exit`'s `del_all_enclaves` frees only the bucket's head, so the second enclave record stays allocated after the module is gone (`NothingOutlivesModule`). |

Why the bounds are enough:
- Two enclaves and two apps suffice for sharing, freeing with the last user, and reuse of a freed slot.
- Two buckets, or one shared bucket, cover both sides of the flush bug.
- Names shorter than MAX exercise every path of `add_cat_to_app`. A name of MAX characters exercises the truncation (the retired `genl_longcat` run below).
- The packet-path runs use only the source criteria on a packet from IP 1. They restrict the server to one message per branch of `seng_nl_recv_msg`, because within a branch the other attributes are not read.

Deadlock is not checked in the `parse`, `save_restore`, `demo`, `demo_nomodule`, `path_uaf` and `path_aba` runs. An iptables command ends once its rule is built or it has exited, and `seng_app` ends when it exits or is killed. The packet path stops once it has read freed memory.

Fairness: `client_retry` assumes weak fairness of the wrapper's steps (`WrapperSteps`). `demo` assumes weak fairness of all of `seng_app`'s steps, because the process is one thread that waits only in `nl_send_sync`, and `run_test` makes each call as soon as the last one returns. The authority process runs a wrapper to its return, and the wrapper waits only in `nl_send_sync`, which returns on an ack or a receive error. Starting a call is the caller's choice and is not fair. Every handler runs to completion without waiting, so the server needs no fairness. `AtMostOnceEffect` holds with IPs in distinct buckets; with colliding IPs a repeated FLUSH frees more than one FLUSH does (the `genl_flush` bug).

## Not modelled

- **iptables extension, in part.** The hex conversion of hash texts is not modelled: it reads `tmp[2]` without a terminator and accepts non-hex digits as 0. `seng_mt4_print` and `seng_mt_help` only print. The rules of `genl_store`'s decision check are still the constant `Rule`, rather than the parser's output.
- **Demo CLI, in part.** `print_help` and the checkpoints only print.
- **Conntrack purge, in detail.** The purge is modelled, but each of `seteuid`/`setegid` in `change_privs` is not a step of its own, and conntrack timeouts are one `Expire` step.
- **Module lifecycle against packets.** `SengModule` has no packets, because a rule that uses the match pins the module. `seng_mt_destroy` only prints.
- **`send_mc_signal`.** It has no caller.
- **Over-reads of short APP/CAT attributes.** There is no policy, but payloads are model values.
- **Memory ordering of `hash_add` against the record initialisation** on weakly ordered CPUs.

## Divergences found and not given a run

- `add_enclave` does not check `kmalloc` and writes `e->enclave_ip` through NULL. It also stores `add_app`'s NULL in `e->a`, which `del_app` and `add_cat_to_app` dereference later. spec.md 8 says allocation failure never crashes. In `SengMetaDB` it shows with `MayFail = TRUE` as `fault = "null_deref"`, violating `NoMemoryFault`.
- A message the server rejects is sent again by the `*_ack` wrapper, because `nl_send_sync` returns the kernel's `-EINVAL`. spec.md 4.4 says rejections are not seen by the client.
- `seng_netfilter_api.h` documents the wrappers as sending "up to 4 times", but the loop makes 5 attempts, as spec.md 4.4 says.

- `client_resolve` (retired run): `send_signal` returns `EXIT_FAILURE` (1) when `genl_ctrl_resolve` fails (`seng_genl.c:406`); the other builders return -1. `send_signal_ack` retries only on negative results, so `flush_module` prints "module flushed successfully" and `seng_app -f` exits 0 with no message sent.
- `genl_longcat` (retired run): a category name of `MAX_CAT_NAME_LENGTH` characters is stored truncated by `strncpy` (`xt_seng_metadb.c:241`). The duplicate test compares the full length, so a long name is never found again: each add stores another copy, and it cannot be removed. This is `CatsUnique` with names of 2 and 3 characters and MAX = 3. `genl_store` checks `CatsUnique` on shorter names.
- `path_grow` (retired run) checked `VerdictLinearizable` with a server that only adds and rules of one criterion. Each verdict then rests on one read of a growing store, so the property held by construction; `path_aba` checks it where it can fail.
- `RetryExhaustion` (retired property) restated the loop test `i > 4` and the increment of the `*_ack` wrappers.

## Plan

1. Feed the parser's output to the decision check, so that parsing and matching are checked as one pipeline.
2. `send_mc_signal` and the multicast group, if a caller appears.
3. A run of `SengProtocol` with `MayFail = TRUE`, once `add_enclave` checks `kmalloc`.
