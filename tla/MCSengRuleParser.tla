-------------------------- MODULE MCSengRuleParser --------------------------
(* iptables commands of up to two seng options, each plain or inverted:   *)
(* category names of 1 to 3 characters with 2 kept (the code's 20, scaled *)
(* down), hash texts of 63 and 64 characters, and a host that parses       *)
(* (address 1, mask 3) and one that does not.                              *)
EXTENDS SengRuleParser, TLC

MCCatText == {<<"x">>, <<"x", "x">>, <<"x", "x", "x">>}
MCAppText == {[hash |-> h, len |-> n] : h \in {"h1", "h2"}, n \in {63, 64}}
MCHostArg == {[addr |-> 1, mask |-> 3, parses |-> TRUE],
              [addr |-> 0, mask |-> 0, parses |-> FALSE]}
=============================================================================
