------------------------------ MODULE SengFlags ------------------------------
(***************************************************************************)
(* The criterion flags of a compiled rule (enum flags in                   *)
(* src/include/xt_seng.h), shared by the kernel match and the iptables     *)
(* extension.  A flag is named by its criterion; the inverter of c is      *)
(* Inv(c).                                                                 *)
(***************************************************************************)
EXTENDS Naturals, Sequences

(* The six criteria in the order seng_mt tests them, and their side.        *)
Criteria == <<"APP_SRC", "APP_DST", "CAT_SRC", "CAT_DST", "HOST_SRC", "HOST_DST">>
IsSrc(c) == c \in {"APP_SRC", "CAT_SRC", "HOST_SRC"}
Inv(c) == c \o "_INV"
Flag == {Criteria[i] : i \in 1..6} \cup {Inv(Criteria[i]) : i \in 1..6}

=============================================================================
