--------------------------- MODULE SengRuleParser ---------------------------
(***************************************************************************)
(* The iptables extension (src/iptables-extension/libxt_seng.c): the       *)
(* option parser that builds struct seng_mt_info from "-m seng" options,   *)
(* the final check, and the save function that prints a rule back as       *)
(* options for iptables-restore.                                           *)
(*                                                                         *)
(* iptables calls seng_mt4_parse once per option getopt returns, on match  *)
(* data it has zeroed, and seng_mt_check on the flags once the options    *)
(* are read; xtables_error prints and exits, so the first error ends the  *)
(* command.  iptables-restore parses a saved line the same way: a left     *)
(* fold of the parse step over the options.                                *)
(***************************************************************************)
EXTENDS SengFlags, Naturals, Sequences, SequencesExt, FiniteSets

CONSTANTS
    NameChars,  \* the 20 characters strncpy keeps of a category name
    AppText,    \* --src-app/--dst-app arguments: [hash, len] (len = strlen)
    HostArg,    \* --src-host/--dst-host arguments: [addr, mask, parses]
    CatText,    \* --src-cat/--dst-cat arguments: character sequences
    MaxOptions  \* bound: options on one line

(* What a parse ends in when xtables_error exits.                          *)
ERROR == [exit |-> "PARAMETER_PROBLEM"]

(* The options of seng_mt_opts and the criterion each sets.                *)
Opt == {"src-cat", "src-app", "src-host", "dst-cat", "dst-app", "dst-host"}
CritOf(o) ==
    CASE o = "src-app" -> "APP_SRC" [] o = "dst-app" -> "APP_DST"
      [] o = "src-cat" -> "CAT_SRC" [] o = "dst-cat" -> "CAT_DST"
      [] o = "src-host" -> "HOST_SRC" [] o = "dst-host" -> "HOST_DST"
ArgOf(o) ==
    CASE o \in {"src-cat", "dst-cat"} -> CatText
      [] o \in {"src-app", "dst-app"} -> AppText
      [] OTHER                        -> HostArg

(* One "[!] --option arg" on the command line.                             *)
Option == UNION {[opt : {o}, invert : BOOLEAN, arg : ArgOf(o)] : o \in Opt}

(* The match data as iptables hands it to the extension: all zero, and    *)
(* seng_mt_init leaves it so.                                              *)
ZeroInfo ==
    [flags |-> {}, app_hash_src |-> 0, app_hash_dst |-> 0,
     category_name_src |-> <<>>, category_name_dst |-> <<>>,
     host_src |-> 0, src_subnet |-> 0, host_dst |-> 0, dst_subnet |-> 0]

(* strncpy(name, optarg, 20); name[20] = 0                                  *)
Strncpy(t) == SubSeq(t, 1, IF Len(t) < NameChars THEN Len(t) ELSE NameChars)

(* The fields an option writes.                                            *)
(* --src-cat/--dst-cat: the name as Strncpy keeps it.                     *)
(* --src-app/--dst-app: strlen(optarg) != 64 is an error; the 64 hex       *)
(* characters are converted two at a time into the 32-byte hash.           *)
(* --src-host/--dst-host: xtables_ipparse_any gives address and mask.      *)
SetFields(info, o, arg) ==
    CASE o = "src-cat"  -> [info EXCEPT !.category_name_src = Strncpy(arg)]
      [] o = "dst-cat"  -> [info EXCEPT !.category_name_dst = Strncpy(arg)]
      [] o = "src-app"  -> [info EXCEPT !.app_hash_src = arg.hash]
      [] o = "dst-app"  -> [info EXCEPT !.app_hash_dst = arg.hash]
      [] o = "src-host" -> [info EXCEPT !.host_src = arg.addr, !.src_subnet = arg.mask]
      [] o = "dst-host" -> [info EXCEPT !.host_dst = arg.addr, !.dst_subnet = arg.mask]

(* The argument errors: a hash text that is not 64 characters long, a     *)
(* host that does not parse.                                               *)
BadArg(o, arg) ==
    \/ o \in {"src-app", "dst-app"} /\ arg.len # 64
    \/ o \in {"src-host", "dst-host"} /\ ~arg.parses

(* The criterion tested before *flags is read: the repeat check.           *)
RepeatCheck_none(st, x) == FALSE

(* "Only use --option once!"                                                *)
RepeatCheck(st, x) == CritOf(x.opt) \in st.info.flags

(* seng_mt4_parse for one option: the repeat check, the argument check,    *)
(* then the criterion flag, its inverter, and the fields.                  *)
seng_mt4_parse(st, x) ==
    IF st.err THEN st
    ELSE IF RepeatCheck(st, x) \/ BadArg(x.opt, x.arg) THEN [st EXCEPT !.err = TRUE]
    ELSE LET c == CritOf(x.opt)
             fl == st.info.flags \cup {c} \cup (IF x.invert THEN {Inv(c)} ELSE {})
         IN  [st EXCEPT !.info = [SetFields(st.info, x.opt, x.arg) EXCEPT !.flags = fl]]

(* seng_mt_check (the final check): flags == 0 is an error, and so is a    *)
(* rule with no source and no destination criterion counted.              *)
final_check(flags) ==
    /\ flags # {}
    /\ \E c \in {Criteria[j] : j \in 1..6} : c \in flags

(* The rule iptables builds from an option line, or ERROR.              *)
ParseLine(line) ==
    LET st == FoldLeft(seng_mt4_parse, [err |-> FALSE, info |-> ZeroInfo], line)
    IN  IF st.err \/ ~final_check(st.info.flags) THEN ERROR ELSE st.info

(***************************************************************************)
(* seng_mt4_save: the words it prints for a rule, in its order (CAT_SRC,   *)
(* APP_SRC, HOST_SRC, CAT_DST, APP_DST, HOST_DST).  Each named criterion   *)
(* prints "! " if inverted, then " --option argument".  For --dst-app the  *)
(* format is " --dst-app" followed directly by the hex digits, so option   *)
(* and argument are one word.                                              *)
(***************************************************************************)
SaveOrder == <<"src-cat", "src-app", "src-host", "dst-cat", "dst-app", "dst-host">>

SavedArg(info, o) ==
    CASE o = "src-cat"  -> info.category_name_src
      [] o = "dst-cat"  -> info.category_name_dst
      [] o = "src-app"  -> [hash |-> info.app_hash_src, len |-> 64]
      [] o = "dst-app"  -> [hash |-> info.app_hash_dst, len |-> 64]
      [] o = "src-host" -> [addr |-> info.host_src, mask |-> info.src_subnet, parses |-> TRUE]
      [] o = "dst-host" -> [addr |-> info.host_dst, mask |-> info.dst_subnet, parses |-> TRUE]

(* The words of one option: "!" if inverted, the option word, the argument *)
(* word; or the option glued to its argument.                              *)
SavedWords(info, o) ==
    LET c == CritOf(o)
        neg == IF Inv(c) \in info.flags THEN <<[word |-> "!"]>> ELSE <<>>
    IN  IF c \notin info.flags THEN <<>>
        ELSE IF o = "dst-app"
        THEN neg \o <<[word |-> "glued", opt |-> o, arg |-> SavedArg(info, o)]>>
        ELSE neg \o <<[word |-> "opt", opt |-> o], [word |-> "arg", arg |-> SavedArg(info, o)]>>

seng_mt4_save(info) == FoldLeft(LAMBDA ws, o : ws \o SavedWords(info, o), <<>>, SaveOrder)

(***************************************************************************)
(* iptables-restore reading the words back with getopt_long: "!" inverts   *)
(* the next option, "--option" takes the next word as its argument; a     *)
(* word "--dst-appHEX" names no option ("unrecognized option").            *)
(***************************************************************************)
RECURSIVE ReadOptions(_)
ReadOptions(ws) ==
    IF ws = <<>> THEN [ok |-> TRUE, line |-> <<>>]
    ELSE LET inv == ws[1].word = "!"
             rest == IF inv THEN Tail(ws) ELSE ws
             more == ReadOptions(Tail(Tail(rest)))
         IN  IF Len(rest) < 2 \/ rest[1].word # "opt" \/ rest[2].word # "arg"
             THEN [ok |-> FALSE, line |-> <<>>]
             ELSE [more EXCEPT !.line =
                       <<[opt |-> rest[1].opt, invert |-> inv, arg |-> rest[2].arg]>> \o @]

Restore(ws) == LET r == ReadOptions(ws) IN IF r.ok THEN ParseLine(r.line) ELSE ERROR

(***************************************************************************)
(* The rule spec.md 6 defines for an option line: each of the six options *)
(* at most once and at least one, app hashes of 64 characters and hosts   *)
(* that parse, or the line is rejected; otherwise each option's criterion *)
(* is set, negated if "!" precedes it, with its argument in the rule.     *)
(* spec.md 6 speaks of names of at most 20 characters only.                *)
(***************************************************************************)
InSpecDomain(line) ==
    \A j \in DOMAIN line :
        line[j].opt \in {"src-cat", "dst-cat"} => Len(line[j].arg) <= NameChars

SpecRule(line) ==
    LET opts == {line[j].opt : j \in DOMAIN line}
        crit(j) == {CritOf(line[j].opt)} \cup
                   (IF line[j].invert THEN {Inv(CritOf(line[j].opt))} ELSE {})
        arg(o) == line[CHOOSE j \in DOMAIN line : line[j].opt = o].arg
        given(o, dflt) == IF o \in opts THEN arg(o) ELSE dflt
    IN  IF \/ line = <<>>
           \/ Cardinality(opts) < Len(line)
           \/ \E j \in DOMAIN line : BadArg(line[j].opt, line[j].arg)
        THEN ERROR
        ELSE [flags |-> UNION {crit(j) : j \in DOMAIN line},
              category_name_src |-> given("src-cat", <<>>),
              category_name_dst |-> given("dst-cat", <<>>),
              app_hash_src |-> given("src-app", [hash |-> 0]).hash,
              app_hash_dst |-> given("dst-app", [hash |-> 0]).hash,
              host_src   |-> given("src-host", [addr |-> 0]).addr,
              src_subnet |-> given("src-host", [mask |-> 0]).mask,
              host_dst   |-> given("dst-host", [addr |-> 0]).addr,
              dst_subnet |-> given("dst-host", [mask |-> 0]).mask]

(***************************************************************************)
(* One iptables command: the options given one by one, each parsed as it   *)
(* comes, then the final check.                                            *)
(***************************************************************************)
VARIABLES
    line,   \* the options given so far
    st,     \* [err, info]: whether xtables_error has exited, the match data
    phase   \* "parsing", "accepted" (rule built) or "exited"

parserVars == <<line, st, phase>>

ParserInit ==
    /\ line = <<>> /\ phase = "parsing"
    /\ st = [err |-> FALSE, info |-> ZeroInfo]

(* getopt returns the next option; seng_mt4_parse handles it.              *)
ParseOption(x) ==
    /\ phase = "parsing" /\ Len(line) < MaxOptions
    /\ line' = Append(line, x)
    /\ st' = seng_mt4_parse(st, x)
    /\ phase' = IF st'.err THEN "exited" ELSE phase

(* The options are read: the final check accepts or exits.                 *)
FinalCheck ==
    /\ phase = "parsing"
    /\ phase' = IF final_check(st.info.flags) THEN "accepted" ELSE "exited"
    /\ UNCHANGED <<line, st>>

ParserNext == FinalCheck \/ \E x \in Option : ParseOption(x)

ParserSpec == ParserInit /\ [][ParserNext]_parserVars

(* What the command has built: the rule, or ERROR.                         *)
Outcome == IF phase = "accepted" THEN st.info ELSE ERROR

(* For every option line spec.md 6 speaks of, the command ends with the    *)
(* rule spec.md 6 defines for it, or exits when the specification rejects *)
(* the line: in particular a repeated option, inverted or not, and a line  *)
(* with no option are refused.                                             *)
ParseAgreesWithSpec ==
    phase # "parsing" /\ InSpecDomain(line) => Outcome = SpecRule(line)

(* A rule iptables accepted is restored by iptables-restore from what      *)
(* seng_mt4_save prints for it ("saves the match in parsable form").       *)
SaveRestores ==
    phase = "accepted" => Restore(seng_mt4_save(st.info)) = st.info

=============================================================================
