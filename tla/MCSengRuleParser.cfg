\* Every iptables command of up to two seng options; a command ends when
\* the rule is built or xtables_error exits.
CONSTANTS
    NameChars = 2
    CatText <- MCCatText
    AppText <- MCAppText
    HostArg <- MCHostArg
    MaxOptions = 2
SPECIFICATION ParserSpec
CHECK_DEADLOCK FALSE
INVARIANT ParseAgreesWithSpec
