\* Every rule iptables accepts, saved and read back by iptables-restore.
CONSTANTS
    NameChars = 2
    CatText <- MCCatText
    AppText <- MCAppText
    HostArg <- MCHostArg
    MaxOptions = 2
SPECIFICATION ParserSpec
CHECK_DEADLOCK FALSE
INVARIANT SaveRestores
