\* A remote domain that is found, lost and found again, while the local router
\* invokes procedures under its prefix.
SPECIFICATION BSpec
CONSTANTS
    Local = home
    Remotes = {far}
    MaxClients = 4
    MaxInvocations = 2
    home = home
    far = far
INVARIANTS BTypeOK MapAccurate KnownAreMapped ErasesItsOwn NoneStranded
PROPERTIES Reconnects DomainsServed
\* The program may end, or stay idle for ever.
CHECK_DEADLOCK FALSE
