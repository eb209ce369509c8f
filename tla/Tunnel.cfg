SPECIFICATION FairSpec
CONSTANTS
    Unset = Unset
    BlankLists = {blank}
    OwnDomains = {own}
    ThirdPartyDomains = {third}
    IpLists = {ips, blank}
    ExitSnis = {sni1}
    Edited = {"TLS_DOMAIN", "MANAGEMENT_IPS"}
    MaxMinted = 7
    MaxTroubles = 2
    MaxEdits = 2
    EntryDefaultSni = sni1
    AcceptsDefaults = FALSE
    MaxEntryTroubles = 1
INVARIANTS TypeOK TunnelMatches EnteredStaysValid DeployedIsSaved
PROPERTIES SecretsNeverChange RepeatIsIdle EventuallyDeployed
