SPECIFICATION ExitSpec
CONSTANTS
    Unset = Unset
    BlankLists = {blank}
    OwnDomains = {own}
    ThirdPartyDomains = {third}
    ExitSnis = {sni}
    IpLists = {ips}
    Edited = {"TLS_DOMAIN", "MANAGEMENT_IPS"}
    MaxMinted = 6
    MaxTroubles = 1
    MaxEdits = 0
INVARIANT RerunNeverDies
