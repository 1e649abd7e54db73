\* Two servers, three refreshes, both caps exceeded by what is listed, either drift
\* setting.
CONSTANTS
    Servers <- MCServers
    Names <- MCNames
    UsableNames <- MCUsableNames
    Allowed <- MCAllowed
    Digests <- MCDigests
    Oversized <- MCOversized
    Listings <- MCListings
    MaxToolsPerServer = 2
    MaxTools = 3
    Refreshes = 3
SPECIFICATION Spec
CHECK_DEADLOCK FALSE
INVARIANTS
    TypeOK
    AdvertisedIsAccepted
    IndexIsSound
    EarlierServersWin
PROPERTIES
    FirstDigestStands
    RefreshEnds
