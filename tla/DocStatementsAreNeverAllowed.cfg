\* The instance of Admission.cfg with the database policies alone.
CONSTANTS
    Characters <- MCCharacters
    Dash = "-"
    Underscore = "_"
    Slash = "/"
    Scheme = "mcp-sentinel://"
    LowerOrDigit = {"a", "s"}
    Upper = {"A"}
    MaxServerId = 4
    MaxToolName = 4
    Octets <- MCOctets
    Spellings <- MCSpellings
    Encode <- MCEncode
    Decode <- MCDecode
    Visible <- MCVisible
    Blank = {" "}
    Prefix = "=?base64?"
    Suffix = "?="
    ByteOrderMark = "bom"
    Encodable <- MCEncodable
    Base64 <- MCBase64
    Unbase64 <- MCUnbase64
    Configs <- MCConfigs
    SentinelId <- MCSentinelId
    OwnToolNames <- MCOwnToolNames
    Group <- MCGroup
    Offers <- MCOffers
    AskedNames <- MCAskedNames
    AskedUris <- MCAskedUris
    Uris <- MCUris
    Urls <- MCUrls
    ScannedTexts <- MCTexts
    PolicyTexts <- MCDatabaseOnly
    Arguments <- MCArguments
    UriShape <- MCUriShape
    Depth = 2
    Root <- MCRoot
    DottedNames <- MCDottedNames
    SensitiveKeys = {"password"}
    LocalHosts = {"local"}
SPECIFICATION Spec
INVARIANT
    MultipleStatementsAreNotAllowed
