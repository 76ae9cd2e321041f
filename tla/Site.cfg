SPECIFICATION Spec
CONSTANTS
    site = site
    ap1 = ap1
    mac1 = mac1
    mac2 = mac2
    corp = corp
    None = None
    NoName = NoName
    Names = {site, ap1}
    MACs = {mac1, mac2}
    SSIDs = {corp}
    Imports <- Files
    MaxAPs = 2
    MaxClients = 2
INVARIANTS
    SiteHasDefault
    RestartKeepsContent
    AnswersAgree
PROPERTIES
    MoveKeepsClients
    RestartKeepsAnswers
