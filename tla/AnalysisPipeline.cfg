\* Every message, every failure of a lookup and every deadline; every document.
CONSTANTS
    Catalog <- MCCatalog
    Weights <- MCWeights
    Thresholds <- MCThresholds
    Heuristics <- MCHeuristics
    Items <- MCItems
    Mails <- MCMails
    Opinions = {"phishing", "suspicious", "clean"}
    Documents <- MCDocuments
    Bodies <- MCBodies
    Plain <- MCPlain
    MaxDepth = 2
    MaxParts = 5
    MaxLinks = 2
    MaxArchiveNames = 2
    Unfollowed = {"mailto"}
SPECIFICATION RequestSpec
INVARIANTS
    
    ListingsDecide
    
    
PROPERTIES
    EvidenceNeverAcquits
    EveryRequestEnds
\* An analysis that is over does nothing more.
CHECK_DEADLOCK FALSE
