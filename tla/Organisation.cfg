\* One organisation and the global one, two edits of the lists, two adds,
\* restarts or failures of the brands, all words of up to four letters.
CONSTANTS
    Orgs = {A}
    Global = Global
    Kinds = {"allow", "block"}
    Values = {"host"}
    Forms <- MCForms
    Analyses = {a1}
    Editors = {e1}
    MaxEdits = 2
    MaxListTrouble = 1
    NoOrg = NoOrg
    Tenants = {A}
    Adders = {r1, r2}
    MaxBrandSteps = 2
    Hosts <- MCHosts
    Sld <- MCSld
    StopLabels = {}
    HashDistance <- MCHashDistance
    ColourDistance <- MCColourDistance
    BuiltIn <- MCBuiltIn
    Offers <- MCOffers
    Mails <- MCMails
    Words <- MCWords
SPECIFICATION Spec
INVARIANTS
    ListsAreRight
    MatcherFollowsTable
    OfficialMeansOwner
    DistanceIsShortest
PROPERTIES
    ListsConverge
\* Edits end at their bounds.
CHECK_DEADLOCK FALSE
