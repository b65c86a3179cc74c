\* Two concurrent lookups of one key over two providers.
CONSTANTS
    Providers = {"urlhaus", "openphish"}
    Threshold = 2
    Cooldown = 2
    Callers = {c1, c2}
    Chain <- MCChain
    ListedTTL = 2
    NotListedTTL = 1
    MayList = {"openphish"}
    None = None
SPECIFICATION Spec
INVARIANTS
    AnswersWereGiven
    NoAnswerOutlivesItsTime
    DownProviderIsSpared
PROPERTIES
    OpenCircuitCloses
