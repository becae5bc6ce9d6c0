CONSTANTS
    Handlers = {h1, h2}
    Keys = {k1, k2}
    Requests = {q1, q2}
    Scopes = {all, dev}
    Unrestricted = all
    Results = {r1, r2}
    None = None
SPECIFICATION FairSpec
INVARIANTS TypeOK AtMostOneDispatch WriteAhead AnswersAreGenuine
    ClaimsAreExclusive
PROPERTIES TombstonesPersist GrantGuardsAnswers ImplementsPromise EveryCommandEnds
