\* Two calls; one call fails often enough to open the breaker, but not with one provider,
\* as with the threshold of 5 and the three attempts of the code.
CONSTANTS
    Call = {c1, c2}
    MenuKey = {k1}
    Threshold = 3
    Attempts = 2
    Recovery = 1
    None = none
SPECIFICATION FairSpec
INVARIANTS TypeOK ProvidersAreHeard
PROPERTIES RefusedWhenOpen EveryCallAnswers
