SPECIFICATION KeyFlowsSpec
CONSTANTS
    Gated = FALSE
    Bagl = TRUE
    h1 = h1
    v1 = v1
    Headers = {h1}
    Paths <- TwoAccounts
    Vals = {v1}
    Purposes = {"identity creation", "account creation", "recovery", "discovery", "zk proof"}
    MaxChallenges = 2
INVARIANTS
    NoSecretLeftBehind
    ChallengeServesOneAttempt
    CertifiedReviewsAreFresh
    VerifiedAddressIsOfShownPath
PROPERTIES
    KeySentWasReviewed
    NewKeysWereConsented
