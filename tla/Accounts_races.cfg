\* Two people, who may ask for one address; two messages of their session.
CONSTANTS
    Requests = {r1, r2}
    People = {alice, bob}
    Addresses = {a1, a2}
    UserIds = {u1, u2}
SPECIFICATION AccountsSpec
SYMMETRY Symmetry
\* Everybody may have registered in vain, or have nobody's token any more.
CHECK_DEADLOCK FALSE
INVARIANTS
    OneTitle
    AlwaysNamed
    TokensAreEarned
    SessionTokensAreOwned
    AccountOpens
