\* A model is left unasked when two calls move the default model in turn.
CONSTANTS
    Calls = {c1, c2}
    Total = 2
    Name <- MCTwo
    Names <- MCTwoNames
    NoName = NoName
    Retries = 2
SPECIFICATION Spec
INVARIANT
    ExhaustedMeansAll
