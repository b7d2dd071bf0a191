CONSTANTS
    None = None
    Requests = {r1, r2}
    Addresses = {a1}
    Endpoints = {"login", "users"}
    Limited = {"login"}
    Limit = 2
    Window = 2
    Codes = {"token_expired", "otp_recipient_rejected"}
    GivenIds = {x1}
    Headers <- MCHeaders
    Language <- MCLanguage
    Translated <- MCTranslated
SPECIFICATION Spec
INVARIANTS EveryAnswerTraced
SYMMETRY Symmetry
