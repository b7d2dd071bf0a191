--------------------------- MODULE MCRequestBoundary --------------------------
EXTENDS RequestBoundary, TLC

(* de < en < kk-KZ < ru *)
MCLanguage == <<None, "en", "kk", "ru">>

MCHeaders == {{}, {<<2, 3>>, <<1, 4>>}, {<<2, 1>>, <<0, 2>>, <<1, 3>>, <<1, 4>>}}

MCTranslated == {"field_required", "invalid_value", "validation_failed",
    "otp_sent_to_email", "missing_authorization", "too_many_attempts", "dependency_unavailable",
    "service_unavailable_try_later", "token_expired", "forbidden", "otp_recipient_rejected"}

Symmetry == Permutations(Requests)
===============================================================================
