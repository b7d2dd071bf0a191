---------------------------- MODULE RequestBoundary ---------------------------
(***************************************************************************)
(* What every request passes on its way in and out: the middleware that    *)
(* gives it an id and a locale, the rate limiter of the two login          *)
(* endpoints, and the handlers that turn whatever is raised into the one   *)
(* public form of an error.  What use cases do is in the other modules;    *)
(* here they return or raise.  Error codes are named by their message keys *)
(* (code.lower()), and tags are numbered in the order of their text.       *)
(***************************************************************************)
EXTENDS Integers, FiniteSets, FiniteSetsExt

CONSTANTS
    Requests, Addresses,
    Endpoints, Limited,   \* those with a limiter's decorator
    Limit, Window,        \* so many requests of an address in so many ticks
    Codes,                \* codes of the application errors that use cases raise
    Headers,              \* Accept-Language: sets of <<weight, tag>>
    Language,             \* the supported language of a tag, None if it has none
    GivenIds,             \* x-request-id headers
    Translated,           \* keys of the translation files
    None

DefaultLocale == "en"
Locales == {"en", "kk", "ru"}

(* Either default stands for a task that no request has set up.            *)
NoContext == [id |-> None, locale |-> DefaultLocale]

(* Of the phrases the framework raises: its 400 for a body that cannot be  *)
(* parsed takes the way of these two.                                      *)
Phrases == {"Not Found", "Method Not Allowed"}

(* The keys that the program's own answers take, besides those of Codes.   *)
OwnKeys == {"missing_authorization", "field_required", "invalid_value", "validation_failed",
            "too_many_attempts", "dependency_unavailable", "service_unavailable_try_later",
            "otp_sent_to_email"}

(* One of the validation errors with a message of their own, and one without. *)
FieldErrorTypes == {"missing", "json_invalid"}

Raise(kind, code, fields) == [kind |-> kind, code |-> code, fields |-> fields]

Errors == {Raise("application", c, {}) : c \in Codes}
    \cup {Raise("http", d, {}) : d \in Phrases \cup {"missing_authorization"}}
    \cup {Raise("validation", None, f) : f \in (SUBSET FieldErrorTypes) \ {{}}}
    \cup {Raise(k, None, {}) : k \in {"rate", "dependency", "unexpected"}}

(* The translation files know every key that an answer takes.              *)
ASSUME BoundaryAssumption ==
    /\ Limited \subseteq Endpoints
    /\ Limit \in Nat \ {0} /\ Window \in Nat \ {0}
    /\ DOMAIN Language \subseteq Nat
    /\ \A t \in DOMAIN Language : Language[t] \in Locales \cup {None}
    /\ \A h \in Headers : IsFiniteSet(h) /\ h \subseteq Nat \X DOMAIN Language
    /\ Codes \cup OwnKeys \subseteq Translated
    /\ None \notin Locales /\ None \notin Errors

VARIABLES
    pc,        \* where each request stands
    asked,     \* what it asks: endpoint, address, id and languages
    context,   \* the context variables of its task
    raised,    \* the exception on its way out, or None
    answer,    \* the response on its way out, or None
    logged,    \* the status in its request_completed line, 0 before
    count, left,  \* the limiter's counters and the ticks until they expire
    admitted      \* (ghost) requests let through, each by its age and a number

limiter == <<count, left, admitted>>
vars == <<pc, asked, context, raised, answer, logged, limiter>>

Asked == [endpoint : Endpoints, address : Addresses, id : GivenIds \cup {None}, accepts : Headers]
Ids == GivenIds \cup Requests \cup {None}
Texts == (Locales \cup {None}) \X
         (Translated \cup Codes \cup Phrases)
Bodies == [code : 200..599, type : {"none", "snackbar", "inline", "alert"},
           message : Texts, field_errors : SUBSET Texts]
Answers == [status : 200..599, body : Bodies, id : Ids]
Ages == 0..(Window - 1)

TypeOK ==
    /\ pc \in [Requests -> {"idle", "received", "inside", "running", "leaving", "escaped", "answered"}]
    /\ asked \in [Requests -> Asked \cup {None}]
    /\ context \in [Requests -> [id : Ids, locale : Locales]]
    /\ raised \in [Requests -> Errors \cup {None}]
    /\ answer \in [Requests -> Answers \cup {None}]
    /\ logged \in [Requests -> 0..599]
    /\ count \in [Limited \X Addresses -> 0..(Limit + 1)]
    /\ left \in [Limited \X Addresses -> 0..Window]
    /\ admitted \in [Limited \X Addresses -> SUBSET (Ages \X Nat)]
    /\ \A r \in Requests : pc[r] \in {"idle", "received", "escaped", "answered"} => context[r] = NoContext

Init ==
    /\ pc = [r \in Requests |-> "idle"]
    /\ asked = [r \in Requests |-> None]
    /\ context = [r \in Requests |-> NoContext]
    /\ raised = [r \in Requests |-> None]
    /\ answer = [r \in Requests |-> None]
    /\ logged = [r \in Requests |-> 0]
    /\ count = [k \in Limited \X Addresses |-> 0]
    /\ left = [k \in Limited \X Addresses |-> 0]
    /\ admitted = [k \in Limited \X Addresses |-> {}]

-----------------------------------------------------------------------------
(* Localization *)

(* Slip: the last supported tag, whatever its weight. *)
NegotiateByTag(header) ==
    LET usable == {c \in header : c[1] > 0 /\ Language[c[2]] # None}
    IN IF usable = {} THEN DefaultLocale
       ELSE Language[(CHOOSE c \in usable : \A d \in usable : c[2] >= d[2])[2]]

(* Weight zero is a refusal; then the first choice that is supported, by   *)
(* weight and, among equal ones, backwards by tag.                         *)
Negotiate(header) ==
    LET usable == {c \in header : c[1] > 0 /\ Language[c[2]] # None}
    IN IF usable = {} THEN DefaultLocale
       ELSE Language[(CHOOSE c \in usable : \A d \in usable :
                         c[1] > d[1] \/ (c[1] = d[1] /\ c[2] >= d[2]))[2]]

(* A key without a translation stands as it is. *)
Translate(key, locale) == <<IF key \in Translated THEN locale ELSE None, key>>

-----------------------------------------------------------------------------
(* From exceptions to responses *)

StatusOf(code) ==
    CASE code \in {"invalid_refresh_token", "invalid_token", "session_already_revoked",
                   "session_revoked", "token_expired"} -> 401
      [] code = "forbidden" -> 403
      [] code \in {"session_not_found", "user_not_found", "user_preferences_not_found",
                   "user_profile_not_found"} -> 404
      [] code \in {"user_preferences_already_exists", "user_profile_already_exists"} -> 409
      [] code \in {"login_request_already_used", "otp_expired"} -> 410
      [] code \in {"invalid_sort_key", "otp_recipient_rejected"} -> 422
      [] code = "too_many_attempts" -> 429
      [] code \in {"dependency_unavailable", "invalid_dependency_state", "otp_delivery_failed"} -> 503
      [] OTHER -> 400

FieldMessage(type) == IF type = "missing" THEN "field_required" ELSE "invalid_value"

Respond(status, type, message, fields, locale) ==
    [status |-> status,
     body |-> [code |-> status, type |-> type, message |-> Translate(message, locale),
               field_errors |-> {Translate(f, locale) : f \in fields}],
     id |-> None]

(* The only application error with details of its own that replace any.    *)
ApplicationResponse(e, locale) ==
    IF e.code = "otp_recipient_rejected"
    THEN Respond(StatusOf(e.code), "inline", e.code, {"otp_recipient_rejected"}, locale)
    ELSE Respond(StatusOf(e.code), "snackbar", e.code, {}, locale)

(* The program's own HTTP error names a key; the framework's are phrases.  *)
OwnHttpResponse(e, locale) == Respond(401, "snackbar", e.code, {}, locale)

PhraseResponse(e, locale) ==
    Respond(IF e.code = "Not Found" THEN 404 ELSE 405, "snackbar", e.code, {}, locale)

HttpResponse(e, locale) ==
    IF e.code \in Phrases THEN PhraseResponse(e, locale) ELSE OwnHttpResponse(e, locale)

ValidationResponse(e, locale) ==
    Respond(422, "inline", "validation_failed", {FieldMessage(t) : t \in e.fields}, locale)

RateLimitResponse(locale) == Respond(429, "snackbar", "too_many_attempts", {}, locale)

DependencyResponse(locale) == Respond(503, "alert", "dependency_unavailable", {}, locale)

UnhandledResponse(locale) == Respond(500, "alert", "service_unavailable_try_later", {}, locale)

(* Inside the middleware there is a handler for each kind but one.         *)
Handled(e) == e.kind # "unexpected"

Response(e, locale) ==
    CASE e.kind = "application" -> ApplicationResponse(e, locale)
      [] e.kind = "rate" -> RateLimitResponse(locale)
      [] e.kind = "http" -> HttpResponse(e, locale)
      [] e.kind = "validation" -> ValidationResponse(e, locale)
      [] e.kind = "dependency" -> DependencyResponse(locale)

(* Of what endpoints return only the message in words matters here.        *)
Success(locale) == Respond(200, "none", "otp_sent_to_email", {}, locale)

-----------------------------------------------------------------------------
(* The way in *)

Receive(r) ==
    /\ pc[r] = "idle" /\ pc' = [pc EXCEPT ![r] = "received"]
    /\ \E a \in Asked : asked' = [asked EXCEPT ![r] = a]
    /\ UNCHANGED <<context, raised, answer, logged, limiter>>

(* An id that the client did not give is made up: r stands for it.         *)
EnterContext(r) ==
    /\ pc[r] = "received" /\ pc' = [pc EXCEPT ![r] = "inside"]
    /\ context' = [context EXCEPT ![r] =
          [id |-> IF asked[r].id # None THEN asked[r].id ELSE r,
           locale |-> Negotiate(asked[r].accepts)]]
    /\ UNCHANGED <<asked, raised, answer, logged, limiter>>

(* Routing, dependencies or the validation of the body refuse it: before   *)
(* the limiter, which counts none of these.                                *)
Refuse(r) ==
    /\ pc[r] = "inside" /\ pc' = [pc EXCEPT ![r] = "leaving"]
    /\ \E e \in {x \in Errors : x.kind # "rate"} : raised' = [raised EXCEPT ![r] = e]
    /\ UNCHANGED <<asked, context, answer, logged, limiter>>

(* Slip: every hit, a refused one too, puts the expiry off. *)
HitExtends(k) ==
    /\ count' = [count EXCEPT ![k] = IF left[k] = 0 THEN 1 ELSE Min({@ + 1, Limit + 1})]
    /\ left' = [left EXCEPT ![k] = Window]

(* Slip: the hit after a refused one starts over. *)
HitStartsOver(k) ==
    /\ count' = [count EXCEPT ![k] = IF left[k] = 0 \/ @ > Limit THEN 1 ELSE @ + 1]
    /\ left' = [left EXCEPT ![k] = IF @ = 0 THEN Window ELSE @]

(* A counter that expired begins anew; counts above the limit are alike.   *)
Hit(k) ==
    /\ count' = [count EXCEPT ![k] = IF left[k] = 0 THEN 1 ELSE Min({@ + 1, Limit + 1})]
    /\ left' = [left EXCEPT ![k] = IF @ = 0 THEN Window ELSE @]

JustNow(k) == {a \in admitted[k] : a[1] = 0}

Admit(r) ==
    /\ pc[r] = "inside"
    /\ LET k == <<asked[r].endpoint, asked[r].address>> IN
       IF asked[r].endpoint \notin Limited
       THEN pc' = [pc EXCEPT ![r] = "running"] /\ UNCHANGED <<raised, limiter>>
       ELSE /\ Hit(k)
            /\ IF count'[k] <= Limit
               THEN /\ pc' = [pc EXCEPT ![r] = "running"]
                    /\ admitted' = [admitted EXCEPT
                          ![k] = @ \cup {<<0, Cardinality(JustNow(k))>>}]
                    /\ UNCHANGED raised
               ELSE /\ pc' = [pc EXCEPT ![r] = "leaving"]
                    /\ raised' = [raised EXCEPT ![r] = Raise("rate", None, {})]
                    /\ UNCHANGED admitted
    /\ UNCHANGED <<asked, context, answer, logged>>

Run(r) ==
    /\ pc[r] = "running" /\ pc' = [pc EXCEPT ![r] = "leaving"]
    /\ \/ answer' = [answer EXCEPT ![r] = Success(context[r].locale)]
          /\ UNCHANGED raised
       \/ /\ \E e \in {x \in Errors : x.kind \in {"application", "dependency", "unexpected"}} :
                raised' = [raised EXCEPT ![r] = e]
          /\ UNCHANGED answer
    /\ UNCHANGED <<asked, context, logged, limiter>>

-----------------------------------------------------------------------------
(* The way out *)

Handle(r) ==
    /\ pc[r] = "leaving" /\ raised[r] # None /\ Handled(raised[r])
    /\ answer' = [answer EXCEPT ![r] = Response(raised[r], context[r].locale)]
    /\ raised' = [raised EXCEPT ![r] = None]
    /\ UNCHANGED <<pc, asked, context, logged, limiter>>

(* Slip: the header repeats what the client sent, if anything. *)
LeaveWithGivenId(r) ==
    /\ pc[r] = "leaving" /\ raised[r] = None
    /\ context' = [context EXCEPT ![r] = NoContext]
    /\ answer' = [answer EXCEPT ![r].id = asked[r].id]
    /\ logged' = [logged EXCEPT ![r] = answer[r].status]
    /\ pc' = [pc EXCEPT ![r] = "answered"]
    /\ UNCHANGED <<asked, raised, limiter>>

(* Slip: the context is not reset when an exception passes. *)
LeaveWithoutFinally(r) ==
    /\ pc[r] = "leaving"
    /\ IF raised[r] = None
       THEN /\ context' = [context EXCEPT ![r] = NoContext]
            /\ answer' = [answer EXCEPT ![r].id = context[r].id]
            /\ logged' = [logged EXCEPT ![r] = answer[r].status]
            /\ pc' = [pc EXCEPT ![r] = "answered"]
       ELSE /\ ~Handled(raised[r])
            /\ pc' = [pc EXCEPT ![r] = "escaped"]
            /\ UNCHANGED <<context, answer, logged>>
    /\ UNCHANGED <<asked, raised, limiter>>

(* The middleware's finally: one line in the log, and the context is gone. *)
LeaveContext(r) ==
    /\ pc[r] = "leaving"
    /\ context' = [context EXCEPT ![r] = NoContext]
    /\ \/ /\ raised[r] = None
          /\ answer' = [answer EXCEPT ![r].id = context[r].id]
          /\ logged' = [logged EXCEPT ![r] = answer[r].status]
          /\ pc' = [pc EXCEPT ![r] = "answered"]
       \/ /\ raised[r] # None /\ ~Handled(raised[r])
          /\ logged' = [logged EXCEPT ![r] = 500]
          /\ pc' = [pc EXCEPT ![r] = "escaped"]
          /\ UNCHANGED answer
    /\ UNCHANGED <<asked, raised, limiter>>

(* The server's outermost handler, which runs outside the middleware.      *)
HandleOutside(r) ==
    /\ pc[r] = "escaped" /\ pc' = [pc EXCEPT ![r] = "answered"]
    /\ answer' = [answer EXCEPT ![r] = UnhandledResponse(context[r].locale)]
    /\ UNCHANGED <<asked, context, raised, logged, limiter>>

Forget(r) ==
    /\ pc[r] = "answered" /\ pc' = [pc EXCEPT ![r] = "idle"]
    /\ asked' = [asked EXCEPT ![r] = None]
    /\ raised' = [raised EXCEPT ![r] = None]
    /\ answer' = [answer EXCEPT ![r] = None]
    /\ logged' = [logged EXCEPT ![r] = 0]
    /\ UNCHANGED <<context, limiter>>

Tick ==
    /\ left' = [k \in Limited \X Addresses |-> IF left[k] = 0 THEN 0 ELSE left[k] - 1]
    /\ admitted' = [k \in Limited \X Addresses |->
                       {<<a[1] + 1, a[2]>> : a \in {b \in admitted[k] : b[1] + 1 < Window}}]
    /\ UNCHANGED <<pc, asked, context, raised, answer, logged, count>>

Step(r) ==
    Receive(r) \/ EnterContext(r) \/ Refuse(r) \/ Admit(r) \/ Run(r) \/ Handle(r)
        \/ LeaveContext(r) \/ HandleOutside(r) \/ Forget(r)

Next == Tick \/ \E r \in Requests : Step(r)

Spec == Init /\ [][Next]_vars

-----------------------------------------------------------------------------
(* Properties *)

Own(r) == IF asked[r].id # None THEN asked[r].id ELSE r

IsTraced(r) == answer[r].id = Own(r) /\ logged[r] = answer[r].status

(* .codex/rules/logging.mdc asks for the request's id in the headers of    *)
(* every response and one line with its status.  The answers of the        *)
(* outermost handler have no id.                                           *)
EveryAnswerTraced == \A r \in Requests : pc[r] = "answered" => IsTraced(r)

(* Whatever the handlers inside the middleware answer, and whatever is     *)
(* returned, carries the id of its own request, given or made up, and is   *)
(* logged with the status that is sent; where nothing was handled inside,  *)
(* the line still has the status that the outermost handler sends.         *)
HandledAnswersTraced ==
    \A r \in Requests : pc[r] = "answered" =>
        IF raised[r] = None THEN IsTraced(r) ELSE logged[r] = answer[r].status

(* No supported language is wanted more; English where none is wanted.     *)
WantedMost(locale, header) ==
    LET Weights(l) == {c[1] : c \in {d \in header : Language[d[2]] = l}} \ {0}
    IN IF \A l \in Locales : Weights(l) = {} THEN locale = DefaultLocale
       ELSE /\ Weights(locale) # {}
            /\ \A l \in Locales : \A w \in Weights(l) : w <= Max(Weights(locale))

(* All text of an answer, down to the single fields, is in the language    *)
(* that this request wants most; but for unexpected errors and for the     *)
(* framework's own phrases, which no translation file knows.               *)
AnswersSpeakToTheClient ==
    \A r \in Requests : pc[r] = "answered" /\ raised[r] = None =>
        \A text \in {answer[r].body.message} \cup answer[r].body.field_errors :
            text[2] \in Phrases \/ WantedMost(text[1], asked[r].accepts)

Recent(k) == Cardinality(admitted[k])

(* Windows begin with their first hit, so any Window ticks meet at most    *)
(* two of them, and the first without its first hit.                       *)
LessThanTwiceTheLimit == \A k \in Limited \X Addresses : Recent(k) < 2 * Limit

(* A request is refused for its rate only if the limit was let through     *)
(* within the last Window ticks: refused ones put nothing off.             *)
IsRateError(e) == e # None /\ e.kind = "rate"

RejectedForCause ==
    [][\A r \in Requests : ~IsRateError(raised[r]) /\ IsRateError(raised'[r]) =>
          Recent(<<asked[r].endpoint, asked[r].address>>) >= Limit]_vars
===============================================================================
