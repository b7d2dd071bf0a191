------------------------- MODULE RequestBoundaryProofs -------------------------
(***************************************************************************)
(* Proofs about RequestBoundary.  Two inductive invariants that do not     *)
(* meet: one follows a request from its headers to its answer, the other   *)
(* counts, for one address at one endpoint, what the current window and    *)
(* the one before it let through.                                          *)
(***************************************************************************)
EXTENDS RequestBoundary, FiniteSetTheorems, WellFoundedInduction, TLAPS

-----------------------------------------------------------------------------
(* Localization *)

(* A finite set has a member that f ranks highest: the smallest of the     *)
(* sets of those that are ranked at least as high as some member.          *)
LEMMA Greatest ==
    ASSUME NEW U, IsFiniteSet(U), U # {}, NEW f \in [U -> Nat]
    PROVE  \E u \in U : \A v \in U : f[v] <= f[u]
<1> DEFINE From(u) == {v \in U : f[v] >= f[u]}
           F == {From(u) : u \in U}
           R == StrictSubsetOrdering(U)
<1>1. F \subseteq FiniteSubsetsOf(U) /\ F # {}
  <2>1. ASSUME NEW u \in U PROVE IsFiniteSet(From(u)) /\ From(u) \subseteq U
    <3>1. From(u) \in SUBSET U
      OBVIOUS
    <3> QED
      BY <3>1, FS_Subset
  <2>2. \A u \in U : From(u) \in FiniteSubsetsOf(U)
    BY <2>1 DEF FiniteSubsetsOf
  <2> HIDE DEF From
  <2> QED
    BY <2>2
<1>2. PICK T \in F : \A S \in F : <<S, T>> \notin R
  <2>1. IsWellFoundedOn(R, FiniteSubsetsOf(U))
    BY FS_StrictSubsetOrderingWellFounded
  <2> HIDE DEF R, F
  <2> QED
    BY <2>1, <1>1, WFMin
<1>3. PICK u \in U : T = From(u)
  OBVIOUS
<1>4. ASSUME NEW v \in U, f[v] > f[u] PROVE FALSE
  <2>1. f[u] \in Nat /\ f[v] \in Nat
    OBVIOUS
  <2>2. From(v) \in F
    OBVIOUS
  <2>3. ASSUME NEW x \in From(v) PROVE x \in T
    <3>1. x \in U /\ f[x] \in Nat /\ f[x] >= f[v]
      OBVIOUS
    <3> QED
      BY <3>1, <2>1, <1>3, <1>4
  <2>4. u \in T /\ u \notin From(v)
    BY <2>1, <1>3, <1>4
  <2>5. T \subseteq U /\ From(v) \subseteq U
    BY <1>3
  <2> QED
    BY <2>2, <2>3, <2>4, <2>5, <1>2 DEF StrictSubsetOrdering
<1>5. \A v \in U : f[v] \in Nat
  OBVIOUS
<1> QED
  BY <1>4, <1>5

Usable(header) == {c \in header : c[1] > 0 /\ Language[c[2]] # None}

(* The choice that Negotiate makes, where there is one. *)
Chosen(header) ==
    CHOOSE c \in Usable(header) : \A d \in Usable(header) :
        c[1] > d[1] \/ (c[1] = d[1] /\ c[2] >= d[2])

LEMMA ChosenIsFirst ==
    ASSUME NEW header \in Headers, Usable(header) # {}
    PROVE  /\ Chosen(header) \in Usable(header)
           /\ \A d \in Usable(header) : Chosen(header)[1] >= d[1]
<1> DEFINE U == Usable(header)
           weight == [c \in U |-> c[1]]
<1>1. \A c \in U : c[1] \in Nat /\ c[2] \in Nat
  BY BoundaryAssumption DEF Usable
<1>2. IsFiniteSet(U)
  BY BoundaryAssumption, FS_Subset DEF Usable
<1>3. PICK u \in U : \A v \in U : weight[v] <= weight[u]
  <2>1. weight \in [U -> Nat]
    BY <1>1
  <2> HIDE DEF weight, U
  <2> QED
    BY <2>1, <1>2, Greatest DEF U
<1>4. \A v \in U : v[1] <= u[1]
  BY <1>3
<1> DEFINE H == {c \in U : c[1] = u[1]}
           tag == [c \in H |-> c[2]]
<1>5. PICK h \in H : \A v \in H : tag[v] <= tag[h]
  <2>1. tag \in [H -> Nat]
    BY <1>1
  <2>2. IsFiniteSet(H) /\ H # {}
    <3>1. H \in SUBSET U /\ u \in H
      OBVIOUS
    <3> QED
      BY <3>1, <1>2, FS_Subset
  <2> HIDE DEF tag, H
  <2> QED
    BY <2>1, <2>2, Greatest
<1>6. \A v \in H : v[2] <= h[2]
  BY <1>5
<1>7. h \in U /\ \A d \in U : h[1] > d[1] \/ (h[1] = d[1] /\ h[2] >= d[2])
  <2>1. ASSUME NEW d \in U PROVE h[1] > d[1] \/ (h[1] = d[1] /\ h[2] >= d[2])
    <3>1. CASE d \in H
      BY <3>1, <1>1, <1>6
    <3>2. CASE d \notin H
      BY <3>2, <1>1, <1>4
    <3> QED
      BY <3>1, <3>2
  <2> QED
    BY <2>1
<1>8. /\ Chosen(header) \in U
      /\ \A d \in U : \/ Chosen(header)[1] > d[1]
                      \/ Chosen(header)[1] = d[1] /\ Chosen(header)[2] >= d[2]
  <2> HIDE DEF U, H
  <2> QED
    BY <1>7 DEF Chosen, U
<1> QED
  BY <1>1, <1>8

LEMMA NegotiateKnows ==
    ASSUME NEW header \in Headers
    PROVE  Negotiate(header) \in Locales /\ WantedMost(Negotiate(header), header)
<1> DEFINE Weights(l) == {c[1] : c \in {d \in header : Language[d[2]] = l}} \ {0}
<1>1. \A c \in header : c[1] \in Nat /\ c[2] \in DOMAIN Language
  BY BoundaryAssumption
<1>2. \A l \in Locales : \A w \in Weights(l) :
        \E c \in Usable(header) : c[1] = w /\ Language[c[2]] = l
  BY <1>1, BoundaryAssumption DEF Usable
<1>3. CASE Usable(header) = {}
  <2>1. Negotiate(header) = DefaultLocale
    BY <1>3 DEF Negotiate, Usable
  <2>2. \A l \in Locales : Weights(l) = {}
    BY <1>2, <1>3
  <2> QED
    BY <2>1, <2>2 DEF WantedMost, DefaultLocale, Locales
<1>4. CASE Usable(header) # {}
  <2> DEFINE c == Chosen(header)
             loc == Language[c[2]]
  <2>1. c \in Usable(header) /\ \A d \in Usable(header) : c[1] >= d[1]
    BY <1>4, ChosenIsFirst
  <2>2. Negotiate(header) = loc
    BY <1>4 DEF Negotiate, Chosen, Usable
  <2> HIDE DEF c
  <2>3. c \in header /\ c[1] > 0 /\ loc \in Locales
    BY <2>1, <1>1, BoundaryAssumption DEF Usable
  <2>4. c[1] \in Weights(loc)
    BY <2>3, <1>1
  <2>5. \A l \in Locales : \A w \in Weights(l) : w \in Nat /\ w <= c[1]
    BY <1>1, <1>2, <2>1, <2>3
  <2>6. Max(Weights(loc)) \in Weights(loc) /\ Max(Weights(loc)) >= c[1]
    <3>1. \E x \in Weights(loc) : \A y \in Weights(loc) : x >= y
      BY <2>3, <2>4, <2>5
    <3> HIDE DEF Weights, loc
    <3> QED
      BY <3>1, <2>4 DEF Max
  <2>7. \A l \in Locales : \A w \in Weights(l) : w <= Max(Weights(loc))
    <3>1. Max(Weights(loc)) \in Nat /\ c[1] \in Nat
      BY <2>3, <2>5, <2>6, <1>1
    <3> HIDE DEF Weights, loc
    <3> QED
      BY <3>1, <2>5, <2>6
  <2>8. WantedMost(loc, header)
    <3>1. Weights(loc) # {} /\ ~ \A l \in Locales : Weights(l) = {}
      BY <2>3, <2>4
    <3> HIDE DEF loc
    <3> QED
      BY <3>1, <2>7 DEF WantedMost
  <2> QED
    BY <2>2, <2>3, <2>8
<1> QED
  BY <1>3, <1>4

-----------------------------------------------------------------------------
(* From exceptions to responses *)

(* All text of the answer a is in this language, but for the framework's   *)
(* own phrases.                                                            *)
Speaks(a, locale) ==
    \A text \in {a.body.message} \cup a.body.field_errors :
        text[2] \in Phrases \/ text[1] = locale

LEMMA Responds ==
    ASSUME NEW status \in 200..599, NEW type \in {"none", "snackbar", "inline", "alert"},
           NEW message \in Translated \cup Phrases, NEW fields \in SUBSET Translated,
           NEW locale \in Locales
    PROVE  /\ Respond(status, type, message, fields, locale) \in Answers
           /\ Respond(status, type, message, fields, locale).status = status
           /\ Speaks(Respond(status, type, message, fields, locale), locale)
<1> DEFINE a == Respond(status, type, message, fields, locale)
           said == {Translate(f, locale) : f \in fields}
<1>1. \A m \in Translated : Translate(m, locale) = <<locale, m>>
  BY DEF Translate
<1>2. Translate(message, locale) \in Texts
  BY DEF Translate, Texts
<1>3. \/ Translate(message, locale)[1] = locale
      \/ Translate(message, locale)[2] \in Phrases
  BY DEF Translate
<1>4. said \in SUBSET Texts
  BY <1>1 DEF Texts
<1>5. \A text \in said : text[1] = locale
  BY <1>1
<1>6. a.body.message = Translate(message, locale) /\ a.body.field_errors = said
  BY DEF Respond
<1>7. Speaks(a, locale)
  <2> HIDE DEF a, said
  <2> QED
    BY <1>3, <1>5, <1>6 DEF Speaks
<1>8. a \in Answers
  <2> HIDE DEF said
  <2> QED
    BY <1>2, <1>4 DEF a, said, Respond, Answers, Bodies, Ids
<1> QED
  BY <1>7, <1>8 DEF Respond

LEMMA StatusIsOne == \A code : StatusOf(code) \in 200..599
BY DEF StatusOf

LEMMA HandlersRespond ==
    ASSUME NEW e \in Errors, Handled(e), NEW locale \in Locales
    PROVE  Response(e, locale) \in Answers /\ Speaks(Response(e, locale), locale)
<1>1. /\ Codes \subseteq Translated /\ OwnKeys \subseteq Translated
      /\ {"missing_authorization", "field_required", "invalid_value", "validation_failed",
          "too_many_attempts", "dependency_unavailable"} \subseteq Translated
  BY BoundaryAssumption DEF OwnKeys
<1>2. CASE e.kind = "application"
  <2>1. e.code \in Codes
    BY <1>2 DEF Errors, Raise
  <2>2. e.code \in Translated \cup Phrases /\ {} \in SUBSET Translated
    BY <2>1, <1>1
  <2>3. PICK status : status \in 200..599 /\ status = StatusOf(e.code)
    BY StatusIsOne
  <2>4. status \in 200..599
    BY <2>3
  <2>5. CASE e.code = "otp_recipient_rejected"
    <3>1. {"otp_recipient_rejected"} \in SUBSET Translated
      BY <2>1, <2>5, <1>1
    <3>2. Response(e, locale) =
            Respond(status, "inline", e.code, {"otp_recipient_rejected"}, locale)
      BY <1>2, <2>5, <2>3 DEF Response, ApplicationResponse
    <3>3. Respond(status, "inline", e.code, {"otp_recipient_rejected"}, locale) \in Answers
      BY <3>1, <2>2, <2>4, Responds
    <3>4. Speaks(Respond(status, "inline", e.code, {"otp_recipient_rejected"}, locale), locale)
      BY <3>1, <2>2, <2>4, Responds
    <3> QED
      BY <3>2, <3>3, <3>4
  <2>6. CASE e.code # "otp_recipient_rejected"
    <3>1. Response(e, locale) = Respond(status, "snackbar", e.code, {}, locale)
      BY <1>2, <2>6, <2>3 DEF Response, ApplicationResponse
    <3>2. Respond(status, "snackbar", e.code, {}, locale) \in Answers
      BY <2>2, <2>4, Responds
    <3>3. Speaks(Respond(status, "snackbar", e.code, {}, locale), locale)
      BY <2>2, <2>4, Responds
    <3> QED
      BY <3>1, <3>2, <3>3
  <2> QED
    BY <2>5, <2>6
<1>3. CASE e.kind = "http"
  <2>1. e.code \in Phrases \cup {"missing_authorization"}
    BY <1>3 DEF Errors, Raise
  <2>2. e.code \in Translated \cup Phrases /\ {} \in SUBSET Translated
    BY <2>1, <1>1
  <2>3. Response(e, locale) = HttpResponse(e, locale)
    BY <1>3 DEF Response
  <2>4. \E status \in {401, 404, 405} :
          Response(e, locale) = Respond(status, "snackbar", e.code, {}, locale)
    BY <2>3 DEF HttpResponse, PhraseResponse, OwnHttpResponse
  <2>5. PICK status \in {401, 404, 405} :
          Response(e, locale) = Respond(status, "snackbar", e.code, {}, locale)
    BY <2>4
  <2>6. status \in 200..599
    OBVIOUS
  <2> QED
    BY <2>2, <2>5, <2>6, Responds
<1>4. CASE e.kind = "validation"
  <2> DEFINE fields == {FieldMessage(t) : t \in e.fields}
  <2>1. fields \in SUBSET Translated
    BY <1>1 DEF FieldMessage
  <2>2. "validation_failed" \in Translated \cup Phrases
    BY <1>1
  <2>3. Response(e, locale) = Respond(422, "inline", "validation_failed", fields, locale)
    BY <1>4 DEF Response, ValidationResponse
  <2> HIDE DEF fields
  <2> QED
    BY <2>1, <2>2, <2>3, Responds
<1>5. CASE e.kind = "rate"
  <2>1. Response(e, locale) = Respond(429, "snackbar", "too_many_attempts", {}, locale)
    BY <1>5 DEF Response, RateLimitResponse
  <2>2. "too_many_attempts" \in Translated \cup Phrases /\ {} \in SUBSET Translated
    BY <1>1
  <2> QED
    BY <2>1, <2>2, Responds
<1>6. CASE e.kind = "dependency"
  <2>1. Response(e, locale) = Respond(503, "alert", "dependency_unavailable", {}, locale)
    BY <1>6 DEF Response, DependencyResponse
  <2>2. "dependency_unavailable" \in Translated \cup Phrases /\ {} \in SUBSET Translated
    BY <1>1
  <2> QED
    BY <2>1, <2>2, Responds
<1>7. e.kind \in {"application", "http", "validation", "rate", "dependency"}
  BY DEF Errors, Raise, Handled
<1> QED
  BY <1>2, <1>3, <1>4, <1>5, <1>6, <1>7

(* Neither needs a translation that could be missing. *)
LEMMA OthersRespond ==
    ASSUME NEW locale \in Locales
    PROVE  /\ Success(locale) \in Answers /\ Speaks(Success(locale), locale)
           /\ UnhandledResponse(locale) \in Answers
           /\ UnhandledResponse(locale).status = 500
<1>1. {"otp_sent_to_email", "service_unavailable_try_later"} \subseteq Translated
  BY BoundaryAssumption DEF OwnKeys
<1>2. /\ "otp_sent_to_email" \in Translated \cup Phrases
      /\ "service_unavailable_try_later" \in Translated \cup Phrases
      /\ {} \in SUBSET Translated
  BY <1>1
<1>3. Success(locale) \in Answers /\ Speaks(Success(locale), locale)
  BY <1>2, Responds DEF Success
<1>4. UnhandledResponse(locale) \in Answers /\ UnhandledResponse(locale).status = 500
  BY <1>2, Responds DEF UnhandledResponse
<1> QED
  BY <1>3, <1>4

-----------------------------------------------------------------------------
(* The limiter *)

LEMMA LesserOf ==
    ASSUME NEW a \in Int, NEW b \in Int
    PROVE  Min({a, b}) = IF a <= b THEN a ELSE b
<1>1. \E x \in {a, b} : \A y \in {a, b} : x =< y
  OBVIOUS
<1>2. Min({a, b}) \in {a, b} /\ \A y \in {a, b} : Min({a, b}) =< y
  BY <1>1 DEF Min
<1> QED
  BY <1>2

(* What a tick makes of requests that were let through. *)
Kept(B) == {b \in B : b[1] + 1 < Window}
Aged(B) == {<<a[1] + 1, a[2]>> : a \in Kept(B)}

LEMMA Ageing ==
    ASSUME NEW B \in SUBSET (Ages \X Nat), IsFiniteSet(B)
    PROVE  /\ Aged(B) \in SUBSET (Ages \X Nat)
           /\ IsFiniteSet(Aged(B))
           /\ Cardinality(Aged(B)) \in Nat /\ Cardinality(B) \in Nat
           /\ Cardinality(Aged(B)) <= Cardinality(B)
           /\ Kept(B) = B => Cardinality(Aged(B)) = Cardinality(B)
           /\ Kept(B) # B => Cardinality(Aged(B)) < Cardinality(B)
<1>1. Window \in Nat \ {0}
  BY BoundaryAssumption
<1>2. \A b \in B : b = <<b[1], b[2]>> /\ b[1] \in Nat /\ b[2] \in Nat /\ b[1] < Window
  BY <1>1 DEF Ages
<1>3. Aged(B) \in SUBSET (Ages \X Nat)
  BY <1>1, <1>2 DEF Aged, Kept, Ages
<1> DEFINE K == Kept(B)
           f == [a \in K |-> <<a[1] + 1, a[2]>>]
<1>4. K \in SUBSET B
  BY DEF Kept
<1>5. ExistsBijection(K, Aged(B))
  <2>1. f \in [K -> Aged(B)]
    BY DEF Aged
  <2>2. \A x, y \in K : f[x] = f[y] => x = y
    BY <1>2, <1>4
  <2>3. \A z \in Aged(B) : \E x \in K : f[x] = z
    BY DEF Aged
  <2> HIDE DEF f, K
  <2>4. f \in Bijection(K, Aged(B))
    BY <2>1, <2>2, <2>3 DEF Bijection, Injection, Surjection, IsInjective
  <2> QED
    BY <2>4 DEF ExistsBijection
<1>6. IsFiniteSet(K) /\ Cardinality(K) <= Cardinality(B)
  BY <1>4, FS_Subset
<1>7. Cardinality(K) = Cardinality(B) => K = B
  BY <1>4, FS_Subset
<1>8. IsFiniteSet(Aged(B)) /\ Cardinality(Aged(B)) = Cardinality(K)
  BY <1>5, <1>6, FS_Bijection
<1>9. Cardinality(K) \in Nat /\ Cardinality(B) \in Nat
  BY <1>6, FS_CardinalityType
<1> QED
  BY <1>3, <1>6, <1>7, <1>8, <1>9

(* The requests let through in this very tick, in the current window, and  *)
(* in the one before it, when l ticks are left.                            *)
Now(A) == {a \in A : a[1] = 0}
Young(A, l) == {a \in A : a[1] <= Window - l}
Old(A, l) == {a \in A : a[1] > Window - l}

(* What the counters c and l say of the requests A that were let through:  *)
(* c counts those of the current window, up to the limit; those of the     *)
(* window before are too few to make the limit, for its first one is more  *)
(* than Window ticks ago; and the current one's first is still there.      *)
Counted(A, l, c) ==
    /\ IsFiniteSet(A)
    /\ \A a \in Now(A) : a[2] < Cardinality(Now(A))
    /\ l = 0 => Now(A) = {} /\ Cardinality(A) < Limit
    /\ l > 0 => /\ c > 0
                /\ Cardinality(Young(A, l)) = IF c <= Limit THEN c ELSE Limit
                /\ Cardinality(Old(A, l)) < Limit
                /\ \E a \in A : a[1] = Window - l

LEMMA Sizes ==
    ASSUME NEW A, IsFiniteSet(A), NEW l
    PROVE  /\ IsFiniteSet(Now(A)) /\ Cardinality(Now(A)) \in Nat
           /\ IsFiniteSet(Young(A, l)) /\ Cardinality(Young(A, l)) \in Nat
           /\ IsFiniteSet(Old(A, l)) /\ Cardinality(Old(A, l)) \in Nat
           /\ Cardinality(A) \in Nat
           /\ Cardinality(Young(A, l)) <= Cardinality(A)
<1>1. Now(A) \in SUBSET A /\ Young(A, l) \in SUBSET A /\ Old(A, l) \in SUBSET A
  BY DEF Now, Young, Old
<1>2. IsFiniteSet(Now(A)) /\ IsFiniteSet(Young(A, l)) /\ IsFiniteSet(Old(A, l))
  BY <1>1, FS_Subset
<1>3. Cardinality(Young(A, l)) <= Cardinality(A)
  BY <1>1, FS_Subset
<1> QED
  BY <1>2, <1>3, FS_CardinalityType

LEMMA CountedBound ==
    ASSUME NEW A \in SUBSET (Ages \X Nat), NEW l \in 0..Window, NEW c \in 0..(Limit + 1),
           Counted(A, l, c)
    PROVE  Cardinality(A) < 2 * Limit
<1>1. IsFiniteSet(A) /\ Limit \in Nat \ {0} /\ Window \in Nat
  BY BoundaryAssumption DEF Counted
<1>2. /\ IsFiniteSet(Young(A, l)) /\ Cardinality(Young(A, l)) \in Nat
      /\ IsFiniteSet(Old(A, l)) /\ Cardinality(Old(A, l)) \in Nat
      /\ Cardinality(A) \in Nat
  BY <1>1, Sizes
<1>3. CASE l = 0
  BY <1>1, <1>2, <1>3 DEF Counted
<1>4. CASE l > 0
  <2>1. A = Young(A, l) \cup Old(A, l) /\ Young(A, l) \cap Old(A, l) = {}
    <3>1. \A a \in A : a[1] \in Int
      BY DEF Ages
    <3> QED
      BY <3>1, <1>1 DEF Young, Old
  <2>2. Cardinality(A) = Cardinality(Young(A, l)) + Cardinality(Old(A, l))
    BY <2>1, <1>2, FS_Union, FS_EmptySet
  <2>3. Cardinality(Young(A, l)) <= Limit /\ Cardinality(Old(A, l)) < Limit
    BY <1>1, <1>4 DEF Counted
  <2> QED
    BY <2>2, <2>3, <1>1, <1>2
<1> QED
  BY <1>3, <1>4

LEMMA TickCounts ==
    ASSUME NEW A \in SUBSET (Ages \X Nat), NEW l \in 0..Window, NEW c \in 0..(Limit + 1),
           Counted(A, l, c)
    PROVE  Counted(Aged(A), IF l = 0 THEN 0 ELSE l - 1, c)
<1> DEFINE m == IF l = 0 THEN 0 ELSE l - 1
<1>1. IsFiniteSet(A) /\ Limit \in Nat \ {0} /\ Window \in Nat \ {0}
  BY BoundaryAssumption DEF Counted
<1>2. \A a \in A : a[1] \in Nat /\ a[1] < Window /\ a[2] \in Nat
  BY <1>1 DEF Ages
<1>3. /\ IsFiniteSet(Aged(A)) /\ Cardinality(Aged(A)) \in Nat /\ Cardinality(A) \in Nat
      /\ Cardinality(Aged(A)) <= Cardinality(A)
  BY <1>1, Ageing
<1>4. Now(Aged(A)) = {}
  BY <1>2 DEF Now, Aged, Kept
<1>5. CASE l = 0
  BY <1>1, <1>3, <1>4, <1>5 DEF Counted
<1>6. CASE l > 0
  <2> DEFINE Y == Young(A, l)
             O == Old(A, l)
  <2>1. /\ Y \in SUBSET (Ages \X Nat) /\ IsFiniteSet(Y) /\ Cardinality(Y) \in Nat
        /\ O \in SUBSET (Ages \X Nat) /\ IsFiniteSet(O) /\ Cardinality(O) \in Nat
    BY <1>1, Sizes DEF Young, Old
  <2>2. /\ c > 0 /\ Cardinality(Y) = IF c <= Limit THEN c ELSE Limit
        /\ Cardinality(O) < Limit
    BY <1>6 DEF Counted
  <2>3. PICK first \in A : first[1] = Window - l
    BY <1>6 DEF Counted
  <2>4. CASE l = 1
    <3>1. A = Y
      BY <2>4, <1>1, <1>2 DEF Young
    <3>2. Kept(A) # A
      BY <2>3, <2>4, <1>1 DEF Kept
    <3>3. Cardinality(Aged(A)) < Cardinality(Y)
      <4>1. Cardinality(Aged(A)) < Cardinality(A)
        BY <3>2, <1>1, Ageing
      <4> QED
        BY <4>1, <3>1
    <3>4. Cardinality(Aged(A)) < Limit
      BY <3>3, <2>1, <2>2, <1>1, <1>3
    <3>5. m = 0
      BY <2>4
    <3> QED
      BY <3>4, <3>5, <1>3, <1>4 DEF Counted
  <2>5. CASE l > 1
    <3>1. m = l - 1 /\ m > 0 /\ m \in Int
      BY <2>5
    <3>2. Kept(Y) = Y
      BY <2>5, <1>1, <1>2 DEF Kept, Young
    <3>3. Young(Aged(A), m) = Aged(Y)
      BY <3>1, <1>1, <1>2 DEF Young, Aged, Kept
    <3>4. Old(Aged(A), m) = Aged(O)
      BY <3>1, <1>1, <1>2 DEF Old, Aged, Kept
    <3>5. Cardinality(Aged(Y)) = Cardinality(Y) /\ Cardinality(Aged(O)) <= Cardinality(O)
      BY <2>1, <3>2, Ageing
    <3>6. Cardinality(Aged(O)) \in Nat
      BY <2>1, Ageing
    <3>7. <<first[1] + 1, first[2]>> \in Aged(A)
      BY <2>3, <2>5, <1>1 DEF Aged, Kept
    <3>8. \E a \in Aged(A) : a[1] = Window - m
      <4>1. <<first[1] + 1, first[2]>>[1] = Window - m
        BY <2>3, <3>1, <1>1
      <4> QED
        BY <4>1, <3>7
    <3>9. /\ Cardinality(Young(Aged(A), m)) = IF c <= Limit THEN c ELSE Limit
          /\ Cardinality(Old(Aged(A), m)) < Limit
      BY <3>3, <3>4, <3>5, <3>6, <2>1, <2>2, <1>1
    <3> HIDE DEF m
    <3> QED
      BY <3>1, <3>8, <3>9, <2>2, <1>3, <1>4 DEF Counted
  <2> QED
    BY <2>4, <2>5, <1>6
<1> QED
  BY <1>5, <1>6

(* One request more, of this tick. *)
Joined(A) == A \cup {<<0, Cardinality(Now(A))>>}

LEMMA JoinedIsOneMore ==
    ASSUME NEW A \in SUBSET (Ages \X Nat), IsFiniteSet(A), NEW l \in 0..Window,
           \A a \in Now(A) : a[2] < Cardinality(Now(A))
    PROVE  /\ Joined(A) \in SUBSET (Ages \X Nat) /\ IsFiniteSet(Joined(A))
           /\ \A a \in Now(Joined(A)) : a[2] < Cardinality(Now(Joined(A)))
           /\ Cardinality(Young(Joined(A), l)) = Cardinality(Young(A, l)) + 1
           /\ Old(Joined(A), l) = Old(A, l)
<1> DEFINE n == Cardinality(Now(A))
<1>1. /\ Limit \in Nat \ {0} /\ Window \in Nat \ {0} /\ n \in Nat
      /\ IsFiniteSet(Now(A)) /\ IsFiniteSet(Young(A, l))
  BY BoundaryAssumption, Sizes
<1> HIDE DEF n
<1>2. <<0, n>> \in Ages \X Nat /\ Joined(A) = A \cup {<<0, n>>}
  BY <1>1 DEF Ages, Joined, n
<1>3. <<0, n>> \notin A
  BY <1>1 DEF Now, n
<1>4. Now(Joined(A)) = Now(A) \cup {<<0, n>>} /\ <<0, n>> \notin Now(A)
  BY <1>2, <1>3 DEF Now
<1>5. Cardinality(Now(Joined(A))) = n + 1
  BY <1>1, <1>4, FS_AddElement DEF n
<1>6. \A a \in Now(Joined(A)) : a[2] < n + 1
  <2>1. \A a \in Now(A) : a[2] < n /\ a[2] \in Nat
    BY DEF n, Now
  <2> QED
    BY <2>1, <1>1, <1>4
<1>7. Young(Joined(A), l) = Young(A, l) \cup {<<0, n>>} /\ <<0, n>> \notin Young(A, l)
  BY <1>1, <1>2, <1>3 DEF Young
<1>8. Cardinality(Young(Joined(A), l)) = Cardinality(Young(A, l)) + 1
  BY <1>1, <1>7, FS_AddElement
<1>9. Old(Joined(A), l) = Old(A, l)
  BY <1>1, <1>2 DEF Old
<1>10. IsFiniteSet(Joined(A)) /\ Joined(A) \in SUBSET (Ages \X Nat)
  BY <1>2, FS_AddElement
<1> QED
  BY <1>5, <1>6, <1>8, <1>9, <1>10

LEMMA HitCounts ==
    ASSUME NEW A \in SUBSET (Ages \X Nat), NEW l \in 0..Window, NEW c \in 0..(Limit + 1),
           Counted(A, l, c),
           NEW l2, l2 = IF l = 0 THEN Window ELSE l,
           NEW c2, c2 = IF l = 0 THEN 1 ELSE Min({c + 1, Limit + 1})
    PROVE  /\ l2 \in 0..Window /\ c2 \in 0..(Limit + 1)
           /\ c2 <= Limit => Counted(Joined(A), l2, c2)
           /\ c2 > Limit => Counted(A, l2, c2) /\ Cardinality(A) >= Limit
<1>1. IsFiniteSet(A) /\ Limit \in Nat \ {0} /\ Window \in Nat \ {0}
  BY BoundaryAssumption DEF Counted
<1>2. \A a \in A : a[1] \in Nat /\ a[1] < Window /\ a[2] \in Nat
  BY <1>1 DEF Ages
<1>3. /\ Cardinality(A) \in Nat
      /\ Cardinality(Young(A, l2)) \in Nat /\ Cardinality(Young(A, l2)) <= Cardinality(A)
  BY <1>1, Sizes
<1>4. Min({c + 1, Limit + 1}) = IF c + 1 <= Limit + 1 THEN c + 1 ELSE Limit + 1
  <2>1. c + 1 \in Int /\ Limit + 1 \in Int
    BY <1>1
  <2> QED
    BY <2>1, LesserOf
<1>5. l2 \in 1..Window /\ c2 \in 1..(Limit + 1) /\ l2 \in 0..Window
  BY <1>1, <1>4
<1>6. \A a \in Now(A) : a[2] < Cardinality(Now(A))
  BY DEF Counted
<1>7. /\ IsFiniteSet(Joined(A))
      /\ \A a \in Now(Joined(A)) : a[2] < Cardinality(Now(Joined(A)))
      /\ Cardinality(Young(Joined(A), l2)) = Cardinality(Young(A, l2)) + 1
      /\ Old(Joined(A), l2) = Old(A, l2)
  BY <1>1, <1>5, <1>6, JoinedIsOneMore
<1>8. CASE l = 0
  <2>1. c2 = 1 /\ l2 = Window /\ c2 <= Limit
    BY <1>1, <1>8
  <2>2. Now(A) = {} /\ Cardinality(A) < Limit
    BY <1>8 DEF Counted
  <2>3. Young(A, l2) = {} /\ Old(A, l2) = A
    <3>1. \A a \in A : a[1] > 0
      BY <2>2, <1>2 DEF Now
    <3> QED
      BY <3>1, <2>1, <1>1, <1>2 DEF Young, Old
  <2>4. Cardinality(Young(Joined(A), l2)) = 1
    <3>1. Cardinality(Young(A, l2)) = Cardinality({})
      BY <2>3
    <3>2. Cardinality(Young(A, l2)) = 0
      BY <3>1, FS_EmptySet
    <3> QED
      BY <3>2, <1>7
  <2>5. \E a \in Joined(A) : a[1] = Window - l2
    <3>1. <<0, Cardinality(Now(A))>> \in Joined(A) /\ Window - l2 = 0
      BY <2>1, <1>1 DEF Joined
    <3> QED
      BY <3>1
  <2>6. Counted(Joined(A), l2, c2)
    BY <2>1, <2>2, <2>3, <2>4, <2>5, <1>1, <1>7 DEF Counted
  <2> QED
    BY <2>1, <2>6, <1>1, <1>5
<1>9. CASE l > 0
  <2>1. l2 = l /\ c2 = IF c + 1 <= Limit + 1 THEN c + 1 ELSE Limit + 1
    BY <1>4, <1>9
  <2>2. /\ c > 0 /\ Cardinality(Young(A, l2)) = IF c <= Limit THEN c ELSE Limit
        /\ Cardinality(Old(A, l2)) < Limit
        /\ \E a \in A : a[1] = Window - l2
    BY <2>1, <1>9 DEF Counted
  <2>3. ASSUME c2 <= Limit PROVE Counted(Joined(A), l2, c2)
    <3>1. c2 = c + 1 /\ c <= Limit
      BY <2>1, <2>3, <1>1
    <3>2. Cardinality(Young(Joined(A), l2)) = c2
      BY <3>1, <2>2, <1>7
    <3>3. \E a \in Joined(A) : a[1] = Window - l2
      BY <2>2 DEF Joined
    <3> QED
      BY <3>2, <3>3, <2>2, <2>3, <1>5, <1>7 DEF Counted
  <2>4. ASSUME c2 > Limit PROVE Counted(A, l2, c2) /\ Cardinality(A) >= Limit
    <3>1. c >= Limit /\ c2 = Limit + 1
      BY <2>1, <2>4, <1>1
    <3>2. Cardinality(Young(A, l2)) = Limit
      BY <3>1, <2>2, <1>1
    <3>3. Cardinality(A) >= Limit
      BY <3>2, <1>1, <1>3
    <3>4. Counted(A, l2, c2)
      BY <3>1, <3>2, <2>2, <1>1, <1>5, <1>6 DEF Counted
    <3> QED
      BY <3>3, <3>4
  <2> QED
    BY <2>3, <2>4, <1>1, <1>5
<1> QED
  BY <1>5, <1>8, <1>9

-----------------------------------------------------------------------------
(* The inductive invariant *)

(* A request that has begun is known, and from the middleware to the way   *)
(* out its task has its own id and the locale it asks for.                 *)
Entered(r) ==
    /\ pc[r] # "idle" => asked[r] \in Asked
    /\ pc[r] \in {"inside", "running", "leaving"} =>
          context[r] = [id |-> Own(r), locale |-> Negotiate(asked[r].accepts)]

(* Nothing is raised before it is refused or run, and what escapes stays   *)
(* raised: its line in the log says 500.                                   *)
RaisedInTime(r) ==
    /\ pc[r] \in {"idle", "received", "inside", "running"} => raised[r] = None
    /\ pc[r] = "escaped" => raised[r] # None /\ logged[r] = 500

(* On the way out there is an exception or an answer, in the request's     *)
(* language.                                                               *)
Answered(r) ==
    /\ pc[r] \in {"leaving", "answered"} /\ raised[r] = None =>
          answer[r] \in Answers /\ Speaks(answer[r], Negotiate(asked[r].accepts))
    /\ pc[r] = "answered" =>
          IF raised[r] = None THEN IsTraced(r) ELSE logged[r] = answer[r].status

RequestInv == \A r \in Requests : Entered(r) /\ RaisedInTime(r) /\ Answered(r)

LimiterInv == \A k \in Limited \X Addresses : Counted(admitted[k], left[k], count[k])

IInv == TypeOK /\ RequestInv /\ LimiterInv

LEMMA InitEstablishes == Init => IInv
<1> SUFFICES ASSUME Init PROVE IInv
  OBVIOUS
<1>1. Limit \in Nat \ {0} /\ Window \in Nat \ {0}
  BY BoundaryAssumption
<1>2. TypeOK
  BY <1>1 DEF Init, TypeOK, NoContext, Ids, Locales, DefaultLocale
<1>3. RequestInv
  BY DEF Init, RequestInv, Entered, RaisedInTime, Answered
<1>4. LimiterInv
  <2>1. Counted({}, 0, 0)
    <3>1. Now({}) = {}
      BY DEF Now
    <3> QED
      BY <3>1, <1>1, FS_EmptySet DEF Counted
  <2> QED
    BY <2>1 DEF Init, LimiterInv
<1> QED
  BY <1>2, <1>3, <1>4 DEF IInv

(* The locale of any task is a supported one. *)
LEMMA OwnIsId ==
    ASSUME TypeOK, NEW r \in Requests, asked[r] \in Asked
    PROVE  /\ Own(r) \in Ids
           /\ Negotiate(asked[r].accepts) \in Locales
           /\ WantedMost(Negotiate(asked[r].accepts), asked[r].accepts)
<1>1. asked[r].id \in GivenIds \cup {None} /\ asked[r].accepts \in Headers
  BY DEF Asked
<1>2. Own(r) \in Ids
  BY <1>1 DEF Own, Ids
<1>3. PICK h \in Headers : h = asked[r].accepts
  BY <1>1
<1> QED
  BY <1>2, <1>3, NegotiateKnows

(* What a step of one request leaves alone: the others, and the limiter.   *)
LEMMA OthersStay ==
    ASSUME IInv, NEW r \in Requests, TypeOK',
           Entered(r)' /\ RaisedInTime(r)' /\ Answered(r)',
           \A q \in Requests \ {r} :
              /\ pc'[q] = pc[q] /\ asked'[q] = asked[q] /\ context'[q] = context[q]
              /\ raised'[q] = raised[q] /\ answer'[q] = answer[q] /\ logged'[q] = logged[q]
    PROVE  RequestInv'
<1> SUFFICES ASSUME NEW q \in Requests, q # r
             PROVE  Entered(q)' /\ RaisedInTime(q)' /\ Answered(q)'
  BY DEF RequestInv
<1>1. Entered(q) /\ RaisedInTime(q) /\ Answered(q)
  BY DEF IInv, RequestInv
<1>2. /\ pc'[q] = pc[q] /\ asked'[q] = asked[q] /\ context'[q] = context[q]
      /\ raised'[q] = raised[q] /\ answer'[q] = answer[q] /\ logged'[q] = logged[q]
  OBVIOUS
<1>3. Entered(q)'
  BY <1>1, <1>2 DEF Entered, Own
<1>4. RaisedInTime(q)'
  BY <1>1, <1>2 DEF RaisedInTime
<1>5. Answered(q)'
  BY <1>1, <1>2 DEF Answered, IsTraced, Own
<1> QED
  BY <1>3, <1>4, <1>5

LEMMA LimiterStays ==
    ASSUME LimiterInv, UNCHANGED limiter
    PROVE  LimiterInv'
BY DEF LimiterInv, limiter

-----------------------------------------------------------------------------
(* Every step preserves it *)

LEMMA ReceivePreserves ==
    ASSUME IInv, NEW r \in Requests, Receive(r)
    PROVE  IInv'
<1> USE DEF Receive
<1>1. TypeOK /\ RequestInv /\ LimiterInv
  BY DEF IInv
<1>2. Entered(r) /\ RaisedInTime(r) /\ Answered(r)
  BY <1>1 DEF RequestInv
<1>3. PICK a \in Asked : asked' = [asked EXCEPT ![r] = a]
  OBVIOUS
<1>4. pc'[r] = "received" /\ asked'[r] \in Asked /\ raised'[r] = raised[r] /\ pc[r] = "idle"
  BY <1>1, <1>3 DEF TypeOK
<1>5. TypeOK'
  BY <1>1, <1>3 DEF TypeOK, limiter
<1>6. Entered(r)' /\ RaisedInTime(r)' /\ Answered(r)'
  BY <1>2, <1>4 DEF Entered, RaisedInTime, Answered
<1>7. RequestInv'
  BY <1>1, <1>3, <1>5, <1>6, OthersStay DEF TypeOK
<1> QED
  BY <1>1, <1>5, <1>7, LimiterStays DEF IInv

LEMMA EnterContextPreserves ==
    ASSUME IInv, NEW r \in Requests, EnterContext(r)
    PROVE  IInv'
<1> USE DEF EnterContext
<1>1. TypeOK /\ RequestInv /\ LimiterInv
  BY DEF IInv
<1>2. Entered(r) /\ RaisedInTime(r) /\ Answered(r)
  BY <1>1 DEF RequestInv
<1>3. asked[r] \in Asked
  BY <1>2 DEF Entered
<1>4. Own(r) \in Ids /\ Negotiate(asked[r].accepts) \in Locales
  BY <1>1, <1>3, OwnIsId
<1> DEFINE new == [id |-> Own(r), locale |-> Negotiate(asked[r].accepts)]
<1>5. new \in [id : Ids, locale : Locales]
  BY <1>4
<1>6. context' = [context EXCEPT ![r] = new]
  BY DEF Own
<1>7. /\ pc'[r] = "inside" /\ asked' = asked /\ raised' = raised /\ context'[r] = new
      /\ pc[r] = "received"
  BY <1>1, <1>6 DEF TypeOK
<1>8. TypeOK'
  <2> HIDE DEF new
  <2> QED
    BY <1>1, <1>5, <1>6 DEF TypeOK, limiter
<1>9. Entered(r)' /\ RaisedInTime(r)' /\ Answered(r)'
  BY <1>2, <1>3, <1>7 DEF Entered, RaisedInTime, Answered, Own
<1>10. RequestInv'
  BY <1>1, <1>8, <1>9, OthersStay DEF TypeOK
<1> QED
  BY <1>1, <1>8, <1>10, LimiterStays DEF IInv

LEMMA RefusePreserves ==
    ASSUME IInv, NEW r \in Requests, Refuse(r)
    PROVE  IInv'
<1> USE DEF Refuse
<1>1. TypeOK /\ RequestInv /\ LimiterInv
  BY DEF IInv
<1>2. Entered(r) /\ RaisedInTime(r) /\ Answered(r)
  BY <1>1 DEF RequestInv
<1>3. PICK e \in Errors : raised' = [raised EXCEPT ![r] = e]
  OBVIOUS
<1>4. e # None
  BY BoundaryAssumption
<1>5. pc'[r] = "leaving" /\ raised'[r] # None /\ asked' = asked /\ context' = context
  BY <1>1, <1>3, <1>4 DEF TypeOK
<1>6. TypeOK'
  BY <1>1, <1>3 DEF TypeOK, limiter
<1>7. Entered(r)' /\ RaisedInTime(r)' /\ Answered(r)'
  BY <1>2, <1>5 DEF Entered, RaisedInTime, Answered, Own
<1>8. RequestInv'
  BY <1>1, <1>3, <1>6, <1>7, OthersStay DEF TypeOK
<1> QED
  BY <1>1, <1>6, <1>8, LimiterStays DEF IInv

LEMMA RunPreserves ==
    ASSUME IInv, NEW r \in Requests, Run(r)
    PROVE  IInv'
<1> USE DEF Run
<1>1. TypeOK /\ RequestInv /\ LimiterInv
  BY DEF IInv
<1>2. Entered(r) /\ RaisedInTime(r) /\ Answered(r)
  BY <1>1 DEF RequestInv
<1>3. /\ pc[r] = "running" /\ pc'[r] = "leaving" /\ asked' = asked /\ context' = context
      /\ asked[r] \in Asked /\ raised[r] = None
      /\ context[r] = [id |-> Own(r), locale |-> Negotiate(asked[r].accepts)]
  BY <1>1, <1>2 DEF TypeOK, Entered, RaisedInTime
<1>4. CASE answer' = [answer EXCEPT ![r] = Success(context[r].locale)] /\ UNCHANGED raised
  <2>1. context[r].locale \in Locales
    BY <1>1 DEF TypeOK
  <2>2. PICK l \in Locales : l = context[r].locale
    BY <2>1
  <2>3. Success(l) \in Answers /\ Speaks(Success(l), l)
    BY OthersRespond
  <2>4. answer' = [answer EXCEPT ![r] = Success(l)]
    BY <1>4, <2>2
  <2>5. TypeOK'
    BY <1>1, <1>4, <2>3, <2>4 DEF TypeOK, limiter
  <2>6. l = Negotiate(asked[r].accepts) /\ answer'[r] = Success(l)
    BY <2>2, <2>4, <1>1, <1>3 DEF TypeOK
  <2>7. Entered(r)' /\ RaisedInTime(r)' /\ Answered(r)'
    BY <1>3, <1>4, <2>3, <2>6 DEF Entered, RaisedInTime, Answered, Own
  <2>8. RequestInv'
    BY <1>1, <1>4, <2>5, <2>7, OthersStay DEF TypeOK
  <2> QED
    BY <1>1, <2>5, <2>8, LimiterStays DEF IInv
<1>5. CASE /\ \E e \in {x \in Errors : x.kind \in {"application", "dependency", "unexpected"}} :
                 raised' = [raised EXCEPT ![r] = e]
           /\ UNCHANGED answer
  <2>1. PICK e \in Errors : raised' = [raised EXCEPT ![r] = e]
    BY <1>5
  <2>2. e # None
    BY BoundaryAssumption
  <2>3. raised'[r] # None
    BY <1>1, <2>1, <2>2 DEF TypeOK
  <2>4. TypeOK'
    BY <1>1, <1>5, <2>1 DEF TypeOK, limiter
  <2>5. Entered(r)' /\ RaisedInTime(r)' /\ Answered(r)'
    BY <1>3, <2>3 DEF Entered, RaisedInTime, Answered, Own
  <2>6. RequestInv'
    BY <1>1, <1>5, <2>1, <2>4, <2>5, OthersStay DEF TypeOK
  <2> QED
    BY <1>1, <2>4, <2>6, LimiterStays DEF IInv
<1> QED
  BY <1>4, <1>5

LEMMA HandlePreserves ==
    ASSUME IInv, NEW r \in Requests, Handle(r)
    PROVE  IInv'
<1> USE DEF Handle
<1>1. TypeOK /\ RequestInv /\ LimiterInv
  BY DEF IInv
<1>2. Entered(r) /\ RaisedInTime(r) /\ Answered(r)
  BY <1>1 DEF RequestInv
<1>3. /\ pc[r] = "leaving" /\ pc' = pc /\ asked' = asked /\ context' = context
      /\ asked[r] \in Asked
      /\ context[r] = [id |-> Own(r), locale |-> Negotiate(asked[r].accepts)]
  BY <1>1, <1>2 DEF TypeOK, Entered
<1>4. PICK l \in Locales : l = context[r].locale
  BY <1>1 DEF TypeOK
<1>5. PICK e \in Errors : e = raised[r] /\ Handled(e)
  BY <1>1 DEF TypeOK
<1>6. Response(e, l) \in Answers /\ Speaks(Response(e, l), l)
  BY <1>5, HandlersRespond
<1>7. answer' = [answer EXCEPT ![r] = Response(e, l)]
  BY <1>4, <1>5
<1>8. TypeOK'
  BY <1>1, <1>6, <1>7 DEF TypeOK, limiter
<1>9. l = Negotiate(asked[r].accepts) /\ answer'[r] = Response(e, l)
  BY <1>1, <1>3, <1>4, <1>7 DEF TypeOK
<1>10. Entered(r)' /\ RaisedInTime(r)' /\ Answered(r)'
  BY <1>3, <1>6, <1>9 DEF Entered, RaisedInTime, Answered, Own
<1>11. RequestInv'
  BY <1>1, <1>7, <1>8, <1>10, OthersStay DEF TypeOK
<1> QED
  BY <1>1, <1>8, <1>11, LimiterStays DEF IInv

LEMMA LeaveContextPreserves ==
    ASSUME IInv, NEW r \in Requests, LeaveContext(r)
    PROVE  IInv'
<1>1. TypeOK /\ RequestInv /\ LimiterInv
  BY DEF IInv
<1>2. Entered(r) /\ RaisedInTime(r) /\ Answered(r)
  BY <1>1 DEF RequestInv
<1>3. /\ pc[r] = "leaving" /\ asked' = asked /\ raised' = raised
      /\ asked[r] \in Asked /\ context[r].id = Own(r) /\ Own(r) \in Ids
      /\ context' = [context EXCEPT ![r] = NoContext]
      /\ NoContext \in [id : Ids, locale : Locales]
  BY <1>1, <1>2, OwnIsId DEF LeaveContext, TypeOK, Entered, NoContext, Ids, Locales, DefaultLocale
<1>4. CASE raised[r] = None /\ answer' = [answer EXCEPT ![r].id = context[r].id]
           /\ logged' = [logged EXCEPT ![r] = answer[r].status]
           /\ pc' = [pc EXCEPT ![r] = "answered"]
  <2>1. PICK a \in Answers : a = answer[r] /\ Speaks(a, Negotiate(asked[r].accepts))
    BY <1>2, <1>3, <1>4 DEF Answered
  <2>2. PICK b : b = [a EXCEPT !.id = Own(r)]
    OBVIOUS
  <2>3. b \in Answers /\ b.id = Own(r) /\ b.status = a.status /\ b.body = a.body
        /\ b.status \in 200..599
    BY <1>3, <2>2 DEF Answers
  <2>4. answer' = [answer EXCEPT ![r] = b] /\ logged' = [logged EXCEPT ![r] = b.status]
    <3>1. answer' = [answer EXCEPT ![r] = [answer[r] EXCEPT !.id = Own(r)]]
      BY <1>3, <1>4
    <3>2. [answer[r] EXCEPT !.id = Own(r)] = b
      BY <2>1, <2>2
    <3>3. logged' = [logged EXCEPT ![r] = b.status]
      BY <1>4, <2>1, <2>3
    <3> QED
      BY <3>1, <3>2, <3>3
  <2>5. TypeOK'
    <3>1. answer' \in [Requests -> Answers \cup {None}] /\ logged' \in [Requests -> 0..599]
      BY <1>1, <2>3, <2>4 DEF TypeOK
    <3>2. context' \in [Requests -> [id : Ids, locale : Locales]]
      BY <1>1, <1>3 DEF TypeOK
    <3>3. limiter' = limiter
      BY DEF LeaveContext
    <3> QED
      BY <1>1, <1>3, <1>4, <3>1, <3>2, <3>3 DEF TypeOK, limiter
  <2>6. answer'[r] = b /\ logged'[r] = b.status /\ pc'[r] = "answered"
    BY <1>1, <1>4, <2>4 DEF TypeOK
  <2>7. Speaks(b, Negotiate(asked[r].accepts))
    BY <2>1, <2>3 DEF Speaks
  <2>8. Entered(r)' /\ RaisedInTime(r)' /\ Answered(r)'
    BY <1>3, <1>4, <2>3, <2>6, <2>7 DEF Entered, RaisedInTime, Answered, IsTraced, Own
  <2>9. RequestInv'
    BY <1>1, <1>3, <1>4, <2>4, <2>5, <2>8, OthersStay DEF TypeOK
  <2> QED
    BY <1>1, <2>5, <2>9, LimiterStays DEF LeaveContext, IInv
<1>5. CASE raised[r] # None /\ logged' = [logged EXCEPT ![r] = 500]
           /\ pc' = [pc EXCEPT ![r] = "escaped"] /\ UNCHANGED answer
  <2>1. TypeOK'
    BY <1>1, <1>3, <1>5 DEF LeaveContext, TypeOK, limiter
  <2>2. logged'[r] = 500 /\ pc'[r] = "escaped"
    BY <1>1, <1>5 DEF TypeOK
  <2>3. Entered(r)' /\ RaisedInTime(r)' /\ Answered(r)'
    BY <1>3, <1>5, <2>2 DEF Entered, RaisedInTime, Answered
  <2>4. RequestInv'
    BY <1>1, <1>3, <1>5, <2>1, <2>3, OthersStay DEF TypeOK
  <2> QED
    BY <1>1, <2>1, <2>4, LimiterStays DEF LeaveContext, IInv
<1> QED
  BY <1>4, <1>5 DEF LeaveContext

LEMMA HandleOutsidePreserves ==
    ASSUME IInv, NEW r \in Requests, HandleOutside(r)
    PROVE  IInv'
<1> USE DEF HandleOutside
<1>1. TypeOK /\ RequestInv /\ LimiterInv
  BY DEF IInv
<1>2. Entered(r) /\ RaisedInTime(r) /\ Answered(r)
  BY <1>1 DEF RequestInv
<1>3. PICK l \in Locales : l = context[r].locale
  BY <1>1 DEF TypeOK
<1>4. UnhandledResponse(l) \in Answers /\ UnhandledResponse(l).status = 500
  BY OthersRespond
<1>5. answer' = [answer EXCEPT ![r] = UnhandledResponse(l)]
  BY <1>3
<1>6. TypeOK'
  BY <1>1, <1>4, <1>5 DEF TypeOK, limiter
<1>7. /\ pc[r] = "escaped" /\ pc'[r] = "answered" /\ answer'[r].status = 500
      /\ logged'[r] = 500 /\ raised'[r] # None /\ asked' = asked
  BY <1>1, <1>2, <1>4, <1>5 DEF TypeOK, RaisedInTime
<1>8. Entered(r)' /\ RaisedInTime(r)' /\ Answered(r)'
  BY <1>2, <1>7 DEF Entered, RaisedInTime, Answered
<1>9. RequestInv'
  BY <1>1, <1>5, <1>6, <1>8, OthersStay DEF TypeOK
<1> QED
  BY <1>1, <1>6, <1>9, LimiterStays DEF IInv

LEMMA ForgetPreserves ==
    ASSUME IInv, NEW r \in Requests, Forget(r)
    PROVE  IInv'
<1> USE DEF Forget
<1>1. TypeOK /\ RequestInv /\ LimiterInv
  BY DEF IInv
<1>2. TypeOK'
  BY <1>1 DEF TypeOK, limiter
<1>3. pc'[r] = "idle" /\ raised'[r] = None
  BY <1>1 DEF TypeOK
<1>4. Entered(r)' /\ RaisedInTime(r)' /\ Answered(r)'
  BY <1>3 DEF Entered, RaisedInTime, Answered
<1>5. RequestInv'
  BY <1>1, <1>2, <1>4, OthersStay DEF TypeOK
<1> QED
  BY <1>1, <1>2, <1>5, LimiterStays DEF IInv

LEMMA TickPreserves ==
    ASSUME IInv, Tick
    PROVE  IInv'
<1>1. TypeOK /\ RequestInv /\ LimiterInv /\ Window \in Nat \ {0}
  BY BoundaryAssumption DEF IInv
<1> DEFINE Keys == Limited \X Addresses
<1>2. /\ left' = [k \in Keys |-> IF left[k] = 0 THEN 0 ELSE left[k] - 1]
      /\ admitted' = [k \in Keys |-> Aged(admitted[k])]
      /\ UNCHANGED <<pc, asked, context, raised, answer, logged, count>>
  BY DEF Tick, Aged, Kept
<1>3. ASSUME NEW k \in Keys
      PROVE  /\ left'[k] \in 0..Window
             /\ admitted'[k] \in SUBSET (Ages \X Nat)
             /\ Counted(admitted'[k], left'[k], count'[k])
  <2>1. PICK A \in SUBSET (Ages \X Nat), l \in 0..Window, c \in 0..(Limit + 1) :
           A = admitted[k] /\ l = left[k] /\ c = count[k]
    BY <1>1 DEF TypeOK
  <2>2. Counted(A, l, c)
    BY <1>1, <2>1 DEF LimiterInv
  <2>3. IsFiniteSet(A)
    BY <2>2 DEF Counted
  <2>4. Aged(A) \in SUBSET (Ages \X Nat)
    BY <2>3, Ageing
  <2>5. Counted(Aged(A), IF l = 0 THEN 0 ELSE l - 1, c)
    BY <2>2, TickCounts
  <2>6. admitted'[k] = Aged(A) /\ left'[k] = (IF l = 0 THEN 0 ELSE l - 1) /\ count'[k] = c
    BY <1>2, <2>1
  <2>7. (IF l = 0 THEN 0 ELSE l - 1) \in 0..Window
    BY <1>1
  <2> QED
    BY <2>4, <2>5, <2>6, <2>7
<1>4. TypeOK'
  <2>1. left' \in [Keys -> 0..Window] /\ admitted' \in [Keys -> SUBSET (Ages \X Nat)]
    <3>1. left' = [k \in Keys |-> left'[k]] /\ admitted' = [k \in Keys |-> admitted'[k]]
      BY <1>2
    <3> QED
      BY <3>1, <1>3
  <2> QED
    BY <1>1, <1>2, <2>1 DEF TypeOK
<1>5. RequestInv'
  BY <1>1, <1>2 DEF RequestInv, Entered, RaisedInTime, Answered, IsTraced, Own
<1>6. LimiterInv'
  BY <1>3 DEF LimiterInv
<1> QED
  BY <1>4, <1>5, <1>6 DEF IInv

(* The limiter at the key that a request hits. *)
LEMMA AdmitCounts ==
    ASSUME IInv, NEW r \in Requests, Admit(r), asked[r].endpoint \in Limited
    PROVE  /\ count' \in [Limited \X Addresses -> 0..(Limit + 1)]
           /\ left' \in [Limited \X Addresses -> 0..Window]
           /\ admitted' \in [Limited \X Addresses -> SUBSET (Ages \X Nat)]
           /\ LimiterInv'
           /\ raised' # raised => Recent(<<asked[r].endpoint, asked[r].address>>) >= Limit
<1> DEFINE Keys == Limited \X Addresses
<1>1. TypeOK /\ RequestInv /\ LimiterInv /\ Limit \in Nat \ {0} /\ Window \in Nat \ {0}
  BY BoundaryAssumption DEF IInv
<1>2. asked[r] \in Asked
  BY <1>1 DEF RequestInv, Entered, Admit
<1>3. PICK k \in Keys : k = <<asked[r].endpoint, asked[r].address>>
  BY <1>2 DEF Asked
<1>4. PICK A \in SUBSET (Ages \X Nat), l \in 0..Window, c \in 0..(Limit + 1) :
         A = admitted[k] /\ l = left[k] /\ c = count[k]
  BY <1>1 DEF TypeOK
<1> DEFINE l2 == IF l = 0 THEN Window ELSE l
           c2 == IF l = 0 THEN 1 ELSE Min({c + 1, Limit + 1})
<1>5. count' = [count EXCEPT ![k] = c2] /\ left' = [left EXCEPT ![k] = l2]
  BY <1>3, <1>4 DEF Admit, Hit
<1>6. count'[k] = c2 /\ left'[k] = l2
  BY <1>1, <1>5 DEF TypeOK
<1>7. /\ c2 <= Limit =>
           /\ admitted' = [admitted EXCEPT ![k] = @ \cup {<<0, Cardinality(JustNow(k))>>}]
           /\ raised' = raised
      /\ ~(c2 <= Limit) => admitted' = admitted
  BY <1>3, <1>6 DEF Admit
<1>8. \A j \in Keys : Counted(admitted[j], left[j], count[j])
  BY <1>1 DEF LimiterInv
<1>9. Counted(A, l, c)
  BY <1>4, <1>8
<1>10. PICK m, d : m = l2 /\ d = c2
  OBVIOUS
<1>11. /\ m \in 0..Window /\ d \in 0..(Limit + 1)
       /\ d <= Limit => Counted(Joined(A), m, d)
       /\ d > Limit => Counted(A, m, d) /\ Cardinality(A) >= Limit
  BY <1>9, <1>10, HitCounts
<1>12. d > Limit <=> ~(d <= Limit)
  BY <1>1, <1>11
<1> HIDE DEF l2, c2
<1>13. /\ count' \in [Keys -> 0..(Limit + 1)]
       /\ left' \in [Keys -> 0..Window]
  BY <1>1, <1>5, <1>10, <1>11 DEF TypeOK
<1>14. \A j \in Keys : j # k => count'[j] = count[j] /\ left'[j] = left[j]
  BY <1>1, <1>5 DEF TypeOK
<1>15. CASE d <= Limit
  <2>1. Joined(A) \in SUBSET (Ages \X Nat)
    <3>1. IsFiniteSet(A) /\ \A a \in Now(A) : a[2] < Cardinality(Now(A))
      BY <1>9 DEF Counted
    <3> QED
      BY <3>1, JoinedIsOneMore
  <2>2. admitted' = [admitted EXCEPT ![k] = Joined(A)] /\ raised' = raised
    BY <1>4, <1>7, <1>10, <1>15 DEF Joined, Now, JustNow
  <2>3. admitted' \in [Keys -> SUBSET (Ages \X Nat)]
    BY <1>1, <2>1, <2>2 DEF TypeOK
  <2>4. admitted'[k] = Joined(A) /\ \A j \in Keys : j # k => admitted'[j] = admitted[j]
    BY <1>1, <2>2 DEF TypeOK
  <2>5. ASSUME NEW j \in Keys PROVE Counted(admitted'[j], left'[j], count'[j])
    <3>1. CASE j = k
      BY <3>1, <2>4, <1>6, <1>10, <1>11, <1>15
    <3>2. CASE j # k
      BY <3>2, <2>4, <1>8, <1>14
    <3> QED
      BY <3>1, <3>2
  <2> QED
    BY <2>2, <2>3, <2>5, <1>13 DEF LimiterInv
<1>16. CASE ~(d <= Limit)
  <2>1. admitted' = admitted /\ admitted \in [Keys -> SUBSET (Ages \X Nat)]
    BY <1>1, <1>7, <1>10, <1>16 DEF TypeOK
  <2>2. ASSUME NEW j \in Keys PROVE Counted(admitted'[j], left'[j], count'[j])
    <3>1. CASE j = k
      BY <3>1, <2>1, <1>4, <1>6, <1>10, <1>11, <1>12, <1>16
    <3>2. CASE j # k
      BY <3>2, <2>1, <1>8, <1>14
    <3> QED
      BY <3>1, <3>2
  <2>3. Recent(k) >= Limit
    BY <1>4, <1>11, <1>12, <1>16 DEF Recent
  <2> QED
    BY <2>1, <2>2, <2>3, <1>3, <1>13 DEF LimiterInv
<1> QED
  BY <1>15, <1>16

LEMMA AdmitPreserves ==
    ASSUME IInv, NEW r \in Requests, Admit(r)
    PROVE  IInv'
<1>1. TypeOK /\ RequestInv /\ LimiterInv
  BY DEF IInv
<1>2. Entered(r) /\ RaisedInTime(r) /\ Answered(r)
  BY <1>1 DEF RequestInv
<1>3. /\ pc[r] = "inside" /\ asked' = asked /\ context' = context
      /\ answer' = answer /\ logged' = logged
      /\ raised[r] = None
  BY <1>2 DEF Admit, RaisedInTime
<1>4. PICK e \in Errors : e = Raise("rate", None, {})
  BY DEF Errors
<1>5. e # None
  BY BoundaryAssumption
<1>6. \/ pc' = [pc EXCEPT ![r] = "running"] /\ raised' = raised
      \/ pc' = [pc EXCEPT ![r] = "leaving"] /\ raised' = [raised EXCEPT ![r] = e]
  BY <1>4 DEF Admit
<1>7. /\ pc' \in [Requests -> {"idle", "received", "inside", "running", "leaving",
                               "escaped", "answered"}]
      /\ raised' \in [Requests -> Errors \cup {None}]
      /\ \/ pc'[r] = "running" /\ raised'[r] = None
         \/ pc'[r] = "leaving" /\ raised'[r] # None
      /\ \A q \in Requests \ {r} : pc'[q] = pc[q] /\ raised'[q] = raised[q]
  <2>1. /\ pc \in [Requests -> {"idle", "received", "inside", "running", "leaving",
                                 "escaped", "answered"}]
        /\ raised \in [Requests -> Errors \cup {None}]
    BY <1>1 DEF TypeOK
  <2>2. CASE pc' = [pc EXCEPT ![r] = "running"] /\ raised' = raised
    BY <2>1, <2>2, <1>3
  <2>3. CASE pc' = [pc EXCEPT ![r] = "leaving"] /\ raised' = [raised EXCEPT ![r] = e]
    <3>1. raised' \in [Requests -> Errors \cup {None}]
      BY <2>1, <2>3
    <3>2. raised'[r] # None /\ \A q \in Requests \ {r} : raised'[q] = raised[q]
      BY <2>1, <2>3, <1>5
    <3> QED
      BY <3>1, <3>2, <2>1, <2>3
  <2> QED
    BY <2>2, <2>3, <1>6
<1>8. /\ count' \in [Limited \X Addresses -> 0..(Limit + 1)]
      /\ left' \in [Limited \X Addresses -> 0..Window]
      /\ admitted' \in [Limited \X Addresses -> SUBSET (Ages \X Nat)]
      /\ LimiterInv'
  <2>1. CASE asked[r].endpoint \in Limited
    BY <2>1, AdmitCounts
  <2>2. CASE asked[r].endpoint \notin Limited
    <3>1. UNCHANGED limiter
      BY <2>2 DEF Admit
    <3> QED
      BY <3>1, <1>1, LimiterStays DEF TypeOK, limiter
  <2> QED
    BY <2>1, <2>2
<1>9. TypeOK'
  <2>1. \A q \in Requests :
          pc'[q] \in {"idle", "received", "escaped", "answered"} => context'[q] = NoContext
    BY <1>1, <1>3, <1>7 DEF TypeOK
  <2> QED
    BY <1>1, <1>3, <1>7, <1>8, <2>1 DEF TypeOK
<1>10. Entered(r)' /\ RaisedInTime(r)' /\ Answered(r)'
  BY <1>2, <1>3, <1>7 DEF Entered, RaisedInTime, Answered, Own
<1>11. RequestInv'
  BY <1>3, <1>7, <1>9, <1>10, OthersStay
<1> QED
  BY <1>8, <1>9, <1>11 DEF IInv

LEMMA NextPreserves ==
    ASSUME IInv, [Next]_vars
    PROVE  IInv'
<1>1. CASE UNCHANGED vars
  <2>1. TypeOK' /\ RequestInv' /\ LimiterInv'
    BY <1>1 DEF vars, limiter, IInv, TypeOK, RequestInv, LimiterInv, Entered, RaisedInTime,
         Answered, IsTraced, Own
  <2> QED
    BY <2>1 DEF IInv
<1>2. CASE Tick
  BY <1>2, TickPreserves
<1>3. ASSUME NEW r \in Requests, Step(r)
      PROVE  IInv'
  <2>1. CASE Receive(r)
    BY <2>1, ReceivePreserves
  <2>2. CASE EnterContext(r)
    BY <2>2, EnterContextPreserves
  <2>3. CASE Refuse(r)
    BY <2>3, RefusePreserves
  <2>4. CASE Admit(r)
    BY <2>4, AdmitPreserves
  <2>5. CASE Run(r)
    BY <2>5, RunPreserves
  <2>6. CASE Handle(r)
    BY <2>6, HandlePreserves
  <2>7. CASE LeaveContext(r)
    BY <2>7, LeaveContextPreserves
  <2>8. CASE HandleOutside(r)
    BY <2>8, HandleOutsidePreserves
  <2>9. CASE Forget(r)
    BY <2>9, ForgetPreserves
  <2> QED
    BY <1>3, <2>1, <2>2, <2>3, <2>4, <2>5, <2>6, <2>7, <2>8, <2>9 DEF Step
<1> QED
  BY <1>1, <1>2, <1>3 DEF Next

LEMMA Inductive == Spec => []IInv
<1>1. IInv /\ [Next]_vars => IInv'
  BY NextPreserves
<1> QED
  BY <1>1, InitEstablishes, PTL DEF Spec

-----------------------------------------------------------------------------
(* What follows *)

(* Requests, their tasks' contexts and the limiter's counters stay what    *)
(* middleware.py, exceptions/handlers.py and rate_limiter.py take them     *)
(* for; no task keeps the context of a request that has left it.           *)
THEOREM TypeCorrect == Spec => []TypeOK
<1>1. IInv => TypeOK
  BY DEF IInv
<1> QED
  BY <1>1, Inductive, PTL

(* For every number of requests at once: an answer that a handler inside   *)
(* the middleware made, or that was returned, has the id of its own        *)
(* request and is logged with the status sent; of any other at least the   *)
(* status is right (RequestContextMiddleware, unhandled_exception_handler). *)
THEOREM HandledAreTraced == Spec => []HandledAnswersTraced
<1>1. IInv => HandledAnswersTraced
  BY DEF IInv, RequestInv, Answered, HandledAnswersTraced
<1> QED
  BY <1>1, Inductive, PTL

(* For every Accept-Language header and every error that is handled: all   *)
(* text is in the supported language that the header weighs most           *)
(* (negotiate_locale, the exception handlers).                             *)
THEOREM AnswersSpeak == Spec => []AnswersSpeakToTheClient
<1>1. ASSUME IInv PROVE AnswersSpeakToTheClient
  <2> SUFFICES ASSUME NEW r \in Requests, pc[r] = "answered", raised[r] = None,
                      NEW text \in {answer[r].body.message} \cup answer[r].body.field_errors
               PROVE  text[2] \in Phrases \/ WantedMost(text[1], asked[r].accepts)
    BY DEF AnswersSpeakToTheClient
  <2>1. Entered(r) /\ Answered(r) /\ TypeOK
    BY <1>1 DEF IInv, RequestInv
  <2>2. asked[r] \in Asked /\ Speaks(answer[r], Negotiate(asked[r].accepts))
    BY <2>1 DEF Entered, Answered
  <2>3. WantedMost(Negotiate(asked[r].accepts), asked[r].accepts)
    BY <2>1, <2>2, OwnIsId
  <2>4. text[2] \in Phrases \/ text[1] = Negotiate(asked[r].accepts)
    BY <2>2 DEF Speaks
  <2> QED
    BY <2>3, <2>4
<1> QED
  BY <1>1, Inductive, PTL

(* For every limit and window: within any Window ticks, an address gets    *)
(* fewer than twice the limit through an endpoint's fixed-window limiter.  *)
THEOREM BelowTwiceTheLimit == Spec => []LessThanTwiceTheLimit
<1>1. ASSUME IInv PROVE LessThanTwiceTheLimit
  <2> SUFFICES ASSUME NEW k \in Limited \X Addresses
               PROVE  Recent(k) < 2 * Limit
    BY DEF LessThanTwiceTheLimit
  <2>1. PICK A \in SUBSET (Ages \X Nat), l \in 0..Window, c \in 0..(Limit + 1) :
           A = admitted[k] /\ l = left[k] /\ c = count[k]
    BY <1>1 DEF IInv, TypeOK
  <2>2. Counted(A, l, c)
    BY <1>1, <2>1 DEF IInv, LimiterInv
  <2> QED
    BY <2>1, <2>2, CountedBound DEF Recent
<1> QED
  BY <1>1, Inductive, PTL

(* The limiter refuses a request only where the limit was let through      *)
(* within the last Window ticks: its own refusals do not prolong it.       *)
THEOREM RefusedForCause == Spec => RejectedForCause
<1> DEFINE Caused ==
        \A r \in Requests : ~IsRateError(raised[r]) /\ IsRateError(raised'[r]) =>
            Recent(<<asked[r].endpoint, asked[r].address>>) >= Limit
<1>1. ASSUME IInv, [Next]_vars PROVE Caused
  <2> SUFFICES ASSUME NEW q \in Requests,
                      ~IsRateError(raised[q]), IsRateError(raised'[q])
               PROVE  Recent(<<asked[q].endpoint, asked[q].address>>) >= Limit
    OBVIOUS
  <2>1. raised'[q] # raised[q]
    OBVIOUS
  <2>2. TypeOK
    BY <1>1 DEF IInv
  <2>3. PICK r \in Requests : Step(r)
    BY <1>1, <2>1 DEF Next, Tick, vars
  <2>4. /\ r = q /\ (\/ Refuse(q) \/ Admit(q) \/ Run(q) \/ Handle(q) \/ Forget(q))
    BY <2>1, <2>2, <2>3 DEF Step, Receive, EnterContext, Refuse, Admit, Run, Handle,
         LeaveContext, HandleOutside, Forget, TypeOK
  <2>5. ~Refuse(q) /\ ~Run(q)
    BY <2>1, <2>2 DEF Refuse, Run, IsRateError, TypeOK
  <2>6. ~Handle(q) /\ ~Forget(q)
    BY <2>1, <2>2 DEF Handle, Forget, IsRateError, TypeOK
  <2>7. Admit(q) /\ asked[q].endpoint \in Limited
    BY <2>1, <2>4, <2>5, <2>6 DEF Admit
  <2> QED
    BY <1>1, <2>1, <2>7, AdmitCounts
<1>2. Spec => [][Caused]_vars
  <2>1. IInv /\ [Next]_vars => [Caused]_vars
    BY <1>1
  <2> QED
    BY <2>1, Inductive, PTL DEF Spec
<1> QED
  BY <1>2 DEF RejectedForCause

===============================================================================
