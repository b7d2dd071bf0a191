-------------------------- MODULE LoginRequestsProofs -------------------------
(***************************************************************************)
(* Proofs about LoginRequests for any ids, requests and number of          *)
(* attempts: a device has one live code, and a code opens one session and  *)
(* answers MaxAttempts wrong guesses, and for each overlap of two          *)
(* verifications of it at most one more.                                   *)
(***************************************************************************)
EXTENDS LoginRequests, FiniteSetTheorems, TLAPS

Live == {i \in Ids : store[i] # Absent} \ revived
Created == {"created", "cleanup"}
Compares == {"wrong", "right", "set_left", "set_consumed"}

(* What each stage of a request knows of its id and of what it read. *)
StageFacts ==
    \A r \in Requests :
        /\ pc[r] \in Created => id[r] \in Ids \ answered
        /\ pc[r] \in Verifies => id[r] \in answered
        /\ pc[r] \in Compares => copy[r] \in Documents /\ ~copy[r].consumed /\ copy[r].left > 0
        /\ pc[r] \in {"set_left", "set_consumed"} => raw[r] \in Documents

(* The row of the device has one holder, and a new id one login. *)
OneHolder == \A r, q \in Requests : pc[r] \in HoldsDevice /\ pc[q] \in HoldsDevice => r = q
NewIds == \A r, q \in Requests : pc[r] \in Created /\ pc[q] \in Created /\ id[r] = id[q] => r = q

(* What is live is pending, and the holder of the device knows of it until *)
(* it has deleted it.                                                      *)
LivePending ==
    /\ Live \subseteq pending
    /\ \A i, j \in Live : i = j
    /\ \A r \in Requests :
        /\ pc[r] = "deleting" => Live \subseteq listed[r]
        /\ pc[r] \in {"clearing", "creating"} => Live = {}
        /\ pc[r] = "cleanup" => store[id[r]] = Absent

(* How many verifications of an id are under way. *)
Flights(i) == Cardinality(Verifying(i))
FlightsFinite == \A i \in Ids : IsFiniteSet(Verifying(i))

(* Nothing is known of an id before a login has answered it. *)
Untouched == \A i \in Ids \ answered : accepted[i] = 0 /\ wrong[i] = 0

(* Each verification under way may open a session; when a document could   *)
(* let in another and nobody is about to mark it, one of the sessions that *)
(* the overlaps allow is left.                                             *)
SessionsOf(i) ==
    /\ accepted[i] + Flights(i) <= 1 + overlaps[i]
    /\ /\ store[i] # Absent /\ ~store[i].consumed
       /\ \A r \in Verifying(i) : pc[r] \notin Compares
       => accepted[i] + Flights(i) <= overlaps[i]

Sessions == \A i \in Ids : SessionsOf(i)

(* Each verification under way may answer a wrong code and then store the  *)
(* count that it read, less one.                                           *)
GuessesOf(i) ==
    /\ wrong[i] <= MaxAttempts + overlaps[i]
    /\ \A r \in Verifying(i) :
          /\ pc[r] \in Compares =>
                wrong[i] + copy[r].left + Flights(i) <= MaxAttempts + overlaps[i] + 1
          /\ pc[r] \in {"set_left", "set_consumed"} =>
                wrong[i] + raw[r].left + Flights(i) <= MaxAttempts + overlaps[i] + 1
    /\ store[i] # Absent =>
          /\ wrong[i] + store[i].left + Flights(i) <= MaxAttempts + overlaps[i] + 1
          /\ wrong[i] + store[i].left <= MaxAttempts + overlaps[i]

Guesses == \A i \in Ids : GuessesOf(i)

IInv == TypeOK /\ StageFacts /\ OneHolder /\ NewIds /\ LivePending
        /\ FlightsFinite /\ Untouched /\ Sessions /\ Guesses

-----------------------------------------------------------------------------
LEMMA InitIInv == Init => IInv
<1> SUFFICES ASSUME Init PROVE IInv
  OBVIOUS
<1> USE AbsentAssumption, AttemptsAssumption, OverlapsAssumption DEF Init
<1>1. TypeOK /\ StageFacts /\ OneHolder /\ NewIds /\ LivePending /\ Untouched
  BY DEF TypeOK, StageFacts, OneHolder, NewIds, LivePending, Live, Untouched,
         HoldsDevice, Verifies, Created, Compares
<1>2. \A i \in Ids : Verifying(i) = {} /\ IsFiniteSet(Verifying(i)) /\ Flights(i) = 0
  BY FS_EmptySet DEF Verifying, Flights, Verifies
<1>3. FlightsFinite /\ Sessions /\ Guesses
  BY <1>2 DEF FlightsFinite, Sessions, SessionsOf, Guesses, GuessesOf
<1> QED
  BY <1>1, <1>3 DEF IInv

(* One attempt is left when a code is compared, so one may be taken off.   *)
LEMMA TypeStep == IInv /\ [Next]_vars => TypeOK'
<1> SUFFICES ASSUME IInv, [Next]_vars
             PROVE  TypeOK'
  OBVIOUS
<1> USE AbsentAssumption, AttemptsAssumption DEF IInv, TypeOK, StageFacts, Created, Compares, Documents, HoldsDevice, Verifies, Go, End, ghosts
<1>1. ASSUME NEW r \in Requests, Login(r) PROVE TypeOK'
  BY <1>1 DEF Login
<1>2. ASSUME NEW r \in Requests, DeleteListed(r) PROVE TypeOK'
  BY <1>2 DEF DeleteListed
<1>3. ASSUME NEW r \in Requests, ClearPending(r) PROVE TypeOK'
  BY <1>3 DEF ClearPending
<1>4. ASSUME NEW r \in Requests, NEW i \in Ids, CreateLoginRequest(r, i) PROVE TypeOK'
  BY <1>4 DEF CreateLoginRequest, Fresh
<1>5. ASSUME NEW r \in Requests, AnswerLogin(r) PROVE TypeOK'
  BY <1>5 DEF AnswerLogin
<1>6. ASSUME NEW r \in Requests, LoginFails(r) PROVE TypeOK'
  BY <1>6 DEF LoginFails
<1>7. ASSUME NEW r \in Requests, ForgetPending(r) PROVE TypeOK'
  BY <1>7 DEF ForgetPending
<1>8. ASSUME NEW r \in Requests, NEW i \in Ids, NEW right \in BOOLEAN, GetLoginRequest(r, i, right) PROVE TypeOK'
  BY <1>8 DEF GetLoginRequest, Acceptable
<1>9. ASSUME NEW r \in Requests, PatchRead(r) PROVE TypeOK'
  BY <1>9 DEF PatchRead
<1>10. ASSUME NEW r \in Requests, NothingToPatch(r) PROVE TypeOK'
  <2>1. CASE pc[r] = "wrong"
    <3>1. id[r] \in Ids /\ wrong' = [wrong EXCEPT ![id[r]] = @ + 1]
      BY <1>10, <2>1 DEF NothingToPatch
    <3>2. wrong' \in [Ids -> Nat]
      BY <3>1
    <3>3. UNCHANGED <<store, pending, expired, answered, accepted, overlaps, revived>>
      BY <1>10 DEF NothingToPatch
    <3> HIDE DEF Documents
    <3> QED
      BY <1>10, <2>1, <3>2, <3>3 DEF NothingToPatch
  <2>2. CASE pc[r] = "right"
    BY <1>10, <2>2 DEF NothingToPatch
  <2> QED
    BY <1>10, <2>1, <2>2 DEF NothingToPatch
<1>11. ASSUME NEW r \in Requests, PatchLeft(r) PROVE TypeOK'
  BY <1>11 DEF PatchLeft, SetDocument
<1>12. ASSUME NEW r \in Requests, PatchConsumed(r) PROVE TypeOK'
  <2>1. raw[r] \in Documents /\ id[r] \in Ids
    BY <1>12 DEF PatchConsumed
  <2>2. [raw[r] EXCEPT !.consumed = TRUE] \in Documents
    BY <2>1
  <2>3. store' \in [Ids -> Documents \cup {Absent}] /\ revived' \subseteq Ids
    BY <1>12, <2>1, <2>2 DEF PatchConsumed, SetDocument
  <2> QED
    BY <1>12, <2>3 DEF PatchConsumed
<1>13. ASSUME NEW r \in Requests, Accept(r) PROVE TypeOK'
  BY <1>13 DEF Accept
<1>14. ASSUME NEW r \in Requests, Fail(r) PROVE TypeOK'
  BY <1>14 DEF Fail
<1>15. ASSUME NEW i \in Ids, ExpireDocument(i) PROVE TypeOK'
  BY <1>15 DEF ExpireDocument
<1>16. ASSUME NEW i \in Ids, PassExpiry(i) PROVE TypeOK'
  BY <1>16 DEF PassExpiry
<1>17. ASSUME ExpirePending PROVE TypeOK'
  BY <1>17 DEF ExpirePending
<1>18. ASSUME UNCHANGED vars PROVE TypeOK'
  BY <1>18 DEF vars, ghosts
<1> QED
  BY <1>1, <1>2, <1>3, <1>4, <1>5, <1>6, <1>7, <1>8, <1>9, <1>10, <1>11, <1>12, <1>13, <1>14,
     <1>15, <1>16, <1>17, <1>18 DEF Next

(* An id that a login is about to answer was drawn by it alone, so no      *)
(* verification knows it; a verification keeps what it read.               *)
LEMMA StageStep == IInv /\ [Next]_vars => StageFacts'
<1> SUFFICES ASSUME IInv, [Next]_vars
             PROVE  StageFacts'
  OBVIOUS
<1> USE AbsentAssumption, AttemptsAssumption DEF IInv, TypeOK, StageFacts, NewIds, HoldsDevice, Verifies, Created, Compares, Documents, Go, End, ghosts
<1>1. ASSUME NEW r \in Requests, Login(r) PROVE StageFacts'
  BY <1>1 DEF Login
<1>2. ASSUME NEW r \in Requests, DeleteListed(r) PROVE StageFacts'
  BY <1>2 DEF DeleteListed
<1>3. ASSUME NEW r \in Requests, ClearPending(r) PROVE StageFacts'
  BY <1>3 DEF ClearPending
<1>4. ASSUME NEW r \in Requests, NEW i \in Ids, CreateLoginRequest(r, i) PROVE StageFacts'
  BY <1>4 DEF CreateLoginRequest, Fresh
<1>5. ASSUME NEW r \in Requests, AnswerLogin(r) PROVE StageFacts'
  BY <1>5 DEF AnswerLogin
<1>6. ASSUME NEW r \in Requests, LoginFails(r) PROVE StageFacts'
  BY <1>6 DEF LoginFails
<1>7. ASSUME NEW r \in Requests, ForgetPending(r) PROVE StageFacts'
  BY <1>7 DEF ForgetPending
<1>8. ASSUME NEW r \in Requests, NEW i \in Ids, NEW right \in BOOLEAN, GetLoginRequest(r, i, right) PROVE StageFacts'
  BY <1>8 DEF GetLoginRequest, Acceptable
<1>9. ASSUME NEW r \in Requests, PatchRead(r) PROVE StageFacts'
  BY <1>9 DEF PatchRead
<1>10. ASSUME NEW r \in Requests, NothingToPatch(r) PROVE StageFacts'
  BY <1>10 DEF NothingToPatch
<1>11. ASSUME NEW r \in Requests, PatchLeft(r) PROVE StageFacts'
  BY <1>11 DEF PatchLeft, SetDocument
<1>12. ASSUME NEW r \in Requests, PatchConsumed(r) PROVE StageFacts'
  BY <1>12 DEF PatchConsumed, SetDocument
<1>13. ASSUME NEW r \in Requests, Accept(r) PROVE StageFacts'
  BY <1>13 DEF Accept
<1>14. ASSUME NEW r \in Requests, Fail(r) PROVE StageFacts'
  BY <1>14 DEF Fail
<1>15. ASSUME NEW i \in Ids, ExpireDocument(i) PROVE StageFacts'
  BY <1>15 DEF ExpireDocument
<1>16. ASSUME NEW i \in Ids, PassExpiry(i) PROVE StageFacts'
  BY <1>16 DEF PassExpiry
<1>17. ASSUME ExpirePending PROVE StageFacts'
  BY <1>17 DEF ExpirePending
<1>18. ASSUME UNCHANGED vars PROVE StageFacts'
  BY <1>18 DEF vars, ghosts
<1> QED
  BY <1>1, <1>2, <1>3, <1>4, <1>5, <1>6, <1>7, <1>8, <1>9, <1>10, <1>11, <1>12, <1>13, <1>14,
     <1>15, <1>16, <1>17, <1>18 DEF Next

(* The upsert waits for the device's row, and a new id is no request's.    *)
LEMMA HolderStep == IInv /\ [Next]_vars => (OneHolder /\ NewIds)'
<1> SUFFICES ASSUME IInv, [Next]_vars
             PROVE  (OneHolder /\ NewIds)'
  OBVIOUS
<1> USE AbsentAssumption, AttemptsAssumption DEF IInv, TypeOK, OneHolder, NewIds, StageFacts, DeviceFree, HoldsDevice, Verifies, Created, Go, End, ghosts
<1>1. ASSUME NEW r \in Requests, Login(r) PROVE (OneHolder /\ NewIds)'
  BY <1>1 DEF Login
<1>2. ASSUME NEW r \in Requests, DeleteListed(r) PROVE (OneHolder /\ NewIds)'
  BY <1>2 DEF DeleteListed
<1>3. ASSUME NEW r \in Requests, ClearPending(r) PROVE (OneHolder /\ NewIds)'
  BY <1>3 DEF ClearPending
<1>4. ASSUME NEW r \in Requests, NEW i \in Ids, CreateLoginRequest(r, i) PROVE (OneHolder /\ NewIds)'
  BY <1>4 DEF CreateLoginRequest, Fresh
<1>5. ASSUME NEW r \in Requests, AnswerLogin(r) PROVE (OneHolder /\ NewIds)'
  BY <1>5 DEF AnswerLogin
<1>6. ASSUME NEW r \in Requests, LoginFails(r) PROVE (OneHolder /\ NewIds)'
  BY <1>6 DEF LoginFails
<1>7. ASSUME NEW r \in Requests, ForgetPending(r) PROVE (OneHolder /\ NewIds)'
  BY <1>7 DEF ForgetPending
<1>8. ASSUME NEW r \in Requests, NEW i \in Ids, NEW right \in BOOLEAN, GetLoginRequest(r, i, right) PROVE (OneHolder /\ NewIds)'
  BY <1>8 DEF GetLoginRequest, Acceptable
<1>9. ASSUME NEW r \in Requests, PatchRead(r) PROVE (OneHolder /\ NewIds)'
  BY <1>9 DEF PatchRead
<1>10. ASSUME NEW r \in Requests, NothingToPatch(r) PROVE (OneHolder /\ NewIds)'
  BY <1>10 DEF NothingToPatch
<1>11. ASSUME NEW r \in Requests, PatchLeft(r) PROVE (OneHolder /\ NewIds)'
  BY <1>11 DEF PatchLeft, SetDocument
<1>12. ASSUME NEW r \in Requests, PatchConsumed(r) PROVE (OneHolder /\ NewIds)'
  BY <1>12 DEF PatchConsumed, SetDocument
<1>13. ASSUME NEW r \in Requests, Accept(r) PROVE (OneHolder /\ NewIds)'
  BY <1>13 DEF Accept
<1>14. ASSUME NEW r \in Requests, Fail(r) PROVE (OneHolder /\ NewIds)'
  BY <1>14 DEF Fail
<1>15. ASSUME NEW i \in Ids, ExpireDocument(i) PROVE (OneHolder /\ NewIds)'
  BY <1>15 DEF ExpireDocument
<1>16. ASSUME NEW i \in Ids, PassExpiry(i) PROVE (OneHolder /\ NewIds)'
  BY <1>16 DEF PassExpiry
<1>17. ASSUME ExpirePending PROVE (OneHolder /\ NewIds)'
  BY <1>17 DEF ExpirePending
<1>18. ASSUME UNCHANGED vars PROVE (OneHolder /\ NewIds)'
  BY <1>18 DEF vars, ghosts
<1> QED
  BY <1>1, <1>2, <1>3, <1>4, <1>5, <1>6, <1>7, <1>8, <1>9, <1>10, <1>11, <1>12, <1>13, <1>14,
     <1>15, <1>16, <1>17, <1>18 DEF Next

(* Deleting what is listed leaves nothing live; creating adds one document *)
(* to none; a patch of a deleted document revives it.                      *)
LEMMA LiveStep == IInv /\ [Next]_vars => LivePending'
<1> SUFFICES ASSUME IInv, [Next]_vars
             PROVE  LivePending'
  OBVIOUS
<1> USE AbsentAssumption, AttemptsAssumption DEF IInv, TypeOK, LivePending, Live, OneHolder, NewIds, StageFacts, DeviceFree, HoldsDevice, Verifies, Created, Go, End, ghosts
<1>1. ASSUME NEW r \in Requests, Login(r) PROVE LivePending'
  BY <1>1 DEF Login
<1>2. ASSUME NEW r \in Requests, DeleteListed(r) PROVE LivePending'
  BY <1>2 DEF DeleteListed
<1>3. ASSUME NEW r \in Requests, ClearPending(r) PROVE LivePending'
  BY <1>3 DEF ClearPending
<1>4. ASSUME NEW r \in Requests, NEW i \in Ids, CreateLoginRequest(r, i) PROVE LivePending'
  BY <1>4 DEF CreateLoginRequest, Fresh
<1>5. ASSUME NEW r \in Requests, AnswerLogin(r) PROVE LivePending'
  BY <1>5 DEF AnswerLogin
<1>6. ASSUME NEW r \in Requests, LoginFails(r) PROVE LivePending'
  BY <1>6 DEF LoginFails
<1>7. ASSUME NEW r \in Requests, ForgetPending(r) PROVE LivePending'
  BY <1>7 DEF ForgetPending
<1>8. ASSUME NEW r \in Requests, NEW i \in Ids, NEW right \in BOOLEAN, GetLoginRequest(r, i, right) PROVE LivePending'
  BY <1>8 DEF GetLoginRequest, Acceptable
<1>9. ASSUME NEW r \in Requests, PatchRead(r) PROVE LivePending'
  BY <1>9 DEF PatchRead
<1>10. ASSUME NEW r \in Requests, NothingToPatch(r) PROVE LivePending'
  BY <1>10 DEF NothingToPatch
<1>11. ASSUME NEW r \in Requests, PatchLeft(r) PROVE LivePending'
  BY <1>11 DEF PatchLeft, SetDocument
<1>12. ASSUME NEW r \in Requests, PatchConsumed(r) PROVE LivePending'
  BY <1>12 DEF PatchConsumed, SetDocument
<1>13. ASSUME NEW r \in Requests, Accept(r) PROVE LivePending'
  BY <1>13 DEF Accept
<1>14. ASSUME NEW r \in Requests, Fail(r) PROVE LivePending'
  BY <1>14 DEF Fail
<1>15. ASSUME NEW i \in Ids, ExpireDocument(i) PROVE LivePending'
  BY <1>15 DEF ExpireDocument
<1>16. ASSUME NEW i \in Ids, PassExpiry(i) PROVE LivePending'
  BY <1>16 DEF PassExpiry
<1>17. ASSUME ExpirePending PROVE LivePending'
  BY <1>17 DEF ExpirePending
<1>18. ASSUME UNCHANGED vars PROVE LivePending'
  BY <1>18 DEF vars, ghosts
<1> QED
  BY <1>1, <1>2, <1>3, <1>4, <1>5, <1>6, <1>7, <1>8, <1>9, <1>10, <1>11, <1>12, <1>13, <1>14,
     <1>15, <1>16, <1>17, <1>18 DEF Next

(* The verifications under way: a read adds one, an answer or a failure    *)
(* takes one away, and no other step changes them.                         *)
Staying == \A i \in Ids : Verifying(i)' = Verifying(i)

Joining(r, i) ==
    /\ r \notin Verifying(i) /\ Verifying(i)' = Verifying(i) \cup {r}
    /\ \A j \in Ids \ {i} : Verifying(j)' = Verifying(j)

Leaving(r, i) ==
    /\ r \in Verifying(i) /\ Verifying(i)' = Verifying(i) \ {r}
    /\ \A j \in Ids \ {i} : Verifying(j)' = Verifying(j)

(* How each of these changes their number.                                 *)
LEMMA CountStaying ==
    ASSUME IInv, Staying
    PROVE  FlightsFinite' /\ \A i \in Ids : Flights(i) \in Nat /\ Flights(i)' = Flights(i)
BY FS_CardinalityType DEF IInv, FlightsFinite, Flights, Staying

LEMMA CountJoining ==
    ASSUME IInv, NEW r, NEW i \in Ids, Joining(r, i)
    PROVE  /\ FlightsFinite'
           /\ \A j \in Ids : Flights(j) \in Nat
           /\ Flights(i)' = Flights(i) + 1
           /\ Verifying(i) = {} <=> Flights(i) = 0
           /\ \A j \in Ids \ {i} : Flights(j)' = Flights(j)
BY FS_CardinalityType, FS_AddElement, FS_EmptySet DEF IInv, FlightsFinite, Flights, Joining

LEMMA CountLeaving ==
    ASSUME IInv, NEW r, NEW i \in Ids, Leaving(r, i)
    PROVE  /\ FlightsFinite'
           /\ \A j \in Ids : Flights(j) \in Nat
           /\ Flights(i) >= 1 /\ Flights(i)' = Flights(i) - 1
           /\ \A j \in Ids \ {i} : Flights(j)' = Flights(j)
<1>1. IsFiniteSet(Verifying(i)) /\ \A j \in Ids : Flights(j) \in Nat
  BY FS_CardinalityType DEF IInv, FlightsFinite, Flights, Leaving
<1>2. Flights(i)' = Flights(i) - 1 /\ IsFiniteSet(Verifying(i) \ {r})
  BY <1>1, FS_RemoveElement DEF Flights, Leaving
<1>3. Verifying(i) # {} /\ Flights(i) # 0
  BY <1>1, FS_EmptySet DEF Flights, Leaving
<1>4. FlightsFinite'
  BY <1>2 DEF IInv, FlightsFinite, Leaving
<1>5. \A j \in Ids \ {i} : Flights(j)' = Flights(j)
  BY DEF Flights, Leaving
<1> QED
  BY <1>1, <1>2, <1>3, <1>4, <1>5

(* Who is among the verifications of an id; there is none before an answer.*)
LEMMA Flight ==
    ASSUME IInv, NEW i \in Ids
    PROVE  /\ \A r \in Verifying(i) : r \in Requests /\ pc[r] \in Verifies /\ id[r] = i
           /\ \A r \in Requests : pc[r] \in Verifies /\ id[r] = i => r \in Verifying(i)
           /\ i \notin answered => Verifying(i) = {} /\ Flights(i) = 0
           /\ Verifying(i) # {} => Flights(i) >= 1
<1>1. Flights(i) \in Nat /\ (Verifying(i) = {} <=> Flights(i) = 0)
  BY FS_CardinalityType, FS_EmptySet DEF IInv, FlightsFinite, Flights
<1> QED
  BY <1>1 DEF IInv, StageFacts, Verifying

Counts == FlightsFinite /\ Untouched /\ Sessions /\ Guesses

(* A wrong code takes one from what its verification had read; a session   *)
(* takes the verification with it.  What a verification writes back was    *)
(* read while it was under way, when an overlap had been counted for each  *)
(* of the others.                                                          *)
LEMMA CountsStep == IInv /\ [Next]_vars => Counts'
<1> SUFFICES ASSUME IInv, [Next]_vars PROVE Counts'
  OBVIOUS
<1> USE AbsentAssumption, AttemptsAssumption, OverlapsAssumption
    DEF HoldsDevice, Verifies, Created, Compares, Documents, Go, End, ghosts
<1>0. \A j \in Ids :
        /\ \A q \in Verifying(j) : q \in Requests /\ pc[q] \in Verifies /\ id[q] = j
        /\ \A q \in Requests : pc[q] \in Verifies /\ id[q] = j => q \in Verifying(j)
        /\ j \notin answered => Verifying(j) = {} /\ Flights(j) = 0
        /\ Verifying(j) # {} => Flights(j) >= 1
  BY Flight
<1>1. ASSUME NEW r \in Requests, Login(r) PROVE Counts'
  <2>1. Staying
    BY <1>1 DEF Staying, Verifying, Login, IInv, TypeOK, StageFacts
  <2>2. FlightsFinite' /\ \A j \in Ids : Flights(j) \in Nat /\ Flights(j)' = Flights(j)
    BY <2>1, CountStaying
  <2>3. Untouched'
    BY <1>1 DEF Login, IInv, TypeOK, StageFacts, Untouched
  <2>4. Sessions'
    BY <1>1, <2>1, <2>2, <1>0 DEF Staying, Login, IInv, TypeOK, StageFacts, Untouched,
       Sessions, SessionsOf
  <2>5. Guesses'
    BY <1>1, <2>1, <2>2, <1>0 DEF Staying, Login, IInv, TypeOK, StageFacts, Untouched,
       Guesses, GuessesOf
  <2> QED
    BY <2>2, <2>3, <2>4, <2>5 DEF Counts
<1>2. ASSUME NEW r \in Requests, DeleteListed(r) PROVE Counts'
  <2>1. Staying
    BY <1>2 DEF Staying, Verifying, DeleteListed, IInv, TypeOK, StageFacts
  <2>2. FlightsFinite' /\ \A j \in Ids : Flights(j) \in Nat /\ Flights(j)' = Flights(j)
    BY <2>1, CountStaying
  <2>3. Untouched'
    BY <1>2 DEF DeleteListed, IInv, TypeOK, StageFacts, Untouched
  <2>4. Sessions'
    <3> SUFFICES ASSUME NEW j \in Ids PROVE SessionsOf(j)'
      BY DEF Sessions
    <3>1. SessionsOf(j) /\ Flights(j) \in Nat
      BY <2>2 DEF IInv, Sessions
    <3>2. CASE j \notin listed[r]
      BY <1>2, <2>1, <3>1, <2>2, <1>0, <3>2 DEF Staying, DeleteListed, IInv, TypeOK,
         StageFacts, SessionsOf
    <3>3. CASE j \in listed[r]
      BY <1>2, <2>1, <3>1, <2>2, <1>0, <3>3 DEF Staying, DeleteListed, IInv, TypeOK,
         StageFacts, SessionsOf
    <3> QED
      BY <3>2, <3>3
  <2>5. Guesses'
    <3> SUFFICES ASSUME NEW j \in Ids PROVE GuessesOf(j)'
      BY DEF Guesses
    <3>1. GuessesOf(j) /\ Flights(j) \in Nat
      BY <2>2 DEF IInv, Guesses
    <3>2. CASE j \notin listed[r]
      BY <1>2, <2>1, <3>1, <2>2, <1>0, <3>2 DEF Staying, DeleteListed, IInv, TypeOK,
         StageFacts, GuessesOf
    <3>3. CASE j \in listed[r]
      BY <1>2, <2>1, <3>1, <2>2, <1>0, <3>3 DEF Staying, DeleteListed, IInv, TypeOK,
         StageFacts, GuessesOf
    <3> QED
      BY <3>2, <3>3
  <2> QED
    BY <2>2, <2>3, <2>4, <2>5 DEF Counts
<1>3. ASSUME NEW r \in Requests, ClearPending(r) PROVE Counts'
  <2>1. Staying
    BY <1>3 DEF Staying, Verifying, ClearPending, IInv, TypeOK, StageFacts
  <2>2. FlightsFinite' /\ \A j \in Ids : Flights(j) \in Nat /\ Flights(j)' = Flights(j)
    BY <2>1, CountStaying
  <2>3. Untouched'
    BY <1>3 DEF ClearPending, IInv, TypeOK, StageFacts, Untouched
  <2>4. Sessions'
    BY <1>3, <2>1, <2>2, <1>0 DEF Staying, ClearPending, IInv, TypeOK, StageFacts, Untouched,
       Sessions, SessionsOf
  <2>5. Guesses'
    BY <1>3, <2>1, <2>2, <1>0 DEF Staying, ClearPending, IInv, TypeOK, StageFacts, Untouched,
       Guesses, GuessesOf
  <2> QED
    BY <2>2, <2>3, <2>4, <2>5 DEF Counts
<1>4. ASSUME NEW r \in Requests, NEW i \in Ids, CreateLoginRequest(r, i) PROVE Counts'
  <2>1. Staying
    BY <1>4 DEF Staying, Verifying, CreateLoginRequest, Fresh, IInv, TypeOK, StageFacts
  <2>2. FlightsFinite' /\ \A j \in Ids : Flights(j) \in Nat /\ Flights(j)' = Flights(j)
    BY <2>1, CountStaying
  <2>3. Untouched'
    BY <1>4 DEF CreateLoginRequest, Fresh, IInv, TypeOK, StageFacts, Untouched
  <2>4. Sessions'
    BY <1>4, <2>1, <2>2, <1>0 DEF Staying, CreateLoginRequest, Fresh, IInv, TypeOK,
       StageFacts, Untouched, Sessions, SessionsOf
  <2>5. Guesses'
    BY <1>4, <2>1, <2>2, <1>0 DEF Staying, CreateLoginRequest, Fresh, IInv, TypeOK,
       StageFacts, Untouched, Guesses, GuessesOf
  <2> QED
    BY <2>2, <2>3, <2>4, <2>5 DEF Counts
<1>5. ASSUME NEW r \in Requests, AnswerLogin(r) PROVE Counts'
  <2>1. Staying
    BY <1>5 DEF Staying, Verifying, AnswerLogin, IInv, TypeOK, StageFacts
  <2>2. FlightsFinite' /\ \A j \in Ids : Flights(j) \in Nat /\ Flights(j)' = Flights(j)
    BY <2>1, CountStaying
  <2>3. Untouched'
    BY <1>5 DEF AnswerLogin, IInv, TypeOK, StageFacts, Untouched
  <2>4. Sessions'
    BY <1>5, <2>1, <2>2, <1>0 DEF Staying, AnswerLogin, IInv, TypeOK, StageFacts, Untouched,
       Sessions, SessionsOf
  <2>5. Guesses'
    BY <1>5, <2>1, <2>2, <1>0 DEF Staying, AnswerLogin, IInv, TypeOK, StageFacts, Untouched,
       Guesses, GuessesOf
  <2> QED
    BY <2>2, <2>3, <2>4, <2>5 DEF Counts
<1>6. ASSUME NEW r \in Requests, LoginFails(r) PROVE Counts'
  <2>1. Staying
    BY <1>6 DEF Staying, Verifying, LoginFails, IInv, TypeOK, StageFacts
  <2>2. FlightsFinite' /\ \A j \in Ids : Flights(j) \in Nat /\ Flights(j)' = Flights(j)
    BY <2>1, CountStaying
  <2>3. Untouched'
    BY <1>6 DEF LoginFails, IInv, TypeOK, StageFacts, Untouched
  <2>4. Sessions'
    BY <1>6, <2>1, <2>2, <1>0 DEF Staying, LoginFails, IInv, TypeOK, StageFacts, Untouched,
       Sessions, SessionsOf
  <2>5. Guesses'
    BY <1>6, <2>1, <2>2, <1>0 DEF Staying, LoginFails, IInv, TypeOK, StageFacts, Untouched,
       Guesses, GuessesOf
  <2> QED
    BY <2>2, <2>3, <2>4, <2>5 DEF Counts
<1>7. ASSUME NEW r \in Requests, ForgetPending(r) PROVE Counts'
  <2>1. Staying
    BY <1>7 DEF Staying, Verifying, ForgetPending, IInv, TypeOK, StageFacts
  <2>2. FlightsFinite' /\ \A j \in Ids : Flights(j) \in Nat /\ Flights(j)' = Flights(j)
    BY <2>1, CountStaying
  <2>3. Untouched'
    BY <1>7 DEF ForgetPending, IInv, TypeOK, StageFacts, Untouched
  <2>4. Sessions'
    BY <1>7, <2>1, <2>2, <1>0 DEF Staying, ForgetPending, IInv, TypeOK, StageFacts,
       Untouched, Sessions, SessionsOf
  <2>5. Guesses'
    BY <1>7, <2>1, <2>2, <1>0 DEF Staying, ForgetPending, IInv, TypeOK, StageFacts,
       Untouched, Guesses, GuessesOf
  <2> QED
    BY <2>2, <2>3, <2>4, <2>5 DEF Counts
<1>8. ASSUME NEW r \in Requests, NEW i \in Ids, NEW right \in BOOLEAN, GetLoginRequest(r, i, right) PROVE Counts'
  <2>1. Joining(r, i)
    BY <1>8 DEF Joining, Verifying, GetLoginRequest, Acceptable, IInv, TypeOK, StageFacts
  <2>2. /\ FlightsFinite' /\ \A j \in Ids : Flights(j) \in Nat
       /\ Flights(i)' = Flights(i) + 1 /\ (Verifying(i) = {} <=> Flights(i) = 0)
       /\ \A j \in Ids \ {i} : Flights(j)' = Flights(j)
    BY <2>1, CountJoining
  <2>3. Untouched'
    BY <1>8 DEF GetLoginRequest, Acceptable, IInv, TypeOK, StageFacts, Untouched
  <2>4. Sessions'
    <3> SUFFICES ASSUME NEW j \in Ids PROVE SessionsOf(j)'
      BY DEF Sessions
    <3>1. SessionsOf(j) /\ Flights(j) \in Nat
      BY <2>2 DEF IInv, Sessions
    <3>2. CASE j # i
      BY <1>8, <2>1, <3>1, <2>2, <1>0, <3>2 DEF Joining, GetLoginRequest, Acceptable, IInv,
         TypeOK, StageFacts, SessionsOf
    <3>3. CASE j = i
      BY <1>8, <2>1, <3>1, <2>2, <1>0, <3>3 DEF Joining, GetLoginRequest, Acceptable, IInv,
         TypeOK, StageFacts, SessionsOf
    <3> QED
      BY <3>2, <3>3
  <2>5. Guesses'
    <3> SUFFICES ASSUME NEW j \in Ids PROVE GuessesOf(j)'
      BY DEF Guesses
    <3>1. GuessesOf(j) /\ Flights(j) \in Nat
      BY <2>2 DEF IInv, Guesses
    <3>2. CASE j # i
      BY <1>8, <2>1, <3>1, <2>2, <1>0, <3>2 DEF Joining, GetLoginRequest, Acceptable, IInv,
         TypeOK, StageFacts, GuessesOf
    <3>3. CASE j = i
      BY <1>8, <2>1, <3>1, <2>2, <1>0, <3>3 DEF Joining, GetLoginRequest, Acceptable, IInv,
         TypeOK, StageFacts, GuessesOf
    <3> QED
      BY <3>2, <3>3
  <2> QED
    BY <2>2, <2>3, <2>4, <2>5 DEF Counts
<1>9. ASSUME NEW r \in Requests, PatchRead(r) PROVE Counts'
  <2>1. Staying
    BY <1>9 DEF Staying, Verifying, PatchRead, IInv, TypeOK, StageFacts
  <2>2. FlightsFinite' /\ \A j \in Ids : Flights(j) \in Nat /\ Flights(j)' = Flights(j)
    BY <2>1, CountStaying
  <2>3. Untouched'
    BY <1>9 DEF PatchRead, IInv, TypeOK, StageFacts, Untouched
  <2>4. Sessions'
    BY <1>9, <2>1, <2>2, <1>0 DEF Staying, PatchRead, IInv, TypeOK, StageFacts, Untouched,
       Sessions, SessionsOf
  <2>5. Guesses'
    BY <1>9, <2>1, <2>2, <1>0 DEF Staying, PatchRead, IInv, TypeOK, StageFacts, Untouched,
       Guesses, GuessesOf
  <2> QED
    BY <2>2, <2>3, <2>4, <2>5 DEF Counts
<1>10. ASSUME NEW r \in Requests, NothingToPatch(r), pc[r] = "right" PROVE Counts'
  <2>1. Staying
    BY <1>10 DEF Staying, Verifying, NothingToPatch, IInv, TypeOK, StageFacts
  <2>2. FlightsFinite' /\ \A j \in Ids : Flights(j) \in Nat /\ Flights(j)' = Flights(j)
    BY <2>1, CountStaying
  <2>3. Untouched'
    BY <1>10 DEF NothingToPatch, IInv, TypeOK, StageFacts, Untouched
  <2>4. Sessions'
    <3> SUFFICES ASSUME NEW j \in Ids PROVE SessionsOf(j)'
      BY DEF Sessions
    <3>1. SessionsOf(j) /\ Flights(j) \in Nat
      BY <2>2 DEF IInv, Sessions
    <3>2. CASE j # id[r]
      BY <1>10, <2>1, <3>1, <2>2, <1>0, <3>2 DEF Staying, NothingToPatch, IInv, TypeOK,
         StageFacts, SessionsOf
    <3>3. CASE j = id[r]
      BY <1>10, <2>1, <3>1, <2>2, <1>0, <3>3 DEF Staying, NothingToPatch, IInv, TypeOK,
         StageFacts, SessionsOf
    <3> QED
      BY <3>2, <3>3
  <2>5. Guesses'
    <3> SUFFICES ASSUME NEW j \in Ids PROVE GuessesOf(j)'
      BY DEF Guesses
    <3>1. GuessesOf(j) /\ Flights(j) \in Nat
      BY <2>2 DEF IInv, Guesses
    <3>2. CASE j # id[r]
      BY <1>10, <2>1, <3>1, <2>2, <1>0, <3>2 DEF Staying, NothingToPatch, IInv, TypeOK,
         StageFacts, GuessesOf
    <3>3. CASE j = id[r]
      BY <1>10, <2>1, <3>1, <2>2, <1>0, <3>3 DEF Staying, NothingToPatch, IInv, TypeOK,
         StageFacts, GuessesOf
    <3> QED
      BY <3>2, <3>3
  <2> QED
    BY <2>2, <2>3, <2>4, <2>5 DEF Counts
<1>11. ASSUME NEW r \in Requests, NothingToPatch(r), pc[r] = "wrong" PROVE Counts'
  <2>0. PICK i \in Ids : i = id[r]
    BY <1>11 DEF NothingToPatch, IInv, TypeOK, StageFacts
  <2>1. Leaving(r, i)
    BY <1>11, <2>0 DEF Leaving, Verifying, NothingToPatch, IInv, TypeOK, StageFacts
  <2>2. /\ FlightsFinite' /\ \A j \in Ids : Flights(j) \in Nat
       /\ Flights(i) >= 1 /\ Flights(i)' = Flights(i) - 1
       /\ \A j \in Ids \ {i} : Flights(j)' = Flights(j)
    BY <2>1, CountLeaving
  <2>3. Untouched'
    BY <1>11 DEF NothingToPatch, IInv, TypeOK, StageFacts, Untouched
  <2>4. Sessions'
    <3> SUFFICES ASSUME NEW j \in Ids PROVE SessionsOf(j)'
      BY DEF Sessions
    <3>1. SessionsOf(j) /\ Flights(j) \in Nat
      BY <2>2 DEF IInv, Sessions
    <3>2. CASE j # i
      BY <1>11, <2>0, <2>1, <3>1, <2>2, <1>0, <3>2 DEF Leaving, NothingToPatch, IInv, TypeOK,
         StageFacts, SessionsOf
    <3>3. CASE j = i
      BY <1>11, <2>0, <2>1, <3>1, <2>2, <1>0, <3>3 DEF Leaving, NothingToPatch, IInv, TypeOK,
         StageFacts, SessionsOf
    <3> QED
      BY <3>2, <3>3
  <2>5. Guesses'
    <3> SUFFICES ASSUME NEW j \in Ids PROVE GuessesOf(j)'
      BY DEF Guesses
    <3>1. GuessesOf(j) /\ Flights(j) \in Nat
      BY <2>2 DEF IInv, Guesses
    <3>2. CASE j # i
      BY <1>11, <2>0, <2>1, <3>1, <2>2, <1>0, <3>2 DEF Leaving, NothingToPatch, IInv, TypeOK,
         StageFacts, GuessesOf
    <3>3. CASE j = i
      BY <1>11, <2>0, <2>1, <3>1, <2>2, <1>0, <3>3 DEF Leaving, NothingToPatch, IInv, TypeOK,
         StageFacts, GuessesOf
    <3> QED
      BY <3>2, <3>3
  <2> QED
    BY <2>2, <2>3, <2>4, <2>5 DEF Counts
<1>12. ASSUME NEW r \in Requests, PatchLeft(r) PROVE Counts'
  <2>0. PICK i \in Ids : i = id[r]
    BY <1>12 DEF PatchLeft, SetDocument, IInv, TypeOK, StageFacts
  <2>1. Leaving(r, i)
    BY <1>12, <2>0 DEF Leaving, Verifying, PatchLeft, SetDocument, IInv, TypeOK, StageFacts
  <2>2. /\ FlightsFinite' /\ \A j \in Ids : Flights(j) \in Nat
       /\ Flights(i) >= 1 /\ Flights(i)' = Flights(i) - 1
       /\ \A j \in Ids \ {i} : Flights(j)' = Flights(j)
    BY <2>1, CountLeaving
  <2>3. Untouched'
    BY <1>12 DEF PatchLeft, SetDocument, IInv, TypeOK, StageFacts, Untouched
  <2>4. Sessions'
    <3> SUFFICES ASSUME NEW j \in Ids PROVE SessionsOf(j)'
      BY DEF Sessions
    <3>1. SessionsOf(j) /\ Flights(j) \in Nat
      BY <2>2 DEF IInv, Sessions
    <3>2. CASE j # i
      BY <1>12, <2>0, <2>1, <3>1, <2>2, <1>0, <3>2 DEF Leaving, PatchLeft, SetDocument, IInv,
         TypeOK, StageFacts, SessionsOf
    <3>3. CASE j = i
      BY <1>12, <2>0, <2>1, <3>1, <2>2, <1>0, <3>3 DEF Leaving, PatchLeft, SetDocument, IInv,
         TypeOK, StageFacts, SessionsOf
    <3> QED
      BY <3>2, <3>3
  <2>5. Guesses'
    <3> SUFFICES ASSUME NEW j \in Ids PROVE GuessesOf(j)'
      BY DEF Guesses
    <3>1. GuessesOf(j) /\ Flights(j) \in Nat
      BY <2>2 DEF IInv, Guesses
    <3>2. CASE j # i
      BY <1>12, <2>0, <2>1, <3>1, <2>2, <1>0, <3>2 DEF Leaving, PatchLeft, SetDocument, IInv,
         TypeOK, StageFacts, GuessesOf
    <3>3. CASE j = i
      BY <1>12, <2>0, <2>1, <3>1, <2>2, <1>0, <3>3 DEF Leaving, PatchLeft, SetDocument, IInv,
         TypeOK, StageFacts, GuessesOf
    <3> QED
      BY <3>2, <3>3
  <2> QED
    BY <2>2, <2>3, <2>4, <2>5 DEF Counts
<1>13. ASSUME NEW r \in Requests, PatchConsumed(r) PROVE Counts'
  <2>1. Staying
    BY <1>13 DEF Staying, Verifying, PatchConsumed, SetDocument, IInv, TypeOK, StageFacts
  <2>2. FlightsFinite' /\ \A j \in Ids : Flights(j) \in Nat /\ Flights(j)' = Flights(j)
    BY <2>1, CountStaying
  <2>3. Untouched'
    BY <1>13 DEF PatchConsumed, SetDocument, IInv, TypeOK, StageFacts, Untouched
  <2>4. Sessions'
    <3> SUFFICES ASSUME NEW j \in Ids PROVE SessionsOf(j)'
      BY DEF Sessions
    <3>1. SessionsOf(j) /\ Flights(j) \in Nat
      BY <2>2 DEF IInv, Sessions
    <3>2. CASE j # id[r]
      BY <1>13, <2>1, <3>1, <2>2, <1>0, <3>2 DEF Staying, PatchConsumed, SetDocument, IInv,
         TypeOK, StageFacts, SessionsOf
    <3>4. [raw[r] EXCEPT !.consumed = TRUE].left = raw[r].left
      BY <1>13 DEF IInv, StageFacts, PatchConsumed
    <3>3. CASE j = id[r]
      BY <1>13, <2>1, <3>1, <2>2, <1>0, <3>3, <3>4 DEF Staying, PatchConsumed, SetDocument,
         IInv, TypeOK, StageFacts, SessionsOf
    <3> QED
      BY <3>2, <3>3
  <2>5. Guesses'
    <3> SUFFICES ASSUME NEW j \in Ids PROVE GuessesOf(j)'
      BY DEF Guesses
    <3>1. GuessesOf(j) /\ Flights(j) \in Nat
      BY <2>2 DEF IInv, Guesses
    <3>2. CASE j # id[r]
      BY <1>13, <2>1, <3>1, <2>2, <1>0, <3>2 DEF Staying, PatchConsumed, SetDocument, IInv,
         TypeOK, StageFacts, GuessesOf
    <3>4. [raw[r] EXCEPT !.consumed = TRUE].left = raw[r].left
      BY <1>13 DEF IInv, StageFacts, PatchConsumed
    <3>3. CASE j = id[r]
      BY <1>13, <2>1, <3>1, <2>2, <1>0, <3>3, <3>4 DEF Staying, PatchConsumed, SetDocument,
         IInv, TypeOK, StageFacts, GuessesOf
    <3> QED
      BY <3>2, <3>3
  <2> QED
    BY <2>2, <2>3, <2>4, <2>5 DEF Counts
<1>14. ASSUME NEW r \in Requests, Accept(r) PROVE Counts'
  <2>0. PICK i \in Ids : i = id[r]
    BY <1>14 DEF Accept, IInv, TypeOK, StageFacts
  <2>1. Leaving(r, i)
    BY <1>14, <2>0 DEF Leaving, Verifying, Accept, IInv, TypeOK, StageFacts
  <2>2. /\ FlightsFinite' /\ \A j \in Ids : Flights(j) \in Nat
       /\ Flights(i) >= 1 /\ Flights(i)' = Flights(i) - 1
       /\ \A j \in Ids \ {i} : Flights(j)' = Flights(j)
    BY <2>1, CountLeaving
  <2>3. Untouched'
    BY <1>14 DEF Accept, IInv, TypeOK, StageFacts, Untouched
  <2>4. Sessions'
    <3> SUFFICES ASSUME NEW j \in Ids PROVE SessionsOf(j)'
      BY DEF Sessions
    <3>1. SessionsOf(j) /\ Flights(j) \in Nat
      BY <2>2 DEF IInv, Sessions
    <3>2. CASE j # i
      BY <1>14, <2>0, <2>1, <3>1, <2>2, <1>0, <3>2 DEF Leaving, Accept, IInv, TypeOK,
         StageFacts, SessionsOf
    <3>3. CASE j = i
      BY <1>14, <2>0, <2>1, <3>1, <2>2, <1>0, <3>3 DEF Leaving, Accept, IInv, TypeOK,
         StageFacts, SessionsOf
    <3> QED
      BY <3>2, <3>3
  <2>5. Guesses'
    <3> SUFFICES ASSUME NEW j \in Ids PROVE GuessesOf(j)'
      BY DEF Guesses
    <3>1. GuessesOf(j) /\ Flights(j) \in Nat
      BY <2>2 DEF IInv, Guesses
    <3>2. CASE j # i
      BY <1>14, <2>0, <2>1, <3>1, <2>2, <1>0, <3>2 DEF Leaving, Accept, IInv, TypeOK,
         StageFacts, GuessesOf
    <3>3. CASE j = i
      BY <1>14, <2>0, <2>1, <3>1, <2>2, <1>0, <3>3 DEF Leaving, Accept, IInv, TypeOK,
         StageFacts, GuessesOf
    <3> QED
      BY <3>2, <3>3
  <2> QED
    BY <2>2, <2>3, <2>4, <2>5 DEF Counts
<1>15. ASSUME NEW r \in Requests, Fail(r), pc[r] \in Verifies PROVE Counts'
  <2>0. PICK i \in Ids : i = id[r]
    BY <1>15 DEF Fail, IInv, TypeOK, StageFacts
  <2>1. Leaving(r, i)
    BY <1>15, <2>0 DEF Leaving, Verifying, Fail, IInv, TypeOK, StageFacts
  <2>2. /\ FlightsFinite' /\ \A j \in Ids : Flights(j) \in Nat
       /\ Flights(i) >= 1 /\ Flights(i)' = Flights(i) - 1
       /\ \A j \in Ids \ {i} : Flights(j)' = Flights(j)
    BY <2>1, CountLeaving
  <2>3. Untouched'
    BY <1>15 DEF Fail, IInv, TypeOK, StageFacts, Untouched
  <2>4. Sessions'
    <3> SUFFICES ASSUME NEW j \in Ids PROVE SessionsOf(j)'
      BY DEF Sessions
    <3>1. SessionsOf(j) /\ Flights(j) \in Nat
      BY <2>2 DEF IInv, Sessions
    <3>2. CASE j # i
      BY <1>15, <2>0, <2>1, <3>1, <2>2, <1>0, <3>2 DEF Leaving, Fail, IInv, TypeOK,
         StageFacts, SessionsOf
    <3>3. CASE j = i
      BY <1>15, <2>0, <2>1, <3>1, <2>2, <1>0, <3>3 DEF Leaving, Fail, IInv, TypeOK,
         StageFacts, SessionsOf
    <3> QED
      BY <3>2, <3>3
  <2>5. Guesses'
    <3> SUFFICES ASSUME NEW j \in Ids PROVE GuessesOf(j)'
      BY DEF Guesses
    <3>1. GuessesOf(j) /\ Flights(j) \in Nat
      BY <2>2 DEF IInv, Guesses
    <3>2. CASE j # i
      BY <1>15, <2>0, <2>1, <3>1, <2>2, <1>0, <3>2 DEF Leaving, Fail, IInv, TypeOK,
         StageFacts, GuessesOf
    <3>3. CASE j = i
      BY <1>15, <2>0, <2>1, <3>1, <2>2, <1>0, <3>3 DEF Leaving, Fail, IInv, TypeOK,
         StageFacts, GuessesOf
    <3> QED
      BY <3>2, <3>3
  <2> QED
    BY <2>2, <2>3, <2>4, <2>5 DEF Counts
<1>16. ASSUME NEW r \in Requests, Fail(r), pc[r] \notin Verifies PROVE Counts'
  <2>1. Staying
    BY <1>16 DEF Staying, Verifying, Fail, IInv, TypeOK, StageFacts
  <2>2. FlightsFinite' /\ \A j \in Ids : Flights(j) \in Nat /\ Flights(j)' = Flights(j)
    BY <2>1, CountStaying
  <2>3. Untouched'
    BY <1>16 DEF Fail, IInv, TypeOK, StageFacts, Untouched
  <2>4. Sessions'
    BY <1>16, <2>1, <2>2, <1>0 DEF Staying, Fail, IInv, TypeOK, StageFacts, Untouched,
       Sessions, SessionsOf
  <2>5. Guesses'
    BY <1>16, <2>1, <2>2, <1>0 DEF Staying, Fail, IInv, TypeOK, StageFacts, Untouched,
       Guesses, GuessesOf
  <2> QED
    BY <2>2, <2>3, <2>4, <2>5 DEF Counts
<1>17. ASSUME NEW i \in Ids, ExpireDocument(i) PROVE Counts'
  <2>1. Staying
    BY <1>17 DEF Staying, Verifying, ExpireDocument, IInv, TypeOK, StageFacts
  <2>2. FlightsFinite' /\ \A j \in Ids : Flights(j) \in Nat /\ Flights(j)' = Flights(j)
    BY <2>1, CountStaying
  <2>3. Untouched'
    BY <1>17 DEF ExpireDocument, IInv, TypeOK, StageFacts, Untouched
  <2>4. Sessions'
    BY <1>17, <2>1, <2>2, <1>0 DEF Staying, ExpireDocument, IInv, TypeOK, StageFacts,
       Untouched, Sessions, SessionsOf
  <2>5. Guesses'
    BY <1>17, <2>1, <2>2, <1>0 DEF Staying, ExpireDocument, IInv, TypeOK, StageFacts,
       Untouched, Guesses, GuessesOf
  <2> QED
    BY <2>2, <2>3, <2>4, <2>5 DEF Counts
<1>18. ASSUME NEW i \in Ids, PassExpiry(i) PROVE Counts'
  <2>1. Staying
    BY <1>18 DEF Staying, Verifying, PassExpiry, IInv, TypeOK, StageFacts
  <2>2. FlightsFinite' /\ \A j \in Ids : Flights(j) \in Nat /\ Flights(j)' = Flights(j)
    BY <2>1, CountStaying
  <2>3. Untouched'
    BY <1>18 DEF PassExpiry, IInv, TypeOK, StageFacts, Untouched
  <2>4. Sessions'
    BY <1>18, <2>1, <2>2, <1>0 DEF Staying, PassExpiry, IInv, TypeOK, StageFacts, Untouched,
       Sessions, SessionsOf
  <2>5. Guesses'
    BY <1>18, <2>1, <2>2, <1>0 DEF Staying, PassExpiry, IInv, TypeOK, StageFacts, Untouched,
       Guesses, GuessesOf
  <2> QED
    BY <2>2, <2>3, <2>4, <2>5 DEF Counts
<1>19. ASSUME ExpirePending PROVE Counts'
  <2>1. Staying
    BY <1>19 DEF Staying, Verifying, ExpirePending, IInv, TypeOK, StageFacts
  <2>2. FlightsFinite' /\ \A j \in Ids : Flights(j) \in Nat /\ Flights(j)' = Flights(j)
    BY <2>1, CountStaying
  <2>3. Untouched'
    BY <1>19 DEF ExpirePending, IInv, TypeOK, StageFacts, Untouched
  <2>4. Sessions'
    BY <1>19, <2>1, <2>2, <1>0 DEF Staying, ExpirePending, IInv, TypeOK, StageFacts,
       Untouched, Sessions, SessionsOf
  <2>5. Guesses'
    BY <1>19, <2>1, <2>2, <1>0 DEF Staying, ExpirePending, IInv, TypeOK, StageFacts,
       Untouched, Guesses, GuessesOf
  <2> QED
    BY <2>2, <2>3, <2>4, <2>5 DEF Counts
<1>20. ASSUME UNCHANGED vars PROVE Counts'
  <2>1. Staying
    BY <1>20 DEF Staying, Verifying, vars, IInv, TypeOK, StageFacts
  <2>2. FlightsFinite' /\ \A j \in Ids : Flights(j) \in Nat /\ Flights(j)' = Flights(j)
    BY <2>1, CountStaying
  <2>3. Untouched'
    BY <1>20 DEF vars, IInv, TypeOK, StageFacts, Untouched
  <2>4. Sessions'
    BY <1>20, <2>1, <2>2, <1>0 DEF Staying, vars, IInv, TypeOK, StageFacts, Untouched,
       Sessions, SessionsOf
  <2>5. Guesses'
    BY <1>20, <2>1, <2>2, <1>0 DEF Staying, vars, IInv, TypeOK, StageFacts, Untouched,
       Guesses, GuessesOf
  <2> QED
    BY <2>2, <2>3, <2>4, <2>5 DEF Counts
<1> QED
  BY <1>1, <1>2, <1>3, <1>4, <1>5, <1>6, <1>7, <1>8, <1>9, <1>10, <1>11, <1>12, <1>13, <1>14,
     <1>15, <1>16, <1>17, <1>18, <1>19, <1>20 DEF Next, NothingToPatch

THEOREM Inductive == Spec => []IInv
<1>1. IInv /\ [Next]_vars => IInv'
  BY TypeStep, StageStep, HolderStep, LiveStep, CountsStep DEF IInv, Counts
<1> QED
  BY <1>1, InitIInv, PTL DEF Spec

(* The variables have their types (LoginRequests, TypeOK). *)
THEOREM TypeCorrect == Spec => []TypeOK
<1>1. IInv => TypeOK
  BY DEF IInv
<1> QED
  BY <1>1, Inductive, PTL

(* A login leaves no earlier code of its device behind, unless a           *)
(* verification wrote one back.                                            *)
THEOREM DeviceHasOneLiveCode == Spec => []OneLiveCode
<1>1. IInv => OneLiveCode
  <2> SUFFICES ASSUME IInv
               PROVE  Cardinality(Live) <= 1
    BY DEF OneLiveCode, Live
  <2>1. CASE Live = {}
    BY <2>1, FS_EmptySet
  <2>2. CASE Live # {}
    <3>1. PICK i : i \in Live
      BY <2>2
    <3>2. Live = {i}
      BY <3>1 DEF IInv, LivePending
    <3> QED
      BY <3>2, FS_Singleton
  <2> QED
    BY <2>1, <2>2
<1> QED
  BY <1>1, Inductive, PTL

(* A code opens one session and one more for each overlap. *)
THEOREM SessionsPerCode == Spec => []OneSessionAndOverlaps
<1>1. IInv => OneSessionAndOverlaps
  <2> SUFFICES ASSUME IInv, NEW i \in Ids PROVE accepted[i] <= 1 + overlaps[i]
    BY DEF OneSessionAndOverlaps
  <2>1. Flights(i) \in Nat
    BY FS_CardinalityType DEF IInv, FlightsFinite, Flights
  <2> QED
    BY <2>1 DEF IInv, TypeOK, Sessions, SessionsOf
<1> QED
  BY <1>1, Inductive, PTL

(* A code answers MaxAttempts wrong codes and one more for each overlap. *)
THEOREM GuessesPerCode == Spec => []AttemptsAndOverlaps
<1>1. IInv => AttemptsAndOverlaps
  BY DEF IInv, Guesses, GuessesOf, AttemptsAndOverlaps
<1> QED
  BY <1>1, Inductive, PTL
=============================================================================
