---------------------------- MODULE SessionRegister ---------------------------
(***************************************************************************)
(* What the session rows of one account promise, with no request, lock or  *)
(* cache in sight: each change happens in one single instant.  A login     *)
(* opens a session and may close others, but only those of its own device; *)
(* a refresh passes one active session on to a new one of the same device; *)
(* revocations close sessions.  Nothing else changes a session, and what   *)
(* is closed is never opened again.  SessionLifecycle implements this.     *)
(***************************************************************************)
CONSTANTS Sessions, Devices, None

VARIABLES session,  \* none, active or revoked
          device,   \* the device it was opened for
          parent    \* the session it was passed on from, or None

register == <<session, device, parent>>

RegisterInit ==
    /\ session = [s \in Sessions |-> "none"]
    /\ device = [s \in Sessions |-> None]
    /\ parent = [s \in Sessions |-> None]

Open == {s \in Sessions : session[s] = "active"}

Close(R) == session' = [t \in Sessions |-> IF t \in R THEN "revoked" ELSE session[t]]

(* The sessions R are closed as s is opened for device d. *)
CloseAndOpen(R, s, d, origin) ==
    /\ session[s] = "none"
    /\ session' = [t \in Sessions |-> IF t = s THEN "active"
                                      ELSE IF t \in R THEN "revoked" ELSE session[t]]
    /\ device' = [device EXCEPT ![s] = d]
    /\ parent' = [parent EXCEPT ![s] = origin]

Login(d, s) ==
    \E R \in SUBSET {t \in Open : device[t] = d} : CloseAndOpen(R, s, d, None)

Refresh(s, t) ==
    /\ s \in Open
    /\ CloseAndOpen({s}, t, device[s], s)

Revoke ==
    /\ \E R \in SUBSET Open : Close(R)
    /\ UNCHANGED <<device, parent>>

RegisterNext ==
    \/ \E d \in Devices, s \in Sessions : Login(d, s)
    \/ \E s, t \in Sessions : Refresh(s, t)
    \/ Revoke

RegisterSpec == RegisterInit /\ [][RegisterNext]_register
===============================================================================
