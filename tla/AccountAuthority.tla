-------------------------- MODULE AccountAuthority --------------------------
(***************************************************************************)
(* What the accounts, the access tokens and the access-state cache promise *)
(* together, with no token, no cache and no transaction in sight: a        *)
(* request works with a principal that was, in one single instant of that  *)
(* request, exactly the committed row of an active account, and accounts   *)
(* are changed only by principals entitled to it, by their owner or by the *)
(* bootstrap command.  AccountAccess implements this specification.        *)
(***************************************************************************)
EXTENDS Naturals

CONSTANTS Users, Requests, NoPrincipal

VARIABLES row,        \* the committed account rows
          principal   \* what each request acts as, or NoPrincipal

vars == <<row, principal>>

Roles == {"super_admin", "admin", "user"}
Statuses == {"active", "blocked", "deletion_requested", "deleted"}
Rows == [role : Roles, status : Statuses, version : Nat]

(* The principal that account u is entitled to at this instant. *)
Entitled(u) == [user |-> u, role |-> row[u].role, av |-> row[u].version]

Init == /\ row = [u \in Users |->
                    [role |-> "user", status |-> "active", version |-> 1]]
        /\ principal = [r \in Requests |-> NoPrincipal]

Grant(r, u) ==
    /\ principal[r] = NoPrincipal
    /\ row[u].status = "active"
    /\ principal' = [principal EXCEPT ![r] = Entitled(u)]
    /\ UNCHANGED row

Drop(r) ==
    /\ principal[r] # NoPrincipal
    /\ principal' = [principal EXCEPT ![r] = NoPrincipal]
    /\ UNCHANGED row

SetRole(u, role) ==
    row' = [row EXCEPT ![u] =
              [role |-> role, status |-> @.status, version |-> @.version + 1]]

SetStatus(u, status) ==
    row' = [row EXCEPT ![u] =
              [role |-> @.role, status |-> status, version |-> @.version + 1]]

(* Every change but the bootstrap is some request's last act. *)
ActsAndEnds(r) ==
    /\ principal[r] # NoPrincipal
    /\ principal' = [principal EXCEPT ![r] = NoPrincipal]

ChangeRole(r, u, role) ==
    /\ ActsAndEnds(r)
    /\ principal[r].role = "super_admin"
    /\ SetRole(u, role)

ChangeStatus(r, u, status) ==
    /\ ActsAndEnds(r)
    /\ principal[r].role \in {"admin", "super_admin"}
    /\ SetStatus(u, status)

RequestDeletion(r) ==
    /\ ActsAndEnds(r)
    /\ SetStatus(principal[r].user, "deletion_requested")

Bootstrap(u) ==
    /\ SetRole(u, "super_admin")
    /\ UNCHANGED principal

Next ==
    \/ \E r \in Requests :
          \/ Drop(r)
          \/ RequestDeletion(r)
          \/ \E u \in Users : 
                \/ Grant(r, u)
                \/ \E role \in Roles : ChangeRole(r, u, role)
                \/ \E status \in Statuses : ChangeStatus(r, u, status)
    \/ \E u \in Users : Bootstrap(u)

Spec == Init /\ [][Next]_vars
=============================================================================
