------------------------------- MODULE MCPaging -------------------------------
EXTENDS Paging, TLC

UserQuery(actor, limit, method, key, role) ==
    [resource |-> "users", actor |-> actor, limit |-> limit, method |-> method, sort_key |-> key,
     role |-> role, is_profile_completed |-> None]

MCQueries ==
    {UserQuery("admin", 1, "desc", "created_at", None),
     UserQuery("admin", 2, "asc", "full_name", "admin"),
     UserQuery("admin", 2, "asc", "full_name", "user"),
     UserQuery("super_admin", 2, "asc", "created_at", "user"),
     UserQuery("super_admin", 2, "asc", "password", None)}
    \cup [resource : {"sessions"}, actor : {"user"}, limit : {2}, method : {"desc"},
          sort_key : {"created_at"}, is_active : {TRUE, None}]

Symmetry == Permutations(Rows)
===============================================================================
