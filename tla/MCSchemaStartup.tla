---------------------------- MODULE MCSchemaStartup ---------------------------
(* Two servers and one command on the tables that the three columns or the *)
(* foreign keys concern, from every schema that could have been left.      *)
EXTENDS SchemaStartup

MCTables == <<"users", "user_profiles", "user_devices">>
MCReferences == [t \in {"users", "user_profiles", "user_devices"} |-> IF t = "users" THEN {} ELSE {"users"}]
MCAdditions ==
    << <<<<"user_profiles", "country_code">>, <<"user_profiles", "phone_number">>>>,
       <<<<"users", "authorization_version">>>> >>
===============================================================================
