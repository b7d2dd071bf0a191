----------------------------- MODULE MCUserRecord ----------------------------
(* A profile with a name and a phone number in two columns, and two        *)
(* preferences, for TLC.                                                   *)
EXTENDS UserRecord, TLC

ProfileColumns == {"full_name", "dial_code", "phone_number"}
ProfileFields == {{"full_name"}, {"dial_code", "phone_number"}}

(* Two names; three numbers, two of which share each column's value. *)
ProfileOffers ==
    {[full_name |-> n, dial_code |-> p[1], phone_number |-> p[2]] :
        n \in {1, 2}, p \in {<<1, 1>>, <<1, 2>>, <<2, 1>>}}

PreferenceColumns == {"language", "theme"}
PreferenceFields == {{"language"}, {"theme"}}
PreferenceOffers == [PreferenceColumns -> {1, 2}]

Symmetry == Permutations(Requests)
=============================================================================
