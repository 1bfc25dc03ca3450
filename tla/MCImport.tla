----------------------------- MODULE MCImport -----------------------------
(***************************************************************************)
(* Import with two members.  A legacy database differs from a sound one in *)
(* at most two tables, and each table in at most one column of one row; a  *)
(* single run goes over each of them undisturbed.  The sound one is        *)
(* imported by one or two runs, with everything happening meanwhile, and   *)
(* so is one with a password hash of blanks alone.                         *)
(***************************************************************************)
EXTENDS Import, TLC

CONSTANTS i1, i2, null, text, bad

MCEmail == {"", "ada", "Ada", "ben", "cat"}
MCCanonicalEmail == [e \in MCEmail |-> IF e = "Ada" THEN "ada" ELSE e]
MCNumber == {"a", "A", "b", "long"}
MCCanonical == [n \in MCNumber |-> CASE n = "A" -> "a" [] n = "long" -> bad [] OTHER -> n]

\* A row with at most one of its columns changed.
Changed(row, changes) == {row} \cup {[row EXCEPT ![f] = v] : <<f, v>> \in changes}

User(e) == [email |-> e, named |-> TRUE, hash |-> "bcrypt", orientedBy |-> 1]
Card(n, u) == [number |-> n, permissions |-> 1, userId |-> u]

Sound == [
    users |-> 1 :> User("ada") @@ 2 :> User("ben"),
    cards |-> 0 :> Card("a", 2) @@ 2 :> [Card("b", 1) EXCEPT !.permissions = 255],
    certifications |-> 3 :> [slug |-> "saw"],
    userCertifications |-> 5 :> [userId |-> 2, certificationId |-> 3, createdBy |-> 1],
    payments |-> 6 :> [userId |-> 2, amount |-> 30, dated |-> TRUE, createdBy |-> 1],
    contracts |-> 7 :> [userId |-> 2, signed |-> TRUE, createdBy |-> 1]]

\* Each other form a table may have.
Forms == [
    users |-> {1 :> User("ada")} \cup {1 :> User("ada") @@ 2 :> u : u \in
        Changed(User("ben"), {<<"email", "Ada">>, <<"email", "">>, <<"named", FALSE>>,
            <<"hash", "">>, <<"hash", "white">>, <<"hash", "md5">>, <<"hash", null>>,
            <<"orientedBy", null>>, <<"orientedBy", 9>>})},
    cards |-> {2 :> Card("b", 1), 0 :> Card("a", 2) @@ 3 :> Card("b", 1)}
        \cup {0 :> c @@ 2 :> Card("b", 1) : c \in
        Changed(Card("a", 2), {<<"number", "A">>, <<"number", "b">>, <<"number", "long">>, <<"number", null>>,
            <<"permissions", 255>>, <<"permissions", null>>, <<"userId", null>>, <<"userId", 9>>})}
        \cup {0 :> Card("a", 2) @@ 1 :> Card("A", 1)},
    certifications |-> {<<>>, 3 :> [slug |-> null], 3 :> [slug |-> "saw"] @@ 4 :> [slug |-> "saw"]},
    userCertifications |-> {5 :> g : g \in Changed(Sound.userCertifications[5],
            {<<"userId", 9>>, <<"certificationId", 9>>, <<"createdBy", 9>>, <<"createdBy", null>>})}
        \cup {5 :> Sound.userCertifications[5] @@ 6 :> Sound.userCertifications[5]},
    payments |-> {6 :> p : p \in Changed(Sound.payments[6],
            {<<"userId", null>>, <<"userId", 9>>, <<"amount", null>>, <<"amount", text>>, <<"amount", 35>>,
             <<"amount", 110>>, <<"amount", -100>>, <<"dated", FALSE>>, <<"createdBy", 9>>})},
    contracts |-> {7 :> c : c \in Changed(Sound.contracts[7],
            {<<"userId", 9>>, <<"signed", FALSE>>, <<"createdBy", 9>>})}
        \cup {7 :> [Sound.contracts[7] EXCEPT !.userId = 9] @@ 8 :> [Sound.contracts[7] EXCEPT !.userId = 9]}]

Legacies ==
    UNION {{[Sound EXCEPT ![t] = f, ![u] = g] : f \in Forms[t], g \in Forms[u]} :
              <<t, u>> \in {<<t, u>> \in (DOMAIN Forms) \X (DOMAIN Forms) : t # u}}

MCStarts ==
    [legacy : Legacies, options : {i1 :> o : o \in SUBSET Option}, calm : {TRUE}]
    \cup [legacy : {[Sound EXCEPT !.users[2].hash = "white"]}, calm : {FALSE}, options : {i1 :> {}}]
    \cup [legacy : {Sound}, calm : {FALSE},
          options : {i1 :> {}, i1 :> {} @@ i2 :> {"--accept-orphans"}, i1 :> {} @@ i2 :> {"--dry-run"}}]
=============================================================================
