--------------------------- MODULE CredentialMap ---------------------------
(***************************************************************************)
(* What the credential store promises its callers                          *)
(* (src/src/CredentialStore.h): a map from credential ids to a user and a  *)
(* sign count, each operation of which happens at once or not at all, and  *)
(* which nothing but the operations changes; power losses do not show.     *)
(* The promise ends with the first refused write that goes unnoticed.      *)
(***************************************************************************)
EXTENDS Naturals

CONSTANTS CredIds, Users

VARIABLES
    creds,      \* id -> what is kept of it
    intact      \* no refused write has gone unnoticed

map == <<creds, intact>>

Empty == [id \in {} |-> {}]

Init == creds = Empty /\ intact = TRUE

Register(id, u) ==
    /\ id \notin DOMAIN creds
    /\ creds' = [x \in DOMAIN creds \cup {id} |-> IF x = id THEN [user |-> u, ctr |-> 1] ELSE creds[x]]

SetUser(id, u) == id \in DOMAIN creds /\ creds' = [creds EXCEPT ![id].user = u]

Count(id) == id \in DOMAIN creds /\ creds' = [creds EXCEPT ![id].ctr = @ + 1]

Remove(id) ==
    /\ id \in DOMAIN creds
    /\ creds' = [x \in DOMAIN creds \ {id} |-> creds[x]]

RemoveAll == creds' = Empty

Operation ==
    \/ \E id \in CredIds : Count(id) \/ Remove(id) \/ \E u \in Users : Register(id, u) \/ SetUser(id, u)
    \/ RemoveAll

Next ==
    \/ intact /\ Operation /\ UNCHANGED intact
    \/ intact /\ intact' = FALSE /\ creds' = Empty

Spec == Init /\ [][Next]_map
=============================================================================
