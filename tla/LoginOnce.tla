------------------------------ MODULE LoginOnce ------------------------------
(***************************************************************************)
(* What the OAuth login promises: a login that was opened for a user ends  *)
(* at most once, in a credential of that user or in nothing, and a user    *)
(* has a bounded number of logins open.                                    *)
(***************************************************************************)
EXTENDS Naturals, FiniteSets

CONSTANTS
    Users,
    States,     \* names upstream gives to logins (auth_state)
    MaxActive   \* AUTH_MAX_ACTIVE_PER_USER

VARIABLE login  \* [States -> phase and user of the login of that name]

Unknown == [phase |-> "none", user |-> "nobody"]

OpenOf(u) == {s \in States : login[s] = [phase |-> "open", user |-> u]}

Init == login = [s \in States |-> Unknown]

Open(u, s) ==
    /\ login[s] = Unknown
    /\ Cardinality(OpenOf(u)) < MaxActive
    /\ login' = [login EXCEPT ![s] = [phase |-> "open", user |-> u]]

(* The credential is stored, for the user who opened the login. *)
Save(s) ==
    /\ login[s].phase = "open"
    /\ login' = [login EXCEPT ![s].phase = "saved"]

(* Cancelled, or consumed by a poll that could not store the credential. *)
Drop(s) ==
    /\ login[s].phase = "open"
    /\ login' = [login EXCEPT ![s].phase = "dropped"]

(* Logins older than their lifetime are forgotten, whatever became of them. *)
Expire ==
    \E S \in (SUBSET States) \ {{}} :
        login' = [s \in States |-> IF s \in S THEN Unknown ELSE login[s]]

Next ==
    \/ \E u \in Users, s \in States : Open(u, s)
    \/ \E s \in States : Save(s) \/ Drop(s)
    \/ Expire

Spec == Init /\ [][Next]_login
==============================================================================
