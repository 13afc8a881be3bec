----------------------------- MODULE OneTimeLink -----------------------------
(***************************************************************************)
(* What the links on which passwords are set promise, with no requests, no *)
(* clock and no marks: a link is made for one account, stores its password *)
(* once, ends for good, and changes nobody else's.  A link that several    *)
(* requests use together is shared, and a shared link stores as often as   *)
(* they like until it ends.                                                *)
(***************************************************************************)
CONSTANTS
    Link,       \* the ids of links
    Qq,         \* the accounts
    Password,   \* passwords that are long enough
    Absent

VARIABLES
    secret,     \* the password of an account
    owner,      \* for whom a link was made
    state       \* "unmade", "open", "saved" (it stored its password), "shared" or "dead"

vars == <<secret, owner, state>>

Init ==
    /\ secret \in [Qq -> Password \cup {Absent}]
    /\ owner = [l \in Link |-> Absent]
    /\ state = [l \in Link |-> "unmade"]

Make(l, q) ==
    /\ state[l] = "unmade"
    /\ owner' = [owner EXCEPT ![l] = q]
    /\ state' = [state EXCEPT ![l] = "open"]
    /\ UNCHANGED secret

\* Several requests begin to use one link, which may have stored a password already.
Share(l) ==
    /\ state[l] \in {"open", "saved"}
    /\ state' = [state EXCEPT ![l] = "shared"]
    /\ UNCHANGED <<secret, owner>>

\* A link may end with the password it stores.
Save(l, pw) ==
    /\ state[l] \in {"open", "shared"}
    /\ secret' = [secret EXCEPT ![owner[l]] = pw]
    /\ \E after \in {"dead", IF state[l] = "open" THEN "saved" ELSE "shared"} :
          state' = [state EXCEPT ![l] = after]
    /\ UNCHANGED owner

\* Links end: used, expired, or forgotten in a restart.
Close(ended) ==
    /\ \A l \in ended : state[l] # "unmade"
    /\ state' = [l \in Link |-> IF l \in ended THEN "dead" ELSE state[l]]
    /\ UNCHANGED <<secret, owner>>

Next ==
    \/ \E l \in Link :
          \/ \E q \in Qq : Make(l, q)
          \/ Share(l)
          \/ \E pw \in Password : Save(l, pw)
    \/ \E ended \in SUBSET Link : Close(ended)

Spec == Init /\ [][Next]_vars
=============================================================================
