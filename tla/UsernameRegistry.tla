-------------------------- MODULE UsernameRegistry --------------------------
(***************************************************************************)
(* What the profile directory promises its callers, without the index:     *)
(* every account that has a profile has one username, profiles are never  *)
(* deleted, and an account may take a username only if no other account   *)
(* holds it.  The empty username is the unset default and is exempt from   *)
(* uniqueness.                                                             *)
(***************************************************************************)
CONSTANTS Accounts, Names

VARIABLE names   \* account -> the username of its profile

Unset == <<>>

\* Account a creates its profile or renames it to n.
Claim(a, n) ==
  /\ n = Unset \/ \A b \in DOMAIN names \ {a} : names[b] # n
  /\ names' = [b \in DOMAIN names \union {a} |-> IF b = a THEN n ELSE names[b]]

Init == names = [a \in {} |-> Unset]

Next == \E a \in Accounts, n \in Names : Claim(a, n)

Spec == Init /\ [][Next]_names

\* No two accounts hold the same username, the unset default aside.
UniqueNames ==
  \A a, b \in DOMAIN names : a # b /\ names[a] = names[b] => names[a] = Unset
=============================================================================
