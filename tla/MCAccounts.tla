----------------------------- MODULE MCAccounts -----------------------------
(***************************************************************************)
(* The accounts of a tenant, model-checked part by part: its registration, *)
(* and the tokens of its users.  The parts share no variable (a token is   *)
(* checked without the rows of the accounts), so an instance runs one of   *)
(* them and the other stays as it starts.                                  *)
(***************************************************************************)
EXTENDS TenantRegistration, AuthTokens, TLC

CONSTANTS r1, r2, r3, v1, v2, u1, u2, e1, e2, x1, \* registration
          j1, w1, w2                              \* tokens

VARIABLE part

\* Two of the three registrations share the e-mail address, two share the
\* username, all share the slug.
MCEmailOf == (r1 :> e1) @@ (r2 :> e1) @@ (r3 :> e2)
MCUserOf  == (r1 :> u1) @@ (r2 :> u2) @@ (r3 :> u1)
MCSlugOf  == [r \in {r1, r2, r3} |-> "slug"]

\* While the tokens stay as they start, one of their two backends is enough.
MCInit ==
    /\ part \in {"registration", "tokens"}
    /\ RegistrationInit /\ TokenInit
    /\ part = "tokens" \/ m_useSqlite

MCNext ==
    /\ UNCHANGED part
    /\ \/ part = "registration" /\ RegistrationNext /\ UNCHANGED tokenVars
       \/ part = "tokens"       /\ TokenNext        /\ UNCHANGED registrationVars

MCSpec == MCInit /\ [][MCNext]_<<part, registrationVars, tokenVars>>

\* A permutation of one part's values leaves the states of the other alone.
Perms == Permutations(Verifications) \cup Permutations(HttpThreads)
=============================================================================
