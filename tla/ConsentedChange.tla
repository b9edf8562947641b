-------------------------- MODULE ConsentedChange --------------------------
(***************************************************************************)
(* What the handlers of accounts and tickets promise together: a password  *)
(* changes by its owner's ticket and the decision on it, in one step, or   *)
(* by whoever manages the account; asking anew withdraws what is open, or  *)
(* leaves all of it as it was; a decision is taken once; a machine stays   *)
(* bound under one password.                                               *)
(* PasswordRequests implements this: whatever its handlers have read, and  *)
(* however long ago, each takes effect as one of these steps or not at all.*)
(***************************************************************************)
CONSTANTS Accounts, Students, Requests, Machines, None

VARIABLES
    ticket,   \* request -> "new", "pending", "accepted" or "rejected"
    author,   \* request -> the account that asked
    secret,   \* account -> its password, None when there is no account
    bound     \* student -> the machine it is bound to

consentVars == <<ticket, author, secret, bound>>

Init ==
    /\ ticket = [r \in Requests |-> "new"]
    /\ author = [r \in Requests |-> None]
    /\ secret = [a \in Accounts |-> None]
    /\ bound  = [s \in Students |-> None]

Exists(a) == secret[a] # None

\* No open ticket of account a is left.
Closed(a) == [r \in Requests |-> IF author[r] = a /\ ticket[r] = "pending"
                                 THEN "rejected" ELSE ticket[r]]

\* The accounts of A get password p and lose their machines.
Assign(A, p) ==
    /\ secret' = [a \in Accounts |-> IF a \in A THEN p ELSE secret[a]]
    /\ bound'  = [s \in Students |-> IF s \in A THEN None ELSE bound[s]]

Ask(a, r) ==
    /\ ticket[r] = "new"
    /\ \E t \in {Closed(a), ticket} : ticket' = [t EXCEPT ![r] = "pending"]
    /\ author' = [author EXCEPT ![r] = a]
    /\ UNCHANGED <<secret, bound>>

Withdraw(a) ==
    /\ ticket' = Closed(a)
    /\ UNCHANGED <<author, secret, bound>>

\* The decision and its effect are one step.
Grant(r) ==
    /\ ticket[r] = "pending"
    /\ Exists(author[r])
    /\ ticket' = [ticket EXCEPT ![r] = "accepted"]
    /\ Assign({author[r]}, r)
    /\ UNCHANGED author

Refuse(r) ==
    /\ ticket[r] = "pending"
    /\ ticket' = [ticket EXCEPT ![r] = "rejected"]
    /\ UNCHANGED <<author, secret, bound>>

Create(a) ==
    /\ ~Exists(a)
    /\ Assign({a}, "initial")
    /\ UNCHANGED <<ticket, author>>

\* Who manages a student sets a password for it.
Reset(s) ==
    /\ Exists(s)
    /\ Assign({s}, "set")
    /\ UNCHANGED <<ticket, author>>

\* Accounts are removed; their tickets stay.
Remove(A) ==
    /\ Assign(A, None)
    /\ UNCHANGED <<ticket, author>>

Bind(s, m) ==
    /\ Exists(s) /\ bound[s] = None
    /\ bound' = [bound EXCEPT ![s] = m]
    /\ UNCHANGED <<ticket, author, secret>>

Release(s) ==
    /\ bound' = [bound EXCEPT ![s] = None]
    /\ UNCHANGED <<ticket, author, secret>>

Next ==
    \/ \E r \in Requests : Grant(r) \/ Refuse(r)
    \/ \E a \in Accounts :
          Create(a) \/ Withdraw(a) \/ \E r \in Requests : Ask(a, r)
    \/ \E A \in SUBSET Accounts : Remove(A)
    \/ \E s \in Students :
          Reset(s) \/ Release(s) \/ \E m \in Machines : Bind(s, m)

Spec == Init /\ [][Next]_consentVars
============================================================================
