---------------------------- MODULE MCClassroom ----------------------------
(***************************************************************************)
(* What the teachers of a school work with, model-checked part by part:    *)
(* the features of its computers, the tables of its structure, and the     *)
(* tickets for passwords.  The parts share no variable (the plugin takes   *)
(* computers from the registry, not from the tables; the tickets have      *)
(* tables of their own), so an instance runs one of them and the others    *)
(* stay as they start.                                                     *)
(***************************************************************************)
EXTENDS FeatureControl, SchoolStructure, PasswordRequests, TLC

CONSTANTS a1, c1, c2, m1, f1, g1,                 \* features
          s1, l1, l2, k1, t1, t2, u1, u2, h1, h2, \* structure
          w1, w2, q1, q2, p1, p2                  \* requests

VARIABLE part

\* f1 is "feat-lock-screen", g1 the agent's own "lock-screen".
LockScreen == f1 :> g1 @@ g1 :> g1

\* The two students have one username.
MCUsernameOf == [s \in Students |-> "name"]

MCInit ==
    /\ part \in {"features", "structure", "requests"}
    /\ FeatureInit /\ StructureInit /\ Init

MCNext ==
    /\ UNCHANGED part
    /\ \/ part = "features"  /\ FeatureNext   /\ UNCHANGED <<structureVars, vars>>
       \/ part = "structure" /\ StructureNext /\ UNCHANGED <<featureVars, vars>>
       \/ part = "requests"  /\ Next          /\ UNCHANGED <<featureVars, structureVars>>

MCSpec == MCInit /\ [][MCNext]_<<part, featureVars, structureVars, vars>>

\* A permutation of one part's values leaves the states of the others alone.
Perms ==
    Permutations(CommandIds) \cup
    {p @@ q @@ r : p \in Permutations(Workers), q \in Permutations(Students),
                   r \in Permutations(Requests)}
============================================================================
