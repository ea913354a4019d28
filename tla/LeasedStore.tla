------------------------------ MODULE LeasedStore ------------------------------
(***************************************************************************)
(* What a resource provider promises its writers: a resource is a row of   *)
(* versions, each built on the one before by a single writer, who held the *)
(* resource alone from the moment it was known which version it builds on. *)
(* Files, threads, plans and tokens are no part of the promise.            *)
(***************************************************************************)
EXTENDS Naturals

CONSTANT Ids          \* names of resources

VARIABLES version,    \* version[r]: the current version of r, 0 if there is no r
          holder      \* holder[r]: the version the writer of r builds on, 0 if it has none

vars == <<version, holder>>

Init == /\ version = [r \in Ids |-> 0]
        /\ holder = [r \in Ids |-> 0]

Create(r) == /\ version[r] = 0
             /\ version' = [version EXCEPT ![r] = 1]
             /\ UNCHANGED holder

\* A writer is admitted: there is no other, and it knows the version it will replace.
Admit(r) == /\ version[r] # 0
            /\ holder[r] = 0
            /\ holder' = [holder EXCEPT ![r] = version[r]]
            /\ UNCHANGED version

\* The writer publishes its version and leaves. It never leaves without.
Publish(r) == /\ holder[r] # 0
              /\ version' = [version EXCEPT ![r] = holder[r] + 1]
              /\ holder' = [holder EXCEPT ![r] = 0]

Next == \E r \in Ids : Create(r) \/ Admit(r) \/ Publish(r)

Spec == Init /\ [][Next]_vars
================================================================================
