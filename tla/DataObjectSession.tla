------------------------- MODULE DataObjectSession --------------------------
(***************************************************************************)
(* Opens, writes and closes of a data object seen through the catalog are  *)
(* sessions (WriteSession), and sessions end.                              *)
(***************************************************************************)
EXTENDS DataObjectAccess

Locked == \E r \in Present(catalog) : ~ AtRest(catalog[r])

Intermediate == {r \in Replicas : catalog[r].status = "intermediate"}

GoodReplicas == {r \in Present(catalog) : Underlying(catalog[r]) = "good"}

SessionTarget == IF Intermediate = {} THEN NoReplica ELSE CHOOSE r \in Intermediate : TRUE

Session == INSTANCE WriteSession WITH
    replicas <- Present(catalog), good <- GoodReplicas, locked <- Locked, target <- SessionTarget

\* The catalog shows one session after the other.  rsDataObjOpen locks the
\* object, rsDataObjClose, the exit of the agent and the failures of the storage
\* unlock it, and the agents that share the replica with a token cause no change
\* in between, as long as none of them loses its client before the primary closes.
IsWriteSession == Session!Spec

-----------------------------------------------------------------------------

\* An agent goes on with the request it is serving.  A client closes or leaves
\* sooner or later: strong fairness, because the primary stream of a transfer
\* cannot close while a secondary one is writing; a transfer has finitely many
\* streams, so it is not kept from closing for ever.
Fairness ==
    \A a \in Pids :
        /\ WF_vars(OpenStep(a) \/ CreateStep(a) \/ CloseStep(a))
        /\ SF_vars(Leave(a))

FairSpec == Spec /\ Fairness

\* A locked object is unlocked: an open, a create, a close or an exit that meets
\* nothing worse than a failure of the storage does not forget the lock, and the
\* streams of a transfer do not wait for each other for ever.
LockIsReleased == Locked ~> ~ Locked
=============================================================================
