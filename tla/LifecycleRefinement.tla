------------------------- MODULE LifecycleRefinement -------------------------
(***************************************************************************)
(* The reconciler implements the life cycle of CRLifecycle: most of its    *)
(* steps are invisible there, and the others are exactly one of its steps. *)
(* The life cycle may be that of a set G of CRs only.                      *)
(***************************************************************************)
EXTENDS TektonTasksController

LifeOf(cr) ==
    CASE cr = Absent                   -> "absent"
      [] cr # Absent /\ cr.deleting    -> "deleting"
      [] cr # Absent /\ ~cr.deleting   -> "live"

lifeOfCRs(G)  == [c \in G |-> LifeOf(server[c])]
guardedCRs(G) == {c \in G : server[c] # Absent /\ HasOurFinalizer(server[c])}

Lifecycle(G) == INSTANCE CRLifecycle
                   WITH CRs <- G, Legacy <- Legacy \cap G,
                        life <- lifeOfCRs(G), guarded <- guardedCRs(G),
                        deployed <- touched \cap G

\* Whatever the order of stale passes, rivals, conflicts and crashes, users
\* see each CR go through the life cycle: never deployed unguarded or beside
\* another one, never guarded once deleted, never released with resources left
\* (Reconcile, initialize, cleanup).
ImplementsLifecycle ==
    /\ Lifecycle(CRs)!Init
    /\ [][Lifecycle(CRs)!Next]_(Lifecycle(CRs)!vars)
=============================================================================
