----------------------------- MODULE CRLifecycle -----------------------------
(***************************************************************************)
(* What the operator promises of TektonTasks CRs and of what it deploys    *)
(* for them, with no word of passes, caches, versions or events: a CR is   *)
(* GUARDED by a finalizer before anything is deployed for it, nothing is   *)
(* deployed for two, and a guarded CR that is deleted stays until what was *)
(* deployed for it is gone.                                                *)
(***************************************************************************)
CONSTANTS
    CRs,        \* names a CR may have
    Legacy      \* CRs that are deployed from the start

VARIABLES
    life,       \* of each CR: "absent", "live" or "deleting"
    guarded,    \* CRs that carry a finalizer of the operator
    deployed    \* CRs whose resources may exist

vars == <<life, guarded, deployed>>

Init ==
    /\ life = [c \in CRs |-> IF c \in Legacy THEN "live" ELSE "absent"]
    /\ guarded = Legacy
    /\ deployed = Legacy

-----------------------------------------------------------------------------
(* Users.                                                                  *)

Create(c) ==
    /\ life[c] = "absent"
    /\ life' = [life EXCEPT ![c] = "live"]
    /\ UNCHANGED <<guarded, deployed>>

\* A CR without any finalizer leaves at once; one with the operator's stays.
Delete(c) ==
    /\ life[c] = "live"
    /\ \/ life' = [life EXCEPT ![c] = "deleting"]
       \/ c \notin guarded /\ life' = [life EXCEPT ![c] = "absent"]
    /\ UNCHANGED <<guarded, deployed>>

\* The last finalizer that is not the operator's goes.
Leave(c) ==
    /\ life[c] = "deleting"
    /\ c \notin guarded
    /\ life' = [life EXCEPT ![c] = "absent"]
    /\ UNCHANGED <<guarded, deployed>>

-----------------------------------------------------------------------------
(* The operator.                                                           *)

\* A CR is only guarded while nobody has deleted it.
Guard(c) ==
    /\ life[c] = "live"
    /\ c \notin guarded
    /\ guarded' = guarded \cup {c}
    /\ UNCHANGED <<life, deployed>>

\* Nothing is deployed for a CR without guard, nor beside another's.
Deploy(c) ==
    /\ c \in guarded
    /\ deployed = {}
    /\ deployed' = {c}
    /\ UNCHANGED <<life, guarded>>

Cleanup(c) ==
    /\ life[c] = "deleting"
    /\ c \in guarded
    /\ c \in deployed
    /\ deployed' = deployed \ {c}
    /\ UNCHANGED <<life, guarded>>

\* The guard goes after what it guards; with it goes the CR, unless somebody
\* else's finalizer keeps it.
Release(c) ==
    /\ life[c] = "deleting"
    /\ c \in guarded
    /\ c \notin deployed
    /\ guarded' = guarded \ {c}
    /\ life' \in {life, [life EXCEPT ![c] = "absent"]}
    /\ UNCHANGED deployed

Next ==
    \E c \in CRs :
        \/ Create(c) \/ Delete(c) \/ Leave(c)
        \/ Guard(c) \/ Deploy(c) \/ Cleanup(c) \/ Release(c)

Spec == Init /\ [][Next]_vars
=============================================================================
