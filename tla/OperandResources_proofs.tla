----------------------- MODULE OperandResources_proofs -----------------------
(***************************************************************************)
(* Proofs about OperandResources: type correctness, and that the version   *)
(* cache never vouches for edited data.                                    *)
(*                                                                         *)
(* CacheSound alone is not inductive.  Three copies of an object are       *)
(* about: the API server's, the informer's and the one the worker read     *)
(* before its write; and an entry of the cache may outlive them all.  The  *)
(* invariant says that every copy follows the stored object, that an entry *)
(* is never ahead of it, and that an entry matching a copy vouches for     *)
(* data of the template.                                                   *)
(***************************************************************************)
EXTENDS OperandResources, TLAPS

-----------------------------------------------------------------------------
(* Types.                                                                  *)

\* The key the API call of the worker is about.
Current == <<cur, place[cur]>>

\* What the worker read is about a key there is, and only read objects are
\* deleted.
CursorInv ==
    /\ found # Absent => cur # Absent /\ Current \in Keys
    /\ pc = "delete" => found # Absent

TypeInv == TypeOK /\ CursorInv

\* TypeOK in the parts that the actions change together.
ObjectTypes ==
    /\ server   \in [Keys -> Object \cup {Absent}]
    /\ informer \in [Keys -> Object \cup {Absent}]
    /\ news     \subseteq Keys
    /\ queued   \in BOOLEAN

ClusterTypes ==
    /\ life    \in {"absent", "live", "deleting"}
    /\ spec    \in Specs
    /\ nextUid \in Nat
    /\ overlooked \subseteq Keys

WorkerTypes ==
    /\ pc      \in PCs
    /\ todo    \subseteq Resources
    /\ cur     \in Resources \cup {Absent}
    /\ found   \in Object \cup {Absent}
    /\ pending \in BOOLEAN
    /\ pass    \in Specs
    /\ (cur # Absent) <=> (pc \in {"write", "delete"})
    /\ CursorInv

MemoryTypes ==
    /\ place    \in [Resources -> Namespaces \cup {NoNs}]
    /\ vcache   \in [Keys -> Entry \cup {Absent}]
    /\ lastSpec \in Specs \cup {ZeroSpec}

CountTypes ==
    /\ writes    \in 0..MaxWrites
    /\ restarts  \in 0..MaxRestarts
    /\ apiErrors \in 0..MaxApiErrors

LEMMA TypeParts ==
    TypeInv <=> (ObjectTypes /\ ClusterTypes /\ WorkerTypes /\ MemoryTypes /\ CountTypes)
BY DEF TypeInv, TypeOK, ObjectTypes, ClusterTypes, WorkerTypes, MemoryTypes, CountTypes

LEMMA TypePartsNext ==
    TypeInv' <=> (ObjectTypes' /\ ClusterTypes' /\ WorkerTypes' /\ MemoryTypes' /\ CountTypes')
BY DEF TypeInv, TypeOK, ObjectTypes, ClusterTypes, WorkerTypes, MemoryTypes, CountTypes

\* A spec places every resource in a namespace or in none.
LEMMA PlaceType ==
    ASSUME NEW r \in Resources, NEW s \in Specs
    PROVE  PlaceOf(r, s) \in Namespaces \cup {NoNs}
BY ResourcesAssumption DEF PlaceOf, TasksPlace, PipelinesPlace, Specs

LEMMA BundleType ==
    /\ BundlePlaces \in [Resources -> Namespaces \cup {NoNs}]
    /\ [k \in Keys |-> Absent] \in [Keys -> Entry \cup {Absent}]
BY ResourcesAssumption DEF BundlePlaces

\* An object made for a key is an object, whatever the key.
LEMMA NewObjectType ==
    ASSUME nextUid \in Nat, NEW k, NEW data \in {"template", "edited"},
           NEW owner \in {"cr", "ref", "other"}
    PROVE  NewObject(k, data, owner) \in Object
BY DEF NewObject, Object

\* One field of an object is replaced: the rest stays.
LEMMA SetRv ==
    ASSUME NEW o \in Object, NEW v \in Nat
    PROVE  /\ [o EXCEPT !.rv = v] \in Object
           /\ [o EXCEPT !.rv = v].rv = v
           /\ [o EXCEPT !.rv = v].uid = o.uid
           /\ [o EXCEPT !.rv = v].gen = o.gen
           /\ [o EXCEPT !.rv = v].data = o.data
BY DEF Object

LEMMA SetGen ==
    ASSUME NEW o \in Object, NEW g \in Nat
    PROVE  /\ [o EXCEPT !.gen = g] \in Object
           /\ [o EXCEPT !.gen = g].rv = o.rv
           /\ [o EXCEPT !.gen = g].uid = o.uid
           /\ [o EXCEPT !.gen = g].gen = g
           /\ [o EXCEPT !.gen = g].data = o.data
BY DEF Object

LEMMA SetDeleting ==
    ASSUME NEW o \in Object
    PROVE  /\ [o EXCEPT !.deleting = TRUE] \in Object
           /\ [o EXCEPT !.deleting = TRUE].rv = o.rv
           /\ [o EXCEPT !.deleting = TRUE].uid = o.uid
           /\ [o EXCEPT !.deleting = TRUE].gen = o.gen
           /\ [o EXCEPT !.deleting = TRUE].data = o.data
BY DEF Object

LEMMA SetOwner ==
    ASSUME NEW o \in Object
    PROVE  /\ [o EXCEPT !.owner = "cr"] \in Object
           /\ [o EXCEPT !.owner = "cr"].rv = o.rv
           /\ [o EXCEPT !.owner = "cr"].uid = o.uid
           /\ [o EXCEPT !.owner = "cr"].gen = o.gen
           /\ [o EXCEPT !.owner = "cr"].data = o.data
BY DEF Object

LEMMA SetData ==
    ASSUME NEW o \in Object, NEW d \in {"template", "edited"}
    PROVE  /\ [o EXCEPT !.data = d] \in Object
           /\ [o EXCEPT !.data = d].rv = o.rv
           /\ [o EXCEPT !.data = d].uid = o.uid
           /\ [o EXCEPT !.data = d].gen = o.gen
           /\ [o EXCEPT !.data = d].data = d
BY DEF Object

LEMMA Fields ==
    ASSUME NEW o \in Object
    PROVE  o.uid \in Nat /\ o.rv \in Nat /\ o.gen \in Nat
BY DEF Object

\* A new version of an object is an object, one version on, and one
\* generation on if that is counted and the data differ.
LEMMA NextVersionFacts ==
    ASSUME NEW k, NEW old \in Object, NEW new \in Object
    PROVE  /\ NextVersion(k, old, new) \in Object
           /\ NextVersion(k, old, new).uid = new.uid
           /\ NextVersion(k, old, new).rv = old.rv + 1
           /\ NextVersion(k, old, new).data = new.data
           /\ NextVersion(k, old, new).gen =
                  IF k[1] \in Generational /\ old.data # new.data THEN new.gen + 1 ELSE new.gen
<1>1. old.rv + 1 \in Nat /\ new.gen + 1 \in Nat /\ new.gen \in Nat
    BY Fields
<1> DEFINE n == [new EXCEPT !.rv = old.rv + 1]
<1>2. n \in Object /\ n.uid = new.uid /\ n.rv = old.rv + 1 /\ n.gen = new.gen
      /\ n.data = new.data
    BY <1>1, SetRv
<1>3. \A g \in Nat : /\ [n EXCEPT !.gen = g] \in Object
                     /\ [n EXCEPT !.gen = g].uid = new.uid
                     /\ [n EXCEPT !.gen = g].rv = old.rv + 1
                     /\ [n EXCEPT !.gen = g].data = new.data
                     /\ [n EXCEPT !.gen = g].gen = g
    BY <1>2, SetGen
<1>4. NextVersion(k, old, new) =
          [n EXCEPT !.gen = IF k[1] \in Generational /\ old.data # new.data
                            THEN new.gen + 1 ELSE new.gen]
    BY DEF NextVersion
<1>5. (IF k[1] \in Generational /\ old.data # new.data THEN new.gen + 1 ELSE new.gen) \in Nat
    BY <1>1
<1> HIDE DEF n
<1>6. QED
    BY <1>3, <1>4, <1>5

\* mutateFn keeps the identity of an object.
LEMMA MutatedFacts ==
    ASSUME NEW k, NEW o \in Object
    PROVE  /\ Mutated(k, o) \in Object
           /\ Mutated(k, o).uid = o.uid
           /\ Mutated(k, o).rv = o.rv
           /\ Mutated(k, o).gen = o.gen
           /\ Mutated(k, o).data =
                  IF k[1] \in Restored /\ ~Contains(k, o) THEN "template" ELSE o.data
<1> DEFINE m == [o EXCEPT !.owner = "cr"]
           d == IF k[1] \in Restored /\ ~Contains(k, o) THEN "template" ELSE o.data
<1>1. m \in Object /\ m.uid = o.uid /\ m.rv = o.rv /\ m.gen = o.gen /\ m.data = o.data
    BY SetOwner
<1>2. d \in {"template", "edited"}
    BY DEF Object
<1>3. Mutated(k, o) = [m EXCEPT !.data = d]
    BY <1>1 DEF Mutated
<1>4. \A e \in {"template", "edited"} :
          /\ [m EXCEPT !.data = e] \in Object
          /\ [m EXCEPT !.data = e].uid = m.uid
          /\ [m EXCEPT !.data = e].rv = m.rv
          /\ [m EXCEPT !.data = e].gen = m.gen
          /\ [m EXCEPT !.data = e].data = e
    <2> HIDE DEF m
    <2>1. QED
        BY <1>1, SetData
<1> HIDE DEF m, d
<1>5. /\ Mutated(k, o) \in Object /\ Mutated(k, o).uid = o.uid /\ Mutated(k, o).rv = o.rv
      /\ Mutated(k, o).gen = o.gen /\ Mutated(k, o).data = d
    BY <1>1, <1>2, <1>3, <1>4
<1>6. QED
    BY <1>5 DEF d

\* A deletion leaves the object, a version of it with the same data, or nothing.
LEMMA RemovedFacts ==
    ASSUME NEW o \in Object
    PROVE  \/ Removed(o) \in {o, Absent}
           \/ /\ Removed(o) \in Object
              /\ Removed(o).uid = o.uid
              /\ Removed(o).rv = o.rv + 1
              /\ Removed(o).gen = o.gen
              /\ Removed(o).data = o.data
<1> DEFINE m == [o EXCEPT !.deleting = TRUE]
<1>1. m \in Object /\ m.uid = o.uid /\ m.rv = o.rv /\ m.gen = o.gen /\ m.data = o.data
    BY SetDeleting
<1>2. o.rv + 1 \in Nat
    BY Fields
<1>3. CASE o.held /\ ~o.deleting
    <2>1. Removed(o) = [m EXCEPT !.rv = o.rv + 1]
        BY <1>3 DEF Removed
    <2> HIDE DEF m
    <2>2. QED
        BY <1>1, <1>2, <2>1, SetRv
<1>4. CASE o.held /\ o.deleting
    BY <1>4 DEF Removed
<1>5. CASE ~o.held
    BY <1>5 DEF Removed
<1>6. QED
    BY <1>3, <1>4, <1>5 DEF Object

\* SetObject keeps the types of what it changes.
LEMMA SetObjectType ==
    ASSUME ObjectTypes, NEW k \in Keys, NEW o \in Object \cup {Absent}, SetObject(k, o)
    PROVE  ObjectTypes'
BY DEF SetObject, ObjectTypes, Reported

\* An entry of the version cache made from an object.
LEMMA AddType ==
    ASSUME vcache \in [Keys -> Entry \cup {Absent}], NEW k, NEW o \in Object, Add(k, o)
    PROVE  vcache' \in [Keys -> Entry \cup {Absent}]
BY DEF Add, Object, Entry

\* Failing calls stay within their bound.
LEMMA CountErrorType ==
    ASSUME CountTypes, NEW a, NEW ok, ok # "Error", a \in MayFail \cup {ok},
           CountError(a), UNCHANGED <<writes, restarts>>
    PROVE  CountTypes'
BY ResourcesAssumption DEF CountTypes, MayFail, CountError

\* The pass is given up.
LEMMA AbortType ==
    ASSUME TypeInv, Abort, UNCHANGED place
    PROVE  WorkerTypes' /\ queued' \in BOOLEAN
BY DEF TypeInv, TypeOK, Abort, WorkerTypes, CursorInv, PCs

\* The loop goes on.
LEMMA NextResourceType ==
    ASSUME TypeInv, NEW loop \in {"reconcile", "cleanup"}, NextResource(loop),
           pending' \in BOOLEAN
    PROVE  WorkerTypes'
BY DEF TypeInv, TypeOK, NextResource, WorkerTypes, CursorInv, PCs

LEMMA StartType ==
    ASSUME TypeInv, Start
    PROVE  TypeInv'
<1>1. ObjectTypes' /\ ClusterTypes' /\ CountTypes'
    BY DEF TypeInv, TypeOK, Start, ObjectTypes, ClusterTypes, CountTypes, cluster, objects, counts
<1>2. ASSUME clearCacheIfNeeded, UNCHANGED spec PROVE MemoryTypes'
    BY <1>2, BundleType DEF TypeInv, TypeOK, clearCacheIfNeeded, MemoryTypes
<1>3. CASE life = "absent" /\ UNCHANGED <<worker, memory>>
    BY <1>1, <1>3, TypePartsNext
       DEF TypeInv, TypeOK, WorkerTypes, CursorInv, MemoryTypes, worker, memory, Current
<1>4. UNCHANGED spec
    BY DEF Start, cluster
<1>5. CASE /\ life = "live"
           /\ clearCacheIfNeeded
           /\ pc' = IF spec.deploy THEN "reconcile" ELSE "idle"
           /\ todo' = IF spec.deploy THEN Deployed(spec) ELSE {}
           /\ pass' = spec
           /\ UNCHANGED <<cur, found, pending>>
    <2>1. WorkerTypes'
        BY <1>5 DEF TypeInv, TypeOK, Start, WorkerTypes, CursorInv, PCs, Deployed, Current,
                    clearCacheIfNeeded
    <2>2. QED
        BY <1>1, <1>2, <1>4, <1>5, <2>1, TypePartsNext
<1>6. CASE /\ life = "deleting"
           /\ clearCacheIfNeeded
           /\ pc' = "cleanup"
           /\ todo' = (Resources \ ClusterTasks) \cup DeprecatedClusterTasks
           /\ pending' = FALSE
           /\ UNCHANGED <<cur, found, pass>>
    <2>1. DeprecatedClusterTasks \subseteq Resources
        BY DEF DeprecatedClusterTasks, Resources, TasksOperand
    <2>2. WorkerTypes'
        BY <1>6, <2>1 DEF TypeInv, TypeOK, Start, WorkerTypes, CursorInv, PCs, Current,
                          clearCacheIfNeeded
    <2>3. QED
        BY <1>1, <1>2, <1>4, <1>6, <2>2, TypePartsNext
<1>7. QED
    BY <1>3, <1>5, <1>6 DEF Start

LEMMA ReconcileResourceType ==
    ASSUME TypeInv, NEW r \in Resources, ReconcileResource(r)
    PROVE  TypeInv'
<1> DEFINE ns == PlaceOf(r, pass)
           k == <<r, ns>>
           o == Cached(k)
<1>1. ns \in Namespaces \cup {NoNs}
    BY PlaceType DEF TypeInv, TypeOK
<1>2. /\ pc = "reconcile" /\ r \in todo /\ todo' = todo \ {r}
      /\ place' = [place EXCEPT ![r] = ns]
      /\ UNCHANGED <<cluster, queued, pending, pass, lastSpec, overlooked, counts>>
    BY DEF ReconcileResource
<1>3. o \in Object \cup {Absent} /\ (o # Absent => k \in Keys)
    BY DEF Cached, TypeInv, TypeOK
<1>4. cur = Absent
    BY <1>2 DEF TypeInv, TypeOK
<1>5. ObjectTypes' /\ ClusterTypes' /\ CountTypes'
    BY <1>2 DEF TypeInv, TypeOK, ObjectTypes, ClusterTypes, CountTypes, cluster, objects, counts
<1>6. place' \in [Resources -> Namespaces \cup {NoNs}] /\ place'[r] = ns
      /\ lastSpec' \in Specs \cup {ZeroSpec}
    BY <1>1, <1>2 DEF TypeInv, TypeOK
<1> HIDE DEF ns, k, o
<1>7. CASE /\ Terminating(o)
           /\ vcache' = [vcache EXCEPT ![k] = Absent]
           /\ UNCHANGED <<pc, cur, found>>
    <2>1. vcache' \in [Keys -> Entry \cup {Absent}]
        BY <1>7 DEF TypeInv, TypeOK
    <2>2. WorkerTypes'
        BY <1>2, <1>4, <1>7 DEF TypeInv, TypeOK, WorkerTypes, CursorInv
    <2>3. QED
        BY <1>5, <1>6, <2>1, <2>2, TypePartsNext DEF MemoryTypes
<1>8. CASE /\ ~Terminating(o) /\ AsDesired(k, o)
           /\ Add(k, o)
           /\ UNCHANGED <<pc, cur, found>>
    <2>1. o \in Object
        BY <1>3, <1>8 DEF AsDesired
    <2>2. vcache' \in [Keys -> Entry \cup {Absent}]
        BY <1>8, <2>1, AddType DEF TypeInv, TypeOK
    <2>3. WorkerTypes'
        BY <1>2, <1>4, <1>8 DEF TypeInv, TypeOK, WorkerTypes, CursorInv
    <2>4. QED
        BY <1>5, <1>6, <2>2, <2>3, TypePartsNext DEF MemoryTypes
<1>9. CASE /\ ~Terminating(o) /\ ~AsDesired(k, o)
           /\ pc' = "write"
           /\ cur' = r
           /\ found' = o
           /\ UNCHANGED vcache
    <2>1. Current' = k
        BY <1>6, <1>9 DEF Current, k
    <2>2. CursorInv'
        BY <1>3, <1>9, <2>1, ResourcesAssumption DEF CursorInv
    <2>3. WorkerTypes'
        BY <1>2, <1>3, <1>9, <2>2, ResourcesAssumption DEF TypeInv, TypeOK, WorkerTypes, PCs
    <2>4. vcache' \in [Keys -> Entry \cup {Absent}]
        BY <1>9 DEF TypeInv, TypeOK
    <2>5. QED
        BY <1>5, <1>6, <2>3, <2>4, TypePartsNext DEF MemoryTypes
<1>10. QED
    BY <1>7, <1>8, <1>9 DEF ReconcileResource, ns, k, o

LEMMA CreateResourceType ==
    ASSUME TypeInv, NEW a, CreateResource(a)
    PROVE  TypeInv'
<1> DEFINE k == Current
<1>1. /\ a \in MayFail \cup {IF k \in Keys /\ server[k] = Absent THEN "OK" ELSE "Refused"}
      /\ CountError(a)
      /\ UNCHANGED <<life, spec, memory, overlooked, writes, restarts>>
    BY DEF CreateResource, Current
<1>2. CountTypes'
    BY <1>1, CountErrorType DEF TypeInv, TypeOK, CountTypes
<1>3. MemoryTypes'
    BY <1>1 DEF TypeInv, TypeOK, MemoryTypes, memory
<1>4. CASE a = "OK"
    <2>1. k \in Keys
        BY <1>1, <1>4 DEF MayFail
    <2>2. /\ SetObject(k, NewObject(k, "template", "cr"))
          /\ nextUid' = nextUid + 1
          /\ NextResource("reconcile")
          /\ UNCHANGED pending
        BY <1>4 DEF CreateResource, Current
    <2>3. ObjectTypes'
        BY <2>1, <2>2, NewObjectType, SetObjectType DEF TypeInv, TypeOK, ObjectTypes
    <2>4. WorkerTypes'
        BY <2>2, NextResourceType DEF TypeInv, TypeOK
    <2>5. ClusterTypes'
        BY <1>1, <2>2 DEF TypeInv, TypeOK, ClusterTypes
    <2>6. QED
        BY <1>2, <1>3, <2>3, <2>4, <2>5, TypePartsNext
<1>5. CASE a # "OK"
    <2>1. Abort /\ UNCHANGED <<objects, nextUid>>
        BY <1>5 DEF CreateResource
    <2>2. WorkerTypes' /\ queued' \in BOOLEAN
        BY <1>1, <2>1, AbortType DEF memory
    <2>3. ObjectTypes' /\ ClusterTypes'
        BY <1>1, <2>1, <2>2 DEF TypeInv, TypeOK, ObjectTypes, ClusterTypes, objects
    <2>4. QED
        BY <1>2, <1>3, <2>2, <2>3, TypePartsNext
<1>6. QED
    BY <1>4, <1>5

LEMMA UpdateResourceType ==
    ASSUME TypeInv, NEW a, UpdateResource(a)
    PROVE  TypeInv'
<1> DEFINE k == Current
           new == NextVersion(k, found, Mutated(k, found))
<1>1. /\ found # Absent
      /\ a \in MayFail \cup {IF SameVersion(found, server[k]) THEN "OK" ELSE "Refused"}
      /\ CountError(a)
      /\ UNCHANGED <<life, spec, nextUid, place, lastSpec, overlooked, writes,
                     restarts>>
    BY DEF UpdateResource, Current
<1>2. CountTypes' /\ ClusterTypes'
    BY <1>1, CountErrorType DEF TypeInv, TypeOK, CountTypes, ClusterTypes
<1>3. k \in Keys /\ found \in Object
    BY <1>1 DEF TypeInv, TypeOK, CursorInv
<1>4. new \in Object
    BY <1>3, MutatedFacts, NextVersionFacts
<1>5. CASE a = "OK"
    <2>1. /\ SetObject(k, new)
          /\ Add(k, new)
          /\ NextResource("reconcile")
          /\ UNCHANGED pending
        BY <1>5 DEF UpdateResource, Current
    <2>2. vcache' \in [Keys -> Entry \cup {Absent}]
        BY <1>4, <2>1, AddType DEF TypeInv, TypeOK
    <2>3. ObjectTypes'
        BY <1>3, <1>4, <2>1, SetObjectType DEF TypeInv, TypeOK, ObjectTypes
    <2>4. WorkerTypes'
        BY <2>1, NextResourceType DEF TypeInv, TypeOK
    <2>5. MemoryTypes'
        BY <1>1, <2>2 DEF TypeInv, TypeOK, MemoryTypes
    <2>6. QED
        BY <1>2, <2>3, <2>4, <2>5, TypePartsNext
<1>6. CASE a # "OK"
    <2>1. Abort /\ UNCHANGED <<objects, vcache>>
        BY <1>6 DEF UpdateResource
    <2>2. WorkerTypes' /\ queued' \in BOOLEAN
        BY <1>1, <2>1, AbortType
    <2>3. ObjectTypes' /\ MemoryTypes'
        BY <1>1, <2>1, <2>2 DEF TypeInv, TypeOK, ObjectTypes, MemoryTypes, objects
    <2>4. QED
        BY <1>2, <2>2, <2>3, TypePartsNext
<1>7. QED
    BY <1>5, <1>6

LEMMA CleanupResourceType ==
    ASSUME TypeInv, NEW r \in Resources, CleanupResource(r)
    PROVE  TypeInv'
<1> DEFINE k == <<r, place[r]>>
           o == Cached(k)
<1>1. /\ pc = "cleanup" /\ r \in todo /\ todo' = todo \ {r}
      /\ UNCHANGED <<cluster, queued, pass, memory, counts>>
      /\ overlooked' = overlooked \cup Overlooked(r)
    BY DEF CleanupResource
<1>2. o \in Object \cup {Absent} /\ (o # Absent => k \in Keys)
    BY DEF Cached, TypeInv, TypeOK
<1>3. ObjectTypes' /\ ClusterTypes' /\ CountTypes' /\ MemoryTypes'
    BY <1>1 DEF TypeInv, TypeOK, ObjectTypes, ClusterTypes, CountTypes, MemoryTypes,
                Overlooked, cluster, objects, counts, memory
<1>4. cur = Absent
    BY <1>1 DEF TypeInv, TypeOK
<1> HIDE DEF k, o
<1>5. CASE Owned(o) /\ ~o.deleting /\ pc' = "delete" /\ cur' = r /\ found' = o /\ UNCHANGED pending
    <2>1. o # Absent
        BY <1>5 DEF Owned
    <2>2. Current' = k
        BY <1>1, <1>5 DEF Current, k, memory
    <2>3. CursorInv'
        BY <1>2, <1>5, <2>1, <2>2, ResourcesAssumption DEF CursorInv
    <2>4. WorkerTypes'
        BY <1>1, <1>2, <1>5, <2>3, ResourcesAssumption DEF TypeInv, TypeOK, WorkerTypes, PCs
    <2>5. QED
        BY <1>3, <2>4, TypePartsNext
<1>6. CASE pending' = (pending \/ Owned(o)) /\ UNCHANGED <<pc, cur, found>>
    <2>1. pending' \in BOOLEAN
        BY <1>6 DEF TypeInv, TypeOK, Owned
    <2>2. CursorInv'
        BY <1>4, <1>6, <1>1 DEF TypeInv, CursorInv
    <2>3. WorkerTypes'
        BY <1>1, <1>4, <1>6, <2>1, <2>2 DEF TypeInv, TypeOK, WorkerTypes
    <2>4. QED
        BY <1>3, <2>3, TypePartsNext
<1>7. QED
    BY <1>5, <1>6 DEF CleanupResource, k, o

LEMMA DeleteResourceType ==
    ASSUME TypeInv, NEW a, DeleteResource(a)
    PROVE  TypeInv'
<1> DEFINE k == Current
<1>1. /\ pc = "delete"
      /\ a \in MayFail \cup {IF server[k] = Absent THEN "NotFound" ELSE "OK"}
      /\ CountError(a)
      /\ UNCHANGED <<life, spec, nextUid, memory, overlooked, writes, restarts>>
    BY DEF DeleteResource, Current
<1>2. CountTypes' /\ ClusterTypes'
    BY <1>1, CountErrorType DEF TypeInv, TypeOK, CountTypes, ClusterTypes
<1>3. MemoryTypes'
    BY <1>1 DEF TypeInv, TypeOK, MemoryTypes, memory
<1>4. k \in Keys
    BY <1>1 DEF TypeInv, CursorInv
<1>5. CASE a = "OK" /\ SetObject(k, Removed(server[k])) /\ pending' = TRUE /\ NextResource("cleanup")
    <2>1. server[k] \in Object
        BY <1>1, <1>4, <1>5 DEF TypeInv, TypeOK, MayFail
    <2>2. ObjectTypes'
        BY <1>4, <1>5, <2>1, RemovedFacts, SetObjectType DEF TypeInv, TypeOK, ObjectTypes
    <2>3. WorkerTypes'
        BY <1>5, NextResourceType
    <2>4. QED
        BY <1>2, <1>3, <2>2, <2>3, TypePartsNext
<1>6. CASE a = "NotFound" /\ NextResource("cleanup") /\ UNCHANGED <<objects, queued, pending>>
    <2>1. ObjectTypes' /\ pending' \in BOOLEAN
        BY <1>6 DEF TypeInv, TypeOK, ObjectTypes, objects
    <2>2. WorkerTypes'
        BY <1>6, <2>1, NextResourceType
    <2>3. QED
        BY <1>2, <1>3, <2>1, <2>2, TypePartsNext
<1>7. CASE a = "Error" /\ Abort /\ UNCHANGED objects
    <2>1. WorkerTypes' /\ queued' \in BOOLEAN
        BY <1>1, <1>7, AbortType DEF memory
    <2>2. ObjectTypes'
        BY <1>7, <2>1 DEF TypeInv, TypeOK, ObjectTypes, objects
    <2>3. QED
        BY <1>2, <1>3, <2>1, <2>2, TypePartsNext
<1>8. QED
    BY <1>5, <1>6, <1>7 DEF DeleteResource, Current

LEMMA FinishType ==
    ASSUME TypeInv, FinishReconcile \/ FinishCleanup
    PROVE  TypeInv'
<1>1. /\ pc \in {"reconcile", "cleanup"} /\ pc' = "idle"
      /\ UNCHANGED <<objects, spec, nextUid, queued, todo, cur, found, pending, pass, place,
                     counts>>
    BY DEF FinishReconcile, FinishCleanup, clearCache, cluster, memory
<1>2. ObjectTypes' /\ CountTypes'
    BY <1>1 DEF TypeInv, TypeOK, ObjectTypes, CountTypes, objects, counts
<1>3. ClusterTypes'
    BY <1>1 DEF FinishReconcile, FinishCleanup, TypeInv, TypeOK, ClusterTypes, cluster
<1>4. WorkerTypes'
    BY <1>1 DEF TypeInv, TypeOK, WorkerTypes, CursorInv, Current, PCs
<1>5. MemoryTypes'
    BY <1>1, BundleType
       DEF FinishReconcile, FinishCleanup, clearCache, TypeInv, TypeOK, MemoryTypes, memory
<1>6. QED
    BY <1>2, <1>3, <1>4, <1>5, TypePartsNext

LEMMA DeliverType ==
    ASSUME TypeInv, NEW k \in Keys, Deliver(k)
    PROVE  TypeInv'
<1>1. ObjectTypes'
    BY DEF Deliver, TypeInv, TypeOK, ObjectTypes
<1>2. UNCHANGED <<life, spec, nextUid, worker, memory, overlooked, counts>>
    BY DEF Deliver
<1>3. ClusterTypes' /\ WorkerTypes' /\ MemoryTypes' /\ CountTypes'
    BY <1>2 DEF TypeInv, TypeOK, ClusterTypes, WorkerTypes, MemoryTypes, CountTypes,
                CursorInv, Current, worker, memory, counts
<1>4. QED
    BY <1>1, <1>3, TypePartsNext

LEMMA RebootType ==
    ASSUME TypeInv, Reboot, CountTypes'
    PROVE  TypeInv'
<1>1. ObjectTypes' /\ ClusterTypes'
    BY DEF Reboot, TypeInv, TypeOK, ObjectTypes, ClusterTypes
<1>2. WorkerTypes'
    BY DEF Reboot, TypeInv, TypeOK, WorkerTypes, CursorInv, PCs
<1>3. MemoryTypes'
    BY BundleType DEF Reboot, MemoryTypes
<1>4. QED
    BY <1>1, <1>2, <1>3, TypePartsNext

LEMMA UserWritesType ==
    ASSUME TypeInv, NEW k \in Keys, NEW o \in Object \cup {Absent}, UserWrites(k, o),
           nextUid' \in Nat
    PROVE  TypeInv'
<1>1. /\ UserActs /\ SetObject(k, o) /\ UNCHANGED <<life, spec>>
    BY DEF UserWrites
<1>2. ObjectTypes'
    BY <1>1, SetObjectType DEF TypeInv, TypeOK, ObjectTypes
<1>3. ClusterTypes'
    BY <1>1 DEF UserActs, TypeInv, TypeOK, ClusterTypes
<1>4. WorkerTypes' /\ MemoryTypes'
    BY <1>1 DEF UserActs, TypeInv, TypeOK, WorkerTypes, MemoryTypes, CursorInv, Current,
                worker, memory
<1>5. CountTypes'
    BY <1>1, ResourcesAssumption DEF UserActs, TypeInv, TypeOK, CountTypes
<1>6. QED
    BY <1>2, <1>3, <1>4, <1>5, TypePartsNext

\* What a user's edit makes of an object.
LEMMA EditFacts ==
    ASSUME NEW o \in Object,
           NEW field \in {"data", "owner", "held"}, NEW value,
           field = "data" => value \in {"template", "edited"},
           field = "owner" => value \in {"cr", "ref", "other"},
           field = "held" => value \in BOOLEAN
    PROVE  /\ [o EXCEPT ![field] = value] \in Object
           /\ [o EXCEPT ![field] = value].uid = o.uid
           /\ [o EXCEPT ![field] = value].rv = o.rv
           /\ [o EXCEPT ![field] = value].gen = o.gen
<1>1. CASE field = "data"
    BY <1>1 DEF Object
<1>2. CASE field = "owner"
    BY <1>2 DEF Object
<1>3. CASE field = "held"
    BY <1>3 DEF Object
<1>4. QED
    BY <1>1, <1>2, <1>3

LEMMA EditObjectType ==
    ASSUME TypeInv, NEW k \in Keys,
           NEW field \in {"data", "owner", "held"}, NEW value,
           field = "data" => value \in {"template", "edited"},
           field = "owner" => value \in {"cr", "ref", "other"},
           field = "held" => value \in BOOLEAN,
           EditObject(k, field, value)
    PROVE  TypeInv'
<1>1. server[k] \in Object
    BY DEF EditObject, TypeInv, TypeOK
<1>2. NextVersion(k, server[k], [server[k] EXCEPT ![field] = value]) \in Object
    BY <1>1, EditFacts, NextVersionFacts
<1>3. nextUid' \in Nat
    BY DEF EditObject, TypeInv, TypeOK
<1>4. QED
    BY <1>2, <1>3, UserWritesType DEF EditObject

LEMMA UserType ==
    ASSUME TypeInv, User
    PROVE  TypeInv'
<1>1. ASSUME NEW k \in Keys, EditObject(k, "data", "edited") PROVE TypeInv'
    BY <1>1, EditObjectType
<1>2. ASSUME NEW k \in Keys, NEW v \in {"ref", "other"}, EditObject(k, "owner", v) PROVE TypeInv'
    BY <1>2, EditObjectType
<1>3. ASSUME NEW k \in Keys, EditObject(k, "held", TRUE) PROVE TypeInv'
    BY <1>3, EditObjectType
<1>4. ASSUME NEW k \in Keys, ReleaseObject(k) PROVE TypeInv'
    <2>1. server[k] \in Object /\ nextUid' \in Nat
        BY <1>4 DEF ReleaseObject, TypeInv, TypeOK
    <2>2. [server[k] EXCEPT !.held = FALSE] \in Object
        BY <2>1 DEF Object
    <2>3. NextVersion(k, server[k], [server[k] EXCEPT !.held = FALSE]) \in Object
        BY <2>1, <2>2, NextVersionFacts
    <2>4. QED
        BY <1>4, <2>1, <2>3, UserWritesType DEF ReleaseObject
<1>5. ASSUME NEW k \in Keys, DeleteObject(k) PROVE TypeInv'
    <2>1. server[k] \in Object /\ nextUid' \in Nat
        BY <1>5 DEF DeleteObject, TypeInv, TypeOK
    <2>2. QED
        BY <1>5, <2>1, RemovedFacts, UserWritesType DEF DeleteObject
<1>6. ASSUME NEW k \in Keys, CreateObject(k) PROVE TypeInv'
    <2>1. nextUid \in Nat /\ nextUid' \in Nat
        BY <1>6 DEF CreateObject, TypeInv, TypeOK
    <2>2. QED
        BY <1>6, <2>1, NewObjectType, UserWritesType DEF CreateObject
<1>7. ASSUME NEW from, NEW to \in {"live", "deleting"}, NEW s \in Specs, ChangeCR(from, to, s)
      PROVE  TypeInv'
    <2>1. UserActs /\ UNCHANGED objects /\ queued' = TRUE
        BY <1>7 DEF ChangeCR
    <2>2. ObjectTypes'
        BY <2>1 DEF TypeInv, TypeOK, ObjectTypes, objects
    <2>3. ClusterTypes'
        BY <1>7, <2>1 DEF ChangeCR, UserActs, TypeInv, TypeOK, ClusterTypes
    <2>4. WorkerTypes' /\ MemoryTypes'
        BY <2>1 DEF UserActs, TypeInv, TypeOK, WorkerTypes, MemoryTypes, CursorInv, Current,
                    worker, memory
    <2>5. CountTypes'
        BY <2>1, ResourcesAssumption DEF UserActs, TypeInv, TypeOK, CountTypes
    <2>6. QED
        BY <2>2, <2>3, <2>4, <2>5, TypePartsNext
<1>8. spec \in Specs
    BY DEF TypeInv, TypeOK
<1>9. QED
    BY <1>1, <1>2, <1>3, <1>4, <1>5, <1>6, <1>7, <1>8 DEF User

LEMMA InitType == Init => TypeInv
<1> SUFFICES ASSUME Init PROVE TypeInv
    OBVIOUS
<1> DEFINE left == [uid |-> 0, rv |-> 1, gen |-> 1, data |-> "template", owner |-> "cr",
                    held |-> FALSE, deleting |-> FALSE]
<1>1. \A k \in Keys : server[k] \in Object \cup {Absent}
    <2>1. left \in Object
        BY DEF Object
    <2>2. \A k \in Keys : Legacy(k) \subseteq {left, Absent}
        BY DEF Legacy
    <2> HIDE DEF left
    <2>3. QED
        BY <2>1, <2>2 DEF Init
<1>2. server \in [Keys -> Object \cup {Absent}]
    BY <1>1 DEF Init
<1>3. ObjectTypes /\ ClusterTypes
    BY <1>2 DEF Init, ObjectTypes, ClusterTypes
<1>4. WorkerTypes
    BY DEF Init, WorkerTypes, CursorInv, PCs
<1>5. MemoryTypes /\ CountTypes
    BY BundleType, ResourcesAssumption DEF Init, MemoryTypes, CountTypes
<1>6. QED
    BY <1>3, <1>4, <1>5, TypeParts

LEMMA NextType ==
    ASSUME TypeInv, [Next]_vars
    PROVE  TypeInv'
<1>1. CASE Start
    BY <1>1, StartType
<1>2. CASE Worker
    <2>1. ASSUME NEW r \in Resources, CleanupPanics(r) PROVE TypeInv'
        BY <2>1, RebootType DEF CleanupPanics, counts, TypeInv, TypeOK, CountTypes
    <2>2. QED
        BY <1>2, <2>1, ReconcileResourceType, CleanupResourceType, CreateResourceType,
           UpdateResourceType, DeleteResourceType, FinishType DEF Worker
<1>3. CASE Restart
    <2>1. CountTypes'
        BY <1>3, ResourcesAssumption DEF Restart, TypeInv, TypeOK, CountTypes
    <2>2. QED
        BY <1>3, <2>1, RebootType DEF Restart
<1>4. CASE User
    BY <1>4, UserType
<1>5. ASSUME NEW k \in Keys, Deliver(k) PROVE TypeInv'
    BY <1>5, DeliverType
<1>6. CASE UNCHANGED vars
    BY <1>6, TypeParts, TypePartsNext
       DEF vars, cluster, objects, worker, memory, counts, TypeInv, TypeOK, CursorInv, Current
<1>7. QED
    BY <1>1, <1>2, <1>3, <1>4, <1>5, <1>6 DEF Next

\* Every variable keeps its type (the type invariant of OperandResources), and
\* the worker's API calls are about keys of the cluster.
THEOREM TypeCorrect == Spec => []TypeOK
<1>1. TypeInv => TypeOK
    BY DEF TypeInv
<1>2. QED
    BY <1>1, InitType, NextType, PTL DEF Spec

-----------------------------------------------------------------------------
(* The version cache.                                                      *)

\* Contains for an entry that need not be the one in the cache.
Matches(e, o) ==
    /\ e # Absent
    /\ o.uid = e.uid
    /\ IF o.gen = 0 THEN o.rv = e.rv ELSE o.gen = e.gen

\* o, if it is an object stored under s's name, is s or an older version of it;
\* equal versions and, where they are counted, equal generations mean equal data.
Follows(o, s) ==
    s # Absent /\ o.uid = s.uid =>
        /\ o.rv <= s.rv
        /\ o.gen <= s.gen
        /\ o.rv = s.rv => o.gen = s.gen /\ o.data = s.data
        /\ o.gen # 0 /\ o.gen = s.gen => o.data = s.data

\* What is true of a copy o at key k while s is stored there, e is the cache's
\* entry and n the next uid.
Copy(k, o, s, e, n) ==
    o # Absent =>
        /\ o.uid < n
        /\ o.gen = 0 <=> k[1] \notin Generational
        /\ Follows(o, s)
        /\ k[1] \in Restored /\ Matches(e, o) => o.data = "template"

\* An entry is not ahead of the stored object.
NotAhead(e, s, n) ==
    e # Absent =>
        /\ e.uid < n
        /\ s # Absent /\ s.uid = e.uid => e.rv <= s.rv /\ e.gen <= s.gen

KeyInv(k) ==
    /\ Copy(k, server[k], server[k], vcache[k], nextUid)
    /\ Copy(k, informer[k], server[k], vcache[k], nextUid)
    /\ NotAhead(vcache[k], server[k], nextUid)

FoundInv ==
    found # Absent =>
        Copy(Current, found, server[Current], vcache[Current], nextUid)

CacheInv == FoundInv /\ \A k \in Keys : KeyInv(k)

\* new is the version after s.
Succeeds(k, s, new) ==
    /\ s \in Object
    /\ new \in Object
    /\ new.uid = s.uid
    /\ new.rv = s.rv + 1
    /\ new.gen = IF k[1] \in Generational /\ s.data # new.data THEN s.gen + 1 ELSE s.gen

\* new is an object with the uid n.
Fresh(k, new, n) ==
    /\ new \in Object
    /\ new.uid = n
    /\ new.gen = IF k[1] \in Generational THEN 1 ELSE 0

LEMMA EntryFields ==
    ASSUME NEW e \in Entry
    PROVE  e.uid \in Nat /\ e.rv \in Nat /\ e.gen \in Nat
BY DEF Entry

LEMMA ContainsMatches ==
    ASSUME NEW k, NEW o
    PROVE  Contains(k, o) <=> Matches(vcache[k], o)
BY DEF Contains, Matches

\* The next version of the stored object leaves its copies older versions of
\* it, and no entry matches it that did not match before.
LEMMA SuccessorCopies ==
    ASSUME NEW k, NEW s, NEW new, Succeeds(k, s, new),
           NEW e \in Entry \cup {Absent}, NEW n \in Nat,
           Copy(k, s, s, e, n), NotAhead(e, s, n)
    PROVE  /\ Copy(k, new, new, e, n)
           /\ NotAhead(e, new, n)
           /\ \A o \in Object \cup {Absent} : Copy(k, o, s, e, n) => Copy(k, o, new, e, n)
<1>1. /\ s.uid \in Nat /\ s.rv \in Nat /\ s.gen \in Nat /\ s # Absent
      /\ new.uid \in Nat /\ new.rv \in Nat /\ new.gen \in Nat /\ new # Absent
    BY Fields, ResourcesAssumption DEF Succeeds
<1>2. e # Absent => e.uid \in Nat /\ e.rv \in Nat /\ e.gen \in Nat
    BY EntryFields
<1>3. NotAhead(e, new, n)
    BY <1>1, <1>2 DEF NotAhead, Succeeds
<1>4. Copy(k, new, new, e, n)
    <2>1. new.uid < n /\ (new.gen = 0 <=> k[1] \notin Generational)
        BY <1>1 DEF Copy, Succeeds
    <2>2. ASSUME k[1] \in Restored, Matches(e, new) PROVE new.data = "template"
        <3>1. e # Absent /\ e.uid = s.uid /\ e.rv <= s.rv /\ e.gen <= s.gen
            BY <1>1, <1>2, <2>2 DEF Matches, NotAhead, Succeeds
        <3>2. new.gen # 0 /\ new.gen = s.gen /\ new.data = s.data
            BY <1>1, <1>2, <2>1, <2>2, <3>1 DEF Matches, Succeeds
        <3>3. Matches(e, s)
            BY <1>1, <2>2, <3>1, <3>2 DEF Matches
        <3>4. QED
            BY <1>1, <2>2, <3>2, <3>3 DEF Copy
    <2>3. QED
        BY <1>1, <2>1, <2>2 DEF Copy, Follows
<1>5. ASSUME NEW o \in Object, Copy(k, o, s, e, n) PROVE Copy(k, o, new, e, n)
    <2>1. o # Absent /\ o.uid \in Nat /\ o.rv \in Nat /\ o.gen \in Nat
        BY Fields, ResourcesAssumption
    <2>2. o.uid = s.uid => o.rv < new.rv /\ o.gen <= new.gen
        BY <1>1, <1>5, <2>1 DEF Copy, Follows, Succeeds
    <2>3. o.uid = s.uid /\ o.gen # 0 /\ o.gen = new.gen => o.data = new.data
        BY <1>1, <1>5, <2>1 DEF Copy, Follows, Succeeds
    <2>4. Follows(o, new)
        BY <1>1, <2>1, <2>2, <2>3 DEF Follows, Succeeds
    <2>5. QED
        BY <1>5, <2>1, <2>4 DEF Copy
<1>6. QED
    BY <1>3, <1>4, <1>5 DEF Copy

\* A new object under an old name has a uid that no copy and no entry has.
LEMMA FreshCopies ==
    ASSUME NEW k, NEW new, NEW n \in Nat, Fresh(k, new, n),
           NEW e \in Entry \cup {Absent}, NotAhead(e, Absent, n)
    PROVE  /\ Copy(k, new, new, e, n + 1)
           /\ NotAhead(e, new, n + 1)
           /\ \A o \in Object \cup {Absent} :
                  Copy(k, o, Absent, e, n) => Copy(k, o, new, e, n + 1)
<1>1. new.uid = n /\ new.rv \in Nat /\ new.gen \in Nat /\ new # Absent
    BY Fields, ResourcesAssumption DEF Fresh
<1>2. e # Absent => e.uid \in Nat /\ e.uid < n
    BY EntryFields DEF NotAhead
<1>3. NotAhead(e, new, n + 1)
    BY <1>1, <1>2 DEF NotAhead
<1>4. ~Matches(e, new)
    BY <1>1, <1>2 DEF Matches
<1>5. Copy(k, new, new, e, n + 1)
    BY <1>1, <1>4 DEF Copy, Follows, Fresh
<1>6. ASSUME NEW o \in Object, Copy(k, o, Absent, e, n) PROVE Copy(k, o, new, e, n + 1)
    <2>1. o # Absent /\ o.uid \in Nat /\ o.uid < n
        BY <1>6, Fields, ResourcesAssumption DEF Copy
    <2>2. Follows(o, new)
        BY <1>1, <2>1 DEF Follows
    <2>3. QED
        BY <1>6, <2>1, <2>2 DEF Copy
<1>7. QED
    BY <1>3, <1>5, <1>6 DEF Copy

\* Nothing is behind an object that is not there.
LEMMA GoneCopies ==
    ASSUME NEW k, NEW s, NEW e, NEW n, NotAhead(e, s, n)
    PROVE  /\ Copy(k, Absent, Absent, e, n)
           /\ NotAhead(e, Absent, n)
           /\ \A o : Copy(k, o, s, e, n) => Copy(k, o, Absent, e, n)
BY DEF Copy, Follows, NotAhead

\* What a write may put where s is.
Written(k, s, new, n2) ==
    \/ new \in {Absent, s} /\ n2 = nextUid
    \/ s # Absent /\ Succeeds(k, s, new) /\ n2 = nextUid
    \/ s = Absent /\ Fresh(k, new, nextUid) /\ n2 = nextUid + 1

\* The worker keeps the object it has read or lets go of it.
KeepsFound == found' = Absent \/ UNCHANGED <<cur, found, place>>

\* A uid that is given away harms no copy.
LEMMA LaterUid ==
    ASSUME NEW k, NEW o \in Object \cup {Absent}, NEW s, NEW e \in Entry \cup {Absent},
           NEW n \in Nat, NEW n2 \in Nat, n2 >= n
    PROVE  /\ Copy(k, o, s, e, n) => Copy(k, o, s, e, n2)
           /\ NotAhead(e, s, n) => NotAhead(e, s, n2)
BY Fields, EntryFields DEF Copy, NotAhead

\* A write, whoever does it, leaves the invariant to the version cache.
LEMMA WriteCache ==
    ASSUME TypeInv, CacheInv, NEW k \in Keys, NEW new \in Object \cup {Absent},
           Written(k, server[k], new, nextUid'), SetObject(k, new), UNCHANGED vcache, KeepsFound
    PROVE  CacheInv'
<1> DEFINE s == server[k]
           e == vcache[k]
<1>1. /\ nextUid \in Nat /\ nextUid' \in Nat /\ nextUid' >= nextUid
      /\ \A j \in Keys : /\ server[j] \in Object \cup {Absent}
                         /\ informer[j] \in Object \cup {Absent}
                         /\ vcache[j] \in Entry \cup {Absent}
      /\ found \in Object \cup {Absent}
    BY DEF TypeInv, TypeOK, Written
<1>2. /\ server' = [server EXCEPT ![k] = new]
      /\ informer' \in {informer, [informer EXCEPT ![k] = new]}
    BY DEF SetObject
<1>3. /\ server'[k] = new /\ informer'[k] \in {informer[k], new}
      /\ \A j \in Keys \ {k} : server'[j] = server[j] /\ informer'[j] = informer[j]
    BY <1>2 DEF TypeInv, TypeOK
<1>4. Copy(k, s, s, e, nextUid) /\ NotAhead(e, s, nextUid)
    BY DEF CacheInv, KeyInv
<1>5. /\ Copy(k, new, new, e, nextUid')
      /\ NotAhead(e, new, nextUid')
      /\ \A o \in Object \cup {Absent} :
             Copy(k, o, s, e, nextUid) => Copy(k, o, new, e, nextUid')
    <2>1. CASE new = Absent /\ nextUid' = nextUid
        BY <1>4, <2>1, GoneCopies
    <2>2. CASE new = s /\ nextUid' = nextUid
        BY <1>4, <2>2
    <2>3. CASE s # Absent /\ Succeeds(k, s, new) /\ nextUid' = nextUid
        BY <1>1, <1>4, <2>3, SuccessorCopies
    <2>4. CASE s = Absent /\ Fresh(k, new, nextUid) /\ nextUid' = nextUid + 1
        <3> HIDE DEF s, e
        <3>1. e \in Entry \cup {Absent}
            BY <1>1 DEF e
        <3>2. NotAhead(e, Absent, nextUid)
            BY <1>4, <2>4
        <3>3. QED
            BY <1>1, <2>4, <3>1, <3>2, FreshCopies
    <2>5. QED
        BY <2>1, <2>2, <2>3, <2>4 DEF Written
<1>6. KeyInv(k)'
    <2>1. Copy(k, informer[k], s, e, nextUid)
        BY DEF CacheInv, KeyInv
    <2>2. Copy(k, informer'[k], new, e, nextUid')
        BY <1>1, <1>3, <1>5, <2>1
    <2>3. QED
        BY <1>3, <1>5, <2>2 DEF KeyInv
<1>7. ASSUME NEW j \in Keys, j # k PROVE KeyInv(j)'
    <2>1. KeyInv(j)
        BY DEF CacheInv
    <2>2. server'[j] = server[j] /\ informer'[j] = informer[j] /\ vcache'[j] = vcache[j]
        BY <1>3, <1>7
    <2>3. QED
        BY <1>1, <2>1, <2>2, LaterUid DEF KeyInv
<1>8. FoundInv'
    <2> SUFFICES ASSUME found' # Absent PROVE Copy(Current, found, server[Current], vcache[Current], nextUid)'
        BY DEF FoundInv
    <2>1. UNCHANGED <<cur, found, place>> /\ Current' = Current
        BY DEF KeepsFound, Current
    <2>2. Current \in Keys /\ Copy(Current, found, server[Current], vcache[Current], nextUid)
        BY <2>1 DEF TypeInv, CursorInv, CacheInv, FoundInv
    <2>3. CASE Current = k
        BY <1>1, <1>3, <1>5, <2>1, <2>2, <2>3
    <2>4. CASE Current # k
        <3>1. server'[Current] = server[Current]
            BY <1>3, <2>2, <2>4
        <3>2. QED
            BY <1>1, <2>1, <2>2, <3>1, LaterUid
    <2>5. QED
        BY <2>3, <2>4
<1>9. QED
    BY <1>6, <1>7, <1>8 DEF CacheInv

\* Entries are dropped, all of them or one; objects stay.
LEMMA DropCache ==
    ASSUME TypeInv, CacheInv, UNCHANGED <<server, nextUid>>, KeepsFound,
           \A k \in Keys : informer'[k] \in {informer[k], server[k]},
           \A k \in Keys : vcache'[k] \in {vcache[k], Absent}
    PROVE  CacheInv'
<1>1. ASSUME NEW k \in Keys PROVE KeyInv(k)'
    BY <1>1 DEF CacheInv, KeyInv, Copy, Matches, NotAhead
<1>2. FoundInv'
    <2> SUFFICES ASSUME found' # Absent PROVE Copy(Current, found, server[Current], vcache[Current], nextUid)'
        BY DEF FoundInv
    <2>1. UNCHANGED <<cur, found, place>> /\ Current' = Current
        BY DEF KeepsFound, Current
    <2>2. Current \in Keys /\ Copy(Current, found, server[Current], vcache[Current], nextUid)
        BY <2>1 DEF TypeInv, CursorInv, CacheInv, FoundInv
    <2>3. vcache'[Current] \in {vcache[Current], Absent}
        BY <2>2
    <2>4. QED
        BY <2>1, <2>2, <2>3 DEF Copy, Matches
<1>3. QED
    BY <1>1, <1>2 DEF CacheInv

\* The entry Add makes of an object.
EntryOf(o) == [uid |-> o.uid, rv |-> o.rv, gen |-> o.gen]

LEMMA EntryOfFields ==
    ASSUME NEW o \in Object
    PROVE  /\ EntryOf(o) \in Entry /\ EntryOf(o) # Absent
           /\ EntryOf(o).uid = o.uid /\ EntryOf(o).rv = o.rv /\ EntryOf(o).gen = o.gen
BY Fields, ResourcesAssumption DEF EntryOf, Entry

\* An entry made from a copy with the template's data vouches for every copy.
LEMMA OwnEntry ==
    ASSUME NEW k, NEW s \in Object \cup {Absent}, NEW o \in Object, NEW e, NEW n \in Nat,
           Copy(k, o, s, e, n), k[1] \in Restored => o.data = "template"
    PROVE  /\ Copy(k, o, s, EntryOf(o), n)
           /\ NotAhead(EntryOf(o), s, n)
           /\ Copy(k, s, s, e, n) => Copy(k, s, s, EntryOf(o), n)
<1> DEFINE f == EntryOf(o)
<1>1. f # Absent /\ f.uid = o.uid /\ f.rv = o.rv /\ f.gen = o.gen
    BY EntryOfFields
<1>2. /\ o # Absent /\ o.uid \in Nat /\ o.rv \in Nat /\ o.gen \in Nat
      /\ s # Absent => s.uid \in Nat /\ s.rv \in Nat /\ s.gen \in Nat
    BY Fields, ResourcesAssumption
<1> HIDE DEF f
<1>3. Copy(k, o, s, f, n)
    BY <1>2 DEF Copy
<1>4. NotAhead(f, s, n)
    BY <1>1, <1>2 DEF NotAhead, Copy, Follows
<1>5. ASSUME s # Absent, Copy(k, s, s, e, n) PROVE Copy(k, s, s, f, n)
    <2>1. Matches(f, s) => o.data = s.data
        BY <1>1, <1>2, <1>5 DEF Matches, Copy, Follows
    <2>2. QED
        BY <1>2, <1>5, <2>1 DEF Copy
<1>6. QED
    BY <1>3, <1>4, <1>5 DEF f, Copy

\* A copy that is as it should be is cached.
LEMMA AddFoundCache ==
    ASSUME TypeInv, CacheInv, NEW k \in Keys, informer[k] # Absent,
           k[1] \in Restored => informer[k].data = "template",
           Add(k, informer[k]), UNCHANGED <<server, informer, nextUid>>, found' = Absent
    PROVE  CacheInv'
<1> DEFINE o == informer[k]
<1>1. o \in Object /\ server[k] \in Object \cup {Absent} /\ nextUid \in Nat /\ KeyInv(k)
    BY DEF TypeInv, TypeOK, CacheInv
<1>2. vcache'[k] = EntryOf(o) /\ \A j \in Keys \ {k} : vcache'[j] = vcache[j]
    BY DEF Add, EntryOf, TypeInv, TypeOK
<1>3. /\ Copy(k, o, server[k], EntryOf(o), nextUid)
      /\ NotAhead(EntryOf(o), server[k], nextUid)
      /\ Copy(k, server[k], server[k], EntryOf(o), nextUid)
    BY <1>1, OwnEntry DEF KeyInv
<1>4. KeyInv(k)'
    BY <1>2, <1>3 DEF KeyInv
<1>5. ASSUME NEW j \in Keys, j # k PROVE KeyInv(j)'
    BY <1>2, <1>5 DEF CacheInv, KeyInv
<1>6. FoundInv'
    BY DEF FoundInv
<1>7. QED
    BY <1>4, <1>5, <1>6 DEF CacheInv

LEMMA ReconcileResourceCache ==
    ASSUME TypeInv, CacheInv, NEW r \in Resources, ReconcileResource(r)
    PROVE  CacheInv'
<1> DEFINE k == <<r, PlaceOf(r, pass)>>
           o == Cached(k)
<1>1. /\ UNCHANGED <<server, informer, nextUid>>
      /\ pc = "reconcile" /\ cur = Absent /\ found = Absent
      /\ place' = [place EXCEPT ![r] = PlaceOf(r, pass)]
    BY DEF ReconcileResource, cluster, objects, TypeInv, TypeOK, CursorInv
<1>2. o # Absent => k \in Keys /\ o = informer[k] /\ o \in Object
    BY DEF Cached, TypeInv, TypeOK
<1> HIDE DEF k, o
<1>3. CASE vcache' = [vcache EXCEPT ![k] = Absent] /\ UNCHANGED <<pc, cur, found>>
    <2>1. \A j \in Keys : vcache'[j] \in {vcache[j], Absent}
        BY <1>3 DEF TypeInv, TypeOK
    <2>2. QED
        BY <1>1, <1>3, <2>1, DropCache DEF KeepsFound
<1>4. CASE AsDesired(k, o) /\ Add(k, o) /\ UNCHANGED <<pc, cur, found>>
    <2>1. k \in Keys /\ o = informer[k] /\ o \in Object
        BY <1>2, <1>4 DEF AsDesired
    <2>2. KeyInv(k)
        BY <2>1 DEF CacheInv
    <2>3. k[1] \in Restored => o.data = "template"
        <3>1. o.data = IF k[1] \in Restored /\ ~Contains(k, o) THEN "template" ELSE o.data
            BY <1>4, <2>1, MutatedFacts DEF AsDesired
        <3>2. QED
            BY <2>1, <2>2, <3>1, ContainsMatches, ResourcesAssumption DEF KeyInv, Copy
    <2>4. QED
        BY <1>1, <1>4, <2>1, <2>3, AddFoundCache, ResourcesAssumption
<1>5. CASE cur' = r /\ found' = o /\ UNCHANGED vcache
    <2>1. \A j \in Keys : KeyInv(j)'
        BY <1>1, <1>5 DEF CacheInv, KeyInv
    <2>2. Current' = k
        BY <1>1, <1>5 DEF Current, k, TypeInv, TypeOK
    <2>3. FoundInv'
        BY <1>1, <1>2, <1>5, <2>2 DEF FoundInv, CacheInv, KeyInv
    <2>4. QED
        BY <2>1, <2>3 DEF CacheInv
<1>6. QED
    BY <1>3, <1>4, <1>5 DEF ReconcileResource, k, o

\* The worker reads another object, or none, and lets the cache alone.
LEMMA ReadCache ==
    ASSUME TypeInv, CacheInv, NEW r \in Resources, UNCHANGED <<server, informer, nextUid, memory>>,
           cur' = r, found' = Cached(<<r, place[r]>>)
    PROVE  CacheInv'
<1> DEFINE k == <<r, place[r]>>
<1>1. found' # Absent => k \in Keys /\ found' = informer[k]
    BY DEF Cached
<1>2. Current' = k
    BY DEF Current, memory
<1>3. \A j \in Keys : KeyInv(j)'
    BY DEF CacheInv, KeyInv, memory
<1>4. FoundInv'
    BY <1>1, <1>2 DEF FoundInv, CacheInv, KeyInv, memory
<1>5. QED
    BY <1>3, <1>4 DEF CacheInv

\* An update that took effect is cached.
LEMMA AddUpdatedCache ==
    ASSUME TypeInv, CacheInv, NEW k \in Keys, NEW new, Succeeds(k, server[k], new),
           k[1] \in Restored => new.data = "template",
           SetObject(k, new), Add(k, new), UNCHANGED nextUid, found' = Absent
    PROVE  CacheInv'
<1> DEFINE s == server[k]
           e == EntryOf(new)
<1>1. /\ server'[k] = new /\ informer'[k] \in {informer[k], new}
      /\ \A j \in Keys \ {k} : server'[j] = server[j] /\ informer'[j] = informer[j]
    BY DEF SetObject, TypeInv, TypeOK
<1>2. vcache'[k] = e /\ \A j \in Keys \ {k} : vcache'[j] = vcache[j]
    BY DEF Add, EntryOf, TypeInv, TypeOK
<1>3. new \in Object /\ nextUid \in Nat
    BY DEF Succeeds, TypeInv, TypeOK
<1> HIDE DEF e
<1>4. KeyInv(k)'
    <2>1. /\ vcache[k] \in Entry \cup {Absent} /\ informer[k] \in Object \cup {Absent}
          /\ Copy(k, s, s, vcache[k], nextUid) /\ NotAhead(vcache[k], s, nextUid)
          /\ Copy(k, informer[k], s, vcache[k], nextUid)
        BY DEF CacheInv, KeyInv, TypeInv, TypeOK
    <2>2. Copy(k, new, new, vcache[k], nextUid) /\ Copy(k, informer[k], new, vcache[k], nextUid)
        BY <1>3, <2>1, SuccessorCopies
    <2>3. Copy(k, new, new, e, nextUid) /\ NotAhead(e, new, nextUid)
        BY <1>3, <2>2, OwnEntry DEF e
    <2>4. Copy(k, informer[k], new, e, nextUid)
        <3> SUFFICES ASSUME informer[k] # Absent PROVE Copy(k, informer[k], new, e, nextUid)
            BY DEF Copy
        <3>1. /\ informer[k] \in Object
              /\ informer[k].uid \in Nat /\ informer[k].rv \in Nat /\ informer[k].gen \in Nat
              /\ new.rv \in Nat /\ new.gen \in Nat /\ new # Absent
            BY <1>3, <2>1, Fields, ResourcesAssumption
        <3>2. e.uid = new.uid /\ e.rv = new.rv /\ e.gen = new.gen
            BY <1>3, EntryOfFields DEF e
        <3>3. Matches(e, informer[k]) => informer[k].data = new.data
            BY <2>2, <3>1, <3>2 DEF Matches, Copy, Follows
        <3>4. QED
            BY <2>2, <3>1, <3>3 DEF Copy
    <2>5. QED
        BY <1>1, <1>2, <2>3, <2>4 DEF KeyInv
<1>5. ASSUME NEW j \in Keys, j # k PROVE KeyInv(j)'
    BY <1>1, <1>2, <1>5 DEF CacheInv, KeyInv
<1>6. FoundInv'
    BY DEF FoundInv
<1>7. QED
    BY <1>4, <1>5, <1>6 DEF CacheInv

LEMMA UpdateResourceCache ==
    ASSUME TypeInv, CacheInv, NEW a, UpdateResource(a)
    PROVE  CacheInv'
<1>1. /\ found # Absent /\ UNCHANGED <<nextUid, place>>
      /\ a \in MayFail \cup {IF SameVersion(found, server[Current]) THEN "OK" ELSE "Refused"}
    BY DEF UpdateResource, Current
<1>2. PICK k \in Keys : k = Current
    BY <1>1 DEF TypeInv, CursorInv
<1>3. found \in Object /\ Copy(k, found, server[k], vcache[k], nextUid)
    BY <1>1, <1>2 DEF TypeInv, TypeOK, CacheInv, FoundInv
<1> DEFINE m == Mutated(k, found)
           new == NextVersion(k, found, m)
<1>4. CASE a = "OK"
    <2>1. SetObject(k, new) /\ Add(k, new) /\ found' = Absent
        BY <1>2, <1>4 DEF UpdateResource, Current, NextResource
    <2>2. server[k] \in Object /\ found.uid = server[k].uid /\ found.rv = server[k].rv
        BY <1>1, <1>2, <1>4 DEF SameVersion, MayFail, TypeInv, TypeOK
    <2>3. found.gen = server[k].gen /\ found.data = server[k].data
        BY <1>1, <1>3, <2>2, ResourcesAssumption DEF Copy, Follows
    <2>4. k[1] \in Restored => m.data = "template"
        BY <1>1, <1>3, MutatedFacts, ContainsMatches DEF Copy
    <2>5. m \in Object /\ m.uid = found.uid /\ m.gen = found.gen
        BY <1>3, MutatedFacts
    <2> HIDE DEF m
    <2>6. /\ new \in Object /\ new.uid = m.uid /\ new.rv = found.rv + 1 /\ new.data = m.data
          /\ new.gen = IF k[1] \in Generational /\ found.data # m.data
                       THEN m.gen + 1 ELSE m.gen
        BY <1>3, <2>5, NextVersionFacts
    <2> HIDE DEF new
    <2>7. Succeeds(k, server[k], new) /\ (k[1] \in Restored => new.data = "template")
        BY <2>2, <2>3, <2>4, <2>5, <2>6 DEF Succeeds
    <2>8. QED
        BY <1>1, <2>1, <2>7, AddUpdatedCache
<1>5. CASE a # "OK"
    <2>1. Abort /\ UNCHANGED <<objects, vcache>>
        BY <1>5 DEF UpdateResource
    <2>2. QED
        BY <1>1, <2>1, DropCache DEF Abort, objects, KeepsFound
<1>6. QED
    BY <1>4, <1>5

LEMMA CreateResourceCache ==
    ASSUME TypeInv, CacheInv, NEW a, CreateResource(a)
    PROVE  CacheInv'
<1>1. /\ a \in MayFail \cup {IF Current \in Keys /\ server[Current] = Absent
                            THEN "OK" ELSE "Refused"}
      /\ UNCHANGED memory
    BY DEF CreateResource, Current
<1>2. CASE a = "OK"
    <2>1. PICK k \in Keys : k = Current /\ server[k] = Absent
        BY <1>1, <1>2 DEF MayFail
    <2> DEFINE new == NewObject(k, "template", "cr")
    <2>2. SetObject(k, new) /\ nextUid' = nextUid + 1 /\ found' = Absent
        BY <1>2, <2>1 DEF CreateResource, Current, NextResource
    <2>3. Fresh(k, new, nextUid)
        BY NewObjectType DEF NewObject, Fresh, TypeInv, TypeOK
    <2> HIDE DEF new
    <2>4. new \in Object
        BY <2>3 DEF Fresh
    <2>5. QED
        BY <1>1, <2>1, <2>2, <2>3, <2>4, WriteCache DEF Written, KeepsFound, memory
<1>3. CASE a # "OK"
    <2>1. Abort /\ UNCHANGED <<objects, nextUid>>
        BY <1>3 DEF CreateResource
    <2>2. QED
        BY <1>1, <2>1, DropCache DEF Abort, objects, KeepsFound, memory
<1>4. QED
    BY <1>2, <1>3

\* What a deletion puts where an object was.
LEMMA RemovedWritten ==
    ASSUME TypeInv, NEW k \in Keys, server[k] # Absent
    PROVE  /\ Written(k, server[k], Removed(server[k]), nextUid)
           /\ Removed(server[k]) \in Object \cup {Absent}
<1>1. server[k] \in Object
    BY DEF TypeInv, TypeOK
<1>2. QED
    BY <1>1, RemovedFacts DEF Written, Succeeds

LEMMA DeleteResourceCache ==
    ASSUME TypeInv, CacheInv, NEW a, DeleteResource(a)
    PROVE  CacheInv'
<1>1. /\ a \in MayFail \cup {IF server[Current] = Absent THEN "NotFound" ELSE "OK"}
      /\ UNCHANGED <<nextUid, memory>> /\ found' = Absent
    BY DEF DeleteResource, Current, NextResource, Abort
<1>2. PICK k \in Keys : k = Current
    BY DEF DeleteResource, TypeInv, CursorInv
<1>3. CASE a = "OK" /\ SetObject(k, Removed(server[k]))
    <2>1. server[k] # Absent
        BY <1>1, <1>2, <1>3 DEF MayFail
    <2>2. QED
        BY <1>1, <1>3, <2>1, RemovedWritten, WriteCache DEF KeepsFound, memory
<1>4. CASE UNCHANGED objects
    BY <1>1, <1>4, DropCache DEF objects, KeepsFound, memory
<1>5. QED
    BY <1>2, <1>3, <1>4 DEF DeleteResource, Current, objects

LEMMA UserCache ==
    ASSUME TypeInv, CacheInv, User
    PROVE  CacheInv'
<1>1. ASSUME NEW k \in Keys, NEW new \in Object \cup {Absent},
             Written(k, server[k], new, nextUid'), UserWrites(k, new)
      PROVE  CacheInv'
    BY <1>1, WriteCache DEF UserWrites, UserActs, worker, memory, KeepsFound
<1>2. ASSUME NEW k \in Keys, NEW o \in Object, server[k] # Absent,
             o.uid = server[k].uid, o.gen = server[k].gen,
             UserWrites(k, NextVersion(k, server[k], o)), UNCHANGED nextUid
      PROVE  CacheInv'
    <2>1. server[k] \in Object
        BY <1>2 DEF TypeInv, TypeOK
    <2> DEFINE new == NextVersion(k, server[k], o)
    <2>2. /\ new \in Object /\ new.uid = o.uid /\ new.rv = server[k].rv + 1 /\ new.data = o.data
          /\ new.gen = IF k[1] \in Generational /\ server[k].data # o.data
                       THEN o.gen + 1 ELSE o.gen
        BY <1>2, <2>1, NextVersionFacts
    <2> HIDE DEF new
    <2>3. Succeeds(k, server[k], new)
        BY <1>2, <2>1, <2>2 DEF Succeeds
    <2>4. UserWrites(k, new)
        BY <1>2 DEF new
    <2>5. QED
        BY <1>1, <1>2, <2>2, <2>3, <2>4 DEF Written
<1>3. ASSUME NEW k \in Keys, NEW field \in {"data", "owner", "held"}, NEW value,
             field = "data" => value \in {"template", "edited"},
             field = "owner" => value \in {"cr", "ref", "other"},
             field = "held" => value \in BOOLEAN,
             EditObject(k, field, value)
      PROVE  CacheInv'
    <2>1. server[k] \in Object
        BY <1>3 DEF EditObject, TypeInv, TypeOK
    <2> DEFINE o == [server[k] EXCEPT ![field] = value]
    <2>2. o \in Object /\ o.uid = server[k].uid /\ o.gen = server[k].gen
        BY <1>3, <2>1, EditFacts
    <2>3. /\ server[k] # Absent /\ UserWrites(k, NextVersion(k, server[k], o)) /\ UNCHANGED nextUid
        BY <1>3 DEF EditObject
    <2> HIDE DEF o
    <2>4. QED
        BY <1>2, <2>2, <2>3
<1>4. ASSUME NEW k \in Keys, ReleaseObject(k) PROVE CacheInv'
    <2>1. server[k] \in Object /\ server[k] # Absent /\ UNCHANGED nextUid
        BY <1>4 DEF ReleaseObject, TypeInv, TypeOK
    <2> DEFINE o == [server[k] EXCEPT !.held = FALSE]
    <2>2. o \in Object /\ o.uid = server[k].uid /\ o.gen = server[k].gen
        BY <2>1, EditFacts
    <2>3. UserWrites(k, IF server[k].deleting THEN Absent ELSE NextVersion(k, server[k], o))
        BY <1>4 DEF ReleaseObject
    <2> HIDE DEF o
    <2>4. CASE server[k].deleting
        BY <1>1, <2>1, <2>3, <2>4 DEF Written
    <2>5. CASE ~server[k].deleting
        BY <1>2, <2>1, <2>2, <2>3, <2>5
    <2>6. QED
        BY <2>4, <2>5
<1>5. ASSUME NEW k \in Keys, DeleteObject(k) PROVE CacheInv'
    BY <1>1, <1>5, RemovedWritten DEF DeleteObject
<1>6. ASSUME NEW k \in Keys, CreateObject(k) PROVE CacheInv'
    <2> DEFINE new == NewObject(k, "edited", "other")
    <2>1. Fresh(k, new, nextUid)
        BY NewObjectType DEF NewObject, Fresh, TypeInv, TypeOK
    <2>2. server[k] = Absent /\ UserWrites(k, new) /\ nextUid' = nextUid + 1
        BY <1>6 DEF CreateObject
    <2> HIDE DEF new
    <2>3. QED
        BY <1>1, <2>1, <2>2 DEF Written, Fresh
<1>7. ASSUME NEW from, NEW to, NEW s, ChangeCR(from, to, s) PROVE CacheInv'
    BY <1>7, DropCache DEF ChangeCR, UserActs, objects, worker, memory, KeepsFound
<1>8. QED
    BY <1>3, <1>4, <1>5, <1>6, <1>7 DEF User

LEMMA NextCache ==
    ASSUME TypeInv, CacheInv, [Next]_vars
    PROVE  CacheInv'
<1> USE DEF KeepsFound
<1>1. CASE Start
    <2>1. UNCHANGED cluster /\ KeepsFound /\ (UNCHANGED vcache \/ clearCacheIfNeeded)
        BY <1>1 DEF Start, worker, memory, clearCacheIfNeeded
    <2>2. QED
        BY <2>1, DropCache DEF cluster, objects, clearCacheIfNeeded
<1>2. ASSUME NEW r \in Resources, CleanupResource(r) PROVE CacheInv'
    <2>1. UNCHANGED <<server, informer, nextUid, memory>>
        BY <1>2 DEF CleanupResource, cluster, objects
    <2>2. CASE cur' = r /\ found' = Cached(<<r, place[r]>>)
        BY <1>2, <2>1, <2>2, ReadCache
    <2>3. CASE UNCHANGED <<cur, found>>
        BY <2>1, <2>3, DropCache DEF memory
    <2>4. QED
        BY <1>2, <2>2, <2>3 DEF CleanupResource
<1>3. ASSUME Reboot PROVE CacheInv'
    BY <1>3, DropCache DEF Reboot
<1>4. CASE FinishReconcile \/ FinishCleanup
    BY <1>4, DropCache DEF FinishReconcile, FinishCleanup, clearCache, cluster, objects, memory
<1>5. ASSUME NEW k \in Keys, Deliver(k) PROVE CacheInv'
    <2>1. /\ UNCHANGED <<server, nextUid, worker, memory>>
          /\ \A j \in Keys : informer'[j] \in {informer[j], server[j]}
        BY <1>5 DEF Deliver, TypeInv, TypeOK
    <2>2. QED
        BY <2>1, DropCache DEF worker, memory
<1>6. CASE UNCHANGED vars
    BY <1>6, DropCache DEF vars, cluster, objects, worker, memory
<1>7. QED
    BY <1>1, <1>2, <1>3, <1>4, <1>5, <1>6, ReconcileResourceCache, CreateResourceCache,
       UpdateResourceCache, DeleteResourceCache, UserCache
       DEF Next, Worker, CleanupPanics, Restart

LEMMA InitCache == Init => CacheInv
<1> SUFFICES ASSUME Init PROVE CacheInv
    OBVIOUS
<1> DEFINE left == [uid |-> 0, rv |-> 1, gen |-> 1, data |-> "template", owner |-> "cr",
                    held |-> FALSE, deleting |-> FALSE]
<1>1. ASSUME NEW k \in Keys, server[k] # Absent PROVE k[1] \in Generational /\ server[k] = left
    BY <1>1 DEF Init, Legacy, Generational
<1>2. left.uid = 0 /\ left.gen = 1 /\ left.rv = 1 /\ left.data = "template"
    OBVIOUS
<1> HIDE DEF left
<1>3. ASSUME NEW k \in Keys PROVE KeyInv(k)
    <2>1. informer[k] = server[k] /\ vcache[k] = Absent /\ nextUid = 1
        BY DEF Init
    <2>2. CASE server[k] = Absent
        BY <2>1, <2>2 DEF KeyInv, Copy, NotAhead
    <2>3. CASE server[k] # Absent
        <3>1. Copy(k, server[k], server[k], vcache[k], nextUid)
            BY <1>1, <1>2, <2>1, <2>3 DEF Copy, Follows
        <3>2. QED
            BY <2>1, <3>1 DEF KeyInv, NotAhead
    <2>4. QED
        BY <2>2, <2>3
<1>4. FoundInv
    BY DEF Init, FoundInv
<1>5. QED
    BY <1>3, <1>4 DEF CacheInv

\* The version cache never vouches for edited data (VersionCache.Contains): a
\* resource whose version it holds has the template's data, at the API server
\* and in the lagging informer, whatever users, failing calls and restarts do.
THEOREM CacheSoundAlways == Spec => []CacheSound
<1>1. ASSUME TypeInv, CacheInv PROVE CacheSound
    BY <1>1, ContainsMatches DEF CacheSound, CacheInv, KeyInv, Copy
<1>2. TypeInv /\ CacheInv /\ [Next]_vars => TypeInv' /\ CacheInv'
    BY NextType, NextCache
<1>3. QED
    BY <1>1, <1>2, InitType, InitCache, PTL DEF Spec
=============================================================================
