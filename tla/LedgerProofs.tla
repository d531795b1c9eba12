---------------------------- MODULE LedgerProofs ----------------------------
(***************************************************************************)
(* Proofs about the reservation ledger, for every set of instances,        *)
(* benchmarks, devices and requests, every time to live and every bound.   *)
(*                                                                         *)
(* The ledger edits its three maps through two operators, Drop and Grant,  *)
(* so the argument is made about tables: both keep a table well formed,    *)
(* and every action is made of them.                                       *)
(***************************************************************************)
EXTENDS Ledger, Sums, SequenceTheorems

TableType == [leases  : [LeaseIds -> Lease \cup {NoLease}],
              byOwner : [Owners -> LeaseIds \cup {None}],
              claimed : [Instances -> LeaseIds \cup {None}]]

IndexOf(t) ==
    /\ \A o \in Owners : t.byOwner[o] # None =>
          /\ t.leases[t.byOwner[o]] # NoLease
          /\ t.leases[t.byOwner[o]].owner = o
    /\ \A id \in LeaseIds :
          t.leases[id] # NoLease => t.byOwner[t.leases[id].owner] = id

ClaimsOf(t) ==
    \A v \in Instances : t.claimed[v] # None =>
        /\ t.leases[t.claimed[v]] # NoLease
        /\ t.leases[t.claimed[v]].owner \in Instances \ {v}

\* The IDs from n on have never been used.
FreshFrom(t, n) == \A id \in LeaseIds : t.leases[id] # NoLease => id < n

WellFormed(t, n) ==
    /\ t \in TableType
    /\ IndexOf(t)
    /\ ClaimsOf(t)
    /\ FreshFrom(t, n)

\* The inductive invariant.  OwnerIndex alone is not inductive: a grant would
\* break it if the next ID could still be in use.
IInv == nextId \in 1..(MaxLeases + 1) /\ WellFormed(Tables, nextId)

-----------------------------------------------------------------------------

\* The kinds of records in the lease map never mix, and 0 is no lease ID.
LEMMA LeaseFacts ==
    /\ NoLease \notin Lease
    /\ None \notin LeaseIds
    /\ \A l \in Lease : l # NoLease /\ l.owner \in Owners
BY DEF NoLease, Lease, None, LeaseIds

\* Releasing any leases keeps a table well formed: releaseLocked forgets the
\* owner's entry and the claims together with the lease.
LEMMA DropKeeps ==
    ASSUME NEW t, NEW n, WellFormed(t, n), NEW S \in SUBSET LeaseIds
    PROVE  /\ WellFormed(Drop(t, S), n)
           /\ \A id \in LeaseIds : Drop(t, S).leases[id] =
                    IF id \in S THEN NoLease ELSE t.leases[id]
<1> DEFINE d == Drop(t, S)
<1>1. /\ t.leases  \in [LeaseIds -> Lease \cup {NoLease}]
      /\ t.byOwner \in [Owners -> LeaseIds \cup {None}]
      /\ t.claimed \in [Instances -> LeaseIds \cup {None}]
      /\ IndexOf(t) /\ ClaimsOf(t) /\ FreshFrom(t, n)
  BY DEF WellFormed, TableType
<1>2. \A id \in LeaseIds : d.leases[id] = IF id \in S THEN NoLease ELSE t.leases[id]
  BY DEF Drop
<1>3. \A o \in Owners :
         d.byOwner[o] = IF t.byOwner[o] \in S THEN None ELSE t.byOwner[o]
  <2> SUFFICES ASSUME NEW o \in Owners
               PROVE  d.byOwner[o] = IF t.byOwner[o] \in S THEN None ELSE t.byOwner[o]
    OBVIOUS
  <2>1. d.byOwner[o] = IF \E id \in S \cap Held(t) :
                             t.leases[id].owner = o /\ t.byOwner[o] = id
                       THEN None ELSE t.byOwner[o]
    BY DEF Drop
  <2>2. CASE t.byOwner[o] \in S
    <3>1. t.byOwner[o] # None
      BY <2>2, LeaseFacts
    <3>2. t.byOwner[o] \in S \cap Held(t) /\ t.leases[t.byOwner[o]].owner = o
      BY <1>1, <2>2, <3>1 DEF IndexOf, Held
    <3> QED BY <2>1, <2>2, <3>2
  <2>3. CASE t.byOwner[o] \notin S
    BY <2>1, <2>3
  <2> QED BY <2>2, <2>3
<1>4. \A v \in Instances :
         d.claimed[v] = IF t.claimed[v] \in S THEN None ELSE t.claimed[v]
  BY DEF Drop
<1>5. d \in TableType
  <2>1. d.leases \in [LeaseIds -> Lease \cup {NoLease}]
    BY <1>1 DEF Drop
  <2>2. d.byOwner \in [Owners -> LeaseIds \cup {None}]
    BY <1>1 DEF Drop
  <2>3. d.claimed \in [Instances -> LeaseIds \cup {None}]
    BY <1>1 DEF Drop
  <2>4. d = [leases |-> d.leases, byOwner |-> d.byOwner, claimed |-> d.claimed]
    BY DEF Drop
  <2> QED BY <2>1, <2>2, <2>3, <2>4 DEF TableType
<1>6. IndexOf(d)
  <2>1. ASSUME NEW o \in Owners, d.byOwner[o] # None
        PROVE  d.leases[d.byOwner[o]] # NoLease /\ d.leases[d.byOwner[o]].owner = o
    <3>1. t.byOwner[o] \notin S /\ d.byOwner[o] = t.byOwner[o] /\ t.byOwner[o] \in LeaseIds
      BY <1>1, <1>3, <2>1
    <3> QED BY <1>1, <1>2, <2>1, <3>1 DEF IndexOf
  <2>2. ASSUME NEW id \in LeaseIds, d.leases[id] # NoLease
        PROVE  d.byOwner[d.leases[id].owner] = id
    <3>1. id \notin S /\ d.leases[id] = t.leases[id]
      BY <1>2, <2>2
    <3>2. t.leases[id].owner \in Owners
      BY <1>1, <2>2, <3>1, LeaseFacts
    <3> QED BY <1>1, <1>3, <2>2, <3>1, <3>2 DEF IndexOf
  <2> QED BY <2>1, <2>2 DEF IndexOf
<1>7. ClaimsOf(d)
  <2> SUFFICES ASSUME NEW v \in Instances, d.claimed[v] # None
               PROVE  /\ d.leases[d.claimed[v]] # NoLease
                      /\ d.leases[d.claimed[v]].owner \in Instances \ {v}
    BY DEF ClaimsOf
  <2>1. t.claimed[v] \notin S /\ d.claimed[v] = t.claimed[v] /\ t.claimed[v] \in LeaseIds
    BY <1>1, <1>4
  <2> QED BY <1>1, <1>2, <2>1 DEF ClaimsOf
<1>8. FreshFrom(d, n)
  BY <1>1, <1>2 DEF FreshFrom
<1> QED BY <1>2, <1>5, <1>6, <1>7, <1>8 DEF WellFormed

\* Granting the next ID to an owner without a lease, with claims on unclaimed
\* victims other than the owner, keeps a table well formed.
LEMMA GrantKeeps ==
    ASSUME NEW t, nextId \in LeaseIds, WellFormed(t, nextId),
           NEW o \in Owners, t.byOwner[o] = None,
           NEW gpus \in Vectors, NEW host \in Bytes,
           NEW U \in SUBSET Instances, U # {} => o \in Instances, o \notin U,
           TTL \in Nat
    PROVE  WellFormed(Grant(t, o, gpus, host, U), nextId + 1)
<1> DEFINE g == Grant(t, o, gpus, host, U)
           l == [state |-> "pending", owner |-> o, gpus |-> gpus,
                 host |-> host, left |-> TTL]
<1>1. /\ t.leases  \in [LeaseIds -> Lease \cup {NoLease}]
      /\ t.byOwner \in [Owners -> LeaseIds \cup {None}]
      /\ t.claimed \in [Instances -> LeaseIds \cup {None}]
      /\ IndexOf(t) /\ ClaimsOf(t) /\ FreshFrom(t, nextId)
  BY DEF WellFormed, TableType
<1>2. l \in Lease
  BY DEF Lease
<1>3. t.leases[nextId] = NoLease
  BY <1>1 DEF FreshFrom, LeaseIds
<1>4. /\ g.leases  = [t.leases EXCEPT ![nextId] = l]
      /\ g.byOwner = [t.byOwner EXCEPT ![o] = nextId]
      /\ g.claimed = [i \in Instances |-> IF i \in U THEN nextId ELSE t.claimed[i]]
      /\ g = [leases |-> g.leases, byOwner |-> g.byOwner, claimed |-> g.claimed]
  BY DEF Grant
<1> HIDE DEF g, l
<1>5. g \in TableType
  <2>1. g.leases \in [LeaseIds -> Lease \cup {NoLease}]
    BY <1>1, <1>2, <1>4
  <2>2. g.byOwner \in [Owners -> LeaseIds \cup {None}]
    BY <1>1, <1>4
  <2>3. g.claimed \in [Instances -> LeaseIds \cup {None}]
    BY <1>1, <1>4
  <2> QED BY <1>4, <2>1, <2>2, <2>3 DEF TableType
<1>6. l # NoLease /\ l.owner = o
  BY <1>2, LeaseFacts DEF l
<1>7. \A id \in LeaseIds : g.leases[id] = IF id = nextId THEN l ELSE t.leases[id]
  BY <1>1, <1>4
<1>8. \A p \in Owners : g.byOwner[p] = IF p = o THEN nextId ELSE t.byOwner[p]
  BY <1>1, <1>4
<1>9. IndexOf(g)
  <2>1. ASSUME NEW p \in Owners, g.byOwner[p] # None
        PROVE  g.leases[g.byOwner[p]] # NoLease /\ g.leases[g.byOwner[p]].owner = p
    <3>1. CASE p = o
      BY <1>6, <1>7, <1>8, <3>1
    <3>2. CASE p # o
      <4>1. /\ g.byOwner[p] = t.byOwner[p] /\ t.byOwner[p] \in LeaseIds
            /\ t.leases[t.byOwner[p]] # NoLease /\ t.leases[t.byOwner[p]].owner = p
        BY <1>1, <1>8, <2>1, <3>2 DEF IndexOf
      <4> QED BY <1>3, <1>7, <4>1
    <3> QED BY <3>1, <3>2
  <2>2. ASSUME NEW id \in LeaseIds, g.leases[id] # NoLease
        PROVE  g.byOwner[g.leases[id].owner] = id
    <3>1. CASE id = nextId
      BY <1>6, <1>7, <1>8, <3>1
    <3>2. CASE id # nextId
      <4>1. g.leases[id] = t.leases[id] /\ t.leases[id].owner \in Owners
        BY <1>1, <1>7, <2>2, <3>2, LeaseFacts
      <4>2. t.byOwner[t.leases[id].owner] = id /\ id # None
        BY <1>1, <2>2, <4>1, LeaseFacts DEF IndexOf
      <4> QED BY <1>8, <4>1, <4>2
    <3> QED BY <3>1, <3>2
  <2> QED BY <2>1, <2>2 DEF IndexOf
<1>10. ClaimsOf(g)
  <2> SUFFICES ASSUME NEW v \in Instances, g.claimed[v] # None
               PROVE  /\ g.leases[g.claimed[v]] # NoLease
                      /\ g.leases[g.claimed[v]].owner \in Instances \ {v}
    BY DEF ClaimsOf
  <2>1. CASE v \in U
    BY <1>4, <1>6, <1>7, <2>1
  <2>2. CASE v \notin U
    <3>1. /\ g.claimed[v] = t.claimed[v] /\ t.claimed[v] \in LeaseIds
          /\ t.leases[t.claimed[v]] # NoLease
          /\ t.leases[t.claimed[v]].owner \in Instances \ {v}
      BY <1>1, <1>4, <2>2 DEF ClaimsOf
    <3> QED BY <1>3, <1>7, <3>1
  <2> QED BY <2>1, <2>2
<1>11. FreshFrom(g, nextId + 1)
  BY <1>1, <1>7 DEF FreshFrom, LeaseIds
<1> QED BY <1>5, <1>9, <1>10, <1>11 DEF WellFormed, g

\* Sweeping and giving up the owner's lease leave the owner without one, and
\* take no lease in force from anybody else.
LEMMA CleanedTable ==
    ASSUME IInv, NEW o \in Owners
    PROVE  LET t == DropOwner(Swept, o)
           IN  /\ WellFormed(t, nextId)
               /\ t.byOwner[o] = None
               /\ \A id \in LeaseIds : t.leases[id] \in {NoLease, leases[id]}
               /\ \A id \in LeaseIds :
                     t.leases[id] = NoLease /\ leases[id] # NoLease =>
                        Lapsed(id) \/ leases[id].owner = o
               /\ \A v \in Instances :
                     t.claimed[v] # claimed[v] =>
                        t.claimed[v] = None /\ t.leases[claimed[v]] = NoLease
<1> DEFINE S == Expired(Tables)
           w == Swept
           R == {w.byOwner[o]} \ {None}
           t == DropOwner(Swept, o)
<1>1. WellFormed(Tables, nextId) /\ Tables.leases = leases /\ Tables.claimed = claimed
  BY DEF IInv, Tables
<1>2. S \subseteq LeaseIds /\ w = Drop(Tables, S)
  BY DEF Expired, Held, Swept
<1>3. \A id \in S : Lapsed(id)
  BY <1>1 DEF Expired, Lapsed
<1>4. /\ WellFormed(w, nextId)
      /\ \A id \in LeaseIds : w.leases[id] = IF id \in S THEN NoLease ELSE leases[id]
  <2> HIDE DEF S
  <2> QED BY <1>1, <1>2, DropKeeps
<1> HIDE DEF S, w
<1>5. w.byOwner[o] \in LeaseIds \cup {None}
  BY <1>4 DEF WellFormed, TableType
<1>6. R \subseteq LeaseIds /\ t = Drop(w, R)
  BY <1>5 DEF DropOwner, w
<1>7. /\ WellFormed(t, nextId)
      /\ \A id \in LeaseIds : t.leases[id] = IF id \in R THEN NoLease ELSE w.leases[id]
  <2> HIDE DEF R, t
  <2> QED BY <1>4, <1>6, DropKeeps
<1>8. t.byOwner[o] = None
  <2> SUFFICES ASSUME t.byOwner[o] # None PROVE FALSE
    OBVIOUS
  <2>1. t.byOwner[o] = w.byOwner[o] /\ w.byOwner[o] # None
    BY <1>6 DEF Drop
  <2>2. w.byOwner[o] \in R /\ w.byOwner[o] \in LeaseIds
    BY <1>5, <2>1
  <2>3. t.leases[t.byOwner[o]] # NoLease
    BY <1>7 DEF WellFormed, IndexOf
  <2> QED BY <1>7, <2>1, <2>2, <2>3
<1>9. \A id \in R : id = w.byOwner[o] /\ w.leases[id].owner = o
  BY <1>4 DEF WellFormed, IndexOf
<1>10. ASSUME NEW id \in LeaseIds
       PROVE  /\ t.leases[id] \in {NoLease, leases[id]}
              /\ t.leases[id] = NoLease /\ leases[id] # NoLease =>
                    Lapsed(id) \/ leases[id].owner = o
  <2>1. CASE id \in S
    BY <1>3, <1>4, <1>7, <2>1
  <2>2. CASE id \notin S /\ id \in R
    BY <1>4, <1>7, <1>9, <2>2
  <2>3. CASE id \notin S /\ id \notin R
    BY <1>4, <1>7, <2>3
  <2> QED BY <2>1, <2>2, <2>3
<1>11. ASSUME NEW v \in Instances, t.claimed[v] # claimed[v]
       PROVE  t.claimed[v] = None /\ t.leases[claimed[v]] = NoLease
  <2>1. w.claimed[v] = IF claimed[v] \in S THEN None ELSE claimed[v]
    BY <1>1, <1>2 DEF Drop
  <2>2. t.claimed[v] = IF w.claimed[v] \in R THEN None ELSE w.claimed[v]
    BY <1>6 DEF Drop
  <2>3. CASE claimed[v] \in S
    BY <1>2, <1>4, <1>7, <2>1, <2>2, <2>3
  <2>4. CASE claimed[v] \notin S
    BY <1>6, <1>7, <1>11, <2>1, <2>2, <2>4
  <2> QED BY <2>3, <2>4
<1> QED BY <1>7, <1>8, <1>10, <1>11

\* The victims an owner may be credited with.
LEMMA UsableFacts ==
    ASSUME NEW t, NEW o, NEW c \in SUBSET Instances
    PROVE  LET U == Usable(t, o, c)
           IN  /\ U \in SUBSET Instances
               /\ U # {} => o \in Instances
               /\ o \notin U
               /\ \A v \in U : t.claimed[v] = None
BY DEF Usable

\* Both ways of acquiring have the same shape.
AcquireShape(o, r) ==
    LET t == DropOwner(Swept, o)
    IN  /\ nextId \in LeaseIds
        /\ \/ Become(t) /\ UNCHANGED nextId
           \/ \E gpus \in Vectors, host \in Bytes :
                 /\ Become(Grant(t, o, gpus, host, Usable(t, o, r.credits)))
                 /\ nextId' = nextId + 1

LEMMA RequestFacts ==
    ASSUME NEW r \in Requests
    PROVE  /\ r.credits \in SUBSET Instances
           /\ 1 \in DOMAIN r.ladder
           /\ \A n \in DOMAIN r.ladder : r.ladder[n].host \in Bytes
<1>1. r \in RequestType /\ Len(r.ladder) > 0
  BY LedgerAssumption
<1>2. r.credits \in SUBSET Instances /\ r.ladder \in Seq(DemandType)
  BY <1>1 DEF RequestType
<1>3. 1 \in DOMAIN r.ladder /\ \A n \in DOMAIN r.ladder : r.ladder[n] \in DemandType
  BY <1>1, <1>2
<1> QED BY <1>2, <1>3 DEF DemandType

LEMMA AcquireHasShape ==
    ASSUME NEW o \in Owners, NEW r \in Requests,
           Acquire(o, r) \/ AcquireRuntime(o, r)
    PROVE  AcquireShape(o, r)
<1>1. CASE Acquire(o, r)
  BY <1>1, RequestFacts DEF Acquire, AcquireWith, AcquireShape
<1>2. CASE AcquireRuntime(o, r)
  BY <1>2, RequestFacts DEF AcquireRuntime, AcquireWith, AcquireShape
<1> QED BY <1>1, <1>2

-----------------------------------------------------------------------------
(* The invariant is inductive.                                             *)

LEMMA InitIInv == Init => IInv
<1> SUFFICES ASSUME Init PROVE IInv
  OBVIOUS
<1>1. /\ leases = [id \in LeaseIds |-> NoLease]
      /\ byOwner = [o \in Owners |-> None]
      /\ claimed = [i \in Instances |-> None]
      /\ nextId = 1
  BY DEF Init
<1>2. nextId \in 1..(MaxLeases + 1)
  BY <1>1, LedgerAssumption
<1>3. Tables \in TableType
  BY <1>1 DEF Tables, TableType
<1>4. IndexOf(Tables) /\ ClaimsOf(Tables) /\ FreshFrom(Tables, nextId)
  BY <1>1 DEF Tables, IndexOf, ClaimsOf, FreshFrom
<1> QED BY <1>2, <1>3, <1>4 DEF IInv, WellFormed

\* An operation that replaces the tables by well-formed ones keeps IInv.
LEMMA BecomeKeeps ==
    ASSUME NEW t, Become(t), nextId' \in 1..(MaxLeases + 1), WellFormed(t, nextId')
    PROVE  IInv'
<1>1. t = [leases |-> t.leases, byOwner |-> t.byOwner, claimed |-> t.claimed]
  BY DEF WellFormed, TableType
<1>2. Tables' = t
  BY <1>1 DEF Become, Tables
<1>3. WellFormed(Tables', nextId')
  BY <1>2
<1> QED BY <1>3 DEF IInv, WellFormed, IndexOf, ClaimsOf, FreshFrom

\* An operation that edits lease records in place, keeping their owners and
\* creating or removing none, keeps IInv.
LEMMA EditKeeps ==
    ASSUME IInv, UNCHANGED <<byOwner, claimed, nextId>>,
           leases' \in [LeaseIds -> Lease \cup {NoLease}],
           \A id \in LeaseIds : /\ leases'[id] = NoLease <=> leases[id] = NoLease
                                /\ leases[id] # NoLease =>
                                      leases'[id].owner = leases[id].owner
    PROVE  IInv'
<1>1. /\ leases  \in [LeaseIds -> Lease \cup {NoLease}]
      /\ byOwner \in [Owners -> LeaseIds \cup {None}]
      /\ claimed \in [Instances -> LeaseIds \cup {None}]
      /\ nextId \in 1..(MaxLeases + 1)
      /\ IndexOf(Tables) /\ ClaimsOf(Tables) /\ FreshFrom(Tables, nextId)
  BY DEF IInv, WellFormed, TableType, Tables
<1>2. Tables' \in TableType
  BY <1>1 DEF Tables, TableType
<1>3. IndexOf(Tables)'
  <2>1. ASSUME NEW o \in Owners, byOwner'[o] # None
        PROVE  leases'[byOwner'[o]] # NoLease /\ leases'[byOwner'[o]].owner = o
    <3>1. /\ byOwner[o] \in LeaseIds /\ byOwner'[o] = byOwner[o]
          /\ leases[byOwner[o]] # NoLease /\ leases[byOwner[o]].owner = o
      BY <1>1, <2>1 DEF IndexOf, Tables
    <3> QED BY <3>1
  <2>2. ASSUME NEW id \in LeaseIds, leases'[id] # NoLease
        PROVE  byOwner'[leases'[id].owner] = id
    BY <1>1, <2>2 DEF IndexOf, Tables
  <2> QED BY <2>1, <2>2 DEF IndexOf, Tables
<1>4. ClaimsOf(Tables)'
  <2> SUFFICES ASSUME NEW v \in Instances, claimed'[v] # None
               PROVE  /\ leases'[claimed'[v]] # NoLease
                      /\ leases'[claimed'[v]].owner \in Instances \ {v}
    BY DEF ClaimsOf, Tables
  <2>1. /\ claimed[v] \in LeaseIds /\ claimed'[v] = claimed[v]
        /\ leases[claimed[v]] # NoLease
        /\ leases[claimed[v]].owner \in Instances \ {v}
    BY <1>1 DEF ClaimsOf, Tables
  <2> QED BY <2>1
<1>5. FreshFrom(Tables, nextId)'
  BY <1>1 DEF FreshFrom, Tables
<1> QED BY <1>1, <1>2, <1>3, <1>4, <1>5 DEF IInv, WellFormed

LEMMA AcquireKeeps ==
    ASSUME IInv, NEW o \in Owners, NEW r \in Requests, AcquireShape(o, r)
    PROVE  IInv'
<1> DEFINE t == DropOwner(Swept, o)
           U == Usable(t, o, r.credits)
<1>1. /\ WellFormed(t, nextId) /\ t.byOwner[o] = None
      /\ nextId \in LeaseIds /\ nextId \in 1..(MaxLeases + 1)
  BY CleanedTable DEF AcquireShape, IInv
<1>2. U \in SUBSET Instances /\ (U # {} => o \in Instances) /\ o \notin U
  BY UsableFacts, RequestFacts
<1>3. CASE Become(t) /\ UNCHANGED nextId
  <2> HIDE DEF t
  <2> QED BY <1>1, <1>3, BecomeKeeps
<1>4. CASE \E gpus \in Vectors, host \in Bytes :
              Become(Grant(t, o, gpus, host, U)) /\ nextId' = nextId + 1
  <2>1. PICK gpus \in Vectors, host \in Bytes :
              Become(Grant(t, o, gpus, host, U)) /\ nextId' = nextId + 1
    BY <1>4
  <2> HIDE DEF t, U
  <2>2. WellFormed(Grant(t, o, gpus, host, U), nextId + 1)
    BY <1>1, <1>2, GrantKeeps, LedgerAssumption
  <2>3. nextId' \in 1..(MaxLeases + 1)
    BY <1>1, <2>1, LedgerAssumption DEF LeaseIds
  <2> QED BY <2>1, <2>2, <2>3, BecomeKeeps
<1> QED BY <1>3, <1>4 DEF AcquireShape

LEMMA CommitKeeps ==
    ASSUME IInv, NEW id \in LeaseIds, Commit(id)
    PROVE  IInv'
<1>1. leases \in [LeaseIds -> Lease \cup {NoLease}]
  BY DEF IInv, WellFormed, TableType, Tables
<1>2. leases[id] \in Lease
  BY <1>1 DEF Commit, NoLease
<1>3. Committed(leases[id]) \in Lease /\ Committed(leases[id]).owner = leases[id].owner
  <2>1. PICK l \in Lease : l = leases[id]
    BY <1>2
  <2>2. /\ l.owner \in Owners /\ l.gpus \in Vectors /\ l.host \in Bytes /\ TTL \in -1..TTL
        /\ l = [state |-> l.state, owner |-> l.owner, gpus |-> l.gpus,
                host |-> l.host, left |-> l.left]
    BY LedgerAssumption DEF Lease
  <2>3. Committed(l) = [state |-> "committed", owner |-> l.owner, gpus |-> l.gpus,
                        host |-> l.host, left |-> TTL]
    <3> DEFINE m == [l EXCEPT !.state = "committed"]
    <3>1. Committed(l) = [m EXCEPT !.left = TTL]
      BY DEF Committed
    <3>2. m = [state |-> "committed", owner |-> l.owner, gpus |-> l.gpus,
               host |-> l.host, left |-> l.left]
      BY <2>2
    <3> HIDE DEF m
    <3> QED BY <3>1, <3>2
  <2>4. Committed(l) \in Lease /\ Committed(l).owner = l.owner
    BY <2>2, <2>3 DEF Lease
  <2> QED BY <2>1, <2>4
<1>4. \A k \in LeaseIds : leases'[k] = IF k = id THEN Committed(leases[id]) ELSE leases[k]
  BY <1>1 DEF Commit
<1>5. leases' \in [LeaseIds -> Lease \cup {NoLease}]
  BY <1>1, <1>3 DEF Commit
<1> QED BY <1>2, <1>3, <1>4, <1>5, EditKeeps, LeaseFacts DEF Commit

LEMMA TickKeeps == IInv /\ Tick => IInv'
<1> SUFFICES ASSUME IInv, Tick PROVE IInv'
  OBVIOUS
<1>1. leases \in [LeaseIds -> Lease \cup {NoLease}]
  BY DEF IInv, WellFormed, TableType, Tables
<1>2. ASSUME NEW id \in LeaseIds, leases[id].state = "pending", leases[id].left >= 0
      PROVE  /\ [leases[id] EXCEPT !.left = @ - 1] \in Lease
             /\ leases[id] # NoLease
             /\ [leases[id] EXCEPT !.left = @ - 1].owner = leases[id].owner
  <2>1. leases[id] \in Lease
    BY <1>1, <1>2 DEF NoLease
  <2> QED BY SMTT(60), <1>2, <2>1, LeaseFacts, LedgerAssumption DEF Lease
<1>3. \A id \in LeaseIds :
         leases'[id] = IF leases[id].state = "pending" /\ leases[id].left >= 0
                       THEN [leases[id] EXCEPT !.left = @ - 1] ELSE leases[id]
  BY DEF Tick
<1>4. leases' \in [LeaseIds -> Lease \cup {NoLease}]
  BY <1>1, <1>2 DEF Tick
<1> QED BY <1>2, <1>3, <1>4, EditKeeps, LeaseFacts DEF Tick

LEMMA NextKeeps == IInv /\ [Next]_vars => IInv'
<1> SUFFICES ASSUME IInv, [Next]_vars PROVE IInv'
  OBVIOUS
<1>1. /\ WellFormed(Tables, nextId) /\ nextId \in 1..(MaxLeases + 1)
      /\ byOwner \in [Owners -> LeaseIds \cup {None}]
  BY DEF IInv, WellFormed, TableType, Tables
<1>2. ASSUME NEW o \in Owners, NEW r \in Requests, Acquire(o, r)
      PROVE  IInv'
  BY <1>2, AcquireHasShape, AcquireKeeps
<1>3. ASSUME NEW i \in Instances, NEW r \in Requests, AcquireRuntime(i, r)
      PROVE  IInv'
  BY <1>3, AcquireHasShape, AcquireKeeps DEF Owners
<1>4. ASSUME NEW id \in LeaseIds, Commit(id)
      PROVE  IInv'
  BY <1>4, CommitKeeps
<1>5. ASSUME NEW id \in LeaseIds, Release(id)
      PROVE  IInv'
  <2>1. WellFormed(Drop(Tables, {id}), nextId)
    BY <1>1, DropKeeps
  <2> QED BY <1>1, <1>5, <2>1, BecomeKeeps DEF Release
<1>6. ASSUME NEW o \in Owners, CommitOwner(o)
      PROVE  IInv'
  BY <1>1, <1>6, CommitKeeps DEF CommitOwner
<1>7. ASSUME NEW o \in Owners, ReleaseOwner(o)
      PROVE  IInv'
  <2>1. {Tables.byOwner[o]} \ {None} \in SUBSET LeaseIds
    BY <1>1 DEF Tables
  <2>2. WellFormed(DropOwner(Tables, o), nextId)
    BY <1>1, <2>1, DropKeeps DEF DropOwner
  <2> QED BY <1>1, <1>7, <2>2, BecomeKeeps DEF ReleaseOwner
<1>8. CASE Sweep
  <2>1. Expired(Tables) \in SUBSET LeaseIds
    BY DEF Expired, Held
  <2>2. WellFormed(Swept, nextId)
    BY <1>1, <2>1, DropKeeps DEF Swept
  <2> QED BY <1>1, <1>8, <2>2, BecomeKeeps DEF Sweep
<1>9. CASE Tick
  BY <1>9, TickKeeps
<1>10. CASE UNCHANGED vars
  BY <1>10 DEF IInv, WellFormed, IndexOf, ClaimsOf, FreshFrom, Tables, vars
<1> QED BY <1>2, <1>3, <1>4, <1>5, <1>6, <1>7, <1>8, <1>9, <1>10 DEF Next

\* The inductive invariant holds in every reachable state of the ledger.
THEOREM Inductive == Spec => []IInv
BY InitIInv, NextKeeps, PTL DEF Spec

\* Every variable of the ledger keeps its type.
THEOREM TypeCorrect == Spec => []TypeOK
<1>1. IInv => TypeOK
  BY DEF IInv, WellFormed, TableType, Tables, TypeOK
<1> QED BY <1>1, Inductive, PTL

\* No owner ever holds two leases and none is orphaned from its owner.
THEOREM OwnerIndexed == Spec => []OwnerIndex
<1>1. IInv => OwnerIndex
  BY DEF IInv, WellFormed, IndexOf, Tables, OwnerIndex
<1> QED BY <1>1, Inductive, PTL

\* Claims on eviction victims are backed by a live lease of another instance.
THEOREM ClaimsAreBacked == Spec => []ClaimsBacked
<1>1. IInv => ClaimsBacked
  BY DEF IInv, WellFormed, ClaimsOf, Tables, ClaimsBacked
<1> QED BY <1>1, Inductive, PTL

-----------------------------------------------------------------------------
(* No memory is promised twice.                                            *)

\* What a lease takes of a device and of the host; 0 when there is none.
OnDevice(t, d) == [id \in LeaseIds |-> IF t.leases[id] = NoLease THEN 0 ELSE t.leases[id].gpus[d]]
OnHost(t)      == [id \in LeaseIds |-> IF t.leases[id] = NoLease THEN 0 ELSE t.leases[id].host]

\* Leases that can be in force together: none of them displaces another one.
Together(t) ==
    {X \in SUBSET Held(t) : \A id \in X :
        LET o == t.leases[id].owner IN o \in Instances /\ t.claimed[o] > id => t.claimed[o] \notin X}

FitsIn(t, f, capacity) == \A X \in Together(t) : TotalOf(f, X) <= capacity

\* NoOvercommit is not inductive: when the lease that displaces another one is
\* released, the other one counts again.  Whatever may stand together has to fit.
Room(t) ==
    /\ \A d \in Devices : TotalBytes[d] > 0 => FitsIn(t, OnDevice(t, d), TotalBytes[d])
    /\ HostTotal > 0 => FitsIn(t, OnHost(t), HostTotal)

LEMMA IdsFinite == IsFiniteSet(LeaseIds) /\ \A X \in SUBSET LeaseIds : IsFiniteSet(X)
<1>1. IsFiniteSet(1..MaxLeases)
  BY LedgerAssumption, FS_Interval
<1> QED BY <1>1, FS_Subset DEF LeaseIds

LEMMA BytesTyped ==
    ASSUME NEW t, NEW n, WellFormed(t, n)
    PROVE  /\ \A d \in Devices : OnDevice(t, d) \in [LeaseIds -> Nat]
           /\ OnHost(t) \in [LeaseIds -> Nat]
           /\ \A id \in LeaseIds : t.leases[id] # NoLease =>
                 t.leases[id].host \in Nat /\ \A d \in Devices : t.leases[id].gpus[d] \in Nat
<1>1. ASSUME NEW id \in LeaseIds, t.leases[id] # NoLease
      PROVE  t.leases[id].host \in Nat /\ \A d \in Devices : t.leases[id].gpus[d] \in Nat
  <2>1. t.leases[id] \in Lease
    BY <1>1 DEF WellFormed, TableType
  <2>2. t.leases[id].host \in Bytes /\ t.leases[id].gpus \in Vectors
    BY <2>1 DEF Lease
  <2>3. Bytes \subseteq Nat
    BY LedgerAssumption DEF Bytes
  <2> QED BY <2>2, <2>3 DEF Vectors
<1> QED BY <1>1 DEF OnDevice, OnHost

\* What is released takes nothing along: who was displaced by it was counted
\* without it.
LEMMA DropFits ==
    ASSUME NEW t, NEW n, WellFormed(t, n), NEW S \in SUBSET LeaseIds, NEW f, NEW g, NEW capacity,
           FitsIn(t, f, capacity), \A id \in LeaseIds \ S : g[id] = f[id]
    PROVE  FitsIn(Drop(t, S), g, capacity)
<1> DEFINE d == Drop(t, S)
<1> SUFFICES ASSUME NEW X \in Together(d) PROVE TotalOf(g, X) <= capacity
  BY DEF FitsIn
<1>1. X \subseteq Held(d) /\ \A id \in LeaseIds : d.leases[id] = IF id \in S THEN NoLease ELSE t.leases[id]
  BY DropKeeps DEF Together
<1>2. X \subseteq Held(t) /\ X \subseteq LeaseIds \ S
  BY <1>1 DEF Held
<1>3. \A v \in Instances : d.claimed[v] = IF t.claimed[v] \in S THEN None ELSE t.claimed[v]
  BY DEF Drop
<1>4. X \in Together(t)
  <2> SUFFICES ASSUME NEW id \in X, t.leases[id].owner \in Instances, t.claimed[t.leases[id].owner] > id
               PROVE  t.claimed[t.leases[id].owner] \notin X
    BY <1>2 DEF Together
  <2> DEFINE v == t.leases[id].owner
  <2>1. d.leases[id].owner = v
    BY <1>1, <1>2
  <2>2. CASE t.claimed[v] \in S
    BY <1>2, <2>2
  <2>3. CASE t.claimed[v] \notin S
    <3>1. d.claimed[v] = t.claimed[v]
      BY <1>3, <2>3
    <3> QED BY <2>1, <3>1 DEF Together
  <2> QED BY <2>2, <2>3
<1>5. TotalOf(g, X) = TotalOf(f, X)
  BY <1>2, SumAgree
<1> QED BY <1>4, <1>5 DEF FitsIn

LEMMA DropRoom ==
    ASSUME NEW t, NEW n, WellFormed(t, n), NEW S \in SUBSET LeaseIds, Room(t)
    PROVE  Room(Drop(t, S))
<1>1. \A id \in LeaseIds \ S : Drop(t, S).leases[id] = t.leases[id]
  BY DropKeeps
<1>2. ASSUME NEW d \in Devices, TotalBytes[d] > 0
      PROVE  FitsIn(Drop(t, S), OnDevice(Drop(t, S), d), TotalBytes[d])
  <2>1. \A id \in LeaseIds \ S : OnDevice(Drop(t, S), d)[id] = OnDevice(t, d)[id]
    BY <1>1 DEF OnDevice
  <2>2. FitsIn(t, OnDevice(t, d), TotalBytes[d])
    BY <1>2 DEF Room
  <2> QED BY <2>1, <2>2, DropFits
<1>3. ASSUME HostTotal > 0
      PROVE  FitsIn(Drop(t, S), OnHost(Drop(t, S)), HostTotal)
  <2>1. \A id \in LeaseIds \ S : OnHost(Drop(t, S))[id] = OnHost(t)[id]
    BY <1>1 DEF OnHost
  <2>2. FitsIn(t, OnHost(t), HostTotal)
    BY <1>3 DEF Room
  <2> QED BY <2>1, <2>2, DropFits
<1> QED BY <1>2, <1>3 DEF Room

\* A grant that takes nothing, or fits beside the leases of the others, fits
\* with whatever it may stand together with.
LEMMA GrantFits ==
    ASSUME NEW t, nextId \in LeaseIds, WellFormed(t, nextId),
           NEW o \in Owners, t.byOwner[o] = None, NEW gpus \in Vectors, NEW host \in Bytes,
           NEW U \in SUBSET Instances, o \notin U, \A v \in U : t.claimed[v] = None /\ t.byOwner[v] # None,
           NEW f \in [LeaseIds -> Nat], NEW g, NEW share \in Nat, NEW capacity \in Nat,
           FitsIn(t, f, capacity), g[nextId] = share, \A id \in LeaseIds \ {nextId} : g[id] = f[id],
           share > 0 => share + TotalOf(f, Others(t, o, U)) <= capacity
    PROVE  FitsIn(Grant(t, o, gpus, host, U), g, capacity)
<1> DEFINE w == Grant(t, o, gpus, host, U)
<1> SUFFICES ASSUME NEW X \in Together(w) PROVE TotalOf(g, X) <= capacity
  BY DEF FitsIn
<1>1. /\ t.leases  \in [LeaseIds -> Lease \cup {NoLease}]
      /\ t.byOwner \in [Owners -> LeaseIds \cup {None}]
      /\ t.claimed \in [Instances -> LeaseIds \cup {None}]
      /\ IndexOf(t) /\ ClaimsOf(t) /\ FreshFrom(t, nextId)
  BY DEF WellFormed, TableType
<1>2. /\ \A id \in LeaseIds \ {nextId} : w.leases[id] = t.leases[id]
      /\ w.claimed = [i \in Instances |-> IF i \in U THEN nextId ELSE t.claimed[i]]
  BY <1>1 DEF Grant
<1> DEFINE Y == X \ {nextId}
<1>3. X \subseteq LeaseIds /\ Y \subseteq Held(t)
  BY <1>2 DEF Together, Held
<1>4. Y \in Together(t)
  <2> SUFFICES ASSUME NEW id \in Y, t.leases[id].owner \in Instances, t.claimed[t.leases[id].owner] > id
               PROVE  t.claimed[t.leases[id].owner] \notin Y
    BY <1>3 DEF Together
  <2> DEFINE v == t.leases[id].owner
  <2>1. id \in LeaseIds /\ id \in X /\ id # nextId
    BY <1>3
  <2>2. v \notin U
    <3>1. id > 0 /\ id \in Nat
      BY <2>1, LedgerAssumption DEF LeaseIds
    <3>2. t.claimed[v] # 0
      BY <3>1
    <3> QED BY <3>2 DEF None
  <2>3. w.claimed[v] = t.claimed[v] /\ w.leases[id].owner = v
    BY <1>2, <2>1, <2>2
  <2> QED BY <2>1, <2>3 DEF Together
<1>5. TotalOf(g, Y) = TotalOf(f, Y)
  BY <1>3, SumAgree DEF Held
<1>6. TotalOf(f, Y) <= capacity
  BY <1>4 DEF FitsIn
<1>7. CASE nextId \notin X
  <2>1. X = Y
    BY <1>7
  <2> QED BY <1>5, <1>6, <2>1
<1>8. CASE nextId \in X
  <2>1. Y \subseteq Others(t, o, U)
    <3> SUFFICES ASSUME NEW id \in Y PROVE t.leases[id].owner \notin {o} \cup U
      BY <1>3 DEF Others
    <3>1. /\ id \in LeaseIds /\ id # nextId /\ t.leases[id] # NoLease /\ id < nextId
          /\ t.leases[id].owner \in Owners /\ t.byOwner[t.leases[id].owner] = id
      BY <1>1, <1>3, LeaseFacts DEF Held, IndexOf, FreshFrom
    <3>2. t.leases[id].owner # o
      BY <3>1, LeaseFacts
    <3>3. ASSUME t.leases[id].owner \in U PROVE FALSE
      <4>1. w.claimed[t.leases[id].owner] = nextId /\ w.leases[id].owner = t.leases[id].owner
        BY <1>2, <3>1, <3>3
      <4> QED BY <1>8, <3>1, <3>3, <4>1 DEF Together
    <3> QED BY <3>2, <3>3
  <2>2. Others(t, o, U) \in SUBSET LeaseIds /\ Y \in SUBSET LeaseIds
    BY <1>3 DEF Others, Held
  <2>3. /\ TotalOf(f, Y) <= TotalOf(f, Others(t, o, U))
        /\ TotalOf(f, Y) \in Nat /\ TotalOf(f, Others(t, o, U)) \in Nat
    BY <2>1, <2>2, SumLess, SumParts, IdsFinite
  <2> DEFINE h == [id \in LeaseIds |-> IF id = nextId THEN share ELSE f[id]]
  <2>4. h \in [LeaseIds -> Nat] /\ h[nextId] = share
    OBVIOUS
  <2>5. TotalOf(g, X) = TotalOf(h, X) /\ TotalOf(g, Y) = TotalOf(h, Y)
    <3>1. \A id \in X : g[id] = h[id]
      BY <1>3
    <3>2. \A id \in Y : g[id] = h[id]
      BY <1>3
    <3> HIDE DEF h
    <3> QED BY <3>1, <3>2, SumAgree
  <2>6. TotalOf(h, X) = share + TotalOf(h, Y)
    <3> HIDE DEF h
    <3> QED BY <1>3, <1>8, <2>4, SumParts, IdsFinite
  <2> HIDE DEF h
  <2>7. TotalOf(g, X) = share + TotalOf(f, Y)
    BY <1>5, <2>5, <2>6
  <2> QED BY <1>6, <2>3, <2>7
<1> QED BY <1>7, <1>8

\* What FreeOn and FreeHost call free was not taken by the leases of others.
LEMMA FreeRoom ==
    \A total, reading, pending, committed, credit \in Nat :
        LET free == Adjusted(total, reading, pending, committed, credit)
        IN  free \in Nat /\ (total > 0 /\ free > 0 => free + (pending + committed) <= total)
BY DEF Adjusted, AtLeastZero

\* Others splits into pending and committed leases.
LEMMA OthersSplit ==
    ASSUME NEW t, NEW n, WellFormed(t, n), NEW o, NEW U, NEW f \in [LeaseIds -> Nat]
    PROVE  LET S == Others(t, o, U)
               P == InState(t, S, "pending")
               C == InState(t, S, "committed")
           IN  /\ TotalOf(f, S) = TotalOf(f, P) + TotalOf(f, C)
               /\ TotalOf(f, P) \in Nat /\ TotalOf(f, C) \in Nat
               /\ S \in SUBSET LeaseIds /\ P \in SUBSET Held(t) /\ C \in SUBSET Held(t)
<1> DEFINE S == Others(t, o, U)
           P == InState(t, S, "pending")
           C == InState(t, S, "committed")
<1>1. S \in SUBSET Held(t) /\ Held(t) \in SUBSET LeaseIds
  BY DEF Others, Held
<1>2. \A id \in S : t.leases[id].state \in {"pending", "committed"}
  <2>1. \A id \in S : t.leases[id] \in Lease
    BY <1>1 DEF WellFormed, TableType, Held
  <2> QED BY <2>1 DEF Lease
<1>3. S = P \cup C /\ P \cap C = {}
  BY <1>2 DEF InState
<1>4. P \in SUBSET LeaseIds /\ C \in SUBSET LeaseIds
  BY <1>1, <1>3
<1> HIDE DEF S, P, C
<1>5. TotalOf(f, P \cup C) = TotalOf(f, P) + TotalOf(f, C)
  BY <1>3, <1>4, SumSplit, IdsFinite
<1>6. TotalOf(f, P) \in Nat /\ TotalOf(f, C) \in Nat
  BY <1>4, SumParts, IdsFinite
<1> QED BY <1>1, <1>3, <1>4, <1>5, <1>6 DEF S, P, C

\* Victims have a lease each, so there are finitely many.
LEMMA VictimsFinite ==
    ASSUME NEW t, NEW n, WellFormed(t, n), NEW U \in SUBSET Instances, \A v \in U : t.byOwner[v] # None
    PROVE  /\ IsFiniteSet(U)
           /\ \A v \in U : t.byOwner[v] \in LeaseIds /\ t.leases[t.byOwner[v]] # NoLease
<1>1. \A v \in U : /\ t.byOwner[v] \in LeaseIds
                   /\ t.leases[t.byOwner[v]] # NoLease /\ t.leases[t.byOwner[v]].owner = v
  BY DEF WellFormed, TableType, IndexOf, Owners
<1> DEFINE f == [v \in U |-> t.byOwner[v]]
<1>2. f \in Injection(U, LeaseIds)
  BY <1>1 DEF Injection, IsInjective
<1> QED BY <1>1, <1>2, IdsFinite, FS_Injection

LEMMA FreeOnRoom ==
    ASSUME NEW t, NEW n, WellFormed(t, n), NEW o, NEW r \in Requests, NEW U \in SUBSET Instances,
           \A v \in U : t.byOwner[v] # None, NEW d \in Devices
    PROVE  /\ FreeOn(t, o, U, r, d) \in Nat
           /\ TotalBytes[d] > 0 /\ FreeOn(t, o, U, r, d) > 0 =>
                 FreeOn(t, o, U, r, d) + TotalOf(OnDevice(t, d), Others(t, o, U)) <= TotalBytes[d]
<1> DEFINE S  == Others(t, o, U)
           P  == InState(t, S, "pending")
           C  == InState(t, S, "committed")
           f  == OnDevice(t, d)
           fp == [id \in P |-> t.leases[id].gpus[d]]
           fc == [id \in C |-> t.leases[id].gpus[d]]
           fu == [v \in U |-> t.leases[t.byOwner[v]].gpus[d]]
           credit == CreditOn(t, U, r, d)
<1>1. FreeOn(t, o, U, r, d) = Adjusted(TotalBytes[d], r.used[d], TotalOf(fp, P), TotalOf(fc, C), credit)
  BY DEF FreeOn, SumOver, FoldFunctionOnSet, MapThenFoldSet, TotalOf, Fold, Folds, Pick
<1>2. /\ f \in [LeaseIds -> Nat]
      /\ \A id \in LeaseIds : t.leases[id] # NoLease => t.leases[id].gpus[d] \in Nat
  BY BytesTyped
<1>3. /\ TotalOf(f, S) = TotalOf(f, P) + TotalOf(f, C)
      /\ TotalOf(f, P) \in Nat /\ TotalOf(f, C) \in Nat
      /\ P \in SUBSET Held(t) /\ C \in SUBSET Held(t)
  <2> HIDE DEF f
  <2> QED BY <1>2, OthersSplit
<1>4. TotalOf(fp, P) = TotalOf(f, P) /\ TotalOf(fc, C) = TotalOf(f, C)
  <2>1. \A id \in P : fp[id] = f[id]
    BY <1>3 DEF OnDevice, Held
  <2>2. \A id \in C : fc[id] = f[id]
    BY <1>3 DEF OnDevice, Held
  <2> HIDE DEF P, C, f, fp, fc
  <2> QED BY <2>1, <2>2, SumAgree
<1>5. credit \in Nat
  <2>3. credit = IF r.measured # <<>> THEN Cardinality(U) * r.measured[d] ELSE TotalOf(fu, U)
    BY DEF CreditOn, SumOver, FoldFunctionOnSet, MapThenFoldSet, TotalOf, Fold, Folds, Pick
  <2> HIDE DEF credit
  <2>1. IsFiniteSet(U) /\ \A v \in U : t.byOwner[v] \in LeaseIds /\ t.leases[t.byOwner[v]] # NoLease
    BY VictimsFinite
  <2>2. CASE r.measured # <<>>
    <3>1. r.measured[d] \in Nat
      <4>1. r \in RequestType /\ Bytes \subseteq Nat
        BY LedgerAssumption DEF Bytes
      <4>2. r.measured \in Vectors
        BY <2>2, <4>1 DEF RequestType
      <4> QED BY <4>1, <4>2 DEF Vectors
    <3>2. Cardinality(U) \in Nat
      BY <2>1, FS_CardinalityType
    <3>3. Cardinality(U) * r.measured[d] \in Nat
      BY <3>1, <3>2
    <3> QED BY <2>2, <2>3, <3>3
  <2>4. CASE r.measured = <<>>
    <3>1. fu \in [U -> Nat]
      BY <1>2, <2>1
    <3> HIDE DEF fu
    <3>2. TotalOf(fu, U) \in Nat
      BY <2>1, <3>1, SumParts
    <3> QED BY <2>3, <2>4, <3>2
  <2> QED BY <2>2, <2>4
<1>6. TotalBytes[d] \in Nat /\ r.used[d] \in Nat
  <2>1. r \in RequestType /\ Bytes \subseteq Nat
    BY LedgerAssumption DEF Bytes
  <2>2. r.used \in Vectors
    BY <2>1 DEF RequestType
  <2> QED BY <2>1, <2>2, LedgerAssumption DEF Vectors
<1> HIDE DEF S, P, C, f, fp, fc, fu, credit
<1>7. FreeOn(t, o, U, r, d) = Adjusted(TotalBytes[d], r.used[d], TotalOf(f, P), TotalOf(f, C), credit)
  BY <1>1, <1>4
<1>8. /\ FreeOn(t, o, U, r, d) \in Nat
      /\ TotalBytes[d] > 0 /\ FreeOn(t, o, U, r, d) > 0 =>
            FreeOn(t, o, U, r, d) + (TotalOf(f, P) + TotalOf(f, C)) <= TotalBytes[d]
  <2> DEFINE p == TotalOf(f, P)
             c == TotalOf(f, C)
  <2>1. p \in Nat /\ c \in Nat
    BY <1>3
  <2> HIDE DEF p, c
  <2>2. LET free == Adjusted(TotalBytes[d], r.used[d], p, c, credit)
        IN  free \in Nat /\ (TotalBytes[d] > 0 /\ free > 0 => free + (p + c) <= TotalBytes[d])
    BY <1>5, <1>6, <2>1, FreeRoom
  <2> QED BY <1>7, <2>2 DEF p, c
<1> QED BY <1>3, <1>8 DEF S, f

LEMMA FreeHostRoom ==
    ASSUME NEW t, NEW n, WellFormed(t, n), NEW o, NEW r \in Requests, NEW U \in SUBSET Instances,
           \A v \in U : t.byOwner[v] # None
    PROVE  /\ FreeHost(t, o, U, r) \in Nat
           /\ HostTotal > 0 /\ FreeHost(t, o, U, r) > 0 =>
                 FreeHost(t, o, U, r) + TotalOf(OnHost(t), Others(t, o, U)) <= HostTotal
<1> DEFINE S  == Others(t, o, U)
           P  == InState(t, S, "pending")
           C  == InState(t, S, "committed")
           f  == OnHost(t)
           fp == [id \in P |-> t.leases[id].host]
           fc == [id \in C |-> t.leases[id].host]
           fu == [v \in U |-> t.leases[t.byOwner[v]].host]
<1>1. FreeHost(t, o, U, r) = IF HostTotal = 0 /\ r.hostUsed = 0 THEN 0
                             ELSE Adjusted(HostTotal, r.hostUsed, TotalOf(fp, P), TotalOf(fc, C), TotalOf(fu, U))
  BY DEF FreeHost, SumOver, FoldFunctionOnSet, MapThenFoldSet, TotalOf, Fold, Folds, Pick
<1>2. /\ f \in [LeaseIds -> Nat]
      /\ \A id \in LeaseIds : t.leases[id] # NoLease => t.leases[id].host \in Nat
  BY BytesTyped
<1>3. /\ TotalOf(f, S) = TotalOf(f, P) + TotalOf(f, C)
      /\ TotalOf(f, P) \in Nat /\ TotalOf(f, C) \in Nat
      /\ P \in SUBSET Held(t) /\ C \in SUBSET Held(t)
  <2> HIDE DEF f
  <2> QED BY <1>2, OthersSplit
<1>4. TotalOf(fp, P) = TotalOf(f, P) /\ TotalOf(fc, C) = TotalOf(f, C)
  <2>1. \A id \in P : fp[id] = f[id]
    BY <1>3 DEF OnHost, Held
  <2>2. \A id \in C : fc[id] = f[id]
    BY <1>3 DEF OnHost, Held
  <2> HIDE DEF P, C, f, fp, fc
  <2> QED BY <2>1, <2>2, SumAgree
<1>5. TotalOf(fu, U) \in Nat
  <2>1. IsFiniteSet(U) /\ \A v \in U : t.byOwner[v] \in LeaseIds /\ t.leases[t.byOwner[v]] # NoLease
    BY VictimsFinite
  <2>2. fu \in [U -> Nat]
    BY <1>2, <2>1
  <2> HIDE DEF fu
  <2> QED BY <2>1, <2>2, SumParts
<1>6. HostTotal \in Nat /\ r.hostUsed \in Nat
  BY LedgerAssumption DEF Bytes, RequestType
<1> HIDE DEF S, P, C, f, fp, fc, fu
<1>7. FreeHost(t, o, U, r) = IF HostTotal = 0 /\ r.hostUsed = 0 THEN 0
      ELSE Adjusted(HostTotal, r.hostUsed, TotalOf(f, P), TotalOf(f, C), TotalOf(fu, U))
  BY <1>1, <1>4
<1>8. /\ FreeHost(t, o, U, r) \in Nat
      /\ HostTotal > 0 /\ FreeHost(t, o, U, r) > 0 =>
            FreeHost(t, o, U, r) + (TotalOf(f, P) + TotalOf(f, C)) <= HostTotal
  <2>1. CASE HostTotal = 0 /\ r.hostUsed = 0
    BY <1>7, <2>1
  <2>2. CASE ~(HostTotal = 0 /\ r.hostUsed = 0)
    <3>1. FreeHost(t, o, U, r) = Adjusted(HostTotal, r.hostUsed, TotalOf(f, P), TotalOf(f, C), TotalOf(fu, U))
      BY <1>7, <2>2
    <3> DEFINE p == TotalOf(f, P)
               c == TotalOf(f, C)
               k == TotalOf(fu, U)
    <3>2. p \in Nat /\ c \in Nat /\ k \in Nat
      BY <1>3, <1>5
    <3> HIDE DEF p, c, k
    <3>3. LET free == Adjusted(HostTotal, r.hostUsed, p, c, k)
          IN  free \in Nat /\ (HostTotal > 0 /\ free > 0 => free + (p + c) <= HostTotal)
      BY <1>6, <3>2, FreeRoom
    <3> QED BY <3>1, <3>3 DEF p, c, k
  <2> QED BY <2>1, <2>2
<1> QED BY <1>3, <1>8 DEF S, f

\* A placement that fits takes of each device at most what is free there.
LEMMA SharesFit ==
    ASSUME NEW r \in Requests, NEW free \in [Devices -> Nat], NEW bytes \in Nat, Fits(r, free, bytes),
           Shares(r, free, bytes) \in [Devices -> Nat], NEW d \in Devices
    PROVE  Shares(r, free, bytes)[d] > 0 => Shares(r, free, bytes)[d] <= free[d]
<1>1. UsableVRAM(free, d) \in Nat /\ (UsableVRAM(free, d) > 0 => UsableVRAM(free, d) <= free[d])
  BY LedgerAssumption DEF UsableVRAM, AtLeastZero
<1>2. r.mode \in {"auto", "manual"} /\ r.devices \in Seq(Devices) /\ (r.mode = "manual" => r.devices # <<>>)
  BY LedgerAssumption DEF RequestType
<1>3. CASE r.mode = "auto"
  <2>1. Shares(r, free, bytes)[d] = AutoShares(free, bytes)[d]
    BY <1>3 DEF Shares
  <2>2. PICK m : AutoShares(free, bytes)[d] = Smaller(UsableVRAM(free, d), m)
    BY DEF AutoShares
  <2>3. AutoShares(free, bytes)[d] <= UsableVRAM(free, d)
    <3>1. AutoShares(free, bytes)[d] \in Nat
      BY <2>1
    <3> QED BY <1>1, <2>2, <3>1 DEF Smaller
  <2> QED BY <1>1, <2>1, <2>3
<1>4. CASE r.mode = "manual"
  <2>1. Shares(r, free, bytes) = ManualShares(r.devices, bytes)
    BY <1>4 DEF Shares
  <2>2. CASE d \notin Range(r.devices)
    BY <2>1, <2>2 DEF ManualShares
  <2>3. CASE d \in Range(r.devices) /\ bytes = 0
    <3>1. Len(r.devices) \in Nat /\ Len(r.devices) # 0
      BY <1>2, <1>4, EmptySeq
    <3> DEFINE n    == Len(r.devices)
               part == bytes \div n
    <3>2. part = 0
      <4>1. \A k \in Nat : k # 0 => 0 \div k = 0
        OBVIOUS
      <4> QED BY <2>3, <3>1, <4>1
    <3>3. ManualShares(r.devices, bytes)[d] = IF d = r.devices[n] THEN bytes - (n - 1) * part ELSE part
      BY <2>3 DEF ManualShares
    <3>4. (n - 1) * part = 0
      <4> HIDE DEF n, part
      <4> QED BY <3>1, <3>2 DEF n
    <3> HIDE DEF n, part
    <3>5. ManualShares(r.devices, bytes)[d] = 0
      BY <2>3, <3>2, <3>3, <3>4
    <3> QED BY <2>1, <3>5
  <2>4. CASE d \in Range(r.devices) /\ bytes # 0
    <3>1. UsableVRAM(free, d) >= ManualShares(r.devices, bytes)[d]
      BY <1>4, <2>4 DEF Fits
    <3> QED BY <1>1, <2>1, <3>1
  <2> QED BY <2>2, <2>3, <2>4
<1> QED BY <1>2, <1>3, <1>4

LEMMA GrantRoom ==
    ASSUME NEW t, nextId \in LeaseIds, WellFormed(t, nextId), Room(t),
           NEW o \in Owners, t.byOwner[o] = None, NEW gpus \in Vectors, NEW host \in Bytes,
           NEW U \in SUBSET Instances, o \notin U, \A v \in U : t.claimed[v] = None /\ t.byOwner[v] # None,
           \A d \in Devices : TotalBytes[d] > 0 /\ gpus[d] > 0 =>
              gpus[d] + TotalOf(OnDevice(t, d), Others(t, o, U)) <= TotalBytes[d],
           HostTotal > 0 /\ host > 0 => host + TotalOf(OnHost(t), Others(t, o, U)) <= HostTotal
    PROVE  Room(Grant(t, o, gpus, host, U))
<1> DEFINE w == Grant(t, o, gpus, host, U)
           l == [state |-> "pending", owner |-> o, gpus |-> gpus, host |-> host, left |-> TTL]
<1>1. /\ w.leases[nextId] = l
      /\ \A id \in LeaseIds \ {nextId} : w.leases[id] = t.leases[id]
  BY DEF Grant, WellFormed, TableType
<1>2. l # NoLease /\ l.gpus = gpus /\ l.host = host
  <2>1. l \in Lease
    BY LedgerAssumption DEF Lease
  <2> QED BY <2>1, LeaseFacts
<1>3. Bytes \subseteq Nat /\ TotalBytes \in [Devices -> Nat] /\ HostTotal \in Nat
  BY LedgerAssumption DEF Bytes
<1> HIDE DEF w, l
<1>4. ASSUME NEW d \in Devices, TotalBytes[d] > 0
      PROVE  FitsIn(w, OnDevice(w, d), TotalBytes[d])
  <2> DEFINE f == OnDevice(t, d)
             g == OnDevice(w, d)
  <2>1. g[nextId] = gpus[d] /\ \A id \in LeaseIds \ {nextId} : g[id] = f[id]
    BY <1>1, <1>2 DEF OnDevice
  <2>2. f \in [LeaseIds -> Nat]
    BY BytesTyped
  <2>3. gpus[d] \in Nat /\ TotalBytes[d] \in Nat
    BY <1>3 DEF Vectors
  <2>4. FitsIn(t, f, TotalBytes[d])
    BY <1>4 DEF Room
  <2>5. gpus[d] > 0 => gpus[d] + TotalOf(f, Others(t, o, U)) <= TotalBytes[d]
    BY <1>4
  <2> HIDE DEF f, g
  <2>6. FitsIn(w, g, TotalBytes[d])
    BY <2>1, <2>2, <2>3, <2>4, <2>5, GrantFits DEF w
  <2> QED BY <2>6 DEF g
<1>5. ASSUME HostTotal > 0
      PROVE  FitsIn(w, OnHost(w), HostTotal)
  <2> DEFINE f == OnHost(t)
             g == OnHost(w)
  <2>1. g[nextId] = host /\ \A id \in LeaseIds \ {nextId} : g[id] = f[id]
    BY <1>1, <1>2 DEF OnHost
  <2>2. f \in [LeaseIds -> Nat]
    BY BytesTyped
  <2>3. host \in Nat
    BY <1>3
  <2>4. FitsIn(t, f, HostTotal)
    BY <1>5 DEF Room
  <2>5. host > 0 => host + TotalOf(f, Others(t, o, U)) <= HostTotal
    BY <1>5
  <2> HIDE DEF f, g
  <2>6. FitsIn(w, g, HostTotal)
    BY <1>3, <2>1, <2>2, <2>3, <2>4, <2>5, GrantFits DEF w
  <2> QED BY <2>6 DEF g
<1> QED BY <1>4, <1>5 DEF Room, w

\* What an acquisition that is granted has found to fit.
GrantedShape(o, r) ==
    LET t        == DropOwner(Swept, o)
        U        == Usable(t, o, r.credits)
        free     == [d \in Devices |-> FreeOn(t, o, U, r, d)]
        hostFree == FreeHost(t, o, U, r)
    IN  \/ Become(t)
        \/ \E demand \in DemandType :
              /\ Fits(r, free, demand.vram) /\ Shares(r, free, demand.vram) \in Vectors
              /\ \/ demand.host = 0 \/ HostTotal = 0
                 \/ hostFree >= demand.host \/ hostFree - HostReserve >= demand.host
              /\ Become(Grant(t, o, Shares(r, free, demand.vram), demand.host, U))

LEMMA AcquireGrants ==
    ASSUME NEW o \in Owners, NEW r \in Requests, Acquire(o, r) \/ AcquireRuntime(o, r)
    PROVE  GrantedShape(o, r)
<1>1. 1 \in DOMAIN r.ladder /\ \A n \in DOMAIN r.ladder : r.ladder[n] \in DemandType
  <2>1. r \in RequestType /\ Len(r.ladder) > 0
    BY LedgerAssumption
  <2>2. r.ladder \in Seq(DemandType)
    BY <2>1 DEF RequestType
  <2> QED BY <2>1, <2>2
<1>2. CASE Acquire(o, r)
  BY SMTT(60), <1>1, <1>2 DEF Acquire, AcquireWith, GrantedShape
<1>3. CASE AcquireRuntime(o, r)
  BY <1>1, <1>3 DEF AcquireRuntime, AcquireWith, GrantedShape
<1> QED BY <1>2, <1>3

\* Replacing the tables by ones with room.
LEMMA BecomeRoom ==
    ASSUME NEW t, NEW n, Become(t), WellFormed(t, n), Room(t)
    PROVE  Room(Tables')
<1>1. t = [leases |-> t.leases, byOwner |-> t.byOwner, claimed |-> t.claimed]
  BY DEF WellFormed, TableType
<1>2. Tables' = t
  BY <1>1 DEF Become, Tables
<1> QED BY <1>2

LEMMA AcquireRoom ==
    ASSUME IInv, Room(Tables), NEW o \in Owners, NEW r \in Requests,
           Acquire(o, r) \/ AcquireRuntime(o, r)
    PROVE  Room(Tables')
<1> DEFINE w == Swept
           t == DropOwner(Swept, o)
           U == Usable(t, o, r.credits)
           free == [d \in Devices |-> FreeOn(t, o, U, r, d)]
           hostFree == FreeHost(t, o, U, r)
<1>1. WellFormed(t, nextId) /\ t.byOwner[o] = None
  BY CleanedTable
<1>2. Room(t)
  <2>1. Expired(Tables) \in SUBSET LeaseIds /\ WellFormed(Tables, nextId)
    BY DEF Expired, Held, IInv
  <2>2. WellFormed(w, nextId) /\ Room(w)
    BY <2>1, DropKeeps, DropRoom DEF Swept
  <2>3. {w.byOwner[o]} \ {None} \in SUBSET LeaseIds
    BY <2>2 DEF WellFormed, TableType
  <2> HIDE DEF w
  <2>4. Room(DropOwner(w, o))
    BY <2>2, <2>3, DropRoom DEF DropOwner
  <2> QED BY <2>4 DEF w
<1>3. U \in SUBSET Instances /\ o \notin U /\ \A v \in U : t.claimed[v] = None /\ t.byOwner[v] # None
  BY RequestFacts DEF Usable
<1>4. nextId \in LeaseIds
  BY AcquireHasShape DEF AcquireShape
<1>5. \/ Become(t)
      \/ \E demand \in DemandType :
            /\ Fits(r, free, demand.vram) /\ Shares(r, free, demand.vram) \in Vectors
            /\ \/ demand.host = 0 \/ HostTotal = 0
               \/ hostFree >= demand.host \/ hostFree - HostReserve >= demand.host
            /\ Become(Grant(t, o, Shares(r, free, demand.vram), demand.host, U))
  BY AcquireGrants DEF GrantedShape
<1>6. TotalBytes \in [Devices -> Nat] /\ HostTotal \in Nat /\ HostReserve \in Nat /\ Bytes \subseteq Nat
  BY LedgerAssumption DEF Bytes
<1>7. \A d \in Devices : /\ free[d] \in Nat
                         /\ TotalBytes[d] > 0 /\ free[d] > 0 =>
                               free[d] + TotalOf(OnDevice(t, d), Others(t, o, U)) <= TotalBytes[d]
  <2> HIDE DEF t, U
  <2> QED BY <1>1, <1>3, FreeOnRoom
<1>8. /\ hostFree \in Nat
      /\ HostTotal > 0 /\ hostFree > 0 =>
            hostFree + TotalOf(OnHost(t), Others(t, o, U)) <= HostTotal
  <2> HIDE DEF t, U
  <2> QED BY <1>1, <1>3, FreeHostRoom
<1>9. free \in [Devices -> Nat]
  BY <1>7
<1>10. \A d \in Devices : TotalOf(OnDevice(t, d), Others(t, o, U)) \in Nat
  BY <1>1, BytesTyped, SumParts, IdsFinite DEF Others, Held
<1>11. TotalOf(OnHost(t), Others(t, o, U)) \in Nat
  BY <1>1, BytesTyped, SumParts, IdsFinite DEF Others, Held
<1> HIDE DEF w, t, U, free, hostFree
<1>12. CASE Become(t)
  BY <1>1, <1>2, <1>12, BecomeRoom
<1>13. CASE ~Become(t)
  <2>1. PICK demand \in DemandType :
            /\ Fits(r, free, demand.vram) /\ Shares(r, free, demand.vram) \in Vectors
            /\ \/ demand.host = 0 \/ HostTotal = 0
               \/ hostFree >= demand.host \/ hostFree - HostReserve >= demand.host
            /\ Become(Grant(t, o, Shares(r, free, demand.vram), demand.host, U))
    BY <1>5, <1>13
  <2> DEFINE gpus == Shares(r, free, demand.vram)
  <2>2. demand.vram \in Nat /\ demand.host \in Bytes /\ demand.host \in Nat
    BY <1>6 DEF DemandType
  <2>3. gpus \in [Devices -> Nat]
    BY <1>6, <2>1 DEF Vectors
  <2>4. \A d \in Devices : gpus[d] > 0 => gpus[d] <= free[d]
    BY <1>9, <2>1, <2>2, <2>3, SharesFit
  <2> HIDE DEF gpus
  <2>5. ASSUME NEW d \in Devices, TotalBytes[d] > 0, gpus[d] > 0
        PROVE  gpus[d] + TotalOf(OnDevice(t, d), Others(t, o, U)) <= TotalBytes[d]
    BY <1>6, <1>7, <1>10, <2>3, <2>4, <2>5
  <2>6. ASSUME HostTotal > 0, demand.host > 0
        PROVE  demand.host + TotalOf(OnHost(t), Others(t, o, U)) <= HostTotal
    BY <1>6, <1>8, <1>11, <2>1, <2>2, <2>6
  <2>7. gpus \in Vectors
    BY <2>1 DEF gpus
  <2>8. Room(Grant(t, o, gpus, demand.host, U))
    BY <1>1, <1>2, <1>3, <1>4, <2>2, <2>5, <2>6, <2>7, GrantRoom
  <2>9. WellFormed(Grant(t, o, gpus, demand.host, U), nextId + 1)
    <3>1. U # {} => o \in Instances
      BY DEF U, Usable
    <3> QED BY <1>1, <1>3, <1>4, <2>2, <2>7, <3>1, GrantKeeps, LedgerAssumption
  <2> QED BY <2>1, <2>8, <2>9, BecomeRoom DEF gpus
<1> QED BY <1>12, <1>13

\* Editing lease records in place, but not what they take nor whose they are.
LEMMA EditRoom ==
    ASSUME IInv, Room(Tables), UNCHANGED claimed,
           \A id \in LeaseIds : /\ leases'[id] = NoLease <=> leases[id] = NoLease
                                /\ leases[id] # NoLease =>
                                      /\ leases'[id].owner = leases[id].owner
                                      /\ leases'[id].gpus = leases[id].gpus
                                      /\ leases'[id].host = leases[id].host
    PROVE  Room(Tables')
<1>1. /\ Tables.leases = leases /\ Tables.claimed = claimed
      /\ Tables'.leases = leases' /\ Tables'.claimed = claimed
  BY DEF Tables
<1>2. Together(Tables') = Together(Tables)
  <2>1. Held(Tables') = Held(Tables)
    BY <1>1 DEF Held
  <2> QED BY <1>1, <2>1 DEF Together, Held
<1>3. OnHost(Tables') = OnHost(Tables) /\ \A d \in Devices : OnDevice(Tables', d) = OnDevice(Tables, d)
  BY <1>1 DEF OnHost, OnDevice
<1> QED BY <1>2, <1>3 DEF Room, FitsIn

LEMMA NextRoom == IInv /\ Room(Tables) /\ [Next]_vars => Room(Tables')
<1> SUFFICES ASSUME IInv, Room(Tables), [Next]_vars PROVE Room(Tables')
  OBVIOUS
<1>1. /\ WellFormed(Tables, nextId)
      /\ leases \in [LeaseIds -> Lease \cup {NoLease}]
      /\ byOwner \in [Owners -> LeaseIds \cup {None}]
  BY DEF IInv, WellFormed, TableType, Tables
<1>2. ASSUME NEW o \in Owners, NEW r \in Requests, Acquire(o, r)
      PROVE  Room(Tables')
  BY <1>2, AcquireRoom
<1>3. ASSUME NEW i \in Instances, NEW r \in Requests, AcquireRuntime(i, r)
      PROVE  Room(Tables')
  BY <1>3, AcquireRoom DEF Owners
<1>4. ASSUME NEW id \in LeaseIds, Commit(id)
      PROVE  Room(Tables')
  <2>1. leases[id] \in Lease
    BY <1>1, <1>4 DEF Commit, NoLease
  <2>2. \A k \in LeaseIds : leases'[k] = IF k = id THEN Committed(leases[id]) ELSE leases[k]
    BY <1>1, <1>4 DEF Commit
  <2>3. /\ Committed(leases[id]) # NoLease
        /\ Committed(leases[id]).owner = leases[id].owner
        /\ Committed(leases[id]).gpus = leases[id].gpus
        /\ Committed(leases[id]).host = leases[id].host
    BY <2>1 DEF Committed, Lease, NoLease
  <2> QED BY <1>4, <2>1, <2>2, <2>3, EditRoom, LeaseFacts DEF Commit
<1>5. ASSUME NEW id \in LeaseIds, Release(id)
      PROVE  Room(Tables')
  <2>1. WellFormed(Drop(Tables, {id}), nextId) /\ Room(Drop(Tables, {id}))
    BY <1>1, DropKeeps, DropRoom
  <2> QED BY <1>5, <2>1, BecomeRoom DEF Release
<1>6. ASSUME NEW o \in Owners, CommitOwner(o)
      PROVE  Room(Tables')
  BY <1>1, <1>4, <1>6 DEF CommitOwner
<1>7. ASSUME NEW o \in Owners, ReleaseOwner(o)
      PROVE  Room(Tables')
  <2>1. {Tables.byOwner[o]} \ {None} \in SUBSET LeaseIds
    BY <1>1 DEF Tables
  <2>2. WellFormed(DropOwner(Tables, o), nextId) /\ Room(DropOwner(Tables, o))
    BY <1>1, <2>1, DropKeeps, DropRoom DEF DropOwner
  <2> QED BY <1>7, <2>2, BecomeRoom DEF ReleaseOwner
<1>8. CASE Sweep
  <2>1. Expired(Tables) \in SUBSET LeaseIds
    BY DEF Expired, Held
  <2>2. WellFormed(Swept, nextId) /\ Room(Swept)
    BY <1>1, <2>1, DropKeeps, DropRoom DEF Swept
  <2> QED BY <1>8, <2>2, BecomeRoom DEF Sweep
<1>9. CASE Tick
  <2>1. ASSUME NEW id \in LeaseIds, leases[id] # NoLease
        PROVE  LET l == [leases[id] EXCEPT !.left = @ - 1]
               IN  l # NoLease /\ l.owner = leases[id].owner /\ l.gpus = leases[id].gpus /\ l.host = leases[id].host
    <3>1. leases[id] \in Lease
      BY <1>1, <2>1
    <3> QED BY <3>1 DEF Lease, NoLease
  <2>2. \A id \in LeaseIds :
           leases'[id] = IF leases[id].state = "pending" /\ leases[id].left >= 0
                         THEN [leases[id] EXCEPT !.left = @ - 1] ELSE leases[id]
    BY <1>9 DEF Tick
  <2>3. ASSUME NEW id \in LeaseIds, leases[id] = NoLease
        PROVE  leases[id].state # "pending"
    BY <2>3 DEF NoLease
  <2> QED BY <1>9, <2>1, <2>2, <2>3, EditRoom DEF Tick
<1>10. CASE UNCHANGED vars
  <2>1. Tables' = Tables
    BY <1>10 DEF Tables, vars
  <2> QED BY <2>1
<1> QED BY <1>2, <1>3, <1>4, <1>5, <1>6, <1>7, <1>8, <1>9, <1>10 DEF Next

RoomInv == Room(Tables)

LEMMA RoomHolds == Spec => []RoomInv
<1>1. Init => RoomInv
  <2> SUFFICES ASSUME Init PROVE Room(Tables)
    BY DEF RoomInv
  <2>1. Held(Tables) = {}
    BY DEF Init, Tables, Held
  <2>2. Together(Tables) \subseteq {{}}
    BY <2>1 DEF Together
  <2>3. WellFormed(Tables, nextId)
    BY InitIInv DEF IInv
  <2>4. TotalBytes \in [Devices -> Nat] /\ HostTotal \in Nat
    BY LedgerAssumption
  <2>5. TotalOf(OnHost(Tables), {}) = 0 /\ \A d \in Devices : TotalOf(OnDevice(Tables, d), {}) = 0
    BY <2>3, BytesTyped, IdsFinite, SumParts
  <2>6. ASSUME NEW f, NEW capacity \in Nat, TotalOf(f, {}) = 0
        PROVE  FitsIn(Tables, f, capacity)
    BY SMTT(60), <2>2, <2>6 DEF FitsIn
  <2> QED BY <2>4, <2>5, <2>6 DEF Room
<1>2. IInv /\ RoomInv /\ [Next]_vars => RoomInv'
  <2> SUFFICES ASSUME IInv, RoomInv, [Next]_vars PROVE RoomInv'
    OBVIOUS
  <2>1. Room(Tables')
    BY NextRoom DEF RoomInv
  <2> QED BY <2>1 DEF RoomInv, Room, FitsIn, Together, Held, OnDevice, OnHost, TotalOf, Fold, Folds, Pick
<1> QED BY <1>1, <1>2, Inductive, PTL DEF Spec

\* On every device and on the host, the leases that are not being displaced fit
\* in what exists, whatever the snapshots said and whichever credits were used.
THEOREM NeverOvercommitted == Spec => []NoOvercommit
<1>1. ASSUME IInv, RoomInv PROVE NoOvercommit
  <2>1. Tables.leases = leases /\ Tables.claimed = claimed
    BY DEF Tables
  <2>2. Standing \in Together(Tables)
    BY <2>1 DEF Standing, Displaced, Together, Held
  <2>3. ASSUME NEW d \in Devices, TotalBytes[d] > 0
        PROVE  SumOver(Standing, LAMBDA id : leases[id].gpus[d]) <= TotalBytes[d]
    <3> DEFINE g == [id \in Standing |-> leases[id].gpus[d]]
    <3>1. SumOver(Standing, LAMBDA id : leases[id].gpus[d]) = TotalOf(g, Standing)
      BY DEF SumOver, FoldFunctionOnSet, MapThenFoldSet, TotalOf, Fold, Folds, Pick
    <3>2. \A id \in Standing : g[id] = OnDevice(Tables, d)[id]
      BY <2>1 DEF OnDevice, Standing
    <3>3. TotalOf(g, Standing) = TotalOf(OnDevice(Tables, d), Standing)
      <4> HIDE DEF g
      <4> QED BY <3>2, SumAgree
    <3>4. TotalOf(OnDevice(Tables, d), Standing) <= TotalBytes[d]
      BY <1>1, <2>2, <2>3 DEF RoomInv, Room, FitsIn
    <3>5. TotalOf(g, Standing) <= TotalBytes[d]
      BY <3>3, <3>4
    <3> QED BY <3>5 DEF SumOver, FoldFunctionOnSet, MapThenFoldSet, TotalOf, Fold, Folds, Pick
  <2>4. ASSUME HostTotal > 0
        PROVE  SumOver(Standing, LAMBDA id : leases[id].host) <= HostTotal
    <3> DEFINE g == [id \in Standing |-> leases[id].host]
    <3>2. \A id \in Standing : g[id] = OnHost(Tables)[id]
      BY <2>1 DEF OnHost, Standing
    <3>3. TotalOf(g, Standing) = TotalOf(OnHost(Tables), Standing)
      <4> HIDE DEF g
      <4> QED BY <3>2, SumAgree
    <3>4. TotalOf(OnHost(Tables), Standing) <= HostTotal
      BY <1>1, <2>2, <2>4 DEF RoomInv, Room, FitsIn
    <3>5. TotalOf(g, Standing) <= HostTotal
      BY <3>3, <3>4
    <3> QED BY <3>5 DEF SumOver, FoldFunctionOnSet, MapThenFoldSet, TotalOf, Fold, Folds, Pick
  <2> QED BY <2>3, <2>4 DEF NoOvercommit
<1> QED BY <1>1, Inductive, RoomHolds, PTL

-----------------------------------------------------------------------------
(* What one step may do.                                                   *)

\* An acquisition leaves alone every lease in force but its owner's, and
\* every claim whose holder survives.
LEMMA AcquireSpares ==
    ASSUME IInv, NEW o \in Owners, NEW r \in Requests, AcquireShape(o, r)
    PROVE  /\ \A a \in LeaseIds : Gone(a) /\ ~Lapsed(a) => leases[a].owner = o
           /\ \A b \in LeaseIds :
                 leases[b] = NoLease /\ leases'[b] # NoLease => leases'[b].owner = o
           /\ \A v \in Instances : claimed[v] # None /\ claimed'[v] # claimed[v] =>
                 leases'[claimed[v]] = NoLease
<1> DEFINE t == DropOwner(Swept, o)
           U == Usable(t, o, r.credits)
<1>1. /\ WellFormed(t, nextId)
      /\ \A id \in LeaseIds : t.leases[id] \in {NoLease, leases[id]}
      /\ \A id \in LeaseIds : t.leases[id] = NoLease /\ leases[id] # NoLease =>
                                 Lapsed(id) \/ leases[id].owner = o
      /\ \A v \in Instances : t.claimed[v] # claimed[v] =>
                                 t.claimed[v] = None /\ t.leases[claimed[v]] = NoLease
  BY CleanedTable
<1>2. /\ t.leases \in [LeaseIds -> Lease \cup {NoLease}]
      /\ claimed \in [Instances -> LeaseIds \cup {None}]
      /\ \A id \in LeaseIds : leases[id] # NoLease => id < nextId
      /\ \A v \in Instances : claimed[v] # None => leases[claimed[v]] # NoLease
      /\ nextId \in LeaseIds /\ MaxLeases \in Nat
  BY <1>1, LedgerAssumption
     DEF AcquireShape, IInv, WellFormed, TableType, FreshFrom, ClaimsOf, Tables
<1>3. \A v \in U : t.claimed[v] = None
  BY UsableFacts, RequestFacts
<1>4. CASE Become(t) /\ UNCHANGED nextId
  <2> HIDE DEF t
  <2> QED BY <1>1, <1>4 DEF Become, Gone
<1>5. CASE \E gpus \in Vectors, host \in Bytes :
              Become(Grant(t, o, gpus, host, U)) /\ nextId' = nextId + 1
  <2>1. PICK gpus \in Vectors, host \in Bytes : Become(Grant(t, o, gpus, host, U))
    BY <1>5
  <2> DEFINE l == [state |-> "pending", owner |-> o, gpus |-> gpus,
                   host |-> host, left |-> TTL]
  <2> HIDE DEF t, U
  <2>2. \A id \in LeaseIds : leases'[id] = IF id = nextId THEN l ELSE t.leases[id]
    BY <1>2, <2>1 DEF Become, Grant
  <2>3. \A v \in Instances : claimed'[v] = IF v \in U THEN nextId ELSE t.claimed[v]
    BY <2>1 DEF Become, Grant
  <2>4. l.owner = o /\ l # NoLease
    BY DEF NoLease
  <2>5. ASSUME NEW a \in LeaseIds, Gone(a), ~Lapsed(a)
        PROVE  leases[a].owner = o
    BY <1>1, <2>2, <2>4, <2>5 DEF Gone
  <2>6. ASSUME NEW b \in LeaseIds, leases[b] = NoLease, leases'[b] # NoLease
        PROVE  leases'[b].owner = o
    BY <1>1, <2>2, <2>4, <2>6
  <2>7. ASSUME NEW v \in Instances, claimed[v] # None, claimed'[v] # claimed[v]
        PROVE  leases'[claimed[v]] = NoLease
    <3>1. t.claimed[v] # claimed[v]
      BY <1>3, <2>3, <2>7
    <3>2. t.leases[claimed[v]] = NoLease
      BY <1>1, <3>1
    <3>3. claimed[v] \in LeaseIds /\ claimed[v] < nextId
      BY <1>2, <2>7
    <3> QED BY <2>2, <3>2, <3>3 DEF LeaseIds
  <2> QED BY <2>5, <2>6, <2>7
<1> QED BY <1>4, <1>5 DEF AcquireShape

\* What the other steps do to the three maps.
LEMMA OtherStepsSpare ==
    ASSUME IInv, [Next]_vars,
           ~ \E o \in Owners, r \in Requests : AcquireShape(o, r)
    PROVE  /\ \A b \in LeaseIds : leases[b] = NoLease => leases'[b] = NoLease
           /\ \A a, b \in LeaseIds :
                 Gone(a) /\ ~Lapsed(a) /\ Gone(b) /\ ~Lapsed(b) => a = b
           /\ \A v \in Instances : claimed'[v] # claimed[v] =>
                 leases'[claimed[v]] = NoLease
<1>1. /\ leases  \in [LeaseIds -> Lease \cup {NoLease}]
      /\ byOwner \in [Owners -> LeaseIds \cup {None}]
      /\ claimed \in [Instances -> LeaseIds \cup {None}]
  BY DEF IInv, WellFormed, TableType, Tables
<1>2. ASSUME NEW S \in SUBSET LeaseIds, Become(Drop(Tables, S)),
             \A a, b \in S : Lapsed(a) \/ Lapsed(b) \/ a = b
      PROVE  /\ \A b \in LeaseIds : leases[b] = NoLease => leases'[b] = NoLease
             /\ \A a, b \in LeaseIds :
                   Gone(a) /\ ~Lapsed(a) /\ Gone(b) /\ ~Lapsed(b) => a = b
             /\ \A v \in Instances : claimed'[v] # claimed[v] =>
                   leases'[claimed[v]] = NoLease
  <2>1. \A id \in LeaseIds : leases'[id] = IF id \in S THEN NoLease ELSE leases[id]
    BY <1>2 DEF Become, Drop, Tables
  <2>2. \A v \in Instances :
           claimed'[v] = IF claimed[v] \in S THEN None ELSE claimed[v]
    BY <1>2 DEF Become, Drop, Tables
  <2> QED BY <1>2, <2>1, <2>2 DEF Gone
<1>3. ASSUME UNCHANGED claimed,
             \A id \in LeaseIds : leases'[id] = NoLease <=> leases[id] = NoLease
      PROVE  /\ \A b \in LeaseIds : leases[b] = NoLease => leases'[b] = NoLease
             /\ \A a, b \in LeaseIds :
                   Gone(a) /\ ~Lapsed(a) /\ Gone(b) /\ ~Lapsed(b) => a = b
             /\ \A v \in Instances : claimed'[v] # claimed[v] =>
                   leases'[claimed[v]] = NoLease
  BY <1>3 DEF Gone
<1>4. ASSUME NEW id \in LeaseIds, Release(id)
      PROVE  Become(Drop(Tables, {id}))
  BY <1>4 DEF Release
<1>5. ASSUME NEW o \in Owners, ReleaseOwner(o)
      PROVE  byOwner[o] \in LeaseIds /\ Become(Drop(Tables, {byOwner[o]}))
  <2>1. byOwner[o] \in LeaseIds /\ {byOwner[o]} \ {None} = {byOwner[o]}
    BY <1>1, <1>5 DEF ReleaseOwner
  <2> QED BY <1>5, <2>1 DEF ReleaseOwner, DropOwner, Tables
<1>6. ASSUME Sweep
      PROVE  /\ Expired(Tables) \in SUBSET LeaseIds
             /\ Become(Drop(Tables, Expired(Tables)))
             /\ \A id \in Expired(Tables) : Lapsed(id)
  BY <1>6 DEF Sweep, Swept, Expired, Held, Lapsed, Tables
<1>7. ASSUME NEW id \in LeaseIds, Commit(id)
      PROVE  /\ UNCHANGED claimed
             /\ \A k \in LeaseIds : leases'[k] = NoLease <=> leases[k] = NoLease
  <2>1. /\ leases[id] # NoLease
        /\ \A k \in LeaseIds :
              leases'[k] = IF k = id THEN Committed(leases[id]) ELSE leases[k]
    BY <1>1, <1>7 DEF Commit, NoLease
  <2>2. Committed(leases[id]) # NoLease
    <3>1. leases[id] \in Lease
      BY <1>1, <2>1
    <3>2. "left" \in DOMAIN leases[id] /\ "left" \notin DOMAIN NoLease
      BY <3>1 DEF Lease, NoLease
    <3>3. DOMAIN Committed(leases[id]) = DOMAIN leases[id]
      BY DEF Committed
    <3> QED BY <3>2, <3>3
  <2> QED BY <1>7, <2>1, <2>2 DEF Commit
<1>8. ASSUME Tick
      PROVE  /\ UNCHANGED claimed
             /\ \A k \in LeaseIds : leases'[k] = NoLease <=> leases[k] = NoLease
  <2> SUFFICES ASSUME NEW k \in LeaseIds
               PROVE  leases'[k] = NoLease <=> leases[k] = NoLease
    BY <1>8 DEF Tick
  <2>1. leases'[k] = IF leases[k].state = "pending" /\ leases[k].left >= 0
                     THEN [leases[k] EXCEPT !.left = @ - 1] ELSE leases[k]
    BY <1>8 DEF Tick
  <2>2. CASE leases[k].state = "pending" /\ leases[k].left >= 0
    <3>1. leases[k] # NoLease /\ leases[k] \in Lease
      BY <1>1, <2>2 DEF NoLease
    <3>2. "left" \in DOMAIN leases[k] /\ "left" \notin DOMAIN NoLease
      BY <3>1 DEF Lease, NoLease
    <3>3. DOMAIN [leases[k] EXCEPT !.left = @ - 1] = DOMAIN leases[k]
      OBVIOUS
    <3> QED BY <2>1, <2>2, <3>1, <3>2, <3>3
  <2> QED BY <2>1, <2>2
<1>9. ASSUME NEW o \in Owners, CommitOwner(o)
      PROVE  \E id \in LeaseIds : Commit(id)
  BY <1>1, <1>9 DEF CommitOwner
<1>10. ~ \E o \in Owners, r \in Requests : Acquire(o, r)
  BY AcquireHasShape
<1>11. ~ \E i \in Instances, r \in Requests : AcquireRuntime(i, r)
  BY AcquireHasShape DEF Owners
<1>12. CASE \E id \in LeaseIds : Commit(id)
  BY <1>3, <1>7, <1>12
<1>13. CASE \E id \in LeaseIds : Release(id)
  <2>1. PICK id \in LeaseIds : Become(Drop(Tables, {id}))
    BY <1>4, <1>13
  <2>2. {id} \in SUBSET LeaseIds /\ \A a, b \in {id} : a = b
    OBVIOUS
  <2> QED BY <1>2, <2>1, <2>2
<1>14. CASE \E o \in Owners : CommitOwner(o)
  BY <1>9, <1>12, <1>14
<1>15. CASE \E o \in Owners : ReleaseOwner(o)
  <2>1. PICK id \in LeaseIds : Become(Drop(Tables, {id}))
    BY <1>5, <1>15
  <2>2. {id} \in SUBSET LeaseIds /\ \A a, b \in {id} : a = b
    OBVIOUS
  <2> QED BY <1>2, <2>1, <2>2
<1>16. CASE Sweep
  BY <1>2, <1>6, <1>16
<1>17. CASE Tick
  BY <1>3, <1>8, <1>17
<1>18. CASE UNCHANGED vars
  BY <1>3, <1>18 DEF vars
<1> QED BY <1>10, <1>11, <1>12, <1>13, <1>14, <1>15, <1>16, <1>17, <1>18 DEF Next

\* An acquisition takes away no lease in force but its own owner's.
THEOREM AcquireReplacesOnlyOwn == Spec => ReplacesOnlyOwn
<1>1. ASSUME IInv, [Next]_vars, NEW a \in LeaseIds, NEW b \in LeaseIds,
             Gone(a), ~Lapsed(a), leases[b] = NoLease, leases'[b] # NoLease
      PROVE  leases[a].owner = leases'[b].owner
  <2>1. CASE \E o \in Owners, r \in Requests : AcquireShape(o, r)
    BY <1>1, <2>1, AcquireSpares
  <2>2. CASE ~ \E o \in Owners, r \in Requests : AcquireShape(o, r)
    BY <1>1, <2>2, OtherStepsSpare
  <2> QED BY <2>1, <2>2
<1>2. IInv /\ [Next]_vars =>
         [\A a, b \in LeaseIds :
            /\ Gone(a) /\ ~Lapsed(a)
            /\ leases[b] = NoLease /\ leases'[b] # NoLease
            => leases[a].owner = leases'[b].owner]_vars
  BY <1>1
<1> QED BY <1>2, Inductive, PTL DEF Spec, ReplacesOnlyOwn

\* A call removes at most one lease in force.
THEOREM CallsReleaseOne == Spec => OneReleasePerCall
<1>1. ASSUME IInv, [Next]_vars, NEW a \in LeaseIds, NEW b \in LeaseIds,
             Gone(a), ~Lapsed(a), Gone(b), ~Lapsed(b)
      PROVE  a = b
  <2>1. CASE \E o \in Owners, r \in Requests : AcquireShape(o, r)
    <3>1. leases[a].owner = leases[b].owner
      BY <1>1, <2>1, AcquireSpares
    <3>2. byOwner[leases[a].owner] = a /\ byOwner[leases[b].owner] = b
      BY <1>1 DEF IInv, WellFormed, IndexOf, Tables, Gone
    <3> QED BY <3>1, <3>2
  <2>2. CASE ~ \E o \in Owners, r \in Requests : AcquireShape(o, r)
    BY <1>1, <2>2, OtherStepsSpare
  <2> QED BY <2>1, <2>2
<1>2. IInv /\ [Next]_vars =>
         [\A a, b \in LeaseIds :
            Gone(a) /\ ~Lapsed(a) /\ Gone(b) /\ ~Lapsed(b) => a = b]_vars
  BY <1>1
<1> QED BY <1>2, Inductive, PTL DEF Spec, OneReleasePerCall

\* A victim passes from one claimant to the next only once the first
\* claimant's lease is gone.
THEOREM ClaimsAreExclusive == Spec => ClaimExclusive
<1>1. ASSUME IInv, [Next]_vars, NEW v \in Instances,
             claimed[v] # None, claimed'[v] # claimed[v]
      PROVE  leases'[claimed[v]] = NoLease
  <2>1. CASE \E o \in Owners, r \in Requests : AcquireShape(o, r)
    BY <1>1, <2>1, AcquireSpares
  <2>2. CASE ~ \E o \in Owners, r \in Requests : AcquireShape(o, r)
    BY <1>1, <2>2, OtherStepsSpare
  <2> QED BY <2>1, <2>2
<1>2. IInv /\ [Next]_vars =>
         [\A v \in Instances : claimed[v] # None /\ claimed'[v] # claimed[v] =>
            leases'[claimed[v]] = NoLease]_vars
  BY <1>1
<1> QED BY <1>2, Inductive, PTL DEF Spec, ClaimExclusive

-----------------------------------------------------------------------------
(* The ledger keeps the promises of Reservations, for every value of the   *)
(* constants: what its tables say by owner is a behaviour of that          *)
(* specification.  Again the argument is about tables: both Drop and Grant *)
(* do to what a table says what Reservations says they do.                 *)

\* What a table says of an owner, and of a victim.
HeldIn(t) == [o \in Owners |-> IF t.byOwner[o] = None THEN "none" ELSE t.leases[t.byOwner[o]].state]
CreditIn(t) == [v \in Instances |-> IF t.claimed[v] = None THEN None ELSE t.leases[t.claimed[v]].owner]

\* The same, once the owners in S have lost their leases.
HeldLess(t, S) == [o \in Owners |-> IF o \in S THEN "none" ELSE HeldIn(t)[o]]
CreditLess(t, S) == [v \in Instances |-> IF CreditIn(t)[v] \in S THEN None ELSE CreditIn(t)[v]]

OwnersOf(t, R) == {t.leases[id].owner : id \in R \cap Held(t)}

-----------------------------------------------------------------------------

\* Dropping leases is dropping the reservations of their owners.
LEMMA DropSays ==
    ASSUME NEW t, NEW n, WellFormed(t, n), NEW R \in SUBSET LeaseIds
    PROVE  /\ HeldIn(Drop(t, R)) = HeldLess(t, OwnersOf(t, R))
           /\ CreditIn(Drop(t, R)) = CreditLess(t, OwnersOf(t, R))
<1> DEFINE d == Drop(t, R)
           S == OwnersOf(t, R)
<1>1. /\ t.leases  \in [LeaseIds -> Lease \cup {NoLease}]
      /\ t.byOwner \in [Owners -> LeaseIds \cup {None}]
      /\ t.claimed \in [Instances -> LeaseIds \cup {None}]
      /\ IndexOf(t) /\ ClaimsOf(t)
  BY DEF WellFormed, TableType
<1>2. \A id \in LeaseIds : d.leases[id] = IF id \in R THEN NoLease ELSE t.leases[id]
  BY DEF Drop
<1>3. ASSUME NEW id \in LeaseIds, t.leases[id] # NoLease
      PROVE  t.leases[id].owner \in S <=> id \in R
  <2>1. t.byOwner[t.leases[id].owner] = id
    BY <1>1, <1>3 DEF IndexOf
  <2>2. ASSUME NEW j \in R \cap Held(t), t.leases[j].owner = t.leases[id].owner PROVE j = id
    BY <1>1, <2>1, <2>2 DEF IndexOf, Held
  <2> QED BY <1>3, <2>2 DEF OwnersOf, Held
<1>4. ASSUME NEW o \in Owners
      PROVE  HeldIn(d)[o] = HeldLess(t, S)[o]
  <2>1. CASE t.byOwner[o] = None
    <3>1. d.byOwner[o] = None
      BY <2>1 DEF Drop
    <3> QED BY <2>1, <3>1 DEF HeldIn, HeldLess
  <2>2. CASE t.byOwner[o] # None /\ t.byOwner[o] \in R
    <3>1. t.leases[t.byOwner[o]] # NoLease /\ t.leases[t.byOwner[o]].owner = o /\ t.byOwner[o] \in LeaseIds
      BY <1>1, <2>2 DEF IndexOf
    <3>2. d.byOwner[o] = None
      BY <2>2, <3>1 DEF Drop, Held
    <3>3. o \in S
      BY <1>3, <2>2, <3>1
    <3> QED BY <3>2, <3>3 DEF HeldIn, HeldLess
  <2>3. CASE t.byOwner[o] # None /\ t.byOwner[o] \notin R
    <3>1. t.leases[t.byOwner[o]] # NoLease /\ t.leases[t.byOwner[o]].owner = o /\ t.byOwner[o] \in LeaseIds
      BY <1>1, <2>3 DEF IndexOf
    <3>2. d.byOwner[o] = t.byOwner[o]
      BY <2>3 DEF Drop
    <3>3. o \notin S
      BY <1>3, <2>3, <3>1
    <3> QED BY <1>2, <2>3, <3>1, <3>2, <3>3 DEF HeldIn, HeldLess
  <2> QED BY <2>1, <2>2, <2>3
<1>5. ASSUME NEW v \in Instances
      PROVE  CreditIn(d)[v] = CreditLess(t, S)[v]
  <2>1. d.claimed[v] = IF t.claimed[v] \in R THEN None ELSE t.claimed[v]
    BY DEF Drop
  <2>2. CASE t.claimed[v] = None
    BY <2>1, <2>2 DEF CreditIn, CreditLess
  <2>3. CASE t.claimed[v] # None
    <3>1. t.leases[t.claimed[v]] # NoLease /\ t.claimed[v] \in LeaseIds
      BY <1>1, <2>3 DEF ClaimsOf
    <3>2. CreditIn(t)[v] = t.leases[t.claimed[v]].owner
      BY <2>3 DEF CreditIn
    <3>3. CreditIn(t)[v] \in S <=> t.claimed[v] \in R
      BY <1>3, <3>1, <3>2
    <3>4. CASE t.claimed[v] \in R
      BY <2>1, <3>3, <3>4 DEF CreditIn, CreditLess
    <3>5. CASE t.claimed[v] \notin R
      BY <1>2, <2>1, <2>3, <3>1, <3>2, <3>3, <3>5 DEF CreditIn, CreditLess
    <3> QED BY <3>4, <3>5
  <2> QED BY <2>2, <2>3
<1> QED BY <1>4, <1>5 DEF HeldIn, HeldLess, CreditIn, CreditLess

\* releaseOwnerLocked drops the reservation of that owner, if it has one.
LEMMA DropOwnerSays ==
    ASSUME NEW t, NEW n, WellFormed(t, n), NEW o \in Owners
    PROVE  /\ HeldIn(DropOwner(t, o)) = HeldLess(t, {o})
           /\ CreditIn(DropOwner(t, o)) = CreditLess(t, {o})
<1> DEFINE R == {t.byOwner[o]} \ {None}
<1>1. /\ t.leases  \in [LeaseIds -> Lease \cup {NoLease}]
      /\ t.byOwner \in [Owners -> LeaseIds \cup {None}]
      /\ t.claimed \in [Instances -> LeaseIds \cup {None}]
      /\ IndexOf(t) /\ ClaimsOf(t)
  BY DEF WellFormed, TableType
<1>2. R \in SUBSET LeaseIds /\ DropOwner(t, o) = Drop(t, R)
  BY <1>1 DEF DropOwner
<1>3. /\ HeldIn(DropOwner(t, o)) = HeldLess(t, OwnersOf(t, R))
      /\ CreditIn(DropOwner(t, o)) = CreditLess(t, OwnersOf(t, R))
  BY <1>2, DropSays
<1>4. CASE t.byOwner[o] = None
  <2>1. OwnersOf(t, R) = {}
    BY <1>4 DEF OwnersOf
  <2>2. HeldIn(t)[o] = "none"
    BY <1>4 DEF HeldIn
  <2>3. ASSUME NEW v \in Instances, CreditIn(t)[v] = o PROVE CreditIn(t)[v] = None
    <3> SUFFICES ASSUME t.claimed[v] # None PROVE FALSE
      BY DEF CreditIn
    <3>1. t.leases[t.claimed[v]] # NoLease /\ t.claimed[v] \in LeaseIds
      BY <1>1 DEF ClaimsOf
    <3>2. t.leases[t.claimed[v]].owner = o
      BY <2>3 DEF CreditIn
    <3>3. t.byOwner[o] = t.claimed[v]
      BY <1>1, <3>1, <3>2 DEF IndexOf
    <3> QED BY <1>4, <3>3
  <2> QED BY <1>3, <2>1, <2>2, <2>3 DEF HeldLess, CreditLess
<1>5. CASE t.byOwner[o] # None
  <2>1. t.byOwner[o] \in LeaseIds /\ t.leases[t.byOwner[o]] # NoLease /\ t.leases[t.byOwner[o]].owner = o
    BY <1>1, <1>5 DEF IndexOf
  <2>2. OwnersOf(t, R) = {o}
    BY <1>5, <2>1 DEF OwnersOf, Held
  <2> QED BY <1>3, <2>2
<1> QED BY <1>4, <1>5

\* A grant reserves for its owner and credits it with its victims.
LEMMA GrantSays ==
    ASSUME NEW t, nextId \in LeaseIds, WellFormed(t, nextId),
           NEW o \in Owners, t.byOwner[o] = None, NEW gpus, NEW host, NEW U \in SUBSET Instances
    PROVE  LET g == Grant(t, o, gpus, host, U)
           IN  /\ HeldIn(g) = [HeldIn(t) EXCEPT ![o] = "pending"]
               /\ CreditIn(g) = [v \in Instances |-> IF v \in U THEN o ELSE CreditIn(t)[v]]
<1> DEFINE g == Grant(t, o, gpus, host, U)
           l == [state |-> "pending", owner |-> o, gpus |-> gpus, host |-> host, left |-> TTL]
<1>1. /\ t.leases  \in [LeaseIds -> Lease \cup {NoLease}]
      /\ t.byOwner \in [Owners -> LeaseIds \cup {None}]
      /\ t.claimed \in [Instances -> LeaseIds \cup {None}]
      /\ IndexOf(t) /\ ClaimsOf(t) /\ t.leases[nextId] = NoLease /\ nextId # None
  BY LeaseFacts DEF WellFormed, TableType, FreshFrom, LeaseIds
<1>2. /\ g.leases = [t.leases EXCEPT ![nextId] = l]
      /\ g.byOwner = [t.byOwner EXCEPT ![o] = nextId]
      /\ \A v \in Instances : g.claimed[v] = IF v \in U THEN nextId ELSE t.claimed[v]
  BY DEF Grant
<1>3. g.leases[nextId] = l /\ \A id \in LeaseIds \ {nextId} : g.leases[id] = t.leases[id]
  BY <1>1, <1>2
<1>4. l.state = "pending" /\ l.owner = o
  OBVIOUS
<1> HIDE DEF g, l
<1>5. ASSUME NEW p \in Owners
      PROVE  HeldIn(g)[p] = IF p = o THEN "pending" ELSE HeldIn(t)[p]
  <2>1. CASE p = o
    <3>1. g.byOwner[p] = nextId
      BY <1>1, <1>2, <2>1
    <3> QED BY <1>1, <1>3, <1>4, <2>1, <3>1 DEF HeldIn
  <2>2. CASE p # o
    <3>1. g.byOwner[p] = t.byOwner[p]
      BY <1>1, <1>2, <2>2
    <3>2. CASE t.byOwner[p] = None
      BY <2>2, <3>1, <3>2 DEF HeldIn
    <3>3. CASE t.byOwner[p] # None
      <4>1. t.byOwner[p] \in LeaseIds \ {nextId}
        BY <1>1, <3>3 DEF IndexOf
      <4> QED BY <1>3, <2>2, <3>1, <3>3, <4>1 DEF HeldIn
    <3> QED BY <3>2, <3>3
  <2> QED BY <2>1, <2>2
<1>6. ASSUME NEW v \in Instances
      PROVE  CreditIn(g)[v] = IF v \in U THEN o ELSE CreditIn(t)[v]
  <2>1. CASE v \in U
    <3>1. g.claimed[v] = nextId
      BY <1>2, <2>1
    <3> QED BY <1>1, <1>3, <1>4, <2>1, <3>1 DEF CreditIn
  <2>2. CASE v \notin U
    <3>1. g.claimed[v] = t.claimed[v]
      BY <1>2, <2>2
    <3>2. CASE t.claimed[v] = None
      BY <2>2, <3>1, <3>2 DEF CreditIn
    <3>3. CASE t.claimed[v] # None
      <4>1. t.claimed[v] \in LeaseIds \ {nextId}
        BY <1>1, <3>3 DEF ClaimsOf
      <4> QED BY <1>3, <2>2, <3>1, <3>3, <4>1 DEF CreditIn
    <3> QED BY <3>2, <3>3
  <2> QED BY <2>1, <2>2
<1>7. HeldIn(g) = [p \in Owners |-> IF p = o THEN "pending" ELSE HeldIn(t)[p]]
  BY <1>5 DEF HeldIn
<1>8. [HeldIn(t) EXCEPT ![o] = "pending"] = [p \in Owners |-> IF p = o THEN "pending" ELSE HeldIn(t)[p]]
  BY DEF HeldIn
<1>9. CreditIn(g) = [v \in Instances |-> IF v \in U THEN o ELSE CreditIn(t)[v]]
  BY <1>6 DEF CreditIn
<1> QED BY <1>7, <1>8, <1>9 DEF g

-----------------------------------------------------------------------------
(* The same in the words of Reservations.                                  *)

\* The refinement mapping is what the ledger's tables say.
LEMMA Mapping ==
    /\ Promises!Owners = Owners
    /\ Promises!Pending = {o \in Owners : HeldIn(Tables)[o] = "pending"}
    /\ \A S : Promises!HeldWithout(S) = HeldLess(Tables, S)
    /\ \A S : Promises!CreditedWithout(S) = CreditLess(Tables, S)
BY DEF Promises!Owners, Promises!Pending, Promises!HeldWithout, Promises!CreditedWithout,
       Owners, HeldIn, CreditIn, HeldLess, CreditLess, Tables

\* A step of Reservations, by what it leaves in the tables.
LEMMA MappedSteps ==
    /\ \A S \in SUBSET Promises!Pending :
          HeldIn(Tables') = HeldLess(Tables, S) /\ CreditIn(Tables') = CreditLess(Tables, S)
             => Promises!ResNext
    /\ \A o \in Owners, S \in SUBSET Promises!Pending :
          HeldIn(Tables') = HeldLess(Tables, S \cup {o}) /\ CreditIn(Tables') = CreditLess(Tables, S \cup {o})
             => Promises!ResNext
    /\ \A o \in Owners :
          HeldIn(Tables') = HeldLess(Tables, {o}) /\ CreditIn(Tables') = CreditLess(Tables, {o})
             => Promises!ResNext
<1>1. \A S : HeldIn(Tables') = HeldLess(Tables, S) /\ CreditIn(Tables') = CreditLess(Tables, S)
                => Promises!Lapse(S)
  BY Mapping DEF Promises!Lapse, HeldIn, CreditIn, Tables
<1>2. \A o, S : HeldIn(Tables') = HeldLess(Tables, S \cup {o}) /\ CreditIn(Tables') = CreditLess(Tables, S \cup {o})
                => Promises!Refuse(o, S)
  BY Mapping DEF Promises!Refuse, HeldIn, CreditIn, Tables
<1>3. \A o : HeldIn(Tables') = HeldLess(Tables, {o}) /\ CreditIn(Tables') = CreditLess(Tables, {o})
                => Promises!GiveUp(o)
  BY Mapping DEF Promises!GiveUp, HeldIn, CreditIn, Tables
<1> QED BY <1>1, <1>2, <1>3, Mapping DEF Promises!ResNext

\* A grant on a table without the reservations in S and o's own is a step too.
LEMMA MappedGrant ==
    \A o \in Owners, S \in SUBSET Promises!Pending, V \in SUBSET Instances :
       /\ V # {} => o \in Instances
       /\ \A v \in V : /\ v # o
                       /\ HeldLess(Tables, S \cup {o})[v] # "none"
                       /\ CreditLess(Tables, S \cup {o})[v] = None
       /\ HeldIn(Tables') = [HeldLess(Tables, S \cup {o}) EXCEPT ![o] = "pending"]
       /\ CreditIn(Tables') = [v \in Instances |-> IF v \in V THEN o
                                                   ELSE CreditLess(Tables, S \cup {o})[v]]
       => Promises!ResNext
<1> SUFFICES
      ASSUME NEW o \in Owners, NEW S \in SUBSET Promises!Pending, NEW V \in SUBSET Instances,
             V # {} => o \in Instances,
             \A v \in V : /\ v # o
                          /\ HeldLess(Tables, S \cup {o})[v] # "none"
                          /\ CreditLess(Tables, S \cup {o})[v] = None,
             HeldIn(Tables') = [HeldLess(Tables, S \cup {o}) EXCEPT ![o] = "pending"],
             CreditIn(Tables') = [v \in Instances |-> IF v \in V THEN o
                                                      ELSE CreditLess(Tables, S \cup {o})[v]]
      PROVE  Promises!Obtain(o, S, V)
  BY ZenonT(60), Mapping DEF Promises!ResNext
<1>1. /\ Promises!HeldWithout(S \cup {o}) = HeldLess(Tables, S \cup {o})
      /\ Promises!CreditedWithout(S \cup {o}) = CreditLess(Tables, S \cup {o})
  BY Mapping
<1>2. HeldIn(Tables') = [p \in Owners |-> IF byOwner[p] = None THEN "none" ELSE leases[byOwner[p]].state]'
  BY DEF HeldIn, Tables
<1>3. CreditIn(Tables') = [v \in Instances |-> IF claimed[v] = None THEN None ELSE leases[claimed[v]].owner]'
  BY DEF CreditIn, Tables
<1> QED BY <1>1, <1>2, <1>3 DEF Promises!Obtain

\* Sweeping drops pending reservations.
LEMMA SweptSays ==
    ASSUME IInv
    PROVE  LET S == OwnersOf(Tables, Expired(Tables))
           IN  /\ S \in SUBSET Promises!Pending
               /\ WellFormed(Swept, nextId)
               /\ HeldIn(Swept) = HeldLess(Tables, S) /\ CreditIn(Swept) = CreditLess(Tables, S)
<1>1. WellFormed(Tables, nextId) /\ Expired(Tables) \in SUBSET LeaseIds /\ Swept = Drop(Tables, Expired(Tables))
  BY DEF IInv, Expired, Held, Swept
<1>2. WellFormed(Swept, nextId)
  <2> DEFINE R == Expired(Tables)
  <2> HIDE DEF R
  <2> QED BY <1>1, DropKeeps DEF R
<1>3. /\ HeldIn(Swept) = HeldLess(Tables, OwnersOf(Tables, Expired(Tables)))
      /\ CreditIn(Swept) = CreditLess(Tables, OwnersOf(Tables, Expired(Tables)))
  BY <1>1, DropSays
<1>4. ASSUME NEW id \in Expired(Tables)
      PROVE  leases[id].owner \in Owners /\ HeldIn(Tables)[leases[id].owner] = "pending"
  <2>1. id \in LeaseIds /\ leases[id] # NoLease /\ leases[id].state = "pending"
    BY <1>4 DEF Expired, Held, Tables
  <2>2. byOwner[leases[id].owner] = id /\ leases[id].owner \in Owners /\ id # None
    BY <1>1, <2>1, LeaseFacts DEF WellFormed, IndexOf, TableType, Tables
  <2> QED BY <2>1, <2>2 DEF HeldIn, Tables
<1>5. OwnersOf(Tables, Expired(Tables)) \in SUBSET Promises!Pending
  BY <1>4, Mapping DEF OwnersOf, Tables
<1> QED BY <1>2, <1>3, <1>5

\* Losing reservations in two steps is losing them all at once.
LEMMA LessTwice ==
    ASSUME NEW t, NEW w, NEW S, NEW R, HeldIn(w) = HeldLess(t, S), CreditIn(w) = CreditLess(t, S)
    PROVE  HeldLess(w, R) = HeldLess(t, S \cup R) /\ CreditLess(w, R) = CreditLess(t, S \cup R)
<1>1. \A o \in Owners : HeldLess(w, R)[o] = HeldLess(t, S \cup R)[o]
  BY DEF HeldLess
<1>2. \A v \in Instances : CreditLess(w, R)[v] = CreditLess(t, S \cup R)[v]
  <2> SUFFICES ASSUME NEW v \in Instances
               PROVE  (IF CreditIn(w)[v] \in R THEN None ELSE CreditIn(w)[v])
                        = IF CreditIn(t)[v] \in S \cup R THEN None ELSE CreditIn(t)[v]
    BY DEF CreditLess
  <2>1. CreditIn(w)[v] = IF CreditIn(t)[v] \in S THEN None ELSE CreditIn(t)[v]
    BY DEF CreditLess
  <2> QED BY <2>1
<1> QED BY <1>1, <1>2 DEF HeldLess, CreditLess

-----------------------------------------------------------------------------
(* Every step of the ledger is a step of Reservations, or stutters there.  *)

LEMMA BecomeIs ==
    ASSUME NEW t, NEW n, WellFormed(t, n), Become(t)
    PROVE  Tables' = t
BY DEF WellFormed, TableType, Become, Tables

\* An owner of a well-formed table that has a lease holds a reservation.
LEMMA OwnersHold ==
    ASSUME NEW t, NEW n, WellFormed(t, n), NEW o \in Owners, t.byOwner[o] # None
    PROVE  HeldIn(t)[o] \in {"pending", "committed"}
<1>1. t.leases[t.byOwner[o]] \in Lease
  BY DEF WellFormed, TableType, IndexOf
<1>2. t.leases[t.byOwner[o]].state \in {"pending", "committed"}
  BY <1>1 DEF Lease
<1> QED BY <1>2 DEF HeldIn

\* Acquire and AcquireRuntime are refused or granted a reservation.
LEMMA AcquireMaps ==
    ASSUME IInv, NEW o \in Owners, NEW r \in Requests, AcquireShape(o, r)
    PROVE  Promises!ResNext
<1> DEFINE w == Swept
           t == DropOwner(Swept, o)
           S == OwnersOf(Tables, Expired(Tables))
           U == Usable(t, o, r.credits)
<1>1. /\ WellFormed(t, nextId) /\ t.byOwner[o] = None /\ nextId \in LeaseIds
  BY CleanedTable DEF AcquireShape
<1>2. /\ S \in SUBSET Promises!Pending /\ WellFormed(w, nextId)
      /\ HeldIn(w) = HeldLess(Tables, S) /\ CreditIn(w) = CreditLess(Tables, S)
  BY SweptSays
<1>3. HeldIn(t) = HeldLess(w, {o}) /\ CreditIn(t) = CreditLess(w, {o})
  <2> HIDE DEF w
  <2> QED BY <1>2, DropOwnerSays DEF w
<1>4. HeldIn(t) = HeldLess(Tables, S \cup {o}) /\ CreditIn(t) = CreditLess(Tables, S \cup {o})
  <2> HIDE DEF w, S, t
  <2>1. HeldLess(w, {o}) = HeldLess(Tables, S \cup {o}) /\ CreditLess(w, {o}) = CreditLess(Tables, S \cup {o})
    BY <1>2, LessTwice
  <2> QED BY <1>3, <2>1
<1>5. /\ U \in SUBSET Instances /\ (U # {} => o \in Instances) /\ o \notin U
      /\ \A v \in U : t.claimed[v] = None
  BY UsableFacts, RequestFacts
<1>6. \A v \in U : t.byOwner[v] # None
  BY DEF Usable
<1> HIDE DEF w, t, S, U
<1>7. CASE Become(t) /\ UNCHANGED nextId
  <2>1. Tables' = t
    BY <1>1, <1>7, BecomeIs
  <2> QED BY <1>2, <1>4, <2>1, MappedSteps
<1>8. CASE \E gpus \in Vectors, host \in Bytes :
              Become(Grant(t, o, gpus, host, U)) /\ nextId' = nextId + 1
  <2>1. PICK gpus \in Vectors, host \in Bytes : Become(Grant(t, o, gpus, host, U))
    BY <1>8
  <2> DEFINE g == Grant(t, o, gpus, host, U)
  <2>2. WellFormed(g, nextId + 1)
    BY <1>1, <1>5, GrantKeeps, LedgerAssumption
  <2>3. /\ HeldIn(g) = [HeldIn(t) EXCEPT ![o] = "pending"]
        /\ CreditIn(g) = [v \in Instances |-> IF v \in U THEN o ELSE CreditIn(t)[v]]
    BY <1>1, <1>5, GrantSays
  <2> HIDE DEF g
  <2>4. Tables' = g
    BY <2>1, <2>2, BecomeIs DEF g
  <2>5. ASSUME NEW v \in U PROVE v # o /\ HeldIn(t)[v] # "none" /\ CreditIn(t)[v] = None
    <3>1. v \in Owners /\ v \in Instances
      BY <1>5 DEF Owners
    <3>2. HeldIn(t)[v] # "none"
      BY <1>1, <1>6, <3>1, OwnersHold
    <3>3. CreditIn(t)[v] = None
      BY <1>5, <3>1 DEF CreditIn
    <3> QED BY <1>5, <3>2, <3>3
  <2> DEFINE R == S \cup {o}
  <2>6. \A v \in U : v # o /\ HeldLess(Tables, R)[v] # "none" /\ CreditLess(Tables, R)[v] = None
    BY <1>4, <2>5
  <2>7. /\ HeldIn(Tables') = [HeldLess(Tables, R) EXCEPT ![o] = "pending"]
        /\ CreditIn(Tables') = [v \in Instances |-> IF v \in U THEN o ELSE CreditLess(Tables, R)[v]]
    BY <1>4, <2>3, <2>4
  <2>8. U \in SUBSET Instances /\ (U # {} => o \in Instances) /\ S \in SUBSET Promises!Pending
    BY <1>2, <1>5
  <2> QED BY <2>6, <2>7, <2>8, MappedGrant
<1> QED BY <1>7, <1>8 DEF AcquireShape, t, U

\* Editing a lease record in place, but for one owner's state, changes nothing
\* else of what the tables say.
LEMMA EditSays ==
    ASSUME IInv, UNCHANGED <<byOwner, claimed>>,
           \A id \in LeaseIds : leases[id] # NoLease => leases'[id].owner = leases[id].owner
    PROVE  /\ CreditIn(Tables') = CreditIn(Tables)
           /\ \A o \in Owners :
                 (byOwner[o] # None => leases'[byOwner[o]].state = leases[byOwner[o]].state)
                    => HeldIn(Tables')[o] = HeldIn(Tables)[o]
<1>1. /\ claimed \in [Instances -> LeaseIds \cup {None}]
      /\ \A v \in Instances : claimed[v] # None => leases[claimed[v]] # NoLease
  BY DEF IInv, WellFormed, TableType, ClaimsOf, Tables
<1>2. \A v \in Instances : CreditIn(Tables')[v] = CreditIn(Tables)[v]
  BY <1>1 DEF CreditIn, Tables
<1>3. CreditIn(Tables') = CreditIn(Tables)
  BY <1>2 DEF CreditIn
<1> QED BY <1>3 DEF HeldIn, Tables

\* Commit confirms the reservation of the lease's owner.
LEMMA CommitMaps ==
    ASSUME IInv, NEW id \in LeaseIds, Commit(id)
    PROVE  Promises!ResNext
<1> DEFINE o == leases[id].owner
<1>1. /\ leases \in [LeaseIds -> Lease \cup {NoLease}]
      /\ byOwner \in [Owners -> LeaseIds \cup {None}]
      /\ IndexOf(Tables) /\ Tables.leases = leases /\ Tables.byOwner = byOwner
  BY DEF IInv, WellFormed, TableType, Tables
<1>2. leases[id] \in Lease /\ leases[id] # NoLease
  BY <1>1 DEF Commit, NoLease
<1>3. o \in Owners /\ byOwner[o] = id /\ id # None
  BY <1>1, <1>2, LeaseFacts DEF IndexOf
<1>4. Committed(leases[id]).state = "committed" /\ Committed(leases[id]).owner = o
  BY <1>2 DEF Committed, Lease
<1>5. \A k \in LeaseIds : leases'[k] = IF k = id THEN Committed(leases[id]) ELSE leases[k]
  BY <1>1 DEF Commit
<1> HIDE DEF o
<1>6. \A k \in LeaseIds : leases[k] # NoLease => leases'[k].owner = leases[k].owner
  BY <1>4, <1>5 DEF o
<1>7. byOwner' = byOwner /\ claimed' = claimed
  BY DEF Commit
<1>8. CreditIn(Tables') = CreditIn(Tables)
  BY <1>6, <1>7, EditSays
<1>9. HeldIn(Tables)[o] = "pending"
  BY <1>1, <1>3 DEF HeldIn, Commit
<1>10. HeldIn(Tables')[o] = "committed"
  BY <1>3, <1>4, <1>5, <1>7 DEF HeldIn, Tables
<1>11. ASSUME NEW p \in Owners, p # o PROVE HeldIn(Tables')[p] = HeldIn(Tables)[p]
  <2>1. byOwner[p] # None => byOwner[p] \in LeaseIds \ {id}
    BY <1>1, <1>11 DEF IndexOf, o
  <2> QED BY <1>5, <1>6, <1>7, <2>1, EditSays
<1>12. HeldIn(Tables') = [HeldIn(Tables) EXCEPT ![o] = "committed"]
  <2>1. \A p \in Owners : HeldIn(Tables')[p] = [HeldIn(Tables) EXCEPT ![o] = "committed"][p]
    BY <1>3, <1>10, <1>11 DEF HeldIn
  <2> QED BY <2>1 DEF HeldIn
<1>13. ASSUME NEW p \in Owners, HeldIn(Tables)[p] = "pending", CreditIn(Tables') = CreditIn(Tables),
              HeldIn(Tables') = [HeldIn(Tables) EXCEPT ![p] = "committed"]
       PROVE  Promises!ResNext
  <2>1. Promises!Confirm(p)
    BY <1>13, Mapping DEF Promises!Confirm, HeldIn, CreditIn, Tables
  <2> QED BY <2>1, Mapping DEF Promises!ResNext
<1> QED BY <1>3, <1>8, <1>9, <1>12, <1>13

\* The clock says nothing to the owners.
LEMMA TickMaps ==
    ASSUME IInv, Tick
    PROVE  UNCHANGED Promises!resVars
<1>1. /\ leases \in [LeaseIds -> Lease \cup {NoLease}]
      /\ byOwner \in [Owners -> LeaseIds \cup {None}]
  BY DEF IInv, WellFormed, TableType, Tables
<1>2. ASSUME NEW id \in LeaseIds
      PROVE  /\ leases'[id].state = leases[id].state
             /\ leases[id] # NoLease => leases'[id].owner = leases[id].owner
  <2>1. CASE leases[id].state = "pending" /\ leases[id].left >= 0
    <3>1. leases[id] \in Lease
      BY <1>1, <2>1 DEF NoLease
    <3>2. leases'[id] = [leases[id] EXCEPT !.left = @ - 1]
      BY <2>1 DEF Tick
    <3> QED BY <3>1, <3>2 DEF Lease
  <2>2. CASE ~(leases[id].state = "pending" /\ leases[id].left >= 0)
    BY <2>2 DEF Tick
  <2> QED BY <2>1, <2>2
<1>3. byOwner' = byOwner /\ claimed' = claimed
  BY DEF Tick
<1>4. CreditIn(Tables') = CreditIn(Tables) /\ \A o \in Owners : HeldIn(Tables')[o] = HeldIn(Tables)[o]
  BY <1>1, <1>2, <1>3, EditSays
<1>5. HeldIn(Tables') = HeldIn(Tables)
  BY <1>4 DEF HeldIn
<1> QED BY <1>4, <1>5 DEF Promises!resVars, HeldIn, CreditIn, Tables

LEMMA StepMaps == IInv /\ [Next]_vars => [Promises!ResNext]_(Promises!resVars)
<1> SUFFICES ASSUME IInv, [Next]_vars PROVE [Promises!ResNext]_(Promises!resVars)
  OBVIOUS
<1>1. /\ WellFormed(Tables, nextId)
      /\ byOwner \in [Owners -> LeaseIds \cup {None}]
      /\ leases \in [LeaseIds -> Lease \cup {NoLease}]
      /\ IndexOf(Tables)
  BY DEF IInv, WellFormed, TableType, Tables
<1>2. ASSUME NEW o \in Owners, NEW r \in Requests, Acquire(o, r)
      PROVE  Promises!ResNext
  BY <1>2, AcquireHasShape, AcquireMaps
<1>3. ASSUME NEW i \in Instances, NEW r \in Requests, AcquireRuntime(i, r)
      PROVE  Promises!ResNext
  BY <1>3, AcquireHasShape, AcquireMaps DEF Owners
<1>4. ASSUME NEW id \in LeaseIds, Commit(id)
      PROVE  Promises!ResNext
  BY <1>4, CommitMaps
<1>5. ASSUME NEW id \in LeaseIds, Release(id)
      PROVE  Promises!ResNext
  <2>1. Tables' = Drop(Tables, {id})
    <3>1. WellFormed(Drop(Tables, {id}), nextId)
      BY <1>1, DropKeeps
    <3> QED BY <1>5, <3>1, BecomeIs DEF Release
  <2>2. leases[id] # NoLease /\ leases[id].owner \in Owners
    BY <1>1, <1>5, LeaseFacts DEF Release
  <2>3. OwnersOf(Tables, {id}) = {leases[id].owner}
    BY <2>2 DEF OwnersOf, Held, Tables
  <2>4. /\ HeldIn(Tables') = HeldLess(Tables, {leases[id].owner})
        /\ CreditIn(Tables') = CreditLess(Tables, {leases[id].owner})
    BY <1>1, <2>1, <2>3, DropSays
  <2> QED BY <2>2, <2>4, MappedSteps
<1>6. ASSUME NEW o \in Owners, CommitOwner(o)
      PROVE  Promises!ResNext
  BY <1>1, <1>6, CommitMaps DEF CommitOwner
<1>7. ASSUME NEW o \in Owners, ReleaseOwner(o)
      PROVE  Promises!ResNext
  <2>1. {Tables.byOwner[o]} \ {None} \in SUBSET LeaseIds
    BY <1>1 DEF Tables
  <2>2. WellFormed(DropOwner(Tables, o), nextId)
    BY <1>1, <2>1, DropKeeps DEF DropOwner
  <2>3. Tables' = DropOwner(Tables, o)
    BY <1>7, <2>2, BecomeIs DEF ReleaseOwner
  <2>4. HeldIn(Tables') = HeldLess(Tables, {o}) /\ CreditIn(Tables') = CreditLess(Tables, {o})
    BY <1>1, <2>3, DropOwnerSays
  <2> QED BY <2>4, MappedSteps
<1>8. CASE Sweep
  <2> DEFINE S == OwnersOf(Tables, Expired(Tables))
  <2>1. /\ S \in SUBSET Promises!Pending /\ WellFormed(Swept, nextId)
        /\ HeldIn(Swept) = HeldLess(Tables, S) /\ CreditIn(Swept) = CreditLess(Tables, S)
    BY SweptSays
  <2> HIDE DEF S
  <2>2. Tables' = Swept
    BY <1>8, <2>1, BecomeIs DEF Sweep
  <2> QED BY <2>1, <2>2, MappedSteps
<1>9. CASE Tick
  BY <1>9, TickMaps
<1>10. CASE UNCHANGED vars
  BY <1>10 DEF vars, Promises!resVars
<1> QED BY <1>2, <1>3, <1>4, <1>5, <1>6, <1>7, <1>8, <1>9, <1>10 DEF Next

\* The ledger implements Reservations: whatever IDs, clocks and indexes do,
\* an owner holds one reservation at most and keeps a confirmed one until it
\* gives it up or asks anew, and a victim is credited to one start at a time.
THEOREM KeepsItsPromises == Spec => KeepsPromises
<1>1. Init => Promises!ResInit
  BY DEF Init, Promises!ResInit, Promises!Owners, Owners
<1> QED BY <1>1, Inductive, StepMaps, PTL DEF Spec, KeepsPromises, Promises!ResSpec
=============================================================================
