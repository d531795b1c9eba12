----------------------------- MODULE ModelProofs -----------------------------
(***************************************************************************)
(* What the records of models keep: instances and their cache, files that  *)
(* are found and deleted, what the LiteLLM proxy lists, and imports.  A    *)
(* section per component has its inductive invariant, and speaks of the    *)
(* component with the names it has for its constants and variables.        *)
(***************************************************************************)
EXTENDS ModelRecords, Integers, Sequences, FiniteSetTheorems, TLAPS

-----------------------------------------------------------------------------
(* Instances and their cache.                                              *)

Insts == A
Slugs == B
Values == D
Writers == C
NoInst == None
row == s1
byID == s2
slugTo == s3
gen == s4
work == s5
dropped == s6
clashed == s7
writes == s8
lapsed == s9
USE DEF Insts, Slugs, Values, Writers, NoInst, row, byID, slugTo, gen, work, dropped, clashed, writes, lapsed

LEMMA IdleJob == Inst!Idle \in Inst!Job /\ Inst!Idle.pc = "idle" /\ Inst!Idle.gen = 0 /\ Inst!Idle.id = NoInst
  BY DEF Inst!Idle, Inst!Job

LEMMA InstBegin == Inst!InstInit => Inst!InstInv
<1> SUFFICES ASSUME Inst!InstInit PROVE Inst!InstInv
  OBVIOUS
<1>1. \A w \in Inst!Workers : work[w] \in Inst!Job /\ work[w].pc = "idle" /\ work[w].gen = 0
  BY IdleJob DEF Inst!InstInit
<1>2. work \in [Inst!Workers -> Inst!Job]
  BY IdleJob DEF Inst!InstInit
<1>3. \A i \in Insts : Inst!Busy(i) = {}
  BY <1>1 DEF Inst!Busy, Inst!Workers
<1>4. \A i \in Insts : Inst!CacheRight(i)
  BY <1>3 DEF Inst!CacheRight, Inst!InstInit
<1>5. \A w \in Inst!Workers : Inst!InOrder(w) /\ \A i \in Insts : Inst!WorkRight(w, i)
  BY <1>1 DEF Inst!InOrder, Inst!WorkRight, Inst!InstInit
<1>6. Inst!InstTypeOK /\ Inst!Leading
  BY InstancesAssumed DEF Inst!InstInit, Inst!InstTypeOK, Inst!Leading, Inst!InstancesAssumption
<1>7. Inst!OneCreate
  BY <1>1 DEF Inst!OneCreate, Inst!Workers
<1> QED BY <1>2, <1>4, <1>5, <1>6, <1>7 DEF Inst!InstInv, Inst!InstInit

\* What agrees with a row that stays goes on agreeing, unless its lapse is forgotten.
LEMMA AgreesStays ==
    ASSUME NEW i, NEW x, Inst!Agrees(i, x), row'[i] = row[i], i \in lapsed => i \in lapsed' PROVE (Inst!Agrees(i, x))'
  BY DEF Inst!Agrees

-----------------------------------------------------------------------------
(* A worker that makes no step.                                            *)

LEMMA InOrderStays ==
    ASSUME NEW v \in Inst!Workers, work'[v] = work[v], Inst!InOrder(v), gen \in Nat, gen' \in Nat, work[v].gen \in Nat, gen <= gen',
           work[v].pc = "commit" /\ work[v].op = "create" => row'[work[v].id] = NoInst /\ work[v].id \notin dropped'
    PROVE  Inst!InOrder(v)'
<1> PICK k : k = work[v]
  OBVIOUS
<1>1. k = work'[v]
  OBVIOUS
<1>2. k.gen <= gen'
  BY DEF Inst!InOrder
<1> QED BY <1>1, <1>2 DEF Inst!InOrder

LEMMA WorkStays ==
    ASSUME NEW v \in Inst!Workers, NEW i, work'[v] = work[v], Inst!WorkRight(v, i), Inst!InOrder(v),
           gen \in Nat, gen' \in Nat, work[v].gen \in Nat, gen <= gen',
           Inst!Fine(i)' => Inst!Fine(i), row'[i] = row[i], i \in lapsed => i \in lapsed',
           gen' = gen /\ Inst!Forgetting(i) => Inst!Forgetting(i)'
    PROVE  Inst!WorkRight(v, i)'
<1> PICK k : k = work[v]
  OBVIOUS
<1>1. k = work'[v]
  OBVIOUS
<1>2. k.gen <= gen
  BY DEF Inst!InOrder
<1>a. (Inst!Agrees(i, k.seen) => (Inst!Agrees(i, k.seen))') /\ (Inst!Agrees(i, k.next) => (Inst!Agrees(i, k.next))')
  BY <1>1 DEF Inst!Agrees
<1>3. CASE gen' = gen
  BY <1>1, <1>a, <1>3 DEF Inst!WorkRight
<1>4. CASE gen' # gen
  <2>1. k.gen # gen'
    BY <1>2, <1>4
  <2> QED BY <1>1, <1>a, <2>1 DEF Inst!WorkRight
<1> QED BY <1>3, <1>4

\* A writer at an instance where no two meet is alone there.
LEMMA Alone ==
    ASSUME Inst!InstInv, NEW w \in Writers, NEW i \in Insts, work[w].pc # "idle", work[w].id = i, Inst!Fine(i)
    PROVE  /\ \A v \in Writers : work[v].pc # "idle" /\ work[v].id = i => v = w
           /\ work[w].pc # "forget" => ~Inst!Forgetting(i)
<1>1. \A u, v \in Inst!Busy(i) : u = v
  BY DEF Inst!InstInv, Inst!CacheRight
<1>2. w \in Inst!Busy(i)
  BY DEF Inst!Busy
<1> QED BY <1>1, <1>2 DEF Inst!Busy, Inst!Forgetting

-----------------------------------------------------------------------------
(* A step of one worker: what it leaves alone.                             *)

LEMMA OneMoves ==
    ASSUME Inst!InstInv, NEW w \in Inst!Workers, NEW k \in Inst!Job, work' = [work EXCEPT ![w] = k]
    PROVE  /\ work' \in [Inst!Workers -> Inst!Job] /\ work'[w] = k
           /\ \A v \in Inst!Workers \ {w} : work'[v] = work[v]
  BY DEF Inst!InstInv

LEMMA JobGen == ASSUME Inst!InstInv, NEW v \in Inst!Workers PROVE work[v].gen \in Nat /\ gen \in Nat /\ Inst!InOrder(v) /\ work[v] \in Inst!Job
  BY DEF Inst!InstInv, Inst!InstTypeOK, Inst!Job

LEMMA OthersStay ==
    ASSUME Inst!InstInv, NEW w \in Inst!Workers, NEW k \in Inst!Job, work' = [work EXCEPT ![w] = k],
           gen' \in Nat, gen <= gen', work[w].pc = "forget" => gen' # gen,
           NEW v \in Inst!Workers \ {w}, NEW i \in Insts, Inst!Fine(i)' => Inst!Fine(i), row'[i] = row[i],
           i \in lapsed => i \in lapsed'
    PROVE  Inst!WorkRight(v, i)'
<1>1. /\ work'[v] = work[v] /\ work'[w] = k
      /\ \A u \in Inst!Workers \ {w} : work'[u] = work[u]
  BY OneMoves
<1>2. Inst!WorkRight(v, i) /\ Inst!InOrder(v) /\ gen \in Nat /\ work[v].gen \in Nat
  BY JobGen DEF Inst!InstInv
<1>3. gen' = gen /\ Inst!Forgetting(i) => Inst!Forgetting(i)'
  BY <1>1 DEF Inst!Forgetting, Inst!Busy, Inst!Workers
<1> QED BY <1>1, <1>2, <1>3, WorkStays

\* A worker at an instance whose row another worker writes.
LEMMA RowMoves ==
    ASSUME Inst!InstInv, NEW w \in Writers, NEW k \in Inst!Job, work' = [work EXCEPT ![w] = k],
           gen' = gen, NEW v \in Inst!Workers \ {w}, NEW i \in Insts, Inst!Fine(i)' => Inst!Fine(i),
           Inst!Fine(i) => \A u \in Writers \ {w} : work[u].id = i => work[u].pc = "idle",
           \/ k.pc = "forget" /\ k.id = i
           \/ row[i] = NoInst /\ (Inst!Fine(i) => ~Inst!Forgetting(i))
    PROVE  Inst!WorkRight(v, i)'
<1>1. /\ work'[v] = work[v] /\ work'[w] = k /\ w \in Inst!Workers
  BY OneMoves DEF Inst!Workers
<1> SUFFICES ASSUME work[v].id = i, Inst!Fine(i)'
             PROVE  LET j == work[v] IN
                    /\ j.pc = "remember" /\ j.gen = gen' /\ ~Inst!Forgetting(i)' => (Inst!Agrees(i, work[v].seen))'
                    /\ ~(j.pc = "commit" /\ j.op = "update")
                    /\ ~(j.pc = "tell" \/ (j.pc = "forget" /\ j.op = "update"))
  BY <1>1 DEF Inst!WorkRight
<1>2. CASE v \in Writers
  BY <1>1, <1>2
<1>3. CASE v \notin Writers
  <2>1. work[v].op = "get" \/ work[v].pc = "idle"
    BY <1>3, JobGen DEF Inst!InOrder
  <2>2. work[v].pc \notin {"commit", "tell", "forget"}
    BY <2>1, JobGen DEF Inst!InOrder
  <2>3. CASE k.pc = "forget" /\ k.id = i
    <3>1. Inst!Forgetting(i)'
      BY <1>1, <2>3 DEF Inst!Forgetting, Inst!Busy
    <3> QED BY <1>1, <2>2, <3>1
  <2>4. CASE row[i] = NoInst /\ ~Inst!Forgetting(i) /\ work[v].pc = "remember" /\ work[v].gen = gen
    <3>1. work[v].seen = row[i]
      BY <1>1, <2>4 DEF Inst!InstInv, Inst!WorkRight, Inst!Agrees
    <3>2. work[v].seen \in Inst!Record
      BY <2>4, JobGen DEF Inst!InOrder
    <3> QED BY <3>1, <3>2, <2>4, InstancesAssumed DEF Inst!InstancesAssumption
  <2> QED BY <1>1, <2>2, <2>3, <2>4
<1> QED BY <1>2, <1>3

\* A step that writes no row and does not touch the cache.
LEMMA QuietStep ==
    ASSUME Inst!InstInv, NEW w \in Inst!Workers, NEW k \in Inst!Job, work' = [work EXCEPT ![w] = k],
           UNCHANGED <<row, byID, slugTo, gen, dropped, lapsed>>, clashed \subseteq clashed', clashed' \subseteq Insts,
           writes' \in 0..WriteLimit, work[w].pc # "forget", k.pc # "forget",
           w \in Writers /\ k.pc # "idle" /\ Inst!Fine(k.id)' =>
               \A v \in Writers \ {w} : work[v].id = k.id => work[v].pc = "idle",
           k.pc = "commit" /\ k.op = "create" => \A v \in Writers \ {w} : work[v].id = k.id => work[v].pc = "idle",
           Inst!InOrder(w)', \A i \in Insts : Inst!WorkRight(w, i)'
    PROVE  Inst!InstInv'
<1>0. /\ work' \in [Inst!Workers -> Inst!Job] /\ work'[w] = k
      /\ \A v \in Inst!Workers \ {w} : work'[v] = work[v]
  BY OneMoves
<1>1. \A i \in Insts : Inst!Fine(i)' => Inst!Fine(i)
  BY DEF Inst!Fine
<1>2. \A v \in Inst!Workers : Inst!InOrder(v)'
  <2> SUFFICES ASSUME NEW v \in Inst!Workers \ {w} PROVE Inst!InOrder(v)'
    OBVIOUS
  <2>1. work[v].pc = "commit" /\ work[v].op = "create" => row[work[v].id] = NoInst /\ work[v].id \notin dropped
    BY JobGen DEF Inst!InOrder
  <2> QED BY <1>0, <2>1, JobGen, InOrderStays
<1>3. \A v \in Inst!Workers, i \in Insts : Inst!WorkRight(v, i)'
  <2> SUFFICES ASSUME NEW v \in Inst!Workers \ {w}, NEW i \in Insts PROVE Inst!WorkRight(v, i)'
    OBVIOUS
  <2>1. gen' \in Nat /\ gen <= gen' /\ row'[i] = row[i] /\ (Inst!Fine(i)' => Inst!Fine(i))
    BY <1>1, JobGen
  <2>2. work[w].pc = "forget" => gen' # gen
    OBVIOUS
  <2> QED BY <2>1, <2>2, OthersStay
<1>4. ASSUME NEW i \in Insts PROVE Inst!CacheRight(i)'
  <2> SUFFICES ASSUME Inst!Fine(i)' PROVE (\A u, v \in Inst!Busy(i)' : u = v) /\ (~Inst!Forgetting(i)' => byID'[i] = NoInst \/ (Inst!Agrees(i, byID[i]))')
    BY DEF Inst!CacheRight
  <2>1. (\A u, v \in Inst!Busy(i) : u = v) /\ (~Inst!Forgetting(i) => byID[i] = NoInst \/ Inst!Agrees(i, byID[i]))
    BY <1>1 DEF Inst!InstInv, Inst!CacheRight
  <2>2. Inst!Forgetting(i) => Inst!Forgetting(i)'
    BY <1>0 DEF Inst!Forgetting, Inst!Busy, Inst!Workers
  <2>3. \A u \in Inst!Busy(i)' \ {w} : u \in Inst!Busy(i)
    BY <1>0 DEF Inst!Busy, Inst!Workers
  <2>4. w \in Inst!Busy(i)' => Inst!Busy(i)' = {w}
    BY <1>0 DEF Inst!Busy, Inst!Workers
  <2>5. Inst!Agrees(i, byID[i]) => (Inst!Agrees(i, byID[i]))'
    BY DEF Inst!Agrees
  <2> QED BY <2>1, <2>2, <2>3, <2>4, <2>5
<1>5. Inst!InstTypeOK'
  BY DEF Inst!InstInv, Inst!InstTypeOK
<1>6. Inst!Leading'
  BY DEF Inst!InstInv, Inst!Leading
<1>7. Inst!OneCreate'
  <2> SUFFICES ASSUME NEW u \in Writers, NEW v \in Writers, u # v,
                      work'[u].pc = "commit", work'[u].op = "create", work'[v].pc = "commit", work'[v].op = "create",
                      work'[u].id = work'[v].id
               PROVE  FALSE
    BY DEF Inst!OneCreate
  <2>1. CASE u # w /\ v # w
    BY <1>0, <2>1 DEF Inst!InstInv, Inst!OneCreate, Inst!Workers
  <2>2. CASE u = w
    BY <1>0, <2>2 DEF Inst!Workers
  <2>3. CASE v = w
    BY <1>0, <2>3 DEF Inst!Workers
  <2> QED BY <2>1, <2>2, <2>3
<1> QED BY <1>0, <1>2, <1>3, <1>4, <1>5, <1>6, <1>7 DEF Inst!InstInv

LEMMA QuietGoesOn ==
    ASSUME Inst!InstInv, NEW w \in Inst!Workers, NEW k \in Inst!Job, work' = [work EXCEPT ![w] = k],
           UNCHANGED <<row, byID, slugTo, gen, dropped, clashed, writes, lapsed>>, work[w].pc \notin {"idle", "forget"}, k.pc # "forget",
           k.pc = "idle" \/ (k.id = work[w].id /\ k.op = work[w].op /\ k.op # "create"),
           Inst!InOrder(w)', \A i \in Insts : Inst!WorkRight(w, i)'
    PROVE  Inst!InstInv'
<1>1. clashed \subseteq Insts /\ writes \in 0..WriteLimit
  BY DEF Inst!InstInv, Inst!InstTypeOK
<1>2. k.pc # "idle" => k.id \in Insts
  BY JobGen DEF Inst!InOrder
<1>3. ASSUME w \in Writers, k.pc # "idle", Inst!Fine(k.id)' PROVE \A v \in Writers \ {w} : work[v].id = k.id => work[v].pc = "idle"
  <2>1. Inst!Fine(k.id)
    BY <1>3 DEF Inst!Fine
  <2> QED BY <1>2, <1>3, <2>1, Alone
<1>4. k.pc # "idle" => k.op # "create"
  OBVIOUS
<1>5. k.pc = "commit" /\ k.op = "create" => \A v \in Writers \ {w} : work[v].id = k.id => work[v].pc = "idle"
  BY <1>4
<1>6. writes' \in 0..WriteLimit /\ clashed' \subseteq Insts /\ clashed \subseteq clashed' /\ work[w].pc # "forget"
  BY <1>1
<1> HIDE <1>1
<1> QED BY <1>3, <1>5, <1>6, QuietStep

LEMMA Stops ==
    ASSUME Inst!InstInv, NEW w \in Inst!Workers, Inst!Done(w), work[w].pc \notin {"idle", "forget"},
           UNCHANGED <<row, byID, slugTo, gen, dropped, clashed, writes, lapsed>>
    PROVE  Inst!InstInv'
<1>1. work' = [work EXCEPT ![w] = Inst!Idle] /\ Inst!Idle \in Inst!Job /\ Inst!Idle.pc = "idle" /\ Inst!Idle.gen = 0
  BY IdleJob DEF Inst!Done
<1>2. work'[w] = Inst!Idle
  BY <1>1, OneMoves
<1>3. Inst!InOrder(w)'
  BY <1>1, <1>2, JobGen DEF Inst!InOrder
<1>4. \A i \in Insts : Inst!WorkRight(w, i)'
  BY <1>1, <1>2 DEF Inst!WorkRight
<1>5. Inst!Idle.pc # "forget"
  BY <1>1
<1> QED BY <1>1, <1>3, <1>4, <1>5, QuietGoesOn

\* What agrees with a row keeps the same fields.
LEMMA AgreeKept ==
    ASSUME Inst!InstInv, NEW i \in Insts, NEW x \in Inst!Record, Inst!Agrees(i, x) PROVE row[i] # NoInst /\ x.kept = row[i].kept
<1>1. row[i] \in Inst!Record \cup {NoInst} /\ NoInst \notin Inst!Record
  BY InstancesAssumed DEF Inst!InstInv, Inst!InstTypeOK, Inst!InstancesAssumption
<1>2. CASE x = row[i]
  BY <1>1, <1>2
<1>3. CASE row[i] # NoInst /\ x = [row[i] EXCEPT !.on = FALSE]
  BY <1>1, <1>3 DEF Inst!Record
<1> QED BY <1>2, <1>3 DEF Inst!Agrees

-----------------------------------------------------------------------------
(* Reading.                                                                *)

LEMMA LookupKeeps == ASSUME Inst!InstInv, NEW w \in Inst!Workers, Inst!Lookup(w) PROVE Inst!InstInv'
<1> PICK r \in Inst!Job : r = work[w]
  BY JobGen
<1> PICK i : i = r.id
  OBVIOUS
<1>1. /\ r.pc = "lookup" /\ i \in Insts /\ r.op \in {"get", "copy", "update"} /\ (w \in Writers <=> r.op # "get")
      /\ (r.op = "update" => r.next \in Inst!Draft) /\ (r.op = "copy" => r.next \in [to : Insts])
  BY JobGen DEF Inst!Lookup, Inst!InOrder
<1>2. byID[i] \in Inst!Record \cup {NoInst} /\ gen \in Nat
  BY <1>1 DEF Inst!InstInv, Inst!InstTypeOK
<1>3. CASE byID[i] # NoInst
  <2> DEFINE k == [r EXCEPT !.pc = Inst!After(w), !.seen = byID[i]]
  <2>1. work' = [work EXCEPT ![w] = k]
    BY <1>3 DEF Inst!Lookup
  <2>2. Inst!After(w) = (IF r.op = "get" THEN "answer" ELSE "commit")
    BY DEF Inst!After
  <2>3. k \in Inst!Job /\ k.pc = Inst!After(w) /\ k.id = i /\ k.op = r.op /\ k.seen = byID[i] /\ k.gen = r.gen /\ k.next = r.next
    BY ZenonT(60), <1>2, <2>2 DEF Inst!Job
  <2> HIDE DEF k
  <2>4. work'[w] = k
    BY <2>1, <2>3, OneMoves
  <2>5. Inst!InOrder(w)'
    <3>1. k.gen <= gen' /\ k.seen \in Inst!Record
      BY <1>2, <1>3, <2>3, JobGen DEF Inst!Lookup, Inst!InOrder
    <3>2. k.pc \in {"answer", "commit"} /\ (k.pc = "answer" <=> k.op = "get")
      BY <2>2, <2>3
    <3> QED BY <1>1, <2>3, <2>4, <3>1, <3>2 DEF Inst!InOrder
  <2>8. UNCHANGED <<row, byID, slugTo, gen, dropped, clashed, writes, lapsed>>
    BY DEF Inst!Lookup
  <2>6. ASSUME NEW j \in Insts PROVE Inst!WorkRight(w, j)'
    <3> SUFFICES ASSUME i = j, Inst!Fine(i)', k.pc = "commit", k.op = "update" PROVE row'[i] # NoInst /\ k.seen.kept = row'[i].kept
      BY <2>2, <2>3, <2>4 DEF Inst!WorkRight
    <3>1. Inst!Fine(i) /\ w \in Writers
      BY <1>1, <2>3, <2>8 DEF Inst!Fine
    <3>2. ~Inst!Forgetting(i)
      BY <1>1, <3>1, Alone
    <3>3. Inst!Agrees(i, byID[i])
      BY <1>1, <1>3, <3>1, <3>2 DEF Inst!InstInv, Inst!CacheRight
    <3>4. row[i] # NoInst /\ byID[i].kept = row[i].kept
      BY <1>1, <1>2, <1>3, <3>3, AgreeKept
    <3> QED BY <2>3, <2>8, <3>4
  <2>7. k.pc # "forget" /\ k.op # "create" /\ work[w].pc \notin {"idle", "forget"}
    BY <1>1, <2>2, <2>3
  <2> QED BY <2>1, <2>3, <2>5, <2>6, <2>7, <2>8, QuietGoesOn
<1>4. CASE byID[i] = NoInst
  <2> DEFINE k == [r EXCEPT !.pc = "query", !.gen = gen]
  <2>1. work' = [work EXCEPT ![w] = k]
    BY <1>4 DEF Inst!Lookup
  <2>3. k \in Inst!Job /\ k.pc = "query" /\ k.id = i /\ k.op = r.op /\ k.gen = gen /\ k.next = r.next
    BY ZenonT(60), <1>2 DEF Inst!Job
  <2> HIDE DEF k
  <2>4. work'[w] = k
    BY <2>1, <2>3, OneMoves
  <2>5. Inst!InOrder(w)'
    <3>1. k.gen <= gen'
      BY <1>2, <2>3 DEF Inst!Lookup
    <3> QED BY <1>1, <2>3, <2>4, <3>1 DEF Inst!InOrder
  <2>6. ASSUME NEW j \in Insts PROVE Inst!WorkRight(w, j)'
    BY <2>3, <2>4 DEF Inst!WorkRight
  <2>7. k.pc # "forget" /\ k.op # "create" /\ work[w].pc \notin {"idle", "forget"}
    BY <1>1, <2>3
  <2>8. UNCHANGED <<row, byID, slugTo, gen, dropped, clashed, writes, lapsed>>
    BY DEF Inst!Lookup
  <2> QED BY <2>1, <2>3, <2>5, <2>6, <2>7, <2>8, QuietGoesOn
<1> QED BY <1>3, <1>4

LEMMA QueryKeeps == ASSUME Inst!InstInv, NEW w \in Inst!Workers, Inst!Query(w) PROVE Inst!InstInv'
<1> PICK r \in Inst!Job : r = work[w]
  BY JobGen
<1> PICK i : i = r.id
  OBVIOUS
<1>1. /\ r.pc = "query" /\ i \in Insts /\ r.op \in {"get", "copy", "update"} /\ (w \in Writers <=> r.op # "get")
      /\ (r.op = "update" => r.next \in Inst!Draft) /\ (r.op = "copy" => r.next \in [to : Insts]) /\ r.gen <= gen
  BY JobGen DEF Inst!Query, Inst!InOrder
<1>2. row[i] \in Inst!Record \cup {NoInst} /\ gen \in Nat
  BY <1>1 DEF Inst!InstInv, Inst!InstTypeOK
<1>3. UNCHANGED <<row, byID, slugTo, gen, dropped, clashed, writes, lapsed>>
  BY DEF Inst!Query
<1>4. CASE row[i] # NoInst
  <2> DEFINE k == [r EXCEPT !.pc = "remember", !.seen = row[i]]
  <2>1. work' = [work EXCEPT ![w] = k]
    BY <1>4 DEF Inst!Query
  <2>3. k \in Inst!Job /\ k.pc = "remember" /\ k.id = i /\ k.op = r.op /\ k.seen = row[i] /\ k.gen = r.gen /\ k.next = r.next
    BY ZenonT(60), <1>2 DEF Inst!Job
  <2> HIDE DEF k
  <2>4. work'[w] = k
    BY <2>1, <2>3, OneMoves
  <2>5. Inst!InOrder(w)'
    BY <1>1, <1>2, <1>3, <1>4, <2>3, <2>4 DEF Inst!InOrder
  <2>6. ASSUME NEW j \in Insts PROVE Inst!WorkRight(w, j)'
    BY <1>3, <2>3, <2>4 DEF Inst!WorkRight, Inst!Agrees
  <2>7. k.pc # "forget" /\ k.op # "create" /\ work[w].pc \notin {"idle", "forget"}
    BY <1>1, <2>3
  <2> QED BY <1>3, <2>1, <2>3, <2>5, <2>6, <2>7, QuietGoesOn
<1>5. CASE row[i] = NoInst
  <2>1. Inst!Done(w) /\ work[w].pc \notin {"idle", "forget"}
    BY <1>1, <1>5 DEF Inst!Query, Inst!Done
  <2> QED BY <1>3, <2>1, Stops
<1> QED BY <1>4, <1>5

LEMMA ReadAgain == ASSUME Inst!InstInv, NEW w \in Inst!Workers, Inst!Remember(w), work[w].gen # gen PROVE Inst!InstInv'
<1> PICK r \in Inst!Job : r = work[w]
  BY JobGen
<1>1. /\ r.pc = "remember" /\ r.id \in Insts /\ r.op \in {"get", "copy", "update"} /\ (w \in Writers <=> r.op # "get")
      /\ (r.op = "update" => r.next \in Inst!Draft) /\ (r.op = "copy" => r.next \in [to : Insts]) /\ r.gen <= gen
  BY JobGen DEF Inst!Remember, Inst!InOrder
<1>3. UNCHANGED <<row, byID, slugTo, gen, dropped, clashed, writes, lapsed>>
  BY DEF Inst!Remember
<1> DEFINE k == [r EXCEPT !.pc = "lookup"]
<1>4. work' = [work EXCEPT ![w] = k]
  BY DEF Inst!Remember, Inst!Goes
<1>5. k \in Inst!Job /\ k.pc = "lookup" /\ k.id = r.id /\ k.op = r.op /\ k.gen = r.gen /\ k.next = r.next
  BY DEF Inst!Job
<1> HIDE DEF k
<1>6. work'[w] = k
  BY <1>4, <1>5, OneMoves
<1>7. Inst!InOrder(w)'
  BY <1>1, <1>3, <1>5, <1>6 DEF Inst!InOrder
<1>8. \A j \in Insts : Inst!WorkRight(w, j)'
  BY <1>5, <1>6 DEF Inst!WorkRight
<1>9. k.pc # "forget" /\ k.op # "create" /\ work[w].pc \notin {"idle", "forget"}
  BY <1>1, <1>5
<1> QED BY <1>3, <1>4, <1>5, <1>7, <1>8, <1>9, QuietGoesOn

LEMMA ReadKeeps == ASSUME Inst!InstInv, NEW w \in Inst!Workers, Inst!Read(w) PROVE Inst!InstInv'
<1>1. /\ work[w].pc = "idle" /\ w \in Readers /\ w \notin Writers
      /\ UNCHANGED <<row, byID, slugTo, gen, dropped, clashed, writes, lapsed>>
  BY InstancesAssumed DEF Inst!Read, Inst!InstancesAssumption
<1>2. PICK k : /\ work' = [work EXCEPT ![w] = k] /\ k \in Inst!Job
               /\ k.op = "get" /\ k.id \in Insts /\ k.gen <= gen /\ k.gen \in Nat
               /\ \/ k.pc = "lookup"
                  \/ k.pc = "remember" /\ row[k.id] # NoInst /\ k.seen = row[k.id]
  <2>1. CASE \E i \in Insts : work' = [work EXCEPT ![w] = [Inst!Idle EXCEPT !.pc = "lookup", !.op = "get", !.id = i]]
    <3> PICK i \in Insts : work' = [work EXCEPT ![w] = [Inst!Idle EXCEPT !.pc = "lookup", !.op = "get", !.id = i]]
      BY <2>1
    <3> DEFINE k == [Inst!Idle EXCEPT !.pc = "lookup", !.op = "get", !.id = i]
    <3>1. k \in Inst!Job /\ k.pc = "lookup" /\ k.op = "get" /\ k.id = i /\ k.gen = 0
      BY DEF Inst!Idle, Inst!Job
    <3>2. work' = [work EXCEPT ![w] = k]
      OBVIOUS
    <3> HIDE DEF k
    <3>3. k.gen <= gen /\ k.gen \in Nat
      BY <3>1 DEF Inst!InstInv, Inst!InstTypeOK
    <3> QED BY <3>1, <3>2, <3>3, Zenon
  <2>2. CASE ~ \E i \in Insts : work' = [work EXCEPT ![w] = [Inst!Idle EXCEPT !.pc = "lookup", !.op = "get", !.id = i]]
    <3>1. PICK i \in Insts : /\ row[i] # NoInst
                             /\ work' = [work EXCEPT ![w] = [Inst!Idle EXCEPT !.pc = "remember", !.op = "get", !.id = i, !.seen = row[i], !.gen = gen]]
      BY <2>2 DEF Inst!Read
    <3> DEFINE k == [Inst!Idle EXCEPT !.pc = "remember", !.op = "get", !.id = i, !.seen = row[i], !.gen = gen]
    <3>2. row[i] \in Inst!Record /\ gen \in Nat
      BY <3>1 DEF Inst!InstInv, Inst!InstTypeOK
    <3>3. k \in Inst!Job /\ k.pc = "remember" /\ k.op = "get" /\ k.id = i /\ k.gen = gen /\ k.seen = row[i]
      BY <3>2 DEF Inst!Idle, Inst!Job
    <3>4. work' = [work EXCEPT ![w] = k]
      BY <3>1
    <3> HIDE DEF k
    <3>5. k.gen <= gen /\ k.gen \in Nat
      BY <3>2, <3>3
    <3>6. k.seen = row[k.id] /\ row[k.id] # NoInst
      BY <3>1, <3>3
    <3> QED BY <3>3, <3>4, <3>5, <3>6, Zenon
  <2> QED BY <2>1, <2>2
<1>3. work'[w] = k
  BY <1>2, OneMoves
<1>4. Inst!InOrder(w)'
  <2>1. row[k.id] \in Inst!Record \cup {NoInst}
    BY <1>2 DEF Inst!InstInv, Inst!InstTypeOK
  <2> QED BY <1>1, <1>2, <1>3, <2>1 DEF Inst!InOrder
<1>5. \A i \in Insts : Inst!WorkRight(w, i)'
  BY <1>1, <1>2, <1>3 DEF Inst!WorkRight, Inst!Agrees
<1>6. clashed \subseteq clashed' /\ clashed' \subseteq Insts /\ writes' \in 0..WriteLimit /\ work[w].pc # "forget" /\ k.pc # "forget"
  BY <1>1, <1>2 DEF Inst!InstInv, Inst!InstTypeOK
<1>7. w \in Writers /\ k.pc # "idle" /\ Inst!Fine(k.id)' => \A v \in Writers \ {w} : work[v].id = k.id => work[v].pc = "idle"
  BY <1>1
<1>8. k.pc = "commit" /\ k.op = "create" => \A v \in Writers \ {w} : work[v].id = k.id => work[v].pc = "idle"
  BY <1>2
<1> QED BY <1>1, <1>2, <1>4, <1>5, <1>6, <1>7, <1>8, QuietStep

LEMMA AnswerKeeps == ASSUME Inst!InstInv, NEW w \in Inst!Workers, Inst!Answer(w) PROVE Inst!InstInv'
<1>1. work[w].pc \notin {"idle", "forget"}
  BY DEF Inst!Answer
<1> QED BY <1>1, Stops DEF Inst!Answer

-----------------------------------------------------------------------------
(* A request to write begins.                                              *)

LEMMA BeginKeeps ==
    ASSUME Inst!InstInv, NEW w \in Writers, NEW op \in {"create", "copy", "update", "delete"}, NEW i \in Insts,
           NEW pc \in {"lookup", "commit"}, NEW next \in Inst!Draft \cup [to : Insts] \cup {NoInst}, Inst!Begin(w, op, i, pc, next),
           op = "create" => next \in Inst!Record /\ Inst!Unused(i),
           op = "update" => next \in Inst!Draft, op = "copy" => next \in [to : Insts],
           pc = "lookup" <=> op \in {"copy", "update"}
    PROVE  Inst!InstInv'
<1> DEFINE k == [Inst!Idle EXCEPT !.pc = pc, !.op = op, !.id = i, !.next = next]
<1>1. k \in Inst!Job /\ k.pc = pc /\ k.op = op /\ k.id = i /\ k.gen = 0 /\ k.next = next
  BY DEF Inst!Idle, Inst!Job
<1>2. work' = [work EXCEPT ![w] = k] /\ w \in Inst!Workers /\ work[w].pc = "idle"
  BY DEF Inst!Begin, Inst!Workers
<1> HIDE DEF k
<1>3. UNCHANGED <<row, byID, slugTo, gen, dropped, lapsed>> /\ writes' \in 0..WriteLimit
  BY InstancesAssumed DEF Inst!Begin, Inst!InstInv, Inst!InstTypeOK, Inst!InstancesAssumption
<1>4. /\ clashed \subseteq clashed' /\ clashed' \subseteq Insts
      /\ i \notin clashed' => Inst!Busy(i) = {}
  BY DEF Inst!Begin, Inst!InstInv, Inst!InstTypeOK
<1>5. work'[w] = k
  BY <1>1, <1>2, OneMoves
<1>6. Inst!InOrder(w)'
  <2>1. k.gen <= gen'
    BY <1>1, <1>3 DEF Inst!InstInv, Inst!InstTypeOK
  <2>2. k.op = "create" => row'[i] = NoInst /\ i \notin dropped'
    BY <1>1, <1>3 DEF Inst!Unused
  <2> QED BY <1>1, <1>5, <2>1, <2>2 DEF Inst!InOrder
<1>7. \A j \in Insts : Inst!WorkRight(w, j)'
  BY <1>1, <1>5 DEF Inst!WorkRight
<1>8. Inst!Busy(i) = {} => \A v \in Writers \ {w} : work[v].id = i => work[v].pc = "idle"
  BY DEF Inst!Busy
<1>9. Inst!Fine(i)' => \A v \in Writers \ {w} : work[v].id = i => work[v].pc = "idle"
  BY <1>4, <1>8 DEF Inst!Fine
<1>10. op = "create" => \A v \in Writers \ {w} : work[v].id = i => work[v].pc = "idle"
  BY <1>8 DEF Inst!Unused
<1>11. work[w].pc # "forget" /\ k.pc # "forget"
  BY <1>1, <1>2
<1>12. w \in Writers /\ k.pc # "idle" /\ Inst!Fine(k.id)' => \A v \in Writers \ {w} : work[v].id = k.id => work[v].pc = "idle"
  BY <1>1, <1>9
<1>13. k.pc = "commit" /\ k.op = "create" => \A v \in Writers \ {w} : work[v].id = k.id => work[v].pc = "idle"
  BY <1>1, <1>10
<1>14. clashed \subseteq clashed' /\ clashed' \subseteq Insts
  BY <1>4
<1>15. k \in Inst!Job
  BY <1>1
<1> QED BY <1>2, <1>3, <1>14, <1>15, <1>6, <1>7, <1>11, <1>12, <1>13, QuietStep

LEMMA BeginsKeep == ASSUME Inst!InstInv, NEW w \in Writers, Inst!Create(w) \/ Inst!Copy(w) \/ Inst!Update(w) \/ Inst!Delete(w) PROVE Inst!InstInv'
<1>1. CASE Inst!Create(w)
  <2> PICK i \in Insts, n \in Inst!Record : Inst!Unused(i) /\ Inst!Begin(w, "create", i, "commit", n)
    BY <1>1 DEF Inst!Create
  <2>1. n \in Inst!Draft
    BY DEF Inst!Record, Inst!Draft
  <2> QED BY <2>1, BeginKeeps
<1>2. CASE Inst!Copy(w)
  <2> PICK i \in Insts, k \in Insts : Inst!Unused(k) /\ Inst!Begin(w, "copy", i, "lookup", [to |-> k])
    BY <1>2 DEF Inst!Copy
  <2>1. [to |-> k] \in [to : Insts]
    OBVIOUS
  <2> QED BY <2>1, BeginKeeps
<1>3. CASE Inst!Update(w)
  <2> PICK i \in Insts, s \in Slugs, v \in Values \cup {NoInst}, on \in BOOLEAN :
             Inst!Begin(w, "update", i, "lookup", [slug |-> s, kept |-> v, on |-> on])
    BY <1>3 DEF Inst!Update
  <2>1. [slug |-> s, kept |-> v, on |-> on] \in Inst!Draft
    BY DEF Inst!Draft
  <2> QED BY <2>1, BeginKeeps
<1>4. CASE Inst!Delete(w)
  <2> PICK i \in Insts : Inst!Begin(w, "delete", i, "commit", NoInst)
    BY <1>4 DEF Inst!Delete
  <2> QED BY BeginKeeps
<1> QED BY <1>1, <1>2, <1>3, <1>4

-----------------------------------------------------------------------------
(* The cache changes, or a row.                                            *)

LEMMA OneCreateStays ==
    ASSUME Inst!InstInv, NEW w \in Inst!Workers, NEW k \in Inst!Job, work' = [work EXCEPT ![w] = k], ~(k.pc = "commit" /\ k.op = "create")
    PROVE  Inst!OneCreate'
<1>1. /\ work'[w] = k
      /\ \A v \in Inst!Workers \ {w} : work'[v] = work[v]
  BY OneMoves
<1> SUFFICES ASSUME NEW u \in Writers, NEW v \in Writers, u # v,
                    work'[u].pc = "commit", work'[u].op = "create", work'[v].pc = "commit", work'[v].op = "create",
                    work'[u].id = work'[v].id
             PROVE  FALSE
  BY DEF Inst!OneCreate
<1>2. u # w /\ v # w
  BY <1>1
<1> QED BY <1>1, <1>2 DEF Inst!InstInv, Inst!OneCreate, Inst!Workers

LEMMA OrdersStay ==
    ASSUME Inst!InstInv, NEW w \in Inst!Workers, NEW k \in Inst!Job, work' = [work EXCEPT ![w] = k], gen' \in Nat, gen <= gen',
           NEW v \in Inst!Workers \ {w},
           work[v].pc = "commit" /\ work[v].op = "create" => row'[work[v].id] = NoInst /\ work[v].id \notin dropped'
    PROVE  Inst!InOrder(v)'
  BY OneMoves, JobGen, InOrderStays

LEMMA CreateSees ==
    ASSUME Inst!InstInv, NEW v \in Inst!Workers, work[v].pc = "commit", work[v].op = "create"
    PROVE  row[work[v].id] = NoInst /\ work[v].id \notin dropped /\ work[v].id \in Insts /\ v \in Writers
  BY JobGen DEF Inst!InOrder

LEMMA AloneStays ==
    ASSUME Inst!InstInv, NEW w \in Inst!Workers, NEW k \in Inst!Job, work' = [work EXCEPT ![w] = k], NEW j \in Insts, Inst!Fine(j)' => Inst!Fine(j),
           \/ k.pc = "idle" \/ k.id # j \/ w \notin Writers
           \/ work[w].id = j /\ work[w].pc # "idle"
           \/ Inst!Busy(j) = {}
    PROVE  Inst!Fine(j)' => \A u, v \in Inst!Busy(j)' : u = v
<1> SUFFICES ASSUME Inst!Fine(j)' PROVE \A u, v \in Inst!Busy(j)' : u = v
  OBVIOUS
<1>1. /\ work'[w] = k
      /\ \A v \in Inst!Workers \ {w} : work'[v] = work[v]
  BY OneMoves
<1>2. \A u, v \in Inst!Busy(j) : u = v
  BY DEF Inst!InstInv, Inst!CacheRight
<1>3. \A u \in Inst!Busy(j)' \ {w} : u \in Inst!Busy(j)
  BY <1>1 DEF Inst!Busy, Inst!Workers
<1>4. w \in Inst!Busy(j)' => Inst!Busy(j) = {} \/ w \in Inst!Busy(j)
  BY <1>1 DEF Inst!Busy
<1> QED BY <1>2, <1>3, <1>4

LEMMA ForgettingStays ==
    ASSUME Inst!InstInv, NEW w \in Inst!Workers, NEW k \in Inst!Job, work' = [work EXCEPT ![w] = k], NEW j \in Insts,
           work[w].pc # "forget" \/ work[w].id # j
    PROVE  Inst!Forgetting(j) => Inst!Forgetting(j)'
<1>1. \A v \in Inst!Workers \ {w} : work'[v] = work[v]
  BY OneMoves
<1> QED BY <1>1 DEF Inst!Forgetting, Inst!Busy, Inst!Workers

LEMMA CacheSame ==
    ASSUME Inst!InstInv, NEW w \in Inst!Workers, NEW k \in Inst!Job, work' = [work EXCEPT ![w] = k], NEW j \in Insts, Inst!Fine(j)' => Inst!Fine(j),
           \/ k.pc = "idle" \/ k.id # j \/ w \notin Writers
           \/ work[w].id = j /\ work[w].pc # "idle"
           \/ Inst!Busy(j) = {},
           work[w].pc # "forget" \/ work[w].id # j,
           byID'[j] = byID[j], row'[j] = row[j], j \in lapsed => j \in lapsed'
    PROVE  Inst!CacheRight(j)'
<1>1. Inst!Fine(j)' => \A u, v \in Inst!Busy(j)' : u = v
  BY AloneStays
<1>2. Inst!Forgetting(j) => Inst!Forgetting(j)'
  BY ForgettingStays
<1>3. Inst!Fine(j) /\ ~Inst!Forgetting(j) => byID[j] = NoInst \/ Inst!Agrees(j, byID[j])
  BY DEF Inst!InstInv, Inst!CacheRight
<1>4. Inst!Agrees(j, byID[j]) => (Inst!Agrees(j, byID[j]))'
  BY DEF Inst!Agrees
<1> QED BY <1>1, <1>2, <1>3, <1>4 DEF Inst!CacheRight

LEMMA Remembered ==
    ASSUME Inst!InstTypeOK, Inst!Leading, NEW i \in Insts, NEW item \in Inst!Record, Inst!RememberLocked(i, item)
    PROVE  /\ byID' \in [Insts -> Inst!Record \cup {NoInst}] /\ slugTo' \in [Slugs -> Insts \cup {NoInst}]
           /\ byID'[i] = item /\ \A j \in Insts \ {i} : byID'[j] = byID[j]
           /\ Inst!Leading'
<1>1. /\ byID' \in [Insts -> Inst!Record \cup {NoInst}] /\ slugTo' \in [Slugs -> Insts \cup {NoInst}]
      /\ byID'[i] = item /\ \A j \in Insts \ {i} : byID'[j] = byID[j]
  BY DEF Inst!InstTypeOK, Inst!RememberLocked
<1>2. item # NoInst
  BY InstancesAssumed DEF Inst!InstancesAssumption
<1> SUFFICES ASSUME NEW s \in Slugs, slugTo'[s] # NoInst PROVE byID'[slugTo'[s]] # NoInst /\ byID'[slugTo'[s]].slug = s
  BY <1>1 DEF Inst!Leading
<1>3. CASE s = item.slug
  <2>1. slugTo'[s] = i
    BY <1>3 DEF Inst!RememberLocked
  <2> QED BY <1>1, <1>2, <1>3, <2>1
<1>4. CASE s # item.slug
  <2>1. slugTo'[s] = slugTo[s] /\ ~(byID[i] # NoInst /\ s = byID[i].slug)
    BY <1>4 DEF Inst!RememberLocked
  <2>2. slugTo[s] \in Insts /\ byID[slugTo[s]] # NoInst /\ byID[slugTo[s]].slug = s
    BY <2>1 DEF Inst!Leading, Inst!InstTypeOK
  <2>3. slugTo[s] # i
    BY <2>1, <2>2
  <2> QED BY <1>1, <2>1, <2>2, <2>3
<1> QED BY <1>3, <1>4

LEMMA Forgotten ==
    ASSUME Inst!InstTypeOK, Inst!Leading, NEW i \in Insts, Inst!ForgetHot(i)
    PROVE  /\ byID' \in [Insts -> Inst!Record \cup {NoInst}] /\ slugTo' \in [Slugs -> Insts \cup {NoInst}]
           /\ byID'[i] = NoInst /\ \A j \in Insts \ {i} : byID'[j] = byID[j]
           /\ Inst!Leading' /\ gen' = gen + 1
<1>1. /\ byID' \in [Insts -> Inst!Record \cup {NoInst}] /\ slugTo' \in [Slugs -> Insts \cup {NoInst}]
      /\ byID'[i] = NoInst /\ \A j \in Insts \ {i} : byID'[j] = byID[j]
      /\ gen' = gen + 1
  BY DEF Inst!InstTypeOK, Inst!ForgetHot
<1>2. ASSUME NEW s \in Slugs, slugTo'[s] # NoInst PROVE byID'[slugTo'[s]] # NoInst /\ byID'[slugTo'[s]].slug = s
  <2>1. slugTo'[s] = slugTo[s] /\ ~(byID[i] # NoInst /\ s = byID[i].slug)
    BY <1>2 DEF Inst!ForgetHot
  <2>2. slugTo[s] \in Insts /\ byID[slugTo[s]] # NoInst /\ byID[slugTo[s]].slug = s
    BY <1>2, <2>1 DEF Inst!Leading, Inst!InstTypeOK
  <2>3. slugTo[s] # i
    BY <2>1, <2>2
  <2> QED BY <1>1, <2>1, <2>2, <2>3
<1> QED BY <1>1, <1>2 DEF Inst!Leading

\* The parts of the invariant after a step of one worker.
LEMMA Together ==
    ASSUME Inst!InstInv, NEW w \in Inst!Workers, NEW k \in Inst!Job, work' = [work EXCEPT ![w] = k],
           Inst!InstTypeOK', Inst!Leading', \A i \in dropped' : row'[i] = NoInst, gen <= gen', ~(k.pc = "commit" /\ k.op = "create"),
           Inst!InOrder(w)', \A i \in Insts : Inst!WorkRight(w, i)',
           \A v \in Inst!Workers \ {w} : work[v].pc = "commit" /\ work[v].op = "create" =>
               row'[work[v].id] = NoInst /\ work[v].id \notin dropped',
           \A v \in Inst!Workers \ {w}, i \in Insts : Inst!WorkRight(v, i)',
           \A i \in Insts : Inst!CacheRight(i)'
    PROVE  Inst!InstInv'
<1>1. work' \in [Inst!Workers -> Inst!Job]
  BY OneMoves
<1>2. Inst!OneCreate'
  BY OneCreateStays
<1>3. gen' \in Nat
  BY DEF Inst!InstTypeOK
<1>4. \A v \in Inst!Workers \ {w} : Inst!InOrder(v)'
  BY <1>3, OrdersStay
<1> QED BY <1>1, <1>2, <1>4 DEF Inst!InstInv

LEMMA RememberKeeps == ASSUME Inst!InstInv, NEW w \in Inst!Workers, Inst!Remember(w) PROVE Inst!InstInv'
<1> SUFFICES ASSUME work[w].gen = gen PROVE Inst!InstInv'
  BY ReadAgain
<1> PICK r \in Inst!Job : r = work[w]
  BY JobGen
<1> PICK i : i = r.id
  OBVIOUS
<1>1. /\ r.pc = "remember" /\ i \in Insts /\ r.op \in {"get", "copy", "update"} /\ (w \in Writers <=> r.op # "get")
      /\ (r.op = "update" => r.next \in Inst!Draft) /\ (r.op = "copy" => r.next \in [to : Insts]) /\ r.seen \in Inst!Record
      /\ r.gen <= gen /\ r.gen \in Nat /\ gen \in Nat
  BY JobGen DEF Inst!Remember, Inst!InOrder
<1>2. Inst!RememberLocked(i, r.seen) /\ UNCHANGED <<row, gen, dropped, clashed, writes, lapsed>>
  BY DEF Inst!Remember
<1> DEFINE k == [r EXCEPT !.pc = Inst!After(w)]
<1>3. work' = [work EXCEPT ![w] = k]
  BY DEF Inst!Remember, Inst!Goes
<1>4. Inst!After(w) = (IF r.op = "get" THEN "answer" ELSE "commit")
  BY DEF Inst!After
<1>5. k \in Inst!Job /\ k.pc = Inst!After(w) /\ k.id = i /\ k.op = r.op /\ k.seen = r.seen /\ k.gen = r.gen /\ k.next = r.next
  BY <1>4 DEF Inst!Job
<1> HIDE DEF k
<1>6. work'[w] = k /\ k.pc \in {"answer", "commit"} /\ (k.pc = "answer" <=> k.op = "get")
  BY <1>1, <1>3, <1>4, <1>5, OneMoves
<1>7. Inst!InstTypeOK /\ Inst!Leading
  BY DEF Inst!InstInv
<1>8. /\ byID' \in [Insts -> Inst!Record \cup {NoInst}] /\ slugTo' \in [Slugs -> Insts \cup {NoInst}]
      /\ byID'[i] = r.seen /\ \A j \in Insts \ {i} : byID'[j] = byID[j]
      /\ Inst!Leading'
  BY <1>1, <1>2, <1>7, Remembered
<1>9. Inst!InstTypeOK'
  BY <1>2, <1>7, <1>8 DEF Inst!InstTypeOK
<1>10. Inst!InOrder(w)'
  BY <1>1, <1>2, <1>5, <1>6 DEF Inst!InOrder
<1>11. \A j \in Insts : Inst!Fine(j)' <=> Inst!Fine(j)
  BY <1>2 DEF Inst!Fine
<1>12. Inst!Fine(i) /\ ~Inst!Forgetting(i) => Inst!Agrees(i, r.seen)
  BY <1>1 DEF Inst!InstInv, Inst!WorkRight
<1>13. ASSUME NEW j \in Insts PROVE Inst!WorkRight(w, j)'
  <2> SUFFICES ASSUME i = j, Inst!Fine(i)', k.pc = "commit", k.op = "update" PROVE row'[i] # NoInst /\ k.seen.kept = row'[i].kept
    BY <1>5, <1>6 DEF Inst!WorkRight
  <2>1. ~Inst!Forgetting(i)
    BY <1>1, <1>5, <1>11, Alone
  <2>2. row[i] # NoInst /\ r.seen.kept = row[i].kept
    BY <1>1, <1>11, <1>12, <2>1, AgreeKept
  <2> QED BY <1>2, <1>5, <2>2
<1>14. ASSUME NEW v \in Inst!Workers \ {w}, NEW j \in Insts PROVE Inst!WorkRight(v, j)'
  <2>1. gen' \in Nat /\ gen <= gen' /\ row'[j] = row[j] /\ lapsed' = lapsed /\ (Inst!Fine(j)' => Inst!Fine(j)) /\ work[w].pc # "forget"
    BY <1>1, <1>2, <1>11
  <2> QED BY <1>3, <1>5, <2>1, OthersStay
<1>15. ASSUME NEW j \in Insts PROVE Inst!CacheRight(j)'
  <2>1. (Inst!Fine(j)' => Inst!Fine(j)) /\ work[w].pc # "forget" /\ row'[j] = row[j] /\ (k.id # j \/ (work[w].id = j /\ work[w].pc # "idle"))
    BY <1>1, <1>2, <1>5, <1>11
  <2>2. CASE j # i
    <3>1. byID'[j] = byID[j] /\ (j \in lapsed => j \in lapsed')
      BY <1>2, <1>8, <2>2
    <3> QED BY <1>3, <1>5, <2>1, <3>1, CacheSame
  <2>3. CASE j = i
    <3>1. Inst!Fine(j)' => \A u, v \in Inst!Busy(j)' : u = v
      BY <1>3, <1>5, <2>1, AloneStays
    <3>2. Inst!Forgetting(j) => Inst!Forgetting(j)'
      BY <1>3, <1>5, <2>1, ForgettingStays
    <3>3. Inst!Agrees(i, r.seen) => (Inst!Agrees(i, r.seen))'
      BY <1>2 DEF Inst!Agrees
    <3> QED BY <1>8, <1>12, <2>1, <2>3, <3>1, <3>2, <3>3 DEF Inst!CacheRight
  <2> QED BY <2>2, <2>3
<1>16. \A j \in dropped' : row'[j] = NoInst
  BY <1>2 DEF Inst!InstInv
<1>17. \A v \in Inst!Workers \ {w} : work[v].pc = "commit" /\ work[v].op = "create" => row'[work[v].id] = NoInst /\ work[v].id \notin dropped'
  BY <1>2, CreateSees
<1>18. gen <= gen' /\ ~(k.pc = "commit" /\ k.op = "create")
  BY <1>1, <1>2, <1>5
<1> QED BY <1>3, <1>5, <1>8, <1>9, <1>10, <1>13, <1>14, <1>15, <1>16, <1>17, <1>18, Together

LEMMA Drafts == Inst!Record \subseteq Inst!Draft
  BY DEF Inst!Record, Inst!Draft

LEMMA ForgetKeeps == ASSUME Inst!InstInv, NEW w \in Writers, Inst!Forget(w) PROVE Inst!InstInv'
<1> PICK r \in Inst!Job : r = work[w]
  BY JobGen DEF Inst!Workers
<1> PICK i : i = r.id
  OBVIOUS
<1>0. w \in Inst!Workers
  BY DEF Inst!Workers
<1>1. /\ r.pc = "forget" /\ i \in Insts /\ r.op \in {"update", "delete"} /\ (r.op = "update" => r.next \in Inst!Record)
      /\ r.gen <= gen /\ r.gen \in Nat /\ gen \in Nat
  BY <1>0, JobGen DEF Inst!Forget, Inst!InOrder
<1>2. Inst!ForgetHot(i) /\ UNCHANGED <<row, dropped, clashed, writes, lapsed>>
  BY DEF Inst!Forget
<1>3. PICK k \in Inst!Job : /\ work' = [work EXCEPT ![w] = k]
                      /\ \/ r.op = "delete" /\ k.pc = "idle" /\ k.gen = 0
                         \/ r.op = "update" /\ k.pc = "tell" /\ k.id = i /\ k.op = r.op /\ k.gen = r.gen /\ k.next = r.next
  <2>1. CASE r.op = "delete"
    BY <2>1, IdleJob DEF Inst!Forget, Inst!Done
  <2>2. CASE r.op = "update"
    <3> DEFINE k == [r EXCEPT !.pc = "tell"]
    <3>1. work' = [work EXCEPT ![w] = k]
      BY <2>2 DEF Inst!Forget, Inst!Goes
    <3>2. k \in Inst!Job /\ k.pc = "tell" /\ k.id = i /\ k.op = r.op /\ k.gen = r.gen /\ k.next = r.next
      BY DEF Inst!Job
    <3> HIDE DEF k
    <3> QED BY <2>2, <3>1, <3>2, Zenon
  <2> QED BY <1>1, <2>1, <2>2
<1>6. work'[w] = k
  BY <1>0, <1>3, OneMoves
<1>7. Inst!InstTypeOK /\ Inst!Leading
  BY DEF Inst!InstInv
<1>8. /\ byID' \in [Insts -> Inst!Record \cup {NoInst}] /\ slugTo' \in [Slugs -> Insts \cup {NoInst}]
      /\ byID'[i] = NoInst /\ \A j \in Insts \ {i} : byID'[j] = byID[j]
      /\ Inst!Leading' /\ gen' = gen + 1
  BY <1>1, <1>2, <1>7, Forgotten
<1>9. Inst!InstTypeOK'
  BY <1>1, <1>2, <1>7, <1>8 DEF Inst!InstTypeOK
<1>10. Inst!InOrder(w)'
  <2>1. k.gen <= gen'
    BY <1>1, <1>3, <1>8
  <2>2. k.pc = "tell" => k.next \in Inst!Draft
    BY <1>1, <1>3, Drafts
  <2> QED BY <1>1, <1>3, <1>6, <2>1, <2>2 DEF Inst!InOrder
<1>11. \A j \in Insts : Inst!Fine(j)' <=> Inst!Fine(j)
  BY <1>2 DEF Inst!Fine
<1>12. Inst!Fine(i) /\ r.op = "update" => Inst!Agrees(i, r.next)
  BY <1>0, <1>1 DEF Inst!InstInv, Inst!WorkRight
<1>13. ASSUME NEW j \in Insts PROVE Inst!WorkRight(w, j)'
  <2>1. Inst!Agrees(i, r.next) => (Inst!Agrees(i, r.next))'
    BY <1>2 DEF Inst!Agrees
  <2> QED BY <1>3, <1>6, <1>11, <1>12, <2>1 DEF Inst!WorkRight
<1>14. ASSUME NEW v \in Inst!Workers \ {w}, NEW j \in Insts PROVE Inst!WorkRight(v, j)'
  <2>1. gen' \in Nat /\ gen <= gen' /\ row'[j] = row[j] /\ lapsed' = lapsed /\ (Inst!Fine(j)' => Inst!Fine(j)) /\ gen' # gen
    BY <1>1, <1>2, <1>8, <1>11
  <2> QED BY <1>0, <1>3, <2>1, OthersStay
<1>15. ASSUME NEW j \in Insts PROVE Inst!CacheRight(j)'
  <2>1. (Inst!Fine(j)' => Inst!Fine(j)) /\ row'[j] = row[j] /\ (k.pc = "idle" \/ k.id # j \/ (work[w].id = j /\ work[w].pc # "idle"))
    BY <1>1, <1>2, <1>3, <1>11
  <2>2. CASE j # i
    <3>1. byID'[j] = byID[j] /\ work[w].id # j /\ (j \in lapsed => j \in lapsed')
      BY <1>2, <1>8, <2>2
    <3> QED BY <1>0, <1>3, <2>1, <3>1, CacheSame
  <2>3. CASE j = i
    <3>1. Inst!Fine(j)' => \A u, v \in Inst!Busy(j)' : u = v
      BY <1>0, <1>3, <2>1, AloneStays
    <3> QED BY <1>8, <2>3, <3>1 DEF Inst!CacheRight
  <2> QED BY <2>2, <2>3
<1>16. \A j \in dropped' : row'[j] = NoInst
  BY <1>2 DEF Inst!InstInv
<1>17. \A v \in Inst!Workers \ {w} : work[v].pc = "commit" /\ work[v].op = "create" => row'[work[v].id] = NoInst /\ work[v].id \notin dropped'
  BY <1>2, CreateSees
<1>18. gen <= gen' /\ ~(k.pc = "commit" /\ k.op = "create")
  BY <1>1, <1>3, <1>8
<1> QED BY <1>0, <1>3, <1>8, <1>9, <1>10, <1>13, <1>14, <1>15, <1>16, <1>17, <1>18, Together

LEMMA TellCacheKeeps == ASSUME Inst!InstInv, NEW w \in Writers, Inst!Tell(w) PROVE Inst!InstInv'
<1> PICK r \in Inst!Job : r = work[w]
  BY JobGen DEF Inst!Workers
<1> PICK i : i = r.id
  OBVIOUS
<1>0. w \in Inst!Workers
  BY DEF Inst!Workers
<1>1. r.pc = "tell" /\ i \in Insts /\ r.next \in Inst!Record /\ gen \in Nat
  BY <1>0, JobGen DEF Inst!Tell, Inst!InOrder
<1>2. Inst!RememberLocked(i, r.next) /\ gen' = gen + 1 /\ UNCHANGED <<row, dropped, clashed, writes, lapsed>>
  BY DEF Inst!Tell, Inst!RememberHot
<1>3. work' = [work EXCEPT ![w] = Inst!Idle] /\ Inst!Idle \in Inst!Job /\ Inst!Idle.pc = "idle" /\ Inst!Idle.gen = 0
  BY IdleJob DEF Inst!Tell, Inst!Done
<1>6. work'[w] = Inst!Idle
  BY <1>0, <1>3, OneMoves
<1>7. Inst!InstTypeOK /\ Inst!Leading
  BY DEF Inst!InstInv
<1>8. /\ byID' \in [Insts -> Inst!Record \cup {NoInst}] /\ slugTo' \in [Slugs -> Insts \cup {NoInst}]
      /\ byID'[i] = r.next /\ \A j \in Insts \ {i} : byID'[j] = byID[j]
      /\ Inst!Leading'
  BY <1>1, <1>2, <1>7, Remembered
<1>9. Inst!InstTypeOK'
  BY <1>1, <1>2, <1>7, <1>8 DEF Inst!InstTypeOK
<1>10. Inst!InOrder(w)'
  <2>1. Inst!Idle.gen <= gen'
    BY <1>1, <1>2, <1>3
  <2> QED BY <1>3, <1>6, <2>1 DEF Inst!InOrder
<1>11. \A j \in Insts : Inst!Fine(j)' <=> Inst!Fine(j)
  BY <1>2 DEF Inst!Fine
<1>12. Inst!Fine(i) => Inst!Agrees(i, r.next)
  BY <1>0, <1>1 DEF Inst!InstInv, Inst!WorkRight
<1>13. ASSUME NEW j \in Insts PROVE Inst!WorkRight(w, j)'
  BY <1>3, <1>6 DEF Inst!WorkRight
<1>14. ASSUME NEW v \in Inst!Workers \ {w}, NEW j \in Insts PROVE Inst!WorkRight(v, j)'
  <2>1. gen' \in Nat /\ gen <= gen' /\ row'[j] = row[j] /\ lapsed' = lapsed /\ (Inst!Fine(j)' => Inst!Fine(j)) /\ gen' # gen
    BY <1>1, <1>2, <1>11
  <2> QED BY <1>0, <1>3, <2>1, OthersStay
<1>15. ASSUME NEW j \in Insts PROVE Inst!CacheRight(j)'
  <2>1. (Inst!Fine(j)' => Inst!Fine(j)) /\ row'[j] = row[j] /\ work[w].pc # "forget"
    BY <1>1, <1>2, <1>11
  <2>2. CASE j # i
    <3>1. byID'[j] = byID[j] /\ (j \in lapsed => j \in lapsed')
      BY <1>2, <1>8, <2>2
    <3> QED BY <1>0, <1>3, <2>1, <3>1, CacheSame
  <2>3. CASE j = i
    <3>1. Inst!Fine(j)' => \A u, v \in Inst!Busy(j)' : u = v
      BY <1>0, <1>3, <2>1, AloneStays
    <3>2. Inst!Agrees(i, r.next) => (Inst!Agrees(i, r.next))'
      BY <1>2 DEF Inst!Agrees
    <3> QED BY <1>8, <1>12, <2>1, <2>3, <3>1, <3>2 DEF Inst!CacheRight
  <2> QED BY <2>2, <2>3
<1>16. \A j \in dropped' : row'[j] = NoInst
  BY <1>2 DEF Inst!InstInv
<1>17. \A v \in Inst!Workers \ {w} : work[v].pc = "commit" /\ work[v].op = "create" => row'[work[v].id] = NoInst /\ work[v].id \notin dropped'
  BY <1>2, CreateSees
<1>18. gen <= gen' /\ ~(Inst!Idle.pc = "commit" /\ Inst!Idle.op = "create")
  BY <1>1, <1>2, <1>3
<1> QED BY <1>0, <1>3, <1>8, <1>9, <1>10, <1>13, <1>14, <1>15, <1>16, <1>17, <1>18, Together

-----------------------------------------------------------------------------
(* A writer commits.                                                       *)

\* The row of i is written, by w that is at i before the step or comes to be.
LEMMA Written ==
    ASSUME Inst!InstInv, NEW w \in Writers, NEW k \in Inst!Job, work' = [work EXCEPT ![w] = k], NEW i \in Insts,
           NEW x \in Inst!Record \cup {NoInst}, row' = [row EXCEPT ![i] = x], UNCHANGED <<byID, slugTo, gen, dropped, clashed, writes>>,
           lapsed' \in {lapsed, lapsed \ {i}},
           x # NoInst => i \notin dropped, work[w].pc # "forget", k.pc \in {"forget", "tell"}, k.id = i,
           \/ k.pc = "forget" /\ work[w].id = i /\ work[w].pc # "idle"
           \/ k.pc = "tell" /\ row[i] = NoInst /\ ((work[w].id = i /\ work[w].pc # "idle") \/ Inst!Busy(i) = {}),
           x # NoInst => \A v \in Writers \ {w} : ~(work[v].pc = "commit" /\ work[v].op = "create" /\ work[v].id = i),
           Inst!InOrder(w)', k.pc = "tell" \/ k.op = "update" => k.next = x
    PROVE  Inst!InstInv'
<1>0. w \in Inst!Workers /\ work'[w] = k /\ \A v \in Inst!Workers \ {w} : work'[v] = work[v]
  BY OneMoves DEF Inst!Workers
<1>1. row'[i] = x /\ (\A j \in Insts \ {i} : row'[j] = row[j]) /\ row' \in [Insts -> Inst!Record \cup {NoInst}]
  BY DEF Inst!InstInv, Inst!InstTypeOK
<1>2. \A j \in Insts : Inst!Fine(j)' <=> Inst!Fine(j)
  BY DEF Inst!Fine
<1>3. Inst!InstTypeOK' /\ Inst!Leading' /\ gen \in Nat
  BY <1>1 DEF Inst!InstInv, Inst!InstTypeOK, Inst!Leading
<1>4. ASSUME NEW j \in Insts PROVE Inst!WorkRight(w, j)'
  BY <1>0, <1>1 DEF Inst!WorkRight, Inst!Agrees
<1>5. Inst!Fine(i) => /\ \A u \in Writers \ {w} : work[u].id = i => work[u].pc = "idle"
                      /\ ~Inst!Forgetting(i)
  <2>1. CASE work[w].id = i /\ work[w].pc # "idle"
    BY <2>1, Alone
  <2>2. CASE Inst!Busy(i) = {}
    BY <2>2 DEF Inst!Busy, Inst!Forgetting
  <2> QED BY <2>1, <2>2
<1>6. ASSUME NEW v \in Inst!Workers \ {w}, NEW j \in Insts PROVE Inst!WorkRight(v, j)'
  <2>1. CASE j # i
    <3>1. gen' \in Nat /\ gen <= gen' /\ row'[j] = row[j] /\ (Inst!Fine(j)' => Inst!Fine(j)) /\ (j \in lapsed => j \in lapsed')
      BY <1>1, <1>2, <1>3, <2>1
    <3> QED BY <1>0, <3>1, OthersStay
  <2>2. CASE j = i
    <3>1. Inst!Fine(i)' => Inst!Fine(i)
      BY <1>2
    <3>2. (k.pc = "forget" /\ k.id = i) \/ (row[i] = NoInst /\ (Inst!Fine(i) => ~Inst!Forgetting(i)))
      BY <1>5
    <3>3. Inst!Fine(i) => \A u \in Writers \ {w} : work[u].id = i => work[u].pc = "idle"
      BY <1>5
    <3>4. gen' = gen
      OBVIOUS
    <3>5. Inst!WorkRight(v, i)'
      BY ONLY InstancesAssumed, Inst!InstInv, w \in Writers, k \in Inst!Job, work' = [work EXCEPT ![w] = k], v \in Inst!Workers \ {w}, i \in Insts, <3>1, <3>2, <3>3, <3>4, RowMoves
    <3> QED BY <2>2, <3>5
  <2> QED BY <2>1, <2>2
<1>7. ASSUME NEW j \in Insts PROVE Inst!CacheRight(j)'
  <2>0. (Inst!Fine(j)' => Inst!Fine(j)) /\ (k.id # j \/ (work[w].id = j /\ work[w].pc # "idle") \/ Inst!Busy(j) = {})
    <3>1. (work[w].id = i /\ work[w].pc # "idle") \/ Inst!Busy(i) = {}
      OBVIOUS
    <3>2. k.id # j \/ (work[w].id = j /\ work[w].pc # "idle") \/ Inst!Busy(j) = {}
      BY ONLY <3>1, k.id = i
    <3>3. Inst!Fine(j)' => Inst!Fine(j)
      BY ONLY <1>2, j \in Insts
    <3> QED BY <3>2, <3>3
  <2>1. CASE j # i
    <3>1. byID'[j] = byID[j] /\ row'[j] = row[j] /\ (j \in lapsed => j \in lapsed')
      BY <1>1, <2>1
    <3> QED BY <1>0, <2>0, <3>1, CacheSame
  <2>2. CASE j = i
    <3>1. Inst!Fine(j)' => \A u, v \in Inst!Busy(j)' : u = v
      BY <1>0, <2>0, AloneStays
    <3>2. CASE k.pc = "forget"
      <4>1. Inst!Forgetting(i)'
        BY <1>0, <3>2 DEF Inst!Forgetting, Inst!Busy
      <4> QED BY <2>2, <3>1, <4>1 DEF Inst!CacheRight
    <3>3. CASE k.pc = "tell" /\ row[i] = NoInst
      <4>1. Inst!Fine(i) => byID[i] = NoInst
        BY <1>5, <3>3 DEF Inst!InstInv, Inst!CacheRight, Inst!Agrees
      <4> QED BY <1>2, <2>2, <3>1, <4>1 DEF Inst!CacheRight
    <3> QED BY <3>2, <3>3
  <2> QED BY <2>1, <2>2
<1>8. \A j \in dropped' : row'[j] = NoInst
  BY <1>1 DEF Inst!InstInv, Inst!InstTypeOK
<1>9. ASSUME NEW v \in Inst!Workers \ {w}, work[v].pc = "commit", work[v].op = "create" PROVE row'[work[v].id] = NoInst /\ work[v].id \notin dropped'
  <2>1. row[work[v].id] = NoInst /\ work[v].id \notin dropped /\ work[v].id \in Insts /\ v \in Writers
    BY <1>9, CreateSees
  <2> QED BY <1>1, <1>9, <2>1
<1>10. gen <= gen' /\ ~(k.pc = "commit" /\ k.op = "create")
  BY <1>3
<1> QED BY <1>0, <1>3, <1>4, <1>6, <1>7, <1>8, <1>9, <1>10, Together

LEMMA Kept == ASSUME Inst!InstInv, NEW w \in Writers, work[w].pc = "commit", work[w].op = "update"
              PROVE  /\ Inst!NewRow(w) \in Inst!Record
                     /\ work[w].next.kept = NoInst => Inst!NewRow(w).kept = work[w].seen.kept
<1>1. w \in Inst!Workers
  BY DEF Inst!Workers
<1>2. work[w].next \in Inst!Draft /\ work[w].seen \in Inst!Record
  BY <1>1, JobGen DEF Inst!InOrder
<1> PICK n \in Inst!Draft : n = work[w].next
  BY <1>2
<1>3. n \in [slug : Slugs, kept : Values \cup {NoInst}, on : BOOLEAN] /\ work[w].seen.kept \in Values
  BY <1>2 DEF Inst!Draft, Inst!Record
<1>4. CASE n.kept = NoInst
  BY <1>2, <1>3, <1>4 DEF Inst!NewRow, Inst!Record
<1>5. CASE n.kept # NoInst
  BY <1>2, <1>3, <1>5 DEF Inst!NewRow, Inst!Record
<1> QED BY <1>4, <1>5

LEMMA CommitWriteKeeps == ASSUME Inst!InstInv, NEW w \in Writers, Inst!CommitWrite(w) PROVE Inst!InstInv'
<1>0. w \in Inst!Workers
  BY DEF Inst!Workers
<1> PICK r \in Inst!Job : r = work[w]
  BY <1>0, JobGen
<1> PICK i : i = r.id
  OBVIOUS
<1> PICK n : n = Inst!NewRow(w)
  OBVIOUS
<1>1. r.pc = "commit" /\ r.op \in {"create", "update"} /\ i \in Insts /\ UNCHANGED <<byID, slugTo, gen, dropped, clashed, writes>>
  BY <1>0, JobGen DEF Inst!CommitWrite, Inst!InOrder
<1>2. CASE Inst!Free(n.slug, i) /\ (r.op = "update" => row[i] # NoInst)
  <2>1. /\ row' = [row EXCEPT ![i] = n]
        /\ work' = [work EXCEPT ![w].next = n, ![w].pc = IF r.op = "update" THEN "forget" ELSE "tell"]
        /\ lapsed' = lapsed \ {i}
    BY <1>2 DEF Inst!CommitWrite
  <2>2. n \in Inst!Record
    <3>1. CASE r.op = "update"
      BY <1>1, <3>1, Kept
    <3>2. CASE r.op = "create"
      <4>1. r.next \in Inst!Record
        BY <1>0, <1>1, <3>2, JobGen DEF Inst!InOrder
      <4>2. r.next.kept # NoInst
        BY <4>1, InstancesAssumed DEF Inst!InstancesAssumption, Inst!Record
      <4> QED BY <4>1, <4>2 DEF Inst!NewRow
    <3> QED BY <1>1, <3>1, <3>2
  <2> PICK p \in {"forget", "tell"} : p = IF r.op = "update" THEN "forget" ELSE "tell"
    OBVIOUS
  <2> DEFINE k == [r EXCEPT !.next = n, !.pc = p]
  <2>3. work' = [work EXCEPT ![w] = k]
    BY <2>1
  <2>4. k \in Inst!Job /\ k.pc = p /\ k.id = i /\ k.op = r.op /\ k.gen = r.gen /\ k.next = n
    BY ZenonT(60), <2>2, Drafts DEF Inst!Job
  <2> HIDE DEF k
  <2>5. work'[w] = k
    BY <1>0, <2>3, <2>4, OneMoves
  <2>6. Inst!InOrder(w)'
    <3>1. k.gen <= gen'
      BY <1>0, <1>1, <2>4, JobGen DEF Inst!InOrder
    <3>2. n \in Inst!Draft
      BY <2>2, Drafts
    <3> QED BY <1>1, <2>2, <2>4, <2>5, <3>1, <3>2 DEF Inst!InOrder
  <2>7. r.op = "create" => row[i] = NoInst /\ i \notin dropped
    BY <1>0, <1>1, JobGen DEF Inst!InOrder
  <2>8. r.op = "update" => row[i] # NoInst /\ i \notin dropped
    BY <1>1, <1>2 DEF Inst!InstInv
  <2>9. \A v \in Writers \ {w} : ~(work[v].pc = "commit" /\ work[v].op = "create" /\ work[v].id = i)
    <3> SUFFICES ASSUME NEW v \in Writers \ {w}, work[v].pc = "commit", work[v].op = "create", work[v].id = i PROVE FALSE
      OBVIOUS
    <3>1. CASE r.op = "create"
      BY <1>1, <3>1 DEF Inst!InstInv, Inst!OneCreate
    <3>2. CASE r.op = "update"
      <4>1. row[i] = NoInst
        BY CreateSees DEF Inst!Workers
      <4> QED BY <2>8, <3>2, <4>1
    <3> QED BY <1>1, <3>1, <3>2
  <2>10. i \notin dropped /\ work[w].pc # "forget" /\ work[w].pc # "idle" /\ work[w].id = i
    BY <1>1, <2>7, <2>8
  <2>11. k.pc = "forget" \/ (k.pc = "tell" /\ row[i] = NoInst)
    <3>1. r.op = "create" \/ p = "forget"
      BY <1>1
    <3> QED BY <2>4, <2>7, <3>1
  <2>12. n \in Inst!Record \cup {NoInst} /\ k.pc \in {"forget", "tell"} /\ k.id = i /\ k.next = n
    BY <2>2, <2>4
  <2>13. \/ k.pc = "forget" /\ work[w].id = i /\ work[w].pc # "idle"
         \/ k.pc = "tell" /\ row[i] = NoInst /\ ((work[w].id = i /\ work[w].pc # "idle") \/ Inst!Busy(i) = {})
    BY <2>10, <2>11
  <2> QED BY <1>1, <2>1, <2>3, <2>4, <2>6, <2>9, <2>10, <2>12, <2>13, Written
<1>3. CASE ~(Inst!Free(n.slug, i) /\ (r.op = "update" => row[i] # NoInst))
  <2>1. Inst!Done(w) /\ UNCHANGED <<row, lapsed>>
    BY <1>3 DEF Inst!CommitWrite
  <2> QED BY <1>0, <1>1, <2>1, Stops
<1> QED BY <1>2, <1>3

LEMMA CommitDeleteKeeps == ASSUME Inst!InstInv, NEW w \in Writers, Inst!CommitDelete(w) PROVE Inst!InstInv'
<1>0. w \in Inst!Workers
  BY DEF Inst!Workers
<1> PICK r \in Inst!Job : r = work[w]
  BY <1>0, JobGen
<1> PICK i : i = r.id
  OBVIOUS
<1>1. r.pc = "commit" /\ r.op = "delete" /\ i \in Insts /\ UNCHANGED <<byID, slugTo, gen, dropped, clashed, writes>>
  BY <1>0, JobGen DEF Inst!CommitDelete, Inst!InOrder
<1>2. CASE row[i] # NoInst
  <2> DEFINE k == [r EXCEPT !.pc = "forget"]
  <2>1. row' = [row EXCEPT ![i] = NoInst] /\ work' = [work EXCEPT ![w] = k] /\ lapsed' = lapsed \ {i}
    BY <1>2 DEF Inst!CommitDelete, Inst!Goes
  <2>2. k \in Inst!Job /\ k.pc = "forget" /\ k.id = i /\ k.op = r.op /\ k.gen = r.gen
    BY DEF Inst!Job
  <2> HIDE DEF k
  <2>3. work'[w] = k
    BY <1>0, <2>1, <2>2, OneMoves
  <2>4. Inst!InOrder(w)'
    <3>1. k.gen <= gen'
      BY <1>0, <1>1, <2>2, JobGen DEF Inst!InOrder
    <3> QED BY <1>1, <2>2, <2>3, <3>1 DEF Inst!InOrder
  <2>5. work[w].pc # "forget" /\ work[w].pc # "idle" /\ work[w].id = i /\ k.pc # "tell" /\ k.op # "update" /\ k.pc \in {"forget", "tell"}
    BY <1>1, <2>2
  <2>6. NoInst \in Inst!Record \cup {NoInst}
    OBVIOUS
  <2> QED BY <1>1, <2>1, <2>2, <2>4, <2>5, <2>6, Written
<1>3. CASE row[i] = NoInst
  <2>1. Inst!Done(w) /\ UNCHANGED <<row, lapsed>>
    BY <1>3 DEF Inst!CommitDelete
  <2> QED BY <1>0, <1>1, <2>1, Stops
<1> QED BY <1>2, <1>3

LEMMA CommitCopyKeeps == ASSUME Inst!InstInv, NEW w \in Writers, Inst!CommitCopy(w) PROVE Inst!InstInv'
<1>0. w \in Inst!Workers
  BY DEF Inst!Workers
<1> PICK r \in Inst!Job : r = work[w]
  BY <1>0, JobGen
<1> PICK i : i = r.next.to
  OBVIOUS
<1>1. r.pc = "commit" /\ r.op = "copy" /\ UNCHANGED <<byID, slugTo, gen, dropped, clashed, writes, lapsed>>
  BY DEF Inst!CommitCopy
<1>2. r.next \in [to : Insts] /\ r.seen \in Inst!Record
  BY <1>0, <1>1, JobGen DEF Inst!InOrder
<1>3. i \in Insts /\ r.seen.kept \in Values
  BY <1>2 DEF Inst!Record
<1>4. CASE \E s \in Slugs : /\ Inst!Free(s, i) /\ Inst!Unused(i)
                            /\ row' = [row EXCEPT ![i] = [work[w].seen EXCEPT !.slug = s]]
                            /\ work' = [work EXCEPT ![w].pc = "tell", ![w].id = i, ![w].next = row'[i]]
  <2> PICK s \in Slugs : /\ Inst!Unused(i)
                         /\ row' = [row EXCEPT ![i] = [work[w].seen EXCEPT !.slug = s]]
                         /\ work' = [work EXCEPT ![w].pc = "tell", ![w].id = i, ![w].next = row'[i]]
    BY <1>4
  <2> PICK x : x = [r.seen EXCEPT !.slug = s]
    OBVIOUS
  <2>1. x \in Inst!Record
    BY <1>2 DEF Inst!Record
  <2>2. row' = [row EXCEPT ![i] = x] /\ row'[i] = x
    BY <1>3 DEF Inst!InstInv, Inst!InstTypeOK
  <2> DEFINE k == [r EXCEPT !.pc = "tell", !.id = i, !.next = x]
  <2>3. work' = [work EXCEPT ![w] = k]
    BY <2>2
  <2>4. k \in Inst!Job /\ k.pc = "tell" /\ k.id = i /\ k.op = r.op /\ k.gen = r.gen /\ k.next = x
    BY ZenonT(60), <1>3, <2>1, Drafts DEF Inst!Job
  <2> HIDE DEF k
  <2>5. work'[w] = k
    BY <1>0, <2>3, <2>4, OneMoves
  <2>6. Inst!InOrder(w)'
    <3>1. k.gen <= gen'
      BY <1>0, <1>1, <2>4, JobGen DEF Inst!InOrder
    <3> QED BY <1>1, <1>3, <2>1, <2>4, <2>5, <3>1 DEF Inst!InOrder
  <2>7. row[i] = NoInst /\ i \notin dropped /\ Inst!Busy(i) = {}
    BY DEF Inst!Unused
  <2>8. \A v \in Writers \ {w} : ~(work[v].pc = "commit" /\ work[v].op = "create" /\ work[v].id = i)
    BY <2>7 DEF Inst!Busy
  <2>9. \/ k.pc = "forget" /\ work[w].id = i /\ work[w].pc # "idle"
        \/ k.pc = "tell" /\ row[i] = NoInst /\ ((work[w].id = i /\ work[w].pc # "idle") \/ Inst!Busy(i) = {})
    BY <2>4, <2>7
  <2>10. x \in Inst!Record \cup {NoInst} /\ k.pc \in {"forget", "tell"} /\ k.id = i /\ k.next = x /\ work[w].pc # "forget"
    BY <1>1, <2>1, <2>4
  <2> QED BY ZenonT(60), <1>1, <1>3, <2>2, <2>3, <2>4, <2>6, <2>7, <2>8, <2>9, <2>10, Written
<1>5. CASE ~ \E s \in Slugs : /\ Inst!Free(s, i) /\ Inst!Unused(i)
                              /\ row' = [row EXCEPT ![i] = [work[w].seen EXCEPT !.slug = s]]
                              /\ work' = [work EXCEPT ![w].pc = "tell", ![w].id = i, ![w].next = row'[i]]
  <2>1. Inst!Done(w) /\ UNCHANGED row
    BY <1>5 DEF Inst!CommitCopy
  <2> QED BY SMTT(60), <1>0, <1>1, <2>1, Stops
<1> QED BY <1>4, <1>5

-----------------------------------------------------------------------------
(* A model's rows go with it.                                              *)

LEMMA DropKeeps == ASSUME Inst!InstInv, NEW i \in Insts, Inst!DropWithModel(i) PROVE Inst!InstInv'
<1>1. /\ row[i] # NoInst /\ row' = [row EXCEPT ![i] = NoInst] /\ dropped' = dropped \cup {i}
      /\ UNCHANGED <<byID, slugTo, gen, work, clashed, lapsed>> /\ writes' = writes + 1 /\ writes < WriteLimit
  BY DEF Inst!DropWithModel
<1>2. /\ row'[i] = NoInst /\ (\A j \in Insts \ {i} : row'[j] = row[j]) /\ row' \in [Insts -> Inst!Record \cup {NoInst}]
  BY <1>1 DEF Inst!InstInv, Inst!InstTypeOK
<1>3. Inst!InstTypeOK' /\ Inst!Leading' /\ work' \in [Inst!Workers -> Inst!Job] /\ Inst!OneCreate'
  <2>1. writes' \in 0..WriteLimit
    BY <1>1, InstancesAssumed DEF Inst!InstInv, Inst!InstTypeOK, Inst!InstancesAssumption
  <2>2. Inst!InstTypeOK'
    BY <1>1, <1>2, <2>1 DEF Inst!InstInv, Inst!InstTypeOK
  <2> QED BY <1>1, <2>2 DEF Inst!InstInv, Inst!Leading, Inst!OneCreate
<1>4. \A j \in Insts : Inst!Fine(j)' => Inst!Fine(j) /\ j # i
  BY <1>1 DEF Inst!Fine
<1>5. \A j \in Insts : Inst!Busy(j)' = Inst!Busy(j) /\ (Inst!Forgetting(j)' <=> Inst!Forgetting(j))
  BY <1>1 DEF Inst!Busy, Inst!Forgetting
<1>6. ASSUME NEW v \in Inst!Workers, NEW j \in Insts PROVE Inst!WorkRight(v, j)'
  <2> SUFFICES ASSUME j # i PROVE Inst!WorkRight(v, j)'
    BY <1>4 DEF Inst!WorkRight
  <2>1. work'[v] = work[v] /\ gen \in Nat /\ gen' = gen /\ gen <= gen' /\ work[v].gen \in Nat /\ Inst!WorkRight(v, j) /\ Inst!InOrder(v)
    BY <1>1, JobGen DEF Inst!InstInv
  <2>2. row'[j] = row[j] /\ (j \in lapsed => j \in lapsed') /\ (Inst!Forgetting(j) => Inst!Forgetting(j)') /\ (Inst!Fine(j)' => Inst!Fine(j))
    BY <1>1, <1>2, <1>4, <1>5
  <2> QED BY <2>1, <2>2, WorkStays
<1>7. ASSUME NEW v \in Inst!Workers PROVE Inst!InOrder(v)'
  <2>1. work'[v] = work[v] /\ gen \in Nat /\ gen' \in Nat /\ gen <= gen'
    BY <1>1 DEF Inst!InstInv, Inst!InstTypeOK
  <2>2. work[v].pc = "commit" /\ work[v].op = "create" => row'[work[v].id] = NoInst /\ work[v].id \notin dropped'
    BY <1>1, <1>2, CreateSees
  <2> QED BY <2>1, <2>2, JobGen, InOrderStays
<1>8. ASSUME NEW j \in Insts PROVE Inst!CacheRight(j)'
  BY <1>1, <1>2, <1>4, <1>5 DEF Inst!InstInv, Inst!CacheRight, Inst!Agrees
<1>9. \A j \in dropped' : row'[j] = NoInst
  BY <1>1, <1>2 DEF Inst!InstInv, Inst!InstTypeOK
<1> QED BY <1>3, <1>6, <1>7, <1>8, <1>9 DEF Inst!InstInv

\* An instance is enabled in the table alone.
LEMMA ReenableKeeps == ASSUME Inst!InstInv, NEW i \in Insts, Inst!Reenable(i) PROVE Inst!InstInv'
<1>1. /\ row[i] # NoInst /\ row' = [row EXCEPT ![i].on = TRUE] /\ lapsed' = lapsed \cup {i}
      /\ UNCHANGED <<byID, slugTo, gen, work, dropped, clashed>> /\ writes' = writes + 1 /\ writes < WriteLimit
  BY DEF Inst!Reenable
<1>2. /\ row \in [Insts -> Inst!Record \cup {NoInst}] /\ row[i] \in Inst!Record /\ i \notin dropped
      /\ NoInst \notin Inst!Record
  BY <1>1, InstancesAssumed DEF Inst!InstInv, Inst!InstTypeOK, Inst!InstancesAssumption
<1>3. /\ row'[i] = [row[i] EXCEPT !.on = TRUE] /\ (\A j \in Insts \ {i} : row'[j] = row[j])
      /\ row'[i] \in Inst!Record /\ row' \in [Insts -> Inst!Record \cup {NoInst}]
  <2>1. [row[i] EXCEPT !.on = TRUE] \in Inst!Record
    BY <1>2 DEF Inst!Record
  <2> QED BY <1>1, <1>2, <2>1
<1>4. Inst!InstTypeOK' /\ Inst!Leading' /\ work' \in [Inst!Workers -> Inst!Job] /\ Inst!OneCreate'
  <2>1. writes' \in 0..WriteLimit
    BY <1>1, InstancesAssumed DEF Inst!InstInv, Inst!InstTypeOK, Inst!InstancesAssumption
  <2>2. Inst!InstTypeOK'
    BY <1>1, <1>3, <2>1 DEF Inst!InstInv, Inst!InstTypeOK
  <2> QED BY <1>1, <2>2 DEF Inst!InstInv, Inst!Leading, Inst!OneCreate
<1>5. \A j \in Insts : (Inst!Fine(j)' <=> Inst!Fine(j)) /\ Inst!Busy(j)' = Inst!Busy(j) /\ (Inst!Forgetting(j)' <=> Inst!Forgetting(j))
  BY <1>1 DEF Inst!Fine, Inst!Busy, Inst!Forgetting
<1>6. ASSUME NEW j \in Insts, NEW x, Inst!Agrees(j, x) PROVE (Inst!Agrees(j, x))'
  <2>1. CASE j # i
    BY <1>1, <1>3, <1>6, <2>1 DEF Inst!Agrees
  <2>2. CASE j = i
    <3>1. x = row[i] \/ x = [row[i] EXCEPT !.on = FALSE]
      BY <1>6, <2>2 DEF Inst!Agrees
    <3>2. [row'[i] EXCEPT !.on = FALSE] = [row[i] EXCEPT !.on = FALSE]
      BY <1>2, <1>3 DEF Inst!Record
    <3>3. row[i].on = FALSE => row[i] = [row[i] EXCEPT !.on = FALSE]
      BY <1>2 DEF Inst!Record
    <3>4. row[i].on = TRUE => row[i] = row'[i]
      BY <1>2, <1>3 DEF Inst!Record
    <3>5. row[i].on \in BOOLEAN
      BY <1>2 DEF Inst!Record
    <3>6. x = row'[i] \/ x = [row'[i] EXCEPT !.on = FALSE]
      BY <3>1, <3>2, <3>3, <3>4, <3>5
    <3>7. i \in lapsed' /\ row'[i] # NoInst
      BY <1>1, <1>2, <1>3
    <3> QED BY <2>2, <3>6, <3>7 DEF Inst!Agrees
  <2> QED BY <2>1, <2>2
<1>7. \A j \in Insts : row[j] # NoInst => row'[j] # NoInst /\ row'[j].kept = row[j].kept
  BY <1>2, <1>3 DEF Inst!Record
<1>8. ASSUME NEW v \in Inst!Workers, NEW j \in Insts PROVE Inst!WorkRight(v, j)'
  <2> PICK k : k = work[v]
    OBVIOUS
  <2>1. k = work'[v] /\ gen' = gen
    BY <1>1
  <2>2. Inst!WorkRight(v, j)
    BY DEF Inst!InstInv
  <2>3. (Inst!Agrees(j, k.seen) => (Inst!Agrees(j, k.seen))') /\ (Inst!Agrees(j, k.next) => (Inst!Agrees(j, k.next))')
    BY <1>6
  <2> QED BY <1>5, <1>7, <2>1, <2>2, <2>3 DEF Inst!WorkRight
<1>9. ASSUME NEW v \in Inst!Workers PROVE Inst!InOrder(v)'
  <2>1. work'[v] = work[v] /\ gen \in Nat /\ gen' \in Nat /\ gen <= gen'
    BY <1>1 DEF Inst!InstInv, Inst!InstTypeOK
  <2>2. work[v].pc = "commit" /\ work[v].op = "create" => row'[work[v].id] = NoInst /\ work[v].id \notin dropped'
    BY <1>1, <1>3, CreateSees
  <2> QED BY <2>1, <2>2, JobGen, InOrderStays
<1>10. ASSUME NEW j \in Insts PROVE Inst!CacheRight(j)'
  <2>1. Inst!CacheRight(j) /\ byID'[j] = byID[j]
    BY <1>1 DEF Inst!InstInv
  <2>2. Inst!Agrees(j, byID[j]) => (Inst!Agrees(j, byID[j]))'
    BY <1>1, <1>6
  <2> QED BY <1>5, <2>1, <2>2 DEF Inst!CacheRight
<1>11. \A j \in dropped' : row'[j] = NoInst
  BY <1>1, <1>2, <1>3 DEF Inst!InstInv, Inst!InstTypeOK
<1> QED BY <1>4, <1>8, <1>9, <1>10, <1>11 DEF Inst!InstInv

\* The cache hears of it.
LEMMA NotifyKeeps == ASSUME Inst!InstInv, NEW i \in Insts, Inst!NotifyChange(i) PROVE Inst!InstInv'
<1>1. /\ Inst!ForgetHot(i) /\ UNCHANGED <<row, work, dropped, clashed>>
      /\ lapsed' \subseteq lapsed /\ (\A j \in Insts : j \in lapsed => j \in lapsed' \/ (j = i /\ Inst!Busy(i) = {}))
  BY DEF Inst!NotifyChange
<1>2. Inst!InstTypeOK /\ Inst!Leading /\ gen \in Nat
  BY DEF Inst!InstInv, Inst!InstTypeOK
<1>3. /\ byID' \in [Insts -> Inst!Record \cup {NoInst}] /\ slugTo' \in [Slugs -> Insts \cup {NoInst}]
      /\ byID'[i] = NoInst /\ \A j \in Insts \ {i} : byID'[j] = byID[j]
      /\ Inst!Leading' /\ gen' = gen + 1
  BY <1>1, <1>2, Forgotten
<1>4. writes' \in 0..WriteLimit
  BY <1>2, InstancesAssumed DEF Inst!NotifyChange, Inst!InstTypeOK, Inst!InstancesAssumption
<1>5. Inst!InstTypeOK' /\ work' \in [Inst!Workers -> Inst!Job] /\ Inst!OneCreate'
  <2>1. Inst!InstTypeOK'
    BY <1>1, <1>2, <1>3, <1>4 DEF Inst!InstTypeOK
  <2> QED BY <1>1, <2>1 DEF Inst!InstInv, Inst!OneCreate
<1>6. \A j \in Insts : (Inst!Fine(j)' <=> Inst!Fine(j)) /\ Inst!Busy(j)' = Inst!Busy(j) /\ (Inst!Forgetting(j)' <=> Inst!Forgetting(j))
  BY <1>1 DEF Inst!Fine, Inst!Busy, Inst!Forgetting
<1>7. ASSUME NEW v \in Inst!Workers, NEW j \in Insts PROVE Inst!WorkRight(v, j)'
  <2>1. /\ work'[v] = work[v] /\ gen' \in Nat /\ gen <= gen' /\ work[v].gen \in Nat /\ Inst!WorkRight(v, j) /\ Inst!InOrder(v)
        /\ row'[j] = row[j] /\ (Inst!Fine(j)' => Inst!Fine(j)) /\ (gen' = gen => FALSE)
    BY <1>1, <1>2, <1>3, <1>6, JobGen DEF Inst!InstInv
  <2>2. CASE j \in lapsed => j \in lapsed'
    BY <1>2, <2>1, <2>2, WorkStays
  <2>3. CASE j = i /\ Inst!Busy(i) = {}
    <3> PICK k : k = work[v]
      OBVIOUS
    <3>1. k.id = i => k.pc \notin {"tell", "forget"} /\ (k.pc = "commit" => k.op = "get" \/ k.pc = "idle")
      BY <2>1, <2>3 DEF Inst!Busy, Inst!InOrder
    <3>2. k.gen # gen'
      BY <1>2, <1>3, <2>1 DEF Inst!InOrder
    <3> QED BY <2>1, <2>3, <3>1, <3>2 DEF Inst!WorkRight
  <2> QED BY <1>1, <2>2, <2>3
<1>8. ASSUME NEW v \in Inst!Workers PROVE Inst!InOrder(v)'
  <2>1. work'[v] = work[v] /\ gen' \in Nat /\ gen <= gen'
    BY <1>1, <1>2, <1>3
  <2>2. work[v].pc = "commit" /\ work[v].op = "create" => row'[work[v].id] = NoInst /\ work[v].id \notin dropped'
    BY <1>1, CreateSees
  <2> QED BY <1>2, <2>1, <2>2, JobGen, InOrderStays
<1>9. ASSUME NEW j \in Insts PROVE Inst!CacheRight(j)'
  <2>1. Inst!CacheRight(j)
    BY DEF Inst!InstInv
  <2>2. CASE j = i
    BY <1>3, <1>6, <2>1, <2>2 DEF Inst!CacheRight
  <2>3. CASE j # i
    <3>1. byID'[j] = byID[j] /\ (Inst!Agrees(j, byID[j]) => (Inst!Agrees(j, byID[j]))')
      BY <1>1, <1>3, <2>3 DEF Inst!Agrees
    <3> QED BY <1>6, <2>1, <3>1 DEF Inst!CacheRight
  <2> QED BY <2>2, <2>3
<1>10. \A j \in dropped' : row'[j] = NoInst
  BY <1>1 DEF Inst!InstInv
<1> QED BY <1>3, <1>5, <1>7, <1>8, <1>9, <1>10 DEF Inst!InstInv

LEMMA InstGo == Inst!InstInv /\ [Inst!InstNext]_(Inst!instVars) => Inst!InstInv'
<1> SUFFICES ASSUME Inst!InstInv, [Inst!InstNext]_(Inst!instVars) PROVE Inst!InstInv'
  OBVIOUS
<1>1. CASE UNCHANGED Inst!instVars
  <2>1. UNCHANGED <<row, byID, slugTo, gen, work, dropped, clashed, writes, lapsed>>
    BY <1>1 DEF Inst!instVars
  <2>2. \A i \in Insts : Inst!Busy(i)' = Inst!Busy(i) /\ (Inst!Forgetting(i)' <=> Inst!Forgetting(i)) /\ (Inst!Fine(i)' <=> Inst!Fine(i))
    BY <2>1 DEF Inst!Busy, Inst!Forgetting, Inst!Fine
  <2>3. \A w \in Inst!Workers : Inst!InOrder(w)' /\ \A i \in Insts : Inst!WorkRight(w, i)'
    <3>1. \A w \in Inst!Workers : Inst!InOrder(w)'
      BY <2>1 DEF Inst!InstInv, Inst!InOrder
    <3>2. \A w \in Inst!Workers, i \in Insts : Inst!WorkRight(w, i)'
      BY <2>1, <2>2 DEF Inst!InstInv, Inst!WorkRight, Inst!Agrees
    <3> QED BY <3>1, <3>2
  <2>4. \A i \in Insts : Inst!CacheRight(i)'
    BY <2>1, <2>2 DEF Inst!InstInv, Inst!CacheRight, Inst!Agrees
  <2>5. Inst!InstTypeOK' /\ Inst!Leading' /\ Inst!OneCreate'
    BY <2>1 DEF Inst!InstInv, Inst!InstTypeOK, Inst!Leading, Inst!OneCreate
  <2> QED BY <2>1, <2>3, <2>4, <2>5 DEF Inst!InstInv
<1>2. ASSUME NEW w \in Inst!Workers, Inst!Read(w) \/ Inst!Lookup(w) \/ Inst!Query(w) \/ Inst!Remember(w) \/ Inst!Answer(w) PROVE Inst!InstInv'
  BY <1>2, ReadKeeps, LookupKeeps, QueryKeeps, RememberKeeps, AnswerKeeps
<1>3. ASSUME NEW w \in Writers, Inst!Create(w) \/ Inst!Copy(w) \/ Inst!Update(w) \/ Inst!Delete(w) \/ Inst!CommitWrite(w) \/ Inst!CommitCopy(w)
                                \/ Inst!CommitDelete(w) \/ Inst!Forget(w) \/ Inst!Tell(w) PROVE Inst!InstInv'
  BY <1>3, BeginsKeep, CommitWriteKeeps, CommitCopyKeeps, CommitDeleteKeeps, ForgetKeeps, TellCacheKeeps
<1>4. ASSUME NEW i \in Insts, Inst!DropWithModel(i) \/ Inst!Reenable(i) \/ Inst!NotifyChange(i) PROVE Inst!InstInv'
  BY <1>4, DropKeeps, ReenableKeeps, NotifyKeeps
<1> QED BY <1>1, <1>2, <1>3, <1>4 DEF Inst!InstNext

LEMMA InstTold == Inst!InstInv => Inst!HotFresh /\ Inst!SlugLeads
<1> SUFFICES ASSUME Inst!InstInv PROVE Inst!HotFresh /\ Inst!SlugLeads
  OBVIOUS
<1>1. ASSUME NEW i \in Insts, Inst!Busy(i) = {}, i \notin clashed \cup dropped, byID[i] # NoInst PROVE Inst!Agrees(i, byID[i])
  <2>1. Inst!Fine(i) /\ ~Inst!Forgetting(i)
    BY <1>1 DEF Inst!Fine, Inst!Forgetting
  <2> QED BY <1>1, <2>1 DEF Inst!InstInv, Inst!CacheRight
<1> QED BY <1>1 DEF Inst!HotFresh, Inst!SlugLeads, Inst!InstInv, Inst!Leading

\* Only the commit of a request takes it from there to telling the cache.
LEMMA OwnCommit ==
    ASSUME Inst!InstInv, [Inst!InstNext]_(Inst!instVars), NEW w \in Writers, work[w].pc = "commit", work[w].op = "update", work'[w].pc = "forget"
    PROVE  Inst!CommitWrite(w)
<1>0. w \in Inst!Workers
  BY DEF Inst!Workers
<1>1. CASE UNCHANGED Inst!instVars
  BY <1>1 DEF Inst!instVars
<1>2. ASSUME NEW v \in Inst!Workers, Inst!Read(v) \/ Inst!Lookup(v) \/ Inst!Query(v) \/ Inst!Remember(v) \/ Inst!Answer(v) PROVE FALSE
  <2>1. work[v].pc # "commit"
    BY <1>2 DEF Inst!Read, Inst!Lookup, Inst!Query, Inst!Remember, Inst!Answer
  <2>2. v # w /\ work \in [Inst!Workers -> Inst!Job]
    BY SMTT(60), <2>1 DEF Inst!InstInv
  <2>3. CASE Inst!Read(v)
    BY <1>0, <2>2, <2>3 DEF Inst!Read
  <2>4. CASE Inst!Lookup(v)
    BY <1>0, <2>2, <2>4 DEF Inst!Lookup
  <2>5. CASE Inst!Query(v)
    BY <1>0, <2>2, <2>5 DEF Inst!Query
  <2>6. CASE Inst!Remember(v) \/ Inst!Answer(v)
    BY <1>0, <2>2, <2>6 DEF Inst!Remember, Inst!Answer, Inst!Goes, Inst!Done
  <2> QED BY SMTT(60), <1>2, <2>3, <2>4, <2>5, <2>6
<1>3. ASSUME NEW v \in Writers, Inst!Create(v) \/ Inst!Copy(v) \/ Inst!Update(v) \/ Inst!Delete(v) PROVE FALSE
  <2>1. \E op, i, pc, next : Inst!Begin(v, op, i, pc, next)
    BY <1>3 DEF Inst!Create, Inst!Copy, Inst!Update, Inst!Delete
  <2> PICK op, i, pc, next : Inst!Begin(v, op, i, pc, next)
    BY <2>1
  <2>2. work[v].pc = "idle" /\ work' = [work EXCEPT ![v] = [Inst!Idle EXCEPT !.pc = pc, !.op = op, !.id = i, !.next = next]]
    BY DEF Inst!Begin
  <2>3. v # w
    BY <2>2
  <2>4. work'[w] = work[w]
    BY <1>0, <2>2, <2>3 DEF Inst!InstInv
  <2> QED BY <2>4
<1>4. ASSUME NEW v \in Writers, Inst!CommitCopy(v) \/ Inst!CommitDelete(v) \/ Inst!Forget(v) \/ Inst!Tell(v) PROVE FALSE
  <2>1. v # w
    BY SMTT(60), <1>4 DEF Inst!CommitCopy, Inst!CommitDelete, Inst!Forget, Inst!Tell
  <2>2. work'[w] = work[w]
    BY <1>0, <1>4, <2>1 DEF Inst!CommitCopy, Inst!CommitDelete, Inst!Forget, Inst!Tell, Inst!Goes, Inst!Done, Inst!InstInv
  <2> QED BY <2>2
<1>5. ASSUME NEW v \in Writers, Inst!CommitWrite(v), v # w PROVE FALSE
  <2>1. work'[w] = work[w]
    BY <1>0, <1>5 DEF Inst!CommitWrite, Inst!Done, Inst!InstInv
  <2> QED BY <2>1
<1>6. ASSUME NEW i \in Insts, Inst!DropWithModel(i) \/ Inst!Reenable(i) \/ Inst!NotifyChange(i) PROVE FALSE
  BY <1>6 DEF Inst!DropWithModel, Inst!Reenable, Inst!NotifyChange
<1> QED BY <1>1, <1>2, <1>3, <1>4, <1>5, <1>6 DEF Inst!InstNext

LEMMA FieldsKept == Inst!InstInv /\ [Inst!InstNext]_(Inst!instVars) => Inst!LeftOutKept
<1> SUFFICES ASSUME Inst!InstInv, [Inst!InstNext]_(Inst!instVars), NEW w \in Writers, NEW i \in Insts,
                    work[w].pc = "commit", work[w].op = "update", work[w].id = i, work[w].next.kept = NoInst,
                    work'[w].pc = "forget", i \notin clashed
             PROVE  row'[i].kept = row[i].kept
  BY DEF Inst!LeftOutKept
<1>0. w \in Inst!Workers
  BY DEF Inst!Workers
<1>1. Inst!CommitWrite(w)
  BY OwnCommit
<1> PICK n : n = Inst!NewRow(w)
  OBVIOUS
<1>2. row[i] # NoInst /\ row' = [row EXCEPT ![i] = n]
  <2>1. Inst!Idle.pc # "forget"
    BY IdleJob
  <2>2. ~Inst!Done(w)
    BY <1>0, <2>1 DEF Inst!Done, Inst!InstInv
  <2> QED BY <1>1, <2>2 DEF Inst!CommitWrite
<1>3. Inst!Fine(i)
  BY <1>2 DEF Inst!Fine, Inst!InstInv
<1>4. work[w].seen.kept = row[i].kept
  BY <1>0, <1>3 DEF Inst!InstInv, Inst!WorkRight
<1>5. row'[i] = n
  BY <1>2 DEF Inst!InstInv, Inst!InstTypeOK
<1> QED BY <1>4, <1>5, Kept


-----------------------------------------------------------------------------
(* Files that are found, and their index.                                  *)

Missing == None
gguf == s1
index == s2
owner == s3
scan == s4
refresh == s5
changes == s6
USE DEF Missing, gguf, index, owner, scan, refresh, changes

LEMMA DiscBegin == Disc!DiscInit => Disc!DiscInv
<1> SUFFICES ASSUME Disc!DiscInit PROVE Disc!DiscInv
  OBVIOUS
<1>1. PICK k \in Disc!Kinds : gguf = [f \in GGUFs |-> [fp |-> 1, kind |-> k]]
  BY DEF Disc!DiscInit
<1>2. index = Disc!NoIndex /\ owner = [m \in ModelRows |-> Missing] /\ refresh = Disc!NoPass /\ changes = 1 /\ scan = [q \in Scanners |-> Disc!NoScan]
  BY DEF Disc!DiscInit
<1>3. /\ Disc!NoScan \in Disc!Scanning /\ Disc!NoScan.pc = "idle" /\ Disc!NoScan.todo = {} /\ Disc!NoScan.read = Missing /\ Disc!NoScan.offer = {}
      /\ \A f \in GGUFs : Disc!NoScan.seen[f] = Missing /\ Disc!NoScan.idx[f] = Missing
  BY DEF Disc!NoScan, Disc!NoIndex, Disc!Scanning
<1>4. Disc!NoPass \in Disc!Passing /\ Disc!NoPass.pc = "idle" /\ Disc!NoPass.todo = {}
  BY DEF Disc!NoPass, Disc!Passing
<1>5. \A f \in GGUFs : gguf[f] \in Disc!File /\ gguf[f].fp = 1 /\ gguf[f].kind \in Disc!Kinds /\ index[f] = Missing
  BY <1>1, <1>2 DEF Disc!File, Disc!NoIndex
<1>6. gguf \in [GGUFs -> Disc!File \cup {Missing}] /\ index \in [GGUFs -> Disc!File \cup {Missing}]
  BY <1>1, <1>2, <1>5 DEF Disc!NoIndex
<1>7. Disc!DiscTypeOK
  BY <1>2, <1>5, DiscoveryAssumed DEF Disc!DiscTypeOK, Disc!DiscoveryAssumption
<1>8. Disc!Right(index) /\ Disc!PassRight
  BY <1>2, <1>4, <1>5 DEF Disc!Right, Disc!PassRight
<1>9. \A q \in Scanners : Disc!ReadRight(q) /\ Disc!QuietRight(q)
  BY <1>2, <1>3 DEF Disc!ReadRight, Disc!QuietRight, Disc!Right
<1> QED BY <1>2, <1>3, <1>4, <1>6, <1>7, <1>8, <1>9 DEF Disc!DiscInv

\* The first files of the sets are files.
LEMMA FirstFiles == Disc!Standing \subseteq GGUFs
  BY DiscoveryAssumed DEF Disc!Standing, Disc!DiscoveryAssumption

\* Files and models change: no scan is quiet any more, and what was known is old.
LEMMA ChangeKeeps ==
    ASSUME Disc!DiscInv, Disc!Changed, UNCHANGED <<index, refresh>>, gguf' \in [GGUFs -> Disc!File \cup {Missing}],
           \A f \in GGUFs : gguf'[f] = gguf[f] \/ gguf'[f] = Missing \/ gguf'[f].fp = changes',
           owner' \in [ModelRows -> Disc!Row \cup {Missing}],
           \A m \in ModelRows : owner[m] # Missing => owner'[m] # Missing,
           \A m \in ModelRows : owner'[m] # owner[m] /\ owner'[m] # Missing => owner'[m].ctx \in (-changes')..changes'
    PROVE  Disc!DiscInv'
<1>1. changes' = changes + 1 /\ changes \in Nat /\ changes' \in 0..ChangeLimit /\ ChangeLimit \in Nat
  BY DiscoveryAssumed DEF Disc!Changed, Disc!DiscInv, Disc!DiscTypeOK, Disc!DiscoveryAssumption
<1>2. scan' = [q \in Scanners |-> [scan[q] EXCEPT !.quiet = FALSE]]
  BY DEF Disc!Changed
<1>3. \A q \in Scanners : /\ scan'[q] \in Disc!Scanning /\ scan'[q].quiet = FALSE /\ scan'[q].idx = scan[q].idx /\ scan'[q].seen = scan[q].seen
                          /\ scan'[q].todo = scan[q].todo /\ scan'[q].read = scan[q].read /\ scan'[q].pc = scan[q].pc /\ scan'[q].offer = scan[q].offer
  <2> SUFFICES ASSUME NEW q \in Scanners PROVE scan'[q] \in Disc!Scanning /\ scan'[q].quiet = FALSE /\ scan'[q].idx = scan[q].idx /\ scan'[q].seen = scan[q].seen
                          /\ scan'[q].todo = scan[q].todo /\ scan'[q].read = scan[q].read /\ scan'[q].pc = scan[q].pc /\ scan'[q].offer = scan[q].offer
    OBVIOUS
  <2>1. scan[q] \in Disc!Scanning /\ scan'[q] = [scan[q] EXCEPT !.quiet = FALSE]
    BY <1>2 DEF Disc!DiscInv
  <2> QED BY <2>1 DEF Disc!Scanning
<1>4. scan' \in [Scanners -> Disc!Scanning]
  BY <1>2, <1>3
<1>5. \A f \in GGUFs, n \in 1..changes, k \in Disc!Kinds : Disc!Tells(f, n, k) => Disc!Tells(f, n, k)'
  BY <1>1 DEF Disc!Tells
<1>6. 1..changes \subseteq 1..changes' /\ (-changes)..changes \subseteq (-changes')..changes'
  BY <1>1
<1>7. \A f \in GGUFs : gguf[f] # Missing => gguf[f].fp \in 1..changes
  BY DEF Disc!DiscInv, Disc!DiscTypeOK
<1>8. Disc!Right(index)'
  <2>1. \A f \in GGUFs : index[f] # Missing => index[f].kind \in Disc!Kinds
    BY DEF Disc!DiscInv, Disc!File
  <2> QED BY <1>5, <1>6, <2>1 DEF Disc!DiscInv, Disc!Right
<1>9. Disc!PassRight'
  BY <1>6 DEF Disc!DiscInv, Disc!PassRight, Disc!Passing
<1>10. ASSUME NEW q \in Scanners PROVE Disc!ReadRight(q)'
  <2>1. scan[q] \in Disc!Scanning /\ Disc!ReadRight(q)
    BY DEF Disc!DiscInv
  <2>2. \A f \in GGUFs : scan[q].idx[f] # Missing => scan[q].idx[f].kind \in Disc!Kinds
    BY <2>1 DEF Disc!Scanning, Disc!File
  <2>3. Disc!Right(scan[q].idx)'
    BY <1>3, <1>5, <1>6, <2>1, <2>2 DEF Disc!ReadRight, Disc!Right
  <2>4. scan[q].read # Missing => scan[q].read[1] \in GGUFs /\ scan[q].read[2] \in Disc!Kinds /\ scan[q].seen[scan[q].read[1]] \in 1..changes
    BY <2>1 DEF Disc!ReadRight, Disc!Scanning
  <2>5. scan'[q].read # Missing => Disc!Tells(scan[q].read[1], scan[q].seen[scan[q].read[1]], scan[q].read[2])'
    BY <1>3, <1>5, <2>1, <2>4 DEF Disc!ReadRight
  <2> QED BY <1>3, <1>6, <2>1, <2>3, <2>5 DEF Disc!ReadRight
<1>11. \A q \in Scanners : Disc!QuietRight(q)'
  BY <1>3 DEF Disc!QuietRight, Disc!DiscInv
<1>12. Disc!DiscTypeOK'
  <2>1. \A f \in GGUFs : gguf'[f] # Missing => gguf'[f].fp \in 1..changes' /\ gguf'[f].kind \in Disc!Kinds
    <3>1. \A f \in GGUFs : gguf'[f] # Missing => gguf'[f].kind \in Disc!Kinds
      BY DEF Disc!File
    <3> QED BY <1>1, <1>7, <3>1
  <2>2. \A f \in GGUFs : index[f] # Missing => index[f].fp \in 1..changes' /\ index[f].kind \in Disc!Kinds
    BY <1>6 DEF Disc!DiscInv, Disc!DiscTypeOK
  <2>3. \A m \in ModelRows : owner'[m] # Missing => owner'[m].path \in GGUFs /\ owner'[m].ctx \in (-changes')..changes'
    <3>1. \A m \in ModelRows : owner'[m] # Missing => owner'[m].path \in GGUFs
      BY DEF Disc!Row
    <3> QED BY <1>6, <3>1 DEF Disc!DiscInv, Disc!DiscTypeOK
  <2> QED BY <1>1, <2>1, <2>2, <2>3 DEF Disc!DiscTypeOK
<1> QED BY <1>4, <1>8, <1>9, <1>10, <1>11, <1>12 DEF Disc!DiscInv

LEMMA FilesChange ==
    ASSUME Disc!DiscInv, NEW f \in GGUFs, (\E k \in Disc!Kinds : Disc!Put(f, k)) \/ Disc!Remove(f)
    PROVE  Disc!DiscInv'
<1>1. Disc!Changed /\ UNCHANGED <<index, owner, refresh>>
  BY DEF Disc!Put, Disc!Remove
<1>2. changes' \in Nat
  BY <1>1 DEF Disc!Changed, Disc!DiscInv, Disc!DiscTypeOK
<1>3. PICK e \in Disc!File \cup {Missing} : gguf' = [gguf EXCEPT ![f] = e] /\ (e = Missing \/ e.fp = changes')
  BY <1>2 DEF Disc!Put, Disc!Remove, Disc!File
<1>4. gguf' \in [GGUFs -> Disc!File \cup {Missing}] /\ \A g \in GGUFs : gguf'[g] = gguf[g] \/ gguf'[g] = Missing \/ gguf'[g].fp = changes'
  BY <1>3 DEF Disc!DiscInv
<1> QED BY <1>1, <1>4, ChangeKeeps DEF Disc!DiscInv

LEMMA OwnersChange ==
    ASSUME Disc!DiscInv, NEW m \in ModelRows, (\E f \in GGUFs : Disc!AddModel(m, f)) \/ Disc!SetContext(m)
    PROVE  Disc!DiscInv'
<1>1. Disc!Changed /\ UNCHANGED <<gguf, index, refresh>>
  BY DEF Disc!AddModel, Disc!SetContext
<1>2. changes' \in Nat
  BY <1>1 DEF Disc!Changed, Disc!DiscInv, Disc!DiscTypeOK
<1>3. PICK r \in Disc!Row : owner' = [owner EXCEPT ![m] = r] /\ r.ctx \in (-changes')..changes'
  <2>n. \A n \in Nat : -n \in (-n)..n /\ 0 \in (-n)..n
    OBVIOUS
  <2>0. -changes' \in (-changes')..changes' /\ 0 \in (-changes')..changes'
    BY <1>2, <2>n
  <2>1. CASE \E f \in GGUFs : Disc!AddModel(m, f)
    <3>1. PICK f \in GGUFs : owner' = [owner EXCEPT ![m] = [path |-> f, ctx |-> 0, size |-> {}]]
      BY <2>1 DEF Disc!AddModel
    <3>2. [path |-> f, ctx |-> 0, size |-> {}] \in Disc!Row
      BY DEF Disc!Row
    <3> QED BY <2>0, <3>1, <3>2
  <2>2. CASE Disc!SetContext(m)
    <3> DEFINE r == [owner[m] EXCEPT !.ctx = -changes']
    <3>1. owner[m] \in Disc!Row
      BY <2>2 DEF Disc!SetContext, Disc!DiscInv
    <3>2. r \in Disc!Row /\ r.ctx = -changes'
      BY <1>2, <3>1 DEF Disc!Row
    <3>3. owner' = [owner EXCEPT ![m] = r]
      BY <2>2 DEF Disc!SetContext
    <3> HIDE DEF r
    <3> QED BY <2>0, <3>2, <3>3
  <2> QED BY <2>1, <2>2
<1>4. r # Missing
  BY DiscoveryAssumed DEF Disc!DiscoveryAssumption
<1>5. owner' \in [ModelRows -> Disc!Row \cup {Missing}] /\ \A n \in ModelRows : n # m => owner'[n] = owner[n]
  BY <1>3 DEF Disc!DiscInv
<1>6. owner'[m] = r
  BY <1>3 DEF Disc!DiscInv
<1> QED BY <1>1, <1>3, <1>4, <1>5, <1>6, ChangeKeeps DEF Disc!DiscInv

-----------------------------------------------------------------------------
\* A scan to which nothing happens.
LEMMA ScanSame ==
    ASSUME NEW q \in Scanners, scan'[q] = scan[q], UNCHANGED <<gguf, changes>>, Disc!Taken' = Disc!Taken
    PROVE  (Disc!ReadRight(q) => Disc!ReadRight(q)') /\ (Disc!QuietRight(q) => Disc!QuietRight(q)')
<1>1. Disc!ReadRight(q) => Disc!ReadRight(q)'
  BY DEF Disc!ReadRight, Disc!Right, Disc!Tells
<1>2. Disc!QuietRight(q) => Disc!QuietRight(q)'
  BY DEF Disc!QuietRight, Disc!Stamp, Disc!Standing
<1> QED BY <1>1, <1>2

\* One scan makes a step.
LEMMA ScanMoves ==
    ASSUME Disc!DiscInv, NEW q \in Scanners, NEW r \in Disc!Scanning, scan' = [scan EXCEPT ![q] = r],
           UNCHANGED <<gguf, owner, refresh, changes>>, index' \in [GGUFs -> Disc!File \cup {Missing}], Disc!Right(index)',
           Disc!ReadRight(q)', Disc!QuietRight(q)'
    PROVE  Disc!DiscInv'
<1>1. scan' \in [Scanners -> Disc!Scanning] /\ \A p \in Scanners : p # q => scan'[p] = scan[p]
  BY DEF Disc!DiscInv
<1>2. Disc!Taken' = Disc!Taken
  BY DEF Disc!Taken
<1>3. \A p \in Scanners : Disc!ReadRight(p)' /\ Disc!QuietRight(p)'
  BY <1>1, <1>2, ScanSame DEF Disc!DiscInv
<1>4. Disc!DiscTypeOK'
  <2>1. \A f \in GGUFs : index'[f] # Missing => index'[f].fp \in 1..changes /\ index'[f].kind \in Disc!Kinds
    BY DEF Disc!Right, Disc!File
  <2> QED BY <2>1 DEF Disc!DiscInv, Disc!DiscTypeOK
<1>5. Disc!PassRight'
  BY DEF Disc!DiscInv, Disc!PassRight
<1> QED BY <1>1, <1>3, <1>4, <1>5 DEF Disc!DiscInv

LEMMA RightSame == ASSUME UNCHANGED <<gguf, index, changes>>, Disc!DiscInv PROVE Disc!Right(index)' /\ index' \in [GGUFs -> Disc!File \cup {Missing}]
  BY DEF Disc!DiscInv, Disc!Right, Disc!Tells

LEMMA Fresh == /\ Disc!NoScan \in Disc!Scanning /\ Disc!NoScan.pc = "idle" /\ Disc!NoScan.todo = {} /\ Disc!NoScan.read = Missing /\ Disc!NoScan.offer = {}
               /\ \A f \in GGUFs : Disc!NoScan.seen[f] = Missing /\ Disc!NoScan.idx[f] = Missing
  BY DEF Disc!NoScan, Disc!NoIndex, Disc!Scanning

LEMMA BeginScanKeeps == ASSUME Disc!DiscInv, NEW q \in Scanners, Disc!BeginScan(q) PROVE Disc!DiscInv'
<1> DEFINE r == [Disc!NoScan EXCEPT !.pc = "load", !.used = Disc!Taken]
<1>1. scan' = [scan EXCEPT ![q] = r] /\ UNCHANGED <<gguf, index, owner, refresh, changes>>
  BY DEF Disc!BeginScan, Disc!Taken
<1>2. Disc!Taken \subseteq GGUFs
  BY DEF Disc!DiscInv, Disc!DiscTypeOK, Disc!Taken
<1>3. /\ r \in Disc!Scanning /\ r.pc = "load" /\ r.used = Disc!Taken /\ r.todo = {} /\ r.read = Missing /\ r.offer = {}
      /\ \A f \in GGUFs : r.seen[f] = Missing /\ r.idx[f] = Missing
  BY <1>2 DEF Disc!NoScan, Disc!NoIndex, Disc!Scanning
<1> HIDE DEF r
<1>4. scan'[q] = r
  BY <1>1 DEF Disc!DiscInv
<1>5. Disc!ReadRight(q)'
  BY <1>3, <1>4 DEF Disc!ReadRight, Disc!Right
<1>6. Disc!Taken' = Disc!Taken
  BY <1>1 DEF Disc!Taken
<1>7. Disc!QuietRight(q)'
  BY <1>3, <1>4, <1>6 DEF Disc!QuietRight
<1> QED BY <1>1, <1>3, <1>5, <1>7, RightSame, ScanMoves

LEMMA LoadKeeps == ASSUME Disc!DiscInv, NEW q \in Scanners, Disc!LoadIndex(q) PROVE Disc!DiscInv'
<1> DEFINE r == [scan[q] EXCEPT !.pc = "walk", !.idx = index, !.walk = GGUFs]
<1>1. scan' = [scan EXCEPT ![q] = r] /\ UNCHANGED <<gguf, index, owner, refresh, changes>> /\ scan[q].pc = "load"
  BY DEF Disc!LoadIndex
<1>2. scan[q] \in Disc!Scanning
  BY DEF Disc!DiscInv
<1>3. /\ r \in Disc!Scanning /\ r.pc = "walk" /\ r.used = scan[q].used /\ r.todo = scan[q].todo /\ r.read = scan[q].read /\ r.offer = scan[q].offer
      /\ r.seen = scan[q].seen /\ r.idx = index /\ r.quiet = scan[q].quiet /\ r.walk = GGUFs
  BY <1>2 DEF Disc!Scanning, Disc!DiscInv
<1> HIDE DEF r
<1>4. scan'[q] = r
  BY <1>1 DEF Disc!DiscInv
<1>5. Disc!ReadRight(q)'
  BY <1>1, <1>3, <1>4 DEF Disc!DiscInv, Disc!ReadRight, Disc!Right, Disc!Tells
<1>6. Disc!Taken' = Disc!Taken
  BY <1>1 DEF Disc!Taken
<1>7. Disc!QuietRight(q)'
  BY <1>1, <1>3, <1>4, <1>6 DEF Disc!DiscInv, Disc!QuietRight
<1> QED BY <1>1, <1>3, <1>5, <1>7, RightSame, ScanMoves

LEMMA SeeKeeps == ASSUME Disc!DiscInv, NEW q \in Scanners, Disc!See(q) PROVE Disc!DiscInv'
<1>1. PICK f \in scan[q].walk : scan' = [scan EXCEPT ![q].walk = @ \ {f}, ![q].seen[f] = IF gguf[f] = Missing THEN Missing ELSE gguf[f].fp]
  BY DEF Disc!See
<1>2. scan[q] \in Disc!Scanning /\ scan[q].pc = "walk" /\ UNCHANGED <<gguf, index, owner, refresh, changes>> /\ f \in GGUFs
  BY DEF Disc!See, Disc!DiscInv, Disc!Scanning
<1> DEFINE r == [scan[q] EXCEPT !.walk = @ \ {f}, !.seen[f] = Disc!Stamp(f)]
<1>3. scan' = [scan EXCEPT ![q] = r]
  BY <1>1 DEF Disc!Stamp
<1>4. Disc!Stamp(f) \in Nat \cup {Missing} /\ (Disc!Stamp(f) # Missing => Disc!Stamp(f) \in 1..changes)
  BY <1>2 DEF Disc!Stamp, Disc!DiscInv, Disc!DiscTypeOK
<1>5. /\ r \in Disc!Scanning /\ r.pc = "walk" /\ r.used = scan[q].used /\ r.todo = scan[q].todo /\ r.read = scan[q].read /\ r.offer = scan[q].offer
      /\ r.seen = [scan[q].seen EXCEPT ![f] = Disc!Stamp(f)] /\ r.idx = scan[q].idx /\ r.quiet = scan[q].quiet /\ r.walk = scan[q].walk \ {f}
  BY <1>2, <1>4 DEF Disc!Scanning
<1> HIDE DEF r
<1>6. scan'[q] = r /\ scan[q].seen \in [GGUFs -> Nat \cup {Missing}]
  BY <1>2, <1>3 DEF Disc!DiscInv, Disc!Scanning
<1>7. r.seen[f] = Disc!Stamp(f) /\ \A g \in GGUFs : g # f => r.seen[g] = scan[q].seen[g]
  BY <1>2, <1>5, <1>6
<1>8. Disc!ReadRight(q) /\ Disc!QuietRight(q)
  BY DEF Disc!DiscInv
<1>9. scan[q].read = Missing
  BY <1>2, <1>8 DEF Disc!ReadRight
<1>10. scan[q].todo = {}
  BY <1>2, <1>8 DEF Disc!ReadRight
<1>11. Disc!ReadRight(q)'
  BY <1>2, <1>4, <1>5, <1>6, <1>7, <1>8, <1>9, <1>10 DEF Disc!ReadRight, Disc!Right, Disc!Tells
<1>12. Disc!Taken' = Disc!Taken /\ \A g : Disc!Stamp(g)' = Disc!Stamp(g)
  BY <1>2 DEF Disc!Taken, Disc!Stamp
<1>13. Disc!QuietRight(q)'
  BY <1>2, <1>5, <1>6, <1>7, <1>8, <1>12 DEF Disc!QuietRight
<1> QED BY <1>2, <1>3, <1>5, <1>11, <1>13, RightSame, ScanMoves

LEMMA DropMissingKeeps == ASSUME Disc!DiscInv, NEW q \in Scanners, Disc!DropMissing(q) PROVE Disc!DiscInv'
<1> DEFINE gone == {f \in GGUFs : scan[q].idx[f] # Missing /\ scan[q].seen[f] = Missing}
           whole == {t \in Sets : \A f \in t : scan[q].seen[f] # Missing}
           firsts == {Primary[t] : t \in whole}
           idx == [f \in GGUFs |-> IF f \in gone THEN Missing ELSE scan[q].idx[f]]
           r == [scan[q] EXCEPT !.pc = "classify", !.idx = idx, !.todo = firsts \ scan[q].used]
<1>1. /\ scan[q].pc = "walk" /\ scan[q].walk = {} /\ UNCHANGED <<gguf, owner, refresh, changes>>
      /\ index' = [f \in GGUFs |-> IF f \in gone THEN Missing ELSE index[f]]
      /\ scan' = [scan EXCEPT ![q] = r]
  BY DEF Disc!DropMissing
<1>2. scan[q] \in Disc!Scanning /\ Disc!ReadRight(q) /\ Disc!QuietRight(q)
  BY DEF Disc!DiscInv
<1>3. firsts \subseteq GGUFs /\ \A f \in firsts : scan[q].seen[f] # Missing
  BY DiscoveryAssumed DEF Disc!DiscoveryAssumption
<1>4. idx \in [GGUFs -> Disc!File \cup {Missing}] /\ Disc!Right(idx)
  BY <1>2 DEF Disc!Scanning, Disc!ReadRight, Disc!Right
<1>5. index' \in [GGUFs -> Disc!File \cup {Missing}] /\ Disc!Right(index)'
  BY <1>1 DEF Disc!DiscInv, Disc!Right, Disc!Tells
<1>f. scan[q].quiet => firsts = Disc!Standing
  <2> SUFFICES ASSUME scan[q].quiet PROVE firsts = Disc!Standing
    OBVIOUS
  <2>1. \A f \in GGUFs : scan[q].seen[f] = Disc!Stamp(f)
    BY <1>1, <1>2 DEF Disc!QuietRight
  <2>2. \A f \in GGUFs : Disc!Stamp(f) # Missing <=> gguf[f] # Missing
    BY DiscoveryAssumed DEF Disc!Stamp, Disc!DiscoveryAssumption, Disc!DiscInv, Disc!File
  <2>3. \A t \in Sets : t \subseteq GGUFs
    BY DiscoveryAssumed DEF Disc!DiscoveryAssumption
  <2>4. whole = {t \in Sets : \A f \in t : gguf[f] # Missing}
    BY <2>1, <2>2, <2>3
  <2> HIDE DEF whole
  <2> QED BY <2>4 DEF Disc!Standing
<1> HIDE DEF gone, whole, firsts, idx
<1>6. /\ r \in Disc!Scanning /\ r.pc = "classify" /\ r.used = scan[q].used /\ r.todo = firsts \ scan[q].used /\ r.read = scan[q].read
      /\ r.seen = scan[q].seen /\ r.idx = idx /\ r.quiet = scan[q].quiet /\ r.offer = scan[q].offer
  BY <1>2, <1>3, <1>4 DEF Disc!Scanning
<1> HIDE DEF r
<1>7. scan'[q] = r
  BY <1>1 DEF Disc!DiscInv
<1>8. scan[q].read = Missing
  BY <1>1, <1>2 DEF Disc!ReadRight
<1>9. Disc!ReadRight(q)'
  BY <1>1, <1>2, <1>3, <1>4, <1>6, <1>7, <1>8 DEF Disc!ReadRight, Disc!Right, Disc!Tells
<1>10. Disc!Taken' = Disc!Taken /\ Disc!Standing' = Disc!Standing /\ \A g : Disc!Stamp(g)' = Disc!Stamp(g)
  BY <1>1 DEF Disc!Taken, Disc!Stamp, Disc!Standing
<1>o. scan[q].offer = {}
  BY <1>1, <1>2 DEF Disc!QuietRight
<1>11. Disc!QuietRight(q)'
  <2> SUFFICES ASSUME scan[q].quiet
               PROVE  /\ r.used = Disc!Taken /\ (\A f \in GGUFs : r.seen[f] = Disc!Stamp(f)) /\ r.todo \subseteq Disc!Standing \ Disc!Taken
                      /\ r.offer = {<<f, gguf[f].kind>> : f \in {g \in Disc!Standing \ (Disc!Taken \cup r.todo) : gguf[g].kind # "helper"}}
    BY <1>1, <1>6, <1>7, <1>10 DEF Disc!QuietRight
  <2>1. scan[q].used = Disc!Taken /\ \A f \in GGUFs : scan[q].seen[f] = Disc!Stamp(f)
    BY <1>1, <1>2 DEF Disc!QuietRight
  <2>2. r.todo = Disc!Standing \ Disc!Taken
    BY <1>6, <1>f, <2>1
  <2> QED BY <1>6, <1>o, <2>1, <2>2
<1> QED BY <1>1, <1>5, <1>6, <1>9, <1>11, ScanMoves

\* A file is done with: whether it was in the index or had to be read.
LEMMA DoneWith ==
    ASSUME Disc!DiscInv, NEW q \in Scanners, NEW r \in Disc!Scanning, scan' = [scan EXCEPT ![q] = r],
           UNCHANGED <<gguf, owner, refresh, changes>>, index' \in [GGUFs -> Disc!File \cup {Missing}], Disc!Right(index)',
           scan[q].pc = "classify", NEW f \in scan[q].todo, NEW k \in Disc!Kinds, Disc!Tells(f, scan[q].seen[f], k),
           r.pc = "classify", r.used = scan[q].used, r.todo = scan[q].todo \ {f}, r.read = Missing, r.seen = scan[q].seen,
           r.quiet = scan[q].quiet, r.offer = IF k = "helper" THEN scan[q].offer ELSE scan[q].offer \cup {<<f, k>>},
           Disc!Right(r.idx)
    PROVE  Disc!DiscInv'
<1>1. scan[q] \in Disc!Scanning /\ Disc!ReadRight(q) /\ Disc!QuietRight(q) /\ scan'[q] = r
  BY DEF Disc!DiscInv
<1>2. Disc!ReadRight(q)'
  BY <1>1 DEF Disc!ReadRight, Disc!Right, Disc!Tells
<1>3. Disc!Taken' = Disc!Taken /\ Disc!Standing' = Disc!Standing /\ \A g : Disc!Stamp(g)' = Disc!Stamp(g)
  BY DEF Disc!Taken, Disc!Stamp, Disc!Standing
<1>4. Disc!QuietRight(q)'
  <2> SUFFICES ASSUME scan[q].quiet
               PROVE  /\ r.used = Disc!Taken /\ (\A g \in GGUFs : r.seen[g] = Disc!Stamp(g)) /\ r.todo \subseteq Disc!Standing \ Disc!Taken
                      /\ r.offer = {<<g, gguf[g].kind>> : g \in {h \in Disc!Standing \ (Disc!Taken \cup r.todo) : gguf[h].kind # "helper"}}
    BY <1>1, <1>3 DEF Disc!QuietRight
  <2>1. /\ scan[q].used = Disc!Taken /\ (\A g \in GGUFs : scan[q].seen[g] = Disc!Stamp(g)) /\ scan[q].todo \subseteq Disc!Standing \ Disc!Taken
        /\ scan[q].offer = {<<g, gguf[g].kind>> : g \in {h \in Disc!Standing \ (Disc!Taken \cup scan[q].todo) : gguf[h].kind # "helper"}}
    BY <1>1 DEF Disc!QuietRight
  <2>2. f \in GGUFs /\ f \in Disc!Standing \ Disc!Taken /\ scan[q].seen[f] # Missing
    BY <1>1, <2>1, FirstFiles DEF Disc!ReadRight
  <2>3. gguf[f].kind = k
    BY <2>1, <2>2 DEF Disc!Stamp, Disc!Tells
  <2> DEFINE S == {h \in Disc!Standing \ (Disc!Taken \cup scan[q].todo) : gguf[h].kind # "helper"}
             T == {h \in Disc!Standing \ (Disc!Taken \cup (scan[q].todo \ {f})) : gguf[h].kind # "helper"}
  <2>4. T = IF k = "helper" THEN S ELSE S \cup {f}
    BY <2>2, <2>3
  <2> HIDE DEF S, T
  <2>5. {<<g, gguf[g].kind>> : g \in T} = IF k = "helper" THEN {<<g, gguf[g].kind>> : g \in S} ELSE {<<g, gguf[g].kind>> : g \in S} \cup {<<f, k>>}
    BY <2>3, <2>4
  <2> QED BY <2>1, <2>5 DEF S, T
<1> QED BY <1>2, <1>4, ScanMoves

LEMMA MoreOffers ==
    ASSUME NEW q \in Scanners, scan[q] \in Disc!Scanning, NEW f \in GGUFs, NEW k \in Disc!Kinds
    PROVE  \E o \in SUBSET (GGUFs \X Disc!Kinds) : o = IF k = "helper" THEN scan[q].offer ELSE scan[q].offer \cup {<<f, k>>}
<1>1. scan[q].offer \in SUBSET (GGUFs \X Disc!Kinds)
  BY DEF Disc!Scanning
<1>2. scan[q].offer \cup {<<f, k>>} \in SUBSET (GGUFs \X Disc!Kinds)
  <2>1. <<f, k>> \in GGUFs \X Disc!Kinds
    OBVIOUS
  <2> HIDE DEF Disc!Kinds
  <2> QED BY <1>1, <2>1
<1> QED BY <1>1, <1>2

LEMMA ClassifyKeeps == ASSUME Disc!DiscInv, NEW q \in Scanners, Disc!Classify(q) PROVE Disc!DiscInv'
<1>1. /\ scan[q].pc = "classify" /\ scan[q].read = Missing /\ UNCHANGED <<gguf, index, owner, refresh, changes>>
      /\ scan[q] \in Disc!Scanning /\ Disc!ReadRight(q) /\ Disc!QuietRight(q)
  BY DEF Disc!Classify, Disc!DiscInv
<1>2. PICK f \in scan[q].todo :
         scan' = IF Disc!Cached(scan[q].idx, f, scan[q].seen[f])
                 THEN [scan EXCEPT ![q].todo = @ \ {f}, ![q].offer = IF scan[q].idx[f].kind = "helper" THEN @ ELSE @ \cup {<<f, scan[q].idx[f].kind>>}]
                 ELSE [scan EXCEPT ![q].read = <<f, Disc!KindNow(f)>>]
  BY DEF Disc!Classify
<1>3. f \in GGUFs
  BY <1>1 DEF Disc!Scanning
<1>4. CASE Disc!Cached(scan[q].idx, f, scan[q].seen[f])
  <2>1. PICK k \in Disc!Kinds : k = scan[q].idx[f].kind
    BY <1>1, <1>3, <1>4 DEF Disc!Cached, Disc!Scanning, Disc!File
  <2>o. PICK o \in SUBSET (GGUFs \X Disc!Kinds) : o = IF k = "helper" THEN scan[q].offer ELSE scan[q].offer \cup {<<f, k>>}
    BY <1>1, <1>3, MoreOffers
  <2> DEFINE r == [scan[q] EXCEPT !.todo = scan[q].todo \ {f}, !.offer = o]
  <2>2. scan' = [scan EXCEPT ![q] = r]
    BY <1>2, <1>4, <2>1, <2>o
  <2>3. Disc!Tells(f, scan[q].seen[f], k)
    BY <1>1, <1>3, <1>4, <2>1 DEF Disc!Cached, Disc!ReadRight, Disc!Right
  <2>4. /\ r \in Disc!Scanning /\ r.pc = "classify" /\ r.used = scan[q].used /\ r.todo = scan[q].todo \ {f} /\ r.read = Missing
        /\ r.seen = scan[q].seen /\ r.quiet = scan[q].quiet /\ r.idx = scan[q].idx
        /\ r.offer = o
    BY <1>1, <1>3 DEF Disc!Scanning
  <2> HIDE DEF r
  <2>5. Disc!Right(r.idx)
    BY <1>1, <2>4 DEF Disc!ReadRight
  <2> QED BY <1>1, <2>2, <2>3, <2>4, <2>5, <2>o, RightSame, DoneWith
<1>5. CASE ~Disc!Cached(scan[q].idx, f, scan[q].seen[f])
  <2>1. PICK k \in Disc!Kinds : k = Disc!KindNow(f)
    BY <1>3 DEF Disc!KindNow, Disc!Kinds, Disc!DiscInv, Disc!DiscTypeOK
  <2> DEFINE r == [scan[q] EXCEPT !.read = <<f, k>>]
  <2>2. scan' = [scan EXCEPT ![q] = r]
    BY <1>2, <1>5, <2>1
  <2>3. /\ r \in Disc!Scanning /\ r.pc = "classify" /\ r.used = scan[q].used /\ r.todo = scan[q].todo /\ r.read = <<f, k>>
        /\ r.seen = scan[q].seen /\ r.quiet = scan[q].quiet /\ r.idx = scan[q].idx /\ r.offer = scan[q].offer
    BY <1>1, <1>3 DEF Disc!Scanning
  <2>4. Disc!Tells(f, scan[q].seen[f], k)
    BY <2>1 DEF Disc!Tells, Disc!KindNow
  <2> HIDE DEF r
  <2>5. scan'[q] = r
    BY <2>2 DEF Disc!DiscInv
  <2>6. Disc!ReadRight(q)'
    BY <1>1, <2>3, <2>4, <2>5 DEF Disc!ReadRight, Disc!Right, Disc!Tells
  <2>7. Disc!Taken' = Disc!Taken /\ Disc!Standing' = Disc!Standing /\ \A g : Disc!Stamp(g)' = Disc!Stamp(g)
    BY <1>1 DEF Disc!Taken, Disc!Stamp, Disc!Standing
  <2>8. Disc!QuietRight(q)'
    BY <1>1, <2>3, <2>5, <2>7 DEF Disc!QuietRight
  <2> QED BY <1>1, <2>2, <2>3, <2>6, <2>8, RightSame, ScanMoves
<1> QED BY <1>4, <1>5

\* What is stored under a fingerprint tells what the file was under it.
LEMMA StoreRight ==
    ASSUME Disc!DiscInv, NEW f \in GGUFs, NEW n \in 1..changes, NEW k \in Disc!Kinds, Disc!Tells(f, n, k), NEW idx \in [GGUFs -> Disc!File \cup {Missing}], Disc!Right(idx)
    PROVE  [idx EXCEPT ![f] = Disc!Entry(f, n, k)] \in [GGUFs -> Disc!File \cup {Missing}] /\ Disc!Right([idx EXCEPT ![f] = Disc!Entry(f, n, k)])
<1>1. Disc!Entry(f, n, k) \in Disc!File /\ Disc!Entry(f, n, k).fp = n /\ Disc!Entry(f, n, k).kind = k
  BY DEF Disc!Entry, Disc!File, Disc!DiscInv, Disc!DiscTypeOK
<1> QED BY <1>1 DEF Disc!Right

LEMMA StoreReadKeeps == ASSUME Disc!DiscInv, NEW q \in Scanners, Disc!StoreRead(q) PROVE Disc!DiscInv'
<1>1. /\ scan[q].read # Missing /\ UNCHANGED <<gguf, owner, refresh, changes>>
      /\ scan[q] \in Disc!Scanning /\ Disc!ReadRight(q) /\ Disc!QuietRight(q)
  BY DEF Disc!StoreRead, Disc!DiscInv
<1>2. PICK f \in GGUFs, k \in Disc!Kinds : scan[q].read = <<f, k>>
  BY <1>1 DEF Disc!Scanning
<1>3. /\ scan[q].pc = "classify" /\ f \in scan[q].todo /\ scan[q].seen[f] \in 1..changes /\ Disc!Tells(f, scan[q].seen[f], k)
  BY <1>1, <1>2 DEF Disc!ReadRight
<1>4. PICK n \in 1..changes : n = scan[q].seen[f]
  BY <1>3
<1>5. index' = [index EXCEPT ![f] = Disc!Entry(f, n, k)] /\ scan' = Disc!Offer(q, f, k)
  BY <1>1, <1>2, <1>4 DEF Disc!StoreRead, Disc!Store
<1>6. index' \in [GGUFs -> Disc!File \cup {Missing}] /\ Disc!Right(index)'
  <2>1. [index EXCEPT ![f] = Disc!Entry(f, n, k)] \in [GGUFs -> Disc!File \cup {Missing}] /\ Disc!Right([index EXCEPT ![f] = Disc!Entry(f, n, k)])
    BY <1>3, <1>4, StoreRight DEF Disc!DiscInv
  <2> QED BY <1>1, <1>5, <2>1 DEF Disc!Right, Disc!Tells
<1> DEFINE idx == [scan[q].idx EXCEPT ![f] = Disc!Entry(f, n, k)]
<1>o. PICK o \in SUBSET (GGUFs \X Disc!Kinds) : o = IF k = "helper" THEN scan[q].offer ELSE scan[q].offer \cup {<<f, k>>}
  BY <1>1, MoreOffers
<1> DEFINE r == [scan[q] EXCEPT !.todo = scan[q].todo \ {f}, !.read = Missing, !.idx = idx, !.offer = o]
<1>7. scan' = [scan EXCEPT ![q] = r]
  BY ZenonT(60), <1>4, <1>5, <1>o DEF Disc!Offer
<1>8. idx \in [GGUFs -> Disc!File \cup {Missing}] /\ Disc!Right(idx)
  <2>1. scan[q].idx \in [GGUFs -> Disc!File \cup {Missing}] /\ Disc!Right(scan[q].idx)
    BY <1>1 DEF Disc!Scanning, Disc!ReadRight
  <2> QED BY <1>3, <1>4, <2>1, StoreRight
<1> HIDE DEF idx
<1>9. /\ r \in Disc!Scanning /\ r.pc = "classify" /\ r.used = scan[q].used /\ r.todo = scan[q].todo \ {f} /\ r.read = Missing
      /\ r.seen = scan[q].seen /\ r.quiet = scan[q].quiet /\ r.idx = idx
      /\ r.offer = o
  BY <1>1, <1>3, <1>8 DEF Disc!Scanning
<1> HIDE DEF r
<1> QED BY <1>1, <1>3, <1>6, <1>7, <1>8, <1>9, <1>o, DoneWith

LEMMA AnswerScanKeeps == ASSUME Disc!DiscInv, NEW q \in Scanners, Disc!AnswerScan(q) PROVE Disc!DiscInv'
<1>1. scan' = [scan EXCEPT ![q] = Disc!NoScan] /\ UNCHANGED <<gguf, index, owner, refresh, changes>>
  BY DEF Disc!AnswerScan
<1>2. scan'[q] = Disc!NoScan
  BY <1>1 DEF Disc!DiscInv
<1>3. Disc!ReadRight(q)' /\ Disc!QuietRight(q)'
  BY <1>2, Fresh DEF Disc!ReadRight, Disc!QuietRight, Disc!Right
<1> QED BY <1>1, <1>3, Fresh, RightSame, ScanMoves

-----------------------------------------------------------------------------
\* The reconciler makes a step.
LEMMA PassMoves ==
    ASSUME Disc!DiscInv, UNCHANGED <<gguf, scan, changes>>, refresh' \in Disc!Passing, Disc!PassRight',
           index' \in [GGUFs -> Disc!File \cup {Missing}], Disc!Right(index)', owner' \in [ModelRows -> Disc!Row \cup {Missing}],
           \A m \in ModelRows : owner'[m] = owner[m] \/ (owner[m] # Missing /\ owner'[m] # Missing /\ owner'[m].path = owner[m].path
                                                      /\ owner'[m].ctx \in (-changes)..changes)
    PROVE  Disc!DiscInv'
<1>1. Disc!Taken' = Disc!Taken
  BY DEF Disc!Taken
<1>2. \A q \in Scanners : Disc!ReadRight(q)' /\ Disc!QuietRight(q)'
  BY <1>1, ScanSame DEF Disc!DiscInv
<1>3. Disc!DiscTypeOK'
  <2>1. \A f \in GGUFs : index'[f] # Missing => index'[f].fp \in 1..changes /\ index'[f].kind \in Disc!Kinds
    BY DEF Disc!Right, Disc!File
  <2>2. \A m \in ModelRows : owner'[m] # Missing => owner'[m].path \in GGUFs /\ owner'[m].ctx \in (-changes)..changes
    BY DEF Disc!DiscInv, Disc!DiscTypeOK
  <2> QED BY <2>1, <2>2 DEF Disc!DiscInv, Disc!DiscTypeOK
<1> QED BY <1>2, <1>3 DEF Disc!DiscInv

LEMMA NoPassIn == Disc!NoPass \in Disc!Passing /\ Disc!NoPass.pc = "idle" /\ Disc!NoPass.todo = {}
  BY DEF Disc!NoPass, Disc!Passing

LEMMA WholeSizes == ASSUME Disc!DiscInv, NEW f \in GGUFs, Disc!Whole(f) PROVE Disc!WholeSize(f) \in SUBSET Nat
<1>1. Disc!SetOf(f) \in Sets
  BY DiscoveryAssumed DEF Disc!SetOf, Disc!DiscoveryAssumption
<1>2. \A g \in Disc!SetOf(f) : g \in GGUFs /\ gguf[g] \in Disc!File
  BY <1>1, DiscoveryAssumed DEF Disc!Whole, Disc!DiscInv, Disc!DiscoveryAssumption
<1> QED BY <1>2 DEF Disc!WholeSize, Disc!File

LEMMA PassKeeps == ASSUME Disc!DiscInv, Disc!RefreshStep PROVE Disc!DiscInv'
<1>1. UNCHANGED <<gguf, scan, changes>> /\ refresh \in Disc!Passing /\ Disc!PassRight
  BY DEF Disc!RefreshStep, Disc!BeginPass, Disc!NextModel, Disc!WriteSize, Disc!FindContext, Disc!ReadContext, Disc!FillContext, Disc!DiscInv
<1>2. UNCHANGED owner => owner' \in [ModelRows -> Disc!Row \cup {Missing}] /\ \A m \in ModelRows : owner'[m] = owner[m]
  BY DEF Disc!DiscInv
<1>3. CASE Disc!BeginPass
  <2>1. UNCHANGED <<index, owner>> /\ refresh' = [Disc!NoPass EXCEPT !.pc = "next", !.todo = {m \in ModelRows : owner[m] # Missing}]
    BY <1>3 DEF Disc!BeginPass
  <2>2. refresh' \in Disc!Passing /\ refresh'.pc = "next" /\ refresh'.todo = {m \in ModelRows : owner[m] # Missing}
    BY <2>1 DEF Disc!NoPass, Disc!Passing
  <2>3. Disc!PassRight'
    BY <2>1, <2>2 DEF Disc!PassRight
  <2> QED BY <1>1, <1>2, <2>1, <2>2, <2>3, RightSame, PassMoves
<1>4. CASE Disc!NextModel
  <2>1. UNCHANGED <<index, owner>>
    BY <1>4 DEF Disc!NextModel
  <2>2. refresh' \in Disc!Passing /\ Disc!PassRight'
    <3>1. CASE refresh' = Disc!NoPass
      BY <3>1, NoPassIn DEF Disc!PassRight
    <3>2. CASE refresh' # Disc!NoPass
      <4>1. PICK m \in refresh.todo :
              refresh' = [refresh EXCEPT !.todo = @ \ {m}, !.m = m, !.pc = IF Disc!Whole(owner[m].path) THEN "size" ELSE "context",
                                         !.size = IF Disc!Whole(owner[m].path) THEN Disc!WholeSize(owner[m].path) ELSE {}]
        BY <1>4, <3>2 DEF Disc!NextModel
      <4>2. m \in ModelRows /\ owner[m] # Missing /\ owner[m].path \in GGUFs
        BY <1>1 DEF Disc!Passing, Disc!PassRight, Disc!DiscInv, Disc!DiscTypeOK
      <4>3. PICK z \in SUBSET Nat : z = IF Disc!Whole(owner[m].path) THEN Disc!WholeSize(owner[m].path) ELSE {}
        BY <4>2, WholeSizes
      <4>4. PICK pc \in {"size", "context"} : pc = IF Disc!Whole(owner[m].path) THEN "size" ELSE "context"
        OBVIOUS
      <4>5. refresh' = [refresh EXCEPT !.todo = refresh.todo \ {m}, !.m = m, !.pc = pc, !.size = z]
        BY <4>1, <4>3, <4>4
      <4>6. refresh' \in Disc!Passing /\ refresh'.pc = pc /\ refresh'.m = m /\ refresh'.todo = refresh.todo \ {m}
        BY <1>1, <4>2, <4>5 DEF Disc!Passing
      <4> QED BY <1>1, <2>1, <4>2, <4>6 DEF Disc!PassRight
    <3> QED BY <3>1, <3>2
  <2> QED BY <1>1, <1>2, <2>1, <2>2, RightSame, PassMoves
<1>5. CASE Disc!WriteSize
  <2>1. UNCHANGED index /\ owner' = [owner EXCEPT ![refresh.m].size = refresh.size] /\ refresh' = [refresh EXCEPT !.pc = "context"] /\ refresh.pc = "size"
    BY <1>5 DEF Disc!WriteSize
  <2>2. PICK m \in ModelRows : m = refresh.m
    BY <1>1, <2>1 DEF Disc!PassRight
  <2>3. PICK r \in Disc!Row : r = [owner[m] EXCEPT !.size = refresh.size] /\ r.path = owner[m].path /\ r.ctx = owner[m].ctx
    BY <1>1, <2>1, <2>2 DEF Disc!PassRight, Disc!DiscInv, Disc!Row, Disc!Passing
  <2>4. owner[m] # Missing /\ owner[m].ctx \in (-changes)..changes /\ r # Missing
    BY <1>1, <2>1, <2>2, DiscoveryAssumed DEF Disc!PassRight, Disc!DiscInv, Disc!DiscTypeOK, Disc!DiscoveryAssumption
  <2>5. owner' = [owner EXCEPT ![m] = r]
    BY <2>1, <2>2, <2>3
  <2>6. /\ owner' \in [ModelRows -> Disc!Row \cup {Missing}]
        /\ \A n \in ModelRows : owner'[n] = IF n = m THEN r ELSE owner[n]
    BY <2>5 DEF Disc!DiscInv
  <2>7. refresh' \in Disc!Passing /\ refresh'.pc = "context" /\ refresh'.m = m /\ refresh'.todo = refresh.todo
    BY <1>1, <2>1, <2>2 DEF Disc!Passing
  <2>8. Disc!PassRight'
    BY <1>1, <2>4, <2>6, <2>7 DEF Disc!PassRight, Disc!Passing
  <2> QED BY <1>1, <2>1, <2>3, <2>4, <2>6, <2>7, <2>8, RightSame, PassMoves
<1>6. CASE Disc!FindContext
  <2>1. UNCHANGED <<index, owner>> /\ refresh.pc = "context"
    BY <1>6 DEF Disc!FindContext
  <2>2. owner[refresh.m].path \in GGUFs /\ refresh.m \in ModelRows /\ owner[refresh.m] # Missing
    BY <1>1, <2>1 DEF Disc!PassRight, Disc!DiscInv, Disc!DiscTypeOK
  <2>3. CASE refresh' = [refresh EXCEPT !.pc = "next"]
    <3>1. refresh' \in Disc!Passing /\ refresh'.pc = "next" /\ refresh'.todo = refresh.todo
      BY <1>1, <2>3 DEF Disc!Passing
    <3>2. Disc!PassRight'
      BY <1>1, <2>1, <3>1 DEF Disc!PassRight
    <3> QED BY <1>1, <1>2, <2>1, <3>1, <3>2, RightSame, PassMoves
  <2>4. CASE gguf[owner[refresh.m].path] # Missing /\ refresh' = [refresh EXCEPT !.pc = "read", !.fp = gguf[owner[refresh.m].path].fp]
    <3>1. PICK n \in 1..changes : n = gguf[owner[refresh.m].path].fp
      BY <2>2, <2>4 DEF Disc!DiscInv, Disc!DiscTypeOK
    <3>2. n \in Nat
      BY SMTT(60), <3>1 DEF Disc!DiscInv, Disc!DiscTypeOK
    <3>3. refresh' \in Disc!Passing /\ refresh'.pc = "read" /\ refresh'.fp = n /\ refresh'.m = refresh.m /\ refresh'.todo = refresh.todo
      BY <1>1, <2>4, <3>1, <3>2 DEF Disc!Passing
    <3>4. Disc!PassRight'
      BY <1>1, <2>1, <2>2, <3>3 DEF Disc!PassRight
    <3> QED BY <1>1, <1>2, <2>1, <3>3, <3>4, RightSame, PassMoves
  <2> QED BY <1>6, <2>3, <2>4 DEF Disc!FindContext
<1>7. CASE Disc!ReadContext
  <2>1. UNCHANGED owner /\ refresh.pc = "read"
    BY <1>7 DEF Disc!ReadContext
  <2>2. PICK f \in GGUFs : f = owner[refresh.m].path
    BY <1>1, <2>1 DEF Disc!PassRight, Disc!DiscInv, Disc!DiscTypeOK
  <2>3. PICK n \in 1..changes : n = refresh.fp
    BY <1>1, <2>1 DEF Disc!PassRight
  <2>4. PICK k \in Disc!Kinds : refresh' = [refresh EXCEPT !.pc = "fill", !.read = k]
    <3>1. CASE Disc!Cached(index, f, n)
      <4>1. refresh' = [refresh EXCEPT !.pc = "fill", !.read = index[f].kind]
        BY <1>7, <2>2, <2>3, <3>1 DEF Disc!ReadContext
      <4>2. index[f].kind \in Disc!Kinds
        BY <3>1 DEF Disc!Cached, Disc!DiscInv, Disc!DiscTypeOK
      <4> QED BY <4>1, <4>2
    <3>2. CASE ~Disc!Cached(index, f, n)
      <4>1. refresh' = [refresh EXCEPT !.pc = "fill", !.read = Disc!KindNow(f)]
        BY <1>7, <2>2, <2>3, <3>2 DEF Disc!ReadContext
      <4>2. Disc!KindNow(f) \in Disc!Kinds
        BY DEF Disc!KindNow, Disc!Kinds, Disc!DiscInv, Disc!DiscTypeOK
      <4> QED BY <4>1, <4>2
    <3> QED BY <3>1, <3>2
  <2>5. refresh' \in Disc!Passing /\ refresh'.pc = "fill" /\ refresh'.fp = n /\ refresh'.m = refresh.m /\ refresh'.todo = refresh.todo
    BY <1>1, <2>3, <2>4 DEF Disc!Passing
  <2>6. Disc!PassRight'
    BY <1>1, <2>1, <2>5 DEF Disc!PassRight
  <2>7. index' \in [GGUFs -> Disc!File \cup {Missing}] /\ Disc!Right(index)'
    <3>1. CASE UNCHANGED index
      BY <1>1, <3>1, RightSame
    <3>2. CASE ~UNCHANGED index
      <4>1. index' = [index EXCEPT ![f] = Disc!Entry(f, n, Disc!KindNow(f))]
        BY <1>7, <2>2, <2>3, <3>2 DEF Disc!ReadContext, Disc!Store
      <4>2. Disc!KindNow(f) \in Disc!Kinds /\ Disc!Tells(f, n, Disc!KindNow(f))
        BY DEF Disc!KindNow, Disc!Kinds, Disc!Tells, Disc!DiscInv, Disc!DiscTypeOK
      <4>3. [index EXCEPT ![f] = Disc!Entry(f, n, Disc!KindNow(f))] \in [GGUFs -> Disc!File \cup {Missing}] /\ Disc!Right([index EXCEPT ![f] = Disc!Entry(f, n, Disc!KindNow(f))])
        BY <4>2, StoreRight DEF Disc!DiscInv
      <4> QED BY <1>1, <4>1, <4>3 DEF Disc!Right, Disc!Tells
    <3> QED BY <3>1, <3>2
  <2> QED BY <1>1, <1>2, <2>1, <2>5, <2>6, <2>7, PassMoves
<1>8. CASE Disc!FillContext
  <2>1. UNCHANGED index /\ refresh.pc = "fill" /\ refresh' = [refresh EXCEPT !.pc = "next", !.read = Missing]
    BY <1>8 DEF Disc!FillContext
  <2>2. PICK m \in ModelRows : m = refresh.m
    BY <1>1, <2>1 DEF Disc!PassRight
  <2>3. PICK n \in 1..changes : n = refresh.fp
    BY <1>1, <2>1 DEF Disc!PassRight
  <2>4. n \in Nat /\ n \in (-changes)..changes
    BY <2>3 DEF Disc!DiscInv, Disc!DiscTypeOK
  <2>5. refresh' \in Disc!Passing /\ refresh'.pc = "next" /\ refresh'.todo = refresh.todo
    BY <1>1, <2>1 DEF Disc!Passing
  <2>6. CASE UNCHANGED owner
    <3>1. Disc!PassRight'
      BY <1>1, <2>5, <2>6 DEF Disc!PassRight
    <3> QED BY <1>1, <1>2, <2>1, <2>5, <2>6, <3>1, RightSame, PassMoves
  <2>7. CASE owner' = [owner EXCEPT ![m].ctx = n]
    <3>1. PICK r \in Disc!Row : r = [owner[m] EXCEPT !.ctx = n] /\ r.path = owner[m].path /\ r.ctx = n
      <4>1. owner[m] \in Disc!Row
        BY <1>1, <2>1, <2>2 DEF Disc!PassRight, Disc!DiscInv
      <4> DEFINE r == [owner[m] EXCEPT !.ctx = n]
      <4>2. r \in Disc!Row /\ r.path = owner[m].path /\ r.ctx = n
        BY <2>4, <4>1 DEF Disc!Row
      <4> QED BY <4>2
    <3>2. owner[m] # Missing /\ r # Missing
      BY <1>1, <2>1, <2>2, DiscoveryAssumed DEF Disc!PassRight, Disc!DiscoveryAssumption
    <3>3. owner' = [owner EXCEPT ![m] = r]
      BY <2>7, <3>1
    <3>4. owner' \in [ModelRows -> Disc!Row \cup {Missing}] /\ \A o \in ModelRows : owner'[o] = IF o = m THEN r ELSE owner[o]
      BY <3>3 DEF Disc!DiscInv
    <3>5. Disc!PassRight'
      BY <1>1, <2>5, <3>2, <3>4 DEF Disc!PassRight, Disc!Passing
    <3> QED BY <1>1, <2>1, <2>4, <2>5, <3>1, <3>2, <3>4, <3>5, RightSame, PassMoves
  <2> QED BY <1>8, <2>2, <2>3, <2>6, <2>7 DEF Disc!FillContext
<1> QED BY SMTT(60), <1>3, <1>4, <1>5, <1>6, <1>7, <1>8 DEF Disc!RefreshStep

LEMMA DiscGo == Disc!DiscInv /\ [Disc!DiscNext]_(Disc!discVars) => Disc!DiscInv'
<1> SUFFICES ASSUME Disc!DiscInv, [Disc!DiscNext]_(Disc!discVars) PROVE Disc!DiscInv'
  OBVIOUS
<1>1. CASE UNCHANGED Disc!discVars
  <2>1. Disc!Taken' = Disc!Taken
    BY <1>1 DEF Disc!discVars, Disc!Taken
  <2>2. \A q \in Scanners : Disc!ReadRight(q)' /\ Disc!QuietRight(q)'
    BY <1>1, <2>1, ScanSame DEF Disc!discVars, Disc!DiscInv
  <2> QED BY <1>1, <2>2 DEF Disc!discVars, Disc!DiscInv, Disc!DiscTypeOK, Disc!Right, Disc!Tells, Disc!PassRight
<1>2. ASSUME NEW q \in Scanners,
             Disc!BeginScan(q) \/ Disc!LoadIndex(q) \/ Disc!See(q) \/ Disc!DropMissing(q) \/ Disc!Classify(q) \/ Disc!StoreRead(q) \/ Disc!AnswerScan(q)
      PROVE  Disc!DiscInv'
  BY <1>2, BeginScanKeeps, LoadKeeps, SeeKeeps, DropMissingKeeps, ClassifyKeeps, StoreReadKeeps, AnswerScanKeeps
<1> QED BY <1>1, <1>2, FilesChange, OwnersChange, PassKeeps DEF Disc!DiscNext

\* The index tells what the files hold, and a quiet scan offers what it should.
LEMMA OffersRight == ASSUME Disc!DiscInv PROVE Disc!IndexRight /\ Disc!OfferRight
<1>1. Disc!IndexRight
  BY DEF Disc!DiscInv, Disc!Right, Disc!Tells, Disc!IndexRight
<1>2. ASSUME NEW q \in Scanners, scan[q].pc = "classify", scan[q].todo = {}, scan[q].quiet
      PROVE  scan[q].offer = {<<Primary[s], gguf[Primary[s]].kind>> :
            s \in {t \in Sets : /\ \A f \in t : gguf[f] # Missing
                                /\ gguf[Primary[t]].kind # "helper"
                                /\ \A m \in ModelRows : owner[m] # Missing => owner[m].path # Primary[t]}}
  <2>1. scan[q].offer = {<<f, gguf[f].kind>> : f \in {g \in Disc!Standing \ Disc!Taken : gguf[g].kind # "helper"}}
    BY <1>2 DEF Disc!DiscInv, Disc!QuietRight
  <2>2. \A f : f \in Disc!Taken <=> \E m \in ModelRows : owner[m] # Missing /\ owner[m].path = f
    BY DEF Disc!Taken
  <2>3. \A f : f \in Disc!Standing <=> \E t \in Sets : f = Primary[t] /\ \A g \in t : gguf[g] # Missing
    BY SMTT(60) DEF Disc!Standing
  <2> QED BY <2>1, <2>2, <2>3
<1> QED BY <1>1, <1>2 DEF Disc!OfferRight

\* A context given by hand stays.
LEMMA GivenStays == Disc!DiscInv /\ [Disc!DiscNext]_(Disc!discVars) => Disc!GivenKept
<1> SUFFICES ASSUME Disc!DiscInv, [Disc!DiscNext]_(Disc!discVars), NEW m \in ModelRows, owner[m] # Missing, owner[m].ctx < 0
             PROVE  owner'[m].ctx < 0
  BY DEF Disc!GivenKept
<1>1. owner \in [ModelRows -> Disc!Row \cup {Missing}] /\ owner[m] \in Disc!Row
  BY DEF Disc!DiscInv
<1>2. ASSUME NEW n \in ModelRows, NEW f \in GGUFs, Disc!AddModel(n, f) PROVE owner'[m].ctx < 0
  BY <1>1, <1>2 DEF Disc!AddModel
<1>3. ASSUME NEW n \in ModelRows, Disc!SetContext(n) PROVE owner'[m].ctx < 0
  <2>1. changes' \in Nat /\ changes' > 0
    BY <1>3 DEF Disc!SetContext, Disc!Changed, Disc!DiscInv, Disc!DiscTypeOK
  <2>2. -changes' < 0
    <3>1. \A i \in Nat : i > 0 => -i < 0
      OBVIOUS
    <3> QED BY <2>1, <3>1
  <2>3. owner' = [owner EXCEPT ![n].ctx = -changes']
    BY <1>3 DEF Disc!SetContext
  <2>4. CASE n = m
    BY <1>1, <2>2, <2>3, <2>4 DEF Disc!Row
  <2>5. CASE n # m
    BY <1>1, <2>3, <2>5
  <2> QED BY <2>4, <2>5
<1>4. CASE Disc!WriteSize
  BY <1>1, <1>4 DEF Disc!WriteSize, Disc!Row
<1>5. CASE Disc!FillContext
  BY <1>1, <1>5 DEF Disc!FillContext
<1>6. UNCHANGED owner => owner'[m].ctx < 0
  OBVIOUS
<1> QED BY ZenonT(60), <1>2, <1>3, <1>4, <1>5, <1>6 DEF Disc!DiscNext, Disc!discVars, Disc!Put, Disc!Remove, Disc!BeginScan, Disc!LoadIndex, Disc!See, Disc!DropMissing, Disc!Classify, Disc!StoreRead, Disc!AnswerScan,
           Disc!RefreshStep, Disc!BeginPass, Disc!NextModel, Disc!FindContext, Disc!ReadContext


-----------------------------------------------------------------------------
(* Deleting a model with its files.                                        *)

Models == A
Deleters == B
Nothing == None
model == s1
owned == s2
companion == s3
disk == s4
dirs == s5
making == s6
job == s7
late == s8
redone == s9
steps == s10
USE DEF Models, Deleters, Nothing, model, owned, companion, disk, dirs, making, job, late, redone, steps

\* What is above a directory is closed, and within every closed set it is in.
LEMMA AboveClosed == ASSUME NEW d \in Dirs \cup {Root} PROVE Files!Closed(Files!Above(d)) /\ d \in Files!Above(d) \cup {Root} /\ Files!Above(d) \subseteq Dirs
<1>1. Files!Above(d) \subseteq Dirs /\ d \in Files!Above(d) \cup {Root}
  BY DEF Files!Above
<1>2. ASSUME NEW e \in Files!Above(d), Up[e] # Root PROVE Up[e] \in Files!Above(d)
  <2>1. e \in Dirs /\ Up[e] \in Dirs
    BY <1>1, <1>2, FilesAssumed DEF Files!ModelFilesAssumption
  <2>2. ASSUME NEW S \in SUBSET Dirs, Files!Closed(S), d \in S \cup {Root} PROVE Up[e] \in S
    <3>1. e \in S
      BY <2>2 DEF Files!Above
    <3> QED BY <1>2, <2>2, <3>1 DEF Files!Closed
  <2> QED BY <2>1, <2>2 DEF Files!Above
<1> QED BY <1>1, <1>2 DEF Files!Closed

LEMMA AboveLeast == ASSUME NEW S \in SUBSET Dirs, Files!Closed(S), NEW d \in S \cup {Root} PROVE Files!Above(d) \subseteq S
  BY DEF Files!Above

LEMMA FilesBegin == Files!FilesInit => Files!FilesInv
<1> SUFFICES ASSUME Files!FilesInit PROVE Files!FilesInv
  OBVIOUS
<1>1. \A d \in Deleters : job[d] = Files!Free /\ job[d].pc = "idle" /\ job[d].id = Nothing /\ job[d].plan = {}
  BY DEF Files!FilesInit, Files!Free
<1>2. job \in [Deleters -> Files!Deletion]
  BY DEF Files!FilesInit, Files!Free, Files!Deletion
<1>3. Files!FilesTypeOK /\ making \in Paths \cup {Nothing} /\ redone \subseteq FileSet
  BY <1>1 DEF Files!FilesInit, Files!FilesTypeOK
<1>4. Files!Tree
  BY FilesAssumed DEF Files!FilesInit, Files!Tree, Files!Closed, Files!ModelFilesAssumption
<1>5. Files!Bare /\ Files!OneOwner /\ Files!PlanGone
  BY <1>1 DEF Files!FilesInit, Files!Bare, Files!OneOwner, Files!PlanGone
<1> QED BY <1>2, <1>3, <1>4, <1>5 DEF Files!FilesInv

\* What is about models and files, and what is about deletions.
LEMMA ReferenceKeeps ==
    ASSUME Files!FilesInv, UNCHANGED job, NEW R \in SUBSET FileSet, late' = late \cup {f \in R : Files!Past(f) # {}},
           \A m \in Models : Files!Exists(m)' => Files!Reached(Files!References(m))' \subseteq R \cup {f \in Files!Reached(Files!References(m)) : Files!Exists(m)}
    PROVE  Files!OneOwner'
<1> SUFFICES ASSUME NEW d \in Deleters, NEW m \in Models, NEW f \in Files!Reached(Files!References(m))',
                    job[d].pc = "unlink", f \in job[d].left, f \notin late', Files!Exists(m)'
             PROVE  m = job[d].id
  BY DEF Files!OneOwner
<1>1. d \in Files!Past(f)
  BY DEF Files!Past
<1>2. f \in Files!Reached(Files!References(m)) /\ Files!Exists(m) /\ f \notin late
  BY <1>1
<1> QED BY <1>2 DEF Files!FilesInv, Files!OneOwner

LEMMA InsertKeeps == ASSUME Files!FilesInv, NEW m \in Models, Files!Insert(m) PROVE Files!FilesInv'
<1>1. UNCHANGED <<owned, companion, disk, dirs, job, redone>> /\ making # Nothing /\ making' = Nothing /\ ~Files!Exists(m)
  BY DEF Files!Insert
<1>2. making \in Paths /\ owned[m] = {} /\ companion[m] = {}
  BY <1>1 DEF Files!FilesInv, Files!Bare
<1>3. \/ model' = [model EXCEPT ![m] = making] /\ late' = late \cup {f \in Files!Reached({making}) : Files!Past(f) # {}}
      \/ UNCHANGED <<model, late>>
  BY DEF Files!Insert, Files!Referenced
<1>4. Files!Reached({making}) \subseteq FileSet /\ model \in [Models -> Paths \cup {Nothing}]
  BY <1>2, FilesAssumed DEF Files!Reached, Files!ModelFilesAssumption, Files!FilesInv, Files!FilesTypeOK
<1>5. Files!OneOwner'
  <2>1. CASE model' = [model EXCEPT ![m] = making] /\ late' = late \cup {f \in Files!Reached({making}) : Files!Past(f) # {}}
    <3>1. ASSUME NEW n \in Models, Files!Exists(n)'
          PROVE  Files!Reached(Files!References(n))' \subseteq Files!Reached({making}) \cup {f \in Files!Reached(Files!References(n)) : Files!Exists(n)}
      <4>1. CASE n = m
        <5>1. Files!References(m)' = {making}
          BY <1>1, <1>2, <1>4, <2>1 DEF Files!References, Files!OwnedPaths
        <5> QED BY <4>1, <5>1 DEF Files!Reached
      <4>2. CASE n # m
        <5>1. model'[n] = model[n] /\ Files!Exists(n)
          BY <1>4, <2>1, <3>1, <4>2 DEF Files!Exists
        <5>2. Files!References(n)' = Files!References(n)
          BY <1>1, <5>1 DEF Files!References, Files!OwnedPaths
        <5> QED BY <5>1, <5>2 DEF Files!Reached
      <4> QED BY <4>1, <4>2
    <3> QED BY <1>1, <1>4, <2>1, <3>1, ReferenceKeeps
  <2>2. CASE UNCHANGED <<model, late>>
    BY <1>1, <2>2 DEF Files!FilesInv, Files!OneOwner, Files!Exists, Files!References, Files!OwnedPaths, Files!Reached
  <2> QED BY <1>3, <2>1, <2>2
<1>6. model' \in [Models -> Paths \cup {Nothing}] /\ late' \subseteq FileSet
  BY <1>2, <1>3, <1>4 DEF Files!FilesInv, Files!FilesTypeOK
<1>7. Files!FilesTypeOK'
  BY <1>1, <1>6 DEF Files!FilesInv, Files!FilesTypeOK
<1>8. Files!Bare'
  BY <1>1, <1>2, <1>3, <1>4 DEF Files!FilesInv, Files!Bare, Files!Exists
<1>9. Files!Tree' /\ Files!PlanGone'
  BY <1>1 DEF Files!FilesInv, Files!Tree, Files!Closed, Files!PlanGone
<1> QED BY <1>1, <1>5, <1>7, <1>8, <1>9 DEF Files!FilesInv

\* A model's options or downloads name one more path.
LEMMA PathAdded ==
    ASSUME Files!FilesInv, NEW m \in Models, NEW p \in Paths, Files!Exists(m), UNCHANGED <<model, job>>, Files!Referenced({p}),
           \/ owned' = [owned EXCEPT ![m] = @ \cup {p}] /\ UNCHANGED companion
           \/ companion' = [companion EXCEPT ![m] = @ \cup {p}] /\ UNCHANGED owned
    PROVE  /\ Files!OneOwner' /\ Files!Bare' /\ late' \subseteq FileSet
           /\ owned' \in [Models -> SUBSET Paths] /\ companion' \in [Models -> SUBSET Paths]
<1>1. Files!Reached({p}) \subseteq FileSet /\ owned \in [Models -> SUBSET Paths] /\ companion \in [Models -> SUBSET Paths] /\ late \subseteq FileSet
  BY FilesAssumed DEF Files!Reached, Files!ModelFilesAssumption, Files!FilesInv, Files!FilesTypeOK
<1>2. late' = late \cup {f \in Files!Reached({p}) : Files!Past(f) # {}}
  BY DEF Files!Referenced
<1>3. ASSUME NEW n \in Models, Files!Exists(n)'
      PROVE  Files!Reached(Files!References(n))' \subseteq Files!Reached({p}) \cup {f \in Files!Reached(Files!References(n)) : Files!Exists(n)}
  <2>1. Files!Exists(n) /\ Files!References(n)' \subseteq Files!References(n) \cup {p}
    BY <1>1, <1>3 DEF Files!Exists, Files!References, Files!OwnedPaths
  <2> QED BY <2>1 DEF Files!Reached
<1>4. Files!OneOwner'
  BY <1>1, <1>2, <1>3, ReferenceKeeps
<1>5. Files!Bare'
  BY <1>1 DEF Files!FilesInv, Files!Bare, Files!Exists
<1> QED BY <1>1, <1>2, <1>4, <1>5

LEMMA CompanionKeeps == ASSUME Files!FilesInv, NEW m \in Models, NEW p \in Paths, Files!SetCompanion(m, p) PROVE Files!FilesInv'
<1>1. UNCHANGED <<model, owned, disk, dirs, making, job, redone>> /\ Files!Exists(m) /\ Files!Referenced({p})
  BY DEF Files!SetCompanion
<1>2. /\ Files!OneOwner' /\ Files!Bare' /\ late' \subseteq FileSet /\ owned' \in [Models -> SUBSET Paths] /\ companion' \in [Models -> SUBSET Paths]
  BY <1>1, PathAdded DEF Files!SetCompanion
<1>3. Files!FilesTypeOK'
  BY <1>1, <1>2 DEF Files!FilesInv, Files!FilesTypeOK
<1>4. Files!Tree' /\ Files!PlanGone'
  BY <1>1 DEF Files!FilesInv, Files!Tree, Files!Closed, Files!PlanGone
<1> QED BY <1>1, <1>2, <1>3, <1>4 DEF Files!FilesInv

LEMMA DownloadedKeeps == ASSUME Files!FilesInv, NEW m \in Models, NEW p \in Paths, Files!Downloaded(m, p) PROVE Files!FilesInv'
<1> DEFINE f == Canon[p]
<1>1. /\ UNCHANGED <<model, companion, making, job>> /\ Files!Exists(m) /\ Files!Referenced({p})
      /\ disk' = disk \cup {f} /\ dirs' = dirs \cup Files!Above(DirOf[f])
      /\ redone' = IF \E d \in Deleters : job[d].pc \in {"unlink", "prune", "row"} THEN redone \cup {f} ELSE redone
  BY DEF Files!Downloaded
<1>2. f \in FileSet /\ DirOf[f] \in Dirs \cup {Root}
  BY FilesAssumed DEF Files!ModelFilesAssumption
<1>3. /\ Files!OneOwner' /\ Files!Bare' /\ late' \subseteq FileSet /\ owned' \in [Models -> SUBSET Paths] /\ companion' \in [Models -> SUBSET Paths]
  BY <1>1, PathAdded DEF Files!Downloaded
<1> HIDE DEF f
<1>4. Files!Closed(Files!Above(DirOf[f])) /\ DirOf[f] \in Files!Above(DirOf[f]) \cup {Root} /\ Files!Above(DirOf[f]) \subseteq Dirs
  BY <1>2, AboveClosed
<1>5. Files!Tree'
  BY <1>1, <1>4 DEF Files!FilesInv, Files!Tree, Files!Closed
<1>6. Files!PlanGone'
  <2>1. CASE \E e \in Deleters : job[e].pc \in {"unlink", "prune", "row"}
    BY <1>1, <2>1 DEF Files!FilesInv, Files!PlanGone
  <2>2. CASE \A e \in Deleters : job[e].pc \notin {"unlink", "prune", "row"}
    <3>1. \A e \in Deleters : job[e].plan = {}
      BY <2>2 DEF Files!FilesInv, Files!Deletion, Files!PlanGone
    <3> QED BY <1>1, <3>1 DEF Files!PlanGone
  <2> QED BY <2>1, <2>2
<1>7. Files!FilesTypeOK'
  BY <1>1, <1>2, <1>3, <1>4 DEF Files!FilesInv, Files!FilesTypeOK
<1>8. redone' \subseteq FileSet
  BY <1>1, <1>2 DEF Files!FilesInv
<1> QED BY <1>1, <1>3, <1>5, <1>6, <1>7, <1>8 DEF Files!FilesInv

\* A deletion moves on, before its check or after its files.
LEMMA JobMoves ==
    ASSUME Files!FilesInv, NEW d \in Deleters, NEW r \in Files!Deletion, job' = [job EXCEPT ![d] = r],
           UNCHANGED <<model, owned, companion, disk, making, late, redone>>,
           r.pc = "idle" <=> r.id = Nothing, r.pc # "unlink",
           r.plan \cap disk \subseteq redone, r.pc \in {"idle", "stop", "check"} => r.plan = {},
           Files!Tree', dirs' \subseteq Dirs
    PROVE  Files!FilesInv'
<1>1. job' \in [Deleters -> Files!Deletion] /\ job'[d] = r /\ \A e \in Deleters : e # d => job'[e] = job[e]
  BY DEF Files!FilesInv
<1>2. Files!FilesTypeOK'
  BY <1>1 DEF Files!FilesInv, Files!FilesTypeOK
<1>3. Files!OneOwner'
  BY <1>1 DEF Files!FilesInv, Files!OneOwner, Files!Exists, Files!References, Files!OwnedPaths, Files!Reached
<1>4. Files!PlanGone'
  BY <1>1 DEF Files!FilesInv, Files!PlanGone
<1>5. Files!Bare'
  BY DEF Files!FilesInv, Files!Bare, Files!Exists
<1> QED BY <1>1, <1>2, <1>3, <1>4, <1>5 DEF Files!FilesInv

LEMMA FreeDeletion == Files!Free \in Files!Deletion /\ Files!Free.pc = "idle" /\ Files!Free.id = Nothing /\ Files!Free.plan = {}
  BY DEF Files!Free, Files!Deletion

LEMMA TargetsFiles == ASSUME Files!FilesInv, NEW m \in Models, Files!Exists(m) PROVE Files!Targets(m) \subseteq FileSet /\ Files!Targets(m) \subseteq Files!Reached(Files!References(m))
<1>1. Files!OwnedPaths(m) \subseteq Paths /\ Files!OwnedPaths(m) \subseteq Files!References(m)
  BY DEF Files!FilesInv, Files!FilesTypeOK, Files!OwnedPaths, Files!Exists, Files!References
<1> QED BY <1>1, FilesAssumed DEF Files!Targets, Files!Reached, Files!ModelFilesAssumption

LEMMA AskDeleteKeeps == ASSUME Files!FilesInv, NEW d \in Deleters, NEW m \in Models, NEW files \in BOOLEAN, Files!Ask(d, m, files) PROVE Files!FilesInv'
<1> DEFINE r == [Files!Free EXCEPT !.pc = "stop", !.id = m, !.files = files, !.left = IF files THEN Files!Targets(m) ELSE {}]
<1>1. job' = [job EXCEPT ![d] = r] /\ UNCHANGED <<model, owned, companion, disk, dirs, making, late, redone>> /\ Files!Exists(m)
  BY DEF Files!Ask
<1>2. r \in Files!Deletion /\ r.pc = "stop" /\ r.id = m /\ m # Nothing /\ r.plan = {}
  BY <1>1, TargetsFiles, FilesAssumed DEF Files!Free, Files!Deletion, Files!ModelFilesAssumption
<1> HIDE DEF r
<1>3. Files!Tree' /\ dirs' \subseteq Dirs
  BY <1>1 DEF Files!FilesInv, Files!FilesTypeOK, Files!Tree, Files!Closed
<1> QED BY <1>1, <1>2, <1>3, JobMoves

LEMMA RecheckKeeps == ASSUME Files!FilesInv, NEW d \in Deleters, Files!Recheck(d) PROVE Files!FilesInv'
<1>1. UNCHANGED <<model, owned, companion, disk, dirs, making, late, redone>> /\ job[d].pc = "check"
  BY DEF Files!Recheck
<1>2. Files!Tree' /\ dirs' \subseteq Dirs
  BY <1>1 DEF Files!FilesInv, Files!FilesTypeOK, Files!Tree, Files!Closed
<1>3. CASE ~Files!Deletable(job[d].id)
  BY <1>1, <1>2, <1>3, FreeDeletion, JobMoves DEF Files!Recheck, Files!Ends
<1>4. CASE Files!Deletable(job[d].id)
  <2>1. PICK m \in Models : m = job[d].id
    BY <1>1 DEF Files!FilesInv, Files!FilesTypeOK, Files!Deletion
  <2> DEFINE T == Files!Targets(m)
             r == [job[d] EXCEPT !.pc = "unlink", !.plan = T, !.left = T, !.parents = {DirOf[f] : f \in T}]
  <2>2. job' = [job EXCEPT ![d] = r]
    BY <1>4, <2>1 DEF Files!Recheck
  <2>3. T \subseteq FileSet /\ T \subseteq Files!Reached(Files!References(m)) /\ Files!Exists(m) /\ ~Files!Shared(m)
    BY <1>4, <2>1, TargetsFiles DEF Files!Deletable
  <2>4. \A n \in Models : Files!Exists(n) /\ Files!Reached(Files!References(n)) \cap T # {} => n = m
    BY <2>3 DEF Files!Shared
  <2> HIDE DEF T
  <2>5. {DirOf[f] : f \in T} \subseteq Dirs \cup {Root}
    BY <2>3, FilesAssumed DEF Files!ModelFilesAssumption
  <2>6. r \in Files!Deletion /\ r.pc = "unlink" /\ r.id = m /\ r.plan = T /\ r.left = T
    BY ZenonT(60), <2>1, <2>3, <2>5 DEF Files!FilesInv, Files!Deletion
  <2> HIDE DEF r
  <2>7. job' \in [Deleters -> Files!Deletion] /\ job'[d] = r /\ \A e \in Deleters : e # d => job'[e] = job[e]
    BY <2>2, <2>6 DEF Files!FilesInv
  <2>8. Files!OneOwner'
    <3> SUFFICES ASSUME NEW e \in Deleters, NEW n \in Models, NEW f \in Files!Reached(Files!References(n)),
                        job'[e].pc = "unlink", f \in job'[e].left, f \notin late, Files!Exists(n)
                 PROVE  n = job'[e].id
      BY <1>1 DEF Files!OneOwner, Files!Exists, Files!References, Files!OwnedPaths, Files!Reached
    <3>1. CASE e = d
      BY <2>4, <2>6, <2>7, <3>1
    <3>2. CASE e # d
      BY <2>7, <3>2 DEF Files!FilesInv, Files!OneOwner
    <3> QED BY <3>1, <3>2
  <2>9. Files!PlanGone'
    BY <1>1, <2>6, <2>7 DEF Files!FilesInv, Files!PlanGone
  <2>10. Files!FilesTypeOK'
    BY <1>1, <2>1, <2>6, <2>7, FilesAssumed DEF Files!FilesInv, Files!FilesTypeOK, Files!ModelFilesAssumption
  <2>11. Files!Bare'
    BY <1>1 DEF Files!FilesInv, Files!Bare, Files!Exists
  <2> QED BY <1>1, <1>2, <2>7, <2>8, <2>9, <2>10, <2>11 DEF Files!FilesInv
<1> QED BY <1>3, <1>4

LEMMA UnlinkFileKeeps == ASSUME Files!FilesInv, NEW d \in Deleters, Files!Unlink(d) PROVE Files!FilesInv'
<1>1. UNCHANGED <<model, owned, companion, dirs, making, redone>> /\ job[d].pc = "unlink"
  BY DEF Files!Unlink
<1>2. PICK f \in job[d].left : /\ \/ job' = [job EXCEPT ![d].left = @ \ {f}] /\ disk' = disk \ {f}
                                  \/ f \in disk /\ Files!Ends(d) /\ UNCHANGED disk
                               /\ late' = late \ (IF Files!Past(f) = {d} THEN {f} ELSE {})
  BY DEF Files!Unlink
<1>3. job[d] \in Files!Deletion /\ f \in FileSet /\ job[d].id # Nothing
  BY <1>1, <1>2 DEF Files!FilesInv, Files!FilesTypeOK, Files!Deletion
<1>4. PICK r \in Files!Deletion : /\ job' = [job EXCEPT ![d] = r] /\ (r.pc = "idle" <=> r.id = Nothing)
                                  /\ \/ r = Files!Free /\ disk' = disk
                                     \/ /\ r.pc = "unlink" /\ r.id = job[d].id /\ r.plan = job[d].plan
                                        /\ r.left = job[d].left \ {f} /\ disk' = disk \ {f}
  <2>1. CASE job' = [job EXCEPT ![d].left = @ \ {f}] /\ disk' = disk \ {f}
    <3> DEFINE r == [job[d] EXCEPT !.left = job[d].left \ {f}]
    <3>1. r \in Files!Deletion /\ r.pc = "unlink" /\ r.id = job[d].id /\ r.plan = job[d].plan /\ r.left = job[d].left \ {f}
      BY <1>1, <1>3 DEF Files!Deletion
    <3>2. job' = [job EXCEPT ![d] = r]
      BY <2>1
    <3> QED BY <1>3, <2>1, <3>1, <3>2
  <2>2. CASE Files!Ends(d) /\ UNCHANGED disk
    BY <2>2, FreeDeletion DEF Files!Ends
  <2> QED BY <1>2, <2>1, <2>2
<1>5. job' \in [Deleters -> Files!Deletion] /\ job'[d] = r /\ \A e \in Deleters : e # d => job'[e] = job[e]
  BY <1>4 DEF Files!FilesInv
<1>6. \A e \in Deleters, g \in FileSet : job'[e].pc = "unlink" /\ g \in job'[e].left =>
         job[e].pc = "unlink" /\ g \in job[e].left /\ job'[e].id = job[e].id /\ (e = d => g # f)
  BY <1>1, <1>4, <1>5, FreeDeletion
<1>7. Files!OneOwner'
  <2> SUFFICES ASSUME NEW e \in Deleters, NEW n \in Models, NEW g \in Files!Reached(Files!References(n)),
                      job'[e].pc = "unlink", g \in job'[e].left, g \notin late', Files!Exists(n)
               PROVE  n = job'[e].id
    BY <1>1 DEF Files!OneOwner, Files!Exists, Files!References, Files!OwnedPaths, Files!Reached
  <2>1. g \in FileSet
    BY <1>5 DEF Files!Deletion
  <2>2. job[e].pc = "unlink" /\ g \in job[e].left /\ job'[e].id = job[e].id /\ (e = d => g # f)
    BY <1>6, <2>1
  <2>3. g \notin late
    <3>1. e \in Files!Past(g)
      BY <2>2 DEF Files!Past
    <3> QED BY <1>2, <2>2, <3>1
  <2> QED BY <2>2, <2>3 DEF Files!FilesInv, Files!OneOwner
<1>8. Files!PlanGone'
  <2> SUFFICES ASSUME NEW e \in Deleters
               PROVE  /\ job'[e].pc \in {"idle", "stop", "check"} => job'[e].plan = {}
                      /\ job'[e].plan \cap disk' \subseteq redone \cup (IF job'[e].pc = "unlink" THEN job'[e].left ELSE {})
    BY <1>1 DEF Files!PlanGone
  <2>1. disk' \subseteq disk
    BY <1>2
  <2>2. CASE e = d
    BY <1>1, <1>4, <1>5, <2>2, FreeDeletion DEF Files!FilesInv, Files!PlanGone
  <2>3. CASE e # d
    BY <1>5, <2>1, <2>3 DEF Files!FilesInv, Files!PlanGone
  <2> QED BY <2>2, <2>3
<1>9. Files!FilesTypeOK'
  BY <1>1, <1>2, <1>4, <1>5 DEF Files!FilesInv, Files!FilesTypeOK
<1>10. Files!Bare' /\ Files!Tree'
  BY <1>1, <1>2 DEF Files!FilesInv, Files!Bare, Files!Exists, Files!Tree, Files!Closed
<1> QED BY <1>1, <1>5, <1>7, <1>8, <1>9, <1>10 DEF Files!FilesInv

LEMMA PruneKeeps == ASSUME Files!FilesInv, NEW d \in Deleters, Files!Prune(d) PROVE Files!FilesInv'
<1>1. UNCHANGED <<model, owned, companion, disk, making, late, redone>> /\ job[d].pc = "prune"
  BY DEF Files!Prune
<1>2. PICK p \in job[d].parents \ {Root} :
         \/ /\ p \notin dirs \/ Files!Empty(p)
            /\ job' = [job EXCEPT ![d].parents = (@ \ {p}) \cup {Up[p]}] /\ dirs' = dirs \ {p}
         \/ job' = [job EXCEPT ![d].parents = IF p \in dirs /\ ~Files!Empty(p) THEN @ \ {p} ELSE {}] /\ UNCHANGED dirs
  BY DEF Files!Prune
<1>3. job[d] \in Files!Deletion /\ job[d].id # Nothing /\ p \in Dirs /\ Up[p] \in Dirs \cup {Root}
  BY <1>1, <1>2, FilesAssumed DEF Files!FilesInv, Files!FilesTypeOK, Files!Deletion, Files!ModelFilesAssumption
<1>4. PICK P \in SUBSET (Dirs \cup {Root}) : job' = [job EXCEPT ![d].parents = P]
  <2>1. job[d].parents \subseteq Dirs \cup {Root}
    BY <1>3 DEF Files!Deletion
  <2>2. CASE job' = [job EXCEPT ![d].parents = (@ \ {p}) \cup {Up[p]}]
    BY <1>3, <2>1, <2>2
  <2>3. CASE job' = [job EXCEPT ![d].parents = IF p \in dirs /\ ~Files!Empty(p) THEN @ \ {p} ELSE {}]
    BY <1>3, <2>1, <2>3
  <2> QED BY <1>2, <2>2, <2>3
<1> DEFINE r == [job[d] EXCEPT !.parents = P]
<1>5. job' = [job EXCEPT ![d] = r] /\ r \in Files!Deletion /\ r.pc = "prune" /\ r.id = job[d].id /\ r.plan = job[d].plan
  BY <1>1, <1>3, <1>4 DEF Files!Deletion
<1>6. Files!Tree' /\ dirs' \subseteq Dirs
  <2>1. CASE (p \notin dirs \/ Files!Empty(p)) /\ dirs' = dirs \ {p}
    BY <1>1, <1>3, <2>1 DEF Files!FilesInv, Files!FilesTypeOK, Files!Tree, Files!Closed, Files!Empty
  <2>2. CASE UNCHANGED dirs
    BY <1>1, <2>2 DEF Files!FilesInv, Files!FilesTypeOK, Files!Tree, Files!Closed
  <2> QED BY <1>2, <2>1, <2>2
<1> HIDE DEF r
<1>7. r.plan \cap disk \subseteq redone
  BY <1>1, <1>5 DEF Files!FilesInv, Files!PlanGone
<1> QED BY <1>1, <1>3, <1>5, <1>6, <1>7, JobMoves

\* The steps that only move a deletion on.
LEMMA PassOn == ASSUME Files!FilesInv, NEW d \in Deleters, Files!StopModel(d) \/ Files!Unlinked(d) \/ Files!Pruned(d) PROVE Files!FilesInv'
<1>1. UNCHANGED <<model, owned, companion, disk, dirs, making, late, redone>> /\ job[d].pc \in {"stop", "unlink", "prune"}
  BY DEF Files!StopModel, Files!Unlinked, Files!Pruned
<1>2. job[d] \in Files!Deletion /\ job[d].id # Nothing
  BY <1>1 DEF Files!FilesInv, Files!FilesTypeOK
<1>3. Files!Tree' /\ dirs' \subseteq Dirs
  BY <1>1 DEF Files!FilesInv, Files!FilesTypeOK, Files!Tree, Files!Closed
<1>4. PICK pc \in {"check", "prune", "row"} : job' = [job EXCEPT ![d].pc = pc] /\ (pc = "check" => Files!StopModel(d))
  BY DEF Files!StopModel, Files!Unlinked, Files!Pruned
<1> DEFINE r == [job[d] EXCEPT !.pc = pc]
<1>5. job' = [job EXCEPT ![d] = r] /\ r \in Files!Deletion /\ r.pc = pc /\ r.id = job[d].id /\ r.plan = job[d].plan
  BY <1>2, <1>4 DEF Files!Deletion
<1> HIDE DEF r
<1>6. job[d].plan \cap disk \subseteq redone /\ (pc = "check" => job[d].plan = {})
  <2>1. CASE Files!StopModel(d)
    BY <1>1, <1>2, <1>4, <2>1 DEF Files!StopModel, Files!FilesInv, Files!PlanGone
  <2>2. CASE Files!Unlinked(d) \/ Files!Pruned(d)
    BY <1>1, <1>4, <2>2 DEF Files!Unlinked, Files!Pruned, Files!StopModel, Files!FilesInv, Files!PlanGone
  <2> QED BY <2>1, <2>2
<1> QED BY <1>1, <1>2, <1>3, <1>5, <1>6, JobMoves

LEMMA DeleteRowKeeps == ASSUME Files!FilesInv, NEW d \in Deleters, Files!DeleteRow(d) PROVE Files!FilesInv'
<1>1. /\ UNCHANGED <<disk, dirs, making, late, redone>> /\ job[d].pc = "row" /\ job' = [job EXCEPT ![d] = Files!Free]
      /\ model' = [model EXCEPT ![job[d].id] = Nothing]
      /\ owned' = [owned EXCEPT ![job[d].id] = {}] /\ companion' = [companion EXCEPT ![job[d].id] = {}]
  BY DEF Files!DeleteRow, Files!Ends
<1>2. PICK m \in Models : m = job[d].id
  BY <1>1 DEF Files!FilesInv, Files!FilesTypeOK, Files!Deletion
<1>3. /\ job' \in [Deleters -> Files!Deletion] /\ job'[d] = Files!Free /\ \A e \in Deleters : e # d => job'[e] = job[e]
      /\ job'[d].pc = "idle" /\ job'[d].id = Nothing /\ job'[d].plan = {}
  BY <1>1, FreeDeletion DEF Files!FilesInv
<1>4. Files!FilesTypeOK'
  BY <1>1, <1>2, <1>3 DEF Files!FilesInv, Files!FilesTypeOK
<1>5. \A n \in Models : Files!Exists(n)' => n # m /\ Files!Exists(n) /\ Files!References(n)' = Files!References(n)
  BY <1>1, <1>2 DEF Files!FilesInv, Files!FilesTypeOK, Files!Exists, Files!References, Files!OwnedPaths
<1>6. Files!OneOwner'
  <2> SUFFICES ASSUME NEW e \in Deleters, NEW n \in Models, NEW f \in Files!Reached(Files!References(n))',
                      job'[e].pc = "unlink", f \in job'[e].left, f \notin late', Files!Exists(n)'
               PROVE  n = job'[e].id
    BY DEF Files!OneOwner
  <2>1. e # d /\ job'[e] = job[e] /\ Files!Exists(n) /\ f \in Files!Reached(Files!References(n))
    BY <1>3, <1>5 DEF Files!Reached
  <2> QED BY <1>1, <2>1 DEF Files!FilesInv, Files!OneOwner
<1>7. Files!PlanGone'
  BY <1>1, <1>3 DEF Files!FilesInv, Files!PlanGone
<1>8. Files!Bare'
  BY <1>1, <1>2 DEF Files!FilesInv, Files!FilesTypeOK, Files!Bare, Files!Exists
<1>9. Files!Tree'
  BY <1>1 DEF Files!FilesInv, Files!Tree, Files!Closed
<1> QED BY <1>1, <1>3, <1>4, <1>6, <1>7, <1>8, <1>9 DEF Files!FilesInv

LEMMA FilesGo == Files!FilesInv /\ [Files!FilesNext]_(Files!fileVars) => Files!FilesInv'
<1> SUFFICES ASSUME Files!FilesInv, [Files!FilesNext]_(Files!fileVars) PROVE Files!FilesInv'
  OBVIOUS
<1>1. ASSUME NEW p \in Paths, Files!LookAt(p) PROVE Files!FilesInv'
  <2>1. making' = p /\ UNCHANGED <<model, owned, companion, disk, dirs, job, late, redone>>
    BY <1>1 DEF Files!LookAt
  <2>2. Files!FilesTypeOK' /\ Files!Tree' /\ Files!PlanGone'
    BY <2>1 DEF Files!FilesInv, Files!FilesTypeOK, Files!Tree, Files!Closed, Files!PlanGone
  <2>3. Files!Bare' /\ Files!OneOwner'
    BY <2>1 DEF Files!FilesInv, Files!Bare, Files!OneOwner, Files!Exists, Files!References, Files!OwnedPaths, Files!Reached
  <2> QED BY <2>1, <2>2, <2>3 DEF Files!FilesInv
<1>2. ASSUME NEW d \in Deleters,
             \/ \E m \in Models, files \in BOOLEAN : Files!Ask(d, m, files)
             \/ Files!StopModel(d) \/ Files!Recheck(d) \/ Files!Unlink(d) \/ Files!Unlinked(d) \/ Files!Prune(d) \/ Files!Pruned(d) \/ Files!DeleteRow(d)
      PROVE  Files!FilesInv'
  BY <1>2, AskDeleteKeeps, PassOn, RecheckKeeps, UnlinkFileKeeps, PruneKeeps, DeleteRowKeeps
<1>3. CASE UNCHANGED Files!fileVars
  BY <1>3 DEF Files!fileVars, Files!FilesInv, Files!FilesTypeOK, Files!Tree, Files!Closed, Files!Bare, Files!OneOwner, Files!PlanGone, Files!Exists, Files!References, Files!OwnedPaths, Files!Reached
<1> QED BY <1>1, <1>2, <1>3, InsertKeeps, CompanionKeeps, DownloadedKeeps DEF Files!FilesNext

\* Whatever prunes, a file has its directories.
LEMMA FilesHaveDirs == ASSUME Files!FilesInv PROVE Files!DirsKept
  BY AboveLeast DEF Files!FilesInv, Files!FilesTypeOK, Files!Tree, Files!DirsKept

\* A file that goes is nobody else's, and the row goes last.
LEMMA OnlyOwnFiles == Files!FilesInv /\ [Files!FilesNext]_(Files!fileVars) => Files!OthersFilesKept /\ Files!RowLast
<1> SUFFICES ASSUME Files!FilesInv, [Files!FilesNext]_(Files!fileVars) PROVE Files!OthersFilesKept /\ Files!RowLast
  OBVIOUS
<1>1. ASSUME NEW f \in disk \ disk', NEW m \in Models, Files!Exists(m), f \in Files!Reached(Files!References(m)), f \notin late
      PROVE  \E d \in Deleters : job[d].id = m /\ f \in job[d].left
  <2>1. PICK d \in Deleters : Files!Unlink(d)
    BY ZenonT(60), <1>1 DEF Files!FilesNext, Files!fileVars, Files!LookAt, Files!Insert, Files!SetCompanion, Files!Downloaded, Files!Ask, Files!StopModel, Files!Recheck, Files!Unlinked, Files!Prune, Files!Pruned, Files!DeleteRow
  <2>2. job[d].pc = "unlink" /\ f \in job[d].left
    BY <1>1, <2>1 DEF Files!Unlink
  <2> QED BY SMTT(60), <1>1, <2>2 DEF Files!FilesInv, Files!OneOwner
<1>2. Files!OthersFilesKept
  BY <1>1 DEF Files!OthersFilesKept
<1>3. Files!RowLast
  BY DEF Files!FilesInv, Files!PlanGone, Files!RowLast
<1> QED BY <1>2, <1>3


-----------------------------------------------------------------------------
(* The LiteLLM catalog.                                                    *)

CatInsts == A
Names == B
Entries == C \cup {p1}
Foreign == {p1}
CatCallers == D
inst == s1
remote == s2
accounts == s3
stored == s4
conf == s5
sync == s6
holder == s7
due == s8
call == s9
secrets == s10
mixed == s11
edits == s12
asks == s13
slips == s14
USE DEF CatInsts, Names, Entries, Foreign, CatCallers, inst, remote, accounts, stored, conf, sync, holder, due, call, secrets, mixed, edits, asks, slips

\* A set of numbers that is not empty has a least one.
LEMMA OneIsLeast ==
    ASSUME NEW S, S \subseteq Nat, S # {}
    PROVE  \E n \in S : \A m \in S : n <= m
<1>1. \E n \in S : \A m \in S : <<m, n>> \notin OpToRel(<, Nat)
  BY NatLessThanWellFounded, WFMin, Zenon
<1>2. \A m, n \in Nat : m < n => <<m, n>> \in OpToRel(<, Nat)
  BY DEF OpToRel
<1>3. \A m, n \in Nat : ~(m < n) => n <= m
  OBVIOUS
<1> QED BY <1>1, <1>2, <1>3

LEMMA RestingIs ==
    /\ Cat!Resting \in Cat!Caller /\ Cat!Resting.pc = "idle" /\ Cat!Resting.drop = {}
    /\ \A e \in Entries : ~Cat!IsManaged(Cat!Resting.seen[e])
<1>1. /\ Cat!Resting.pc = "idle" /\ Cat!Resting.drop = {} /\ Cat!Resting.seen = [e \in Entries |-> None]
      /\ Cat!Resting.want = [i \in CatInsts |-> None]
  BY DEF Cat!Resting
<1>2. [e \in Entries |-> None] \in [Entries -> Cat!Row \cup {None}] /\ [i \in CatInsts |-> None] \in [CatInsts -> Names \cup {None}]
  OBVIOUS
<1>3. \A w \in [CatInsts -> Names \cup {None}], s \in [Entries -> Cat!Row \cup {None}] :
          [pc |-> "idle", op |-> "none", acct |-> 0, secret |-> 0, want |-> w, seen |-> s, todo |-> {}, drop |-> {}] \in Cat!Caller
  BY DEF Cat!Caller, Cat!Stages, Cat!Ops
<1>4. Cat!Resting \in Cat!Caller
  BY <1>2, <1>3 DEF Cat!Resting
<1> QED BY <1>1, <1>4 DEF Cat!IsManaged

\* A row does not stop being the manager's.
LEMMA OursStays ==
    ASSUME Cat!OursInv, NEW c \in CatCallers, NEW x \in Cat!Caller, call' = [call EXCEPT ![c] = x],
           inst' = inst, remote' \in [Entries -> Cat!Row \cup {None}], stored' \in Nat, secrets' \in Nat,
           \A e \in Entries : Cat!Ours(e) => Cat!Ours(e)',
           \A e \in Entries : Cat!IsManaged(x.seen[e]) \/ e \in x.drop => Cat!Ours(e)
    PROVE  Cat!OursInv'
<1>1. call \in [CatCallers -> Cat!Caller] /\ call' \in [CatCallers -> Cat!Caller] /\ call'[c] = x /\ \A d \in CatCallers : d # c => call'[d] = call[d]
  BY DEF Cat!OursInv
<1>2. \A d \in CatCallers, e \in Entries : Cat!IsManaged(call'[d].seen[e]) \/ e \in call'[d].drop => Cat!Ours(e)
  BY <1>1 DEF Cat!OursInv
<1> QED BY <1>1, <1>2 DEF Cat!OursInv, Cat!IsManaged

\* A step of a caller that leaves the proxy's rows alone, and what it saw of them.
LEMMA CallerMoves ==
    ASSUME Cat!OursInv, NEW c \in CatCallers, NEW x \in Cat!Caller, call' = [call EXCEPT ![c] = x],
           UNCHANGED <<inst, remote>>, stored' \in Nat, secrets' \in Nat,
           (x.seen = call[c].seen /\ x.drop = call[c].drop) \/ x = Cat!Resting
    PROVE  Cat!OursInv'
<1>1. \A e \in Entries : Cat!IsManaged(x.seen[e]) \/ e \in x.drop => Cat!Ours(e)
  BY RestingIs DEF Cat!OursInv
<1>2. \A e \in Entries : Cat!Ours(e) => Cat!Ours(e)'
  BY DEF Cat!Ours
<1>3. remote' \in [Entries -> Cat!Row \cup {None}]
  BY DEF Cat!OursInv
<1> QED BY <1>1, <1>2, <1>3, OursStays

\* Where a caller goes on to.
LEMMA GoesTo ==
    ASSUME Cat!OursInv, NEW c \in CatCallers, NEW pc \in Cat!Stages
    PROVE  /\ [call[c] EXCEPT !.pc = pc] \in Cat!Caller
           /\ [call[c] EXCEPT !.pc = pc].seen = call[c].seen /\ [call[c] EXCEPT !.pc = pc].drop = call[c].drop
           /\ \A a \in Nat : /\ [call[c] EXCEPT !.pc = pc, !.acct = a] \in Cat!Caller
                             /\ [call[c] EXCEPT !.pc = pc, !.acct = a].seen = call[c].seen
                             /\ [call[c] EXCEPT !.pc = pc, !.acct = a].drop = call[c].drop
           /\ \A a \in Nat : /\ [call[c] EXCEPT !.pc = pc, !.secret = a] \in Cat!Caller
                             /\ [call[c] EXCEPT !.pc = pc, !.secret = a].seen = call[c].seen
                             /\ [call[c] EXCEPT !.pc = pc, !.secret = a].drop = call[c].drop
<1>1. call[c] \in Cat!Caller
  BY DEF Cat!OursInv
<1>2. \A x \in Cat!Caller : [x EXCEPT !.pc = pc] \in Cat!Caller /\ [x EXCEPT !.pc = pc].seen = x.seen /\ [x EXCEPT !.pc = pc].drop = x.drop
  BY DEF Cat!Caller
<1>3. \A x \in Cat!Caller, a \in Nat :
          /\ [x EXCEPT !.pc = pc, !.acct = a] \in Cat!Caller
          /\ [x EXCEPT !.pc = pc, !.acct = a].seen = x.seen
          /\ [x EXCEPT !.pc = pc, !.acct = a].drop = x.drop
  BY DEF Cat!Caller
<1>4. \A x \in Cat!Caller, a \in Nat :
          /\ [x EXCEPT !.pc = pc, !.secret = a] \in Cat!Caller
          /\ [x EXCEPT !.pc = pc, !.secret = a].seen = x.seen
          /\ [x EXCEPT !.pc = pc, !.secret = a].drop = x.drop
  BY DEF Cat!Caller
<1> QED BY <1>1, <1>2, <1>3, <1>4

\* A step that only moves a caller, or that ends its call.
LEMMA MovesRight ==
    ASSUME Cat!OursInv, NEW c \in CatCallers, NEW pc \in Cat!Stages, UNCHANGED <<inst, remote>>, stored' \in Nat, secrets' \in Nat,
           \/ call' = [call EXCEPT ![c].pc = pc]
           \/ \E a \in Nat : call' = [call EXCEPT ![c].pc = pc, ![c].acct = a]
           \/ \E a \in Nat : call' = [call EXCEPT ![c].pc = pc, ![c].secret = a]
           \/ call' = [call EXCEPT ![c] = Cat!Resting]
    PROVE  Cat!OursInv'
<1>1. CASE call' = [call EXCEPT ![c] = Cat!Resting]
  BY <1>1, RestingIs, CallerMoves
<1>2. CASE call' = [call EXCEPT ![c].pc = pc]
  <2>1. call' = [call EXCEPT ![c] = [call[c] EXCEPT !.pc = pc]]
    BY <1>2
  <2> QED BY <2>1, GoesTo, CallerMoves
<1>3. CASE \E a \in Nat : call' = [call EXCEPT ![c].pc = pc, ![c].acct = a]
  <2>1. PICK a \in Nat : call' = [call EXCEPT ![c].pc = pc, ![c].acct = a]
    BY <1>3
  <2>2. call' = [call EXCEPT ![c] = [call[c] EXCEPT !.pc = pc, !.acct = a]]
    BY <2>1 DEF Cat!OursInv
  <2> DEFINE x == [call[c] EXCEPT !.pc = pc, !.acct = a]
  <2>3. x \in Cat!Caller /\ x.seen = call[c].seen /\ x.drop = call[c].drop
    BY ZenonT(60), GoesTo
  <2> HIDE DEF x
  <2>4. call' = [call EXCEPT ![c] = x]
    BY <2>2 DEF x
  <2> QED BY <2>3, <2>4, CallerMoves
<1>4. CASE \E a \in Nat : call' = [call EXCEPT ![c].pc = pc, ![c].secret = a]
  <2>1. PICK a \in Nat : call' = [call EXCEPT ![c].pc = pc, ![c].secret = a]
    BY <1>4
  <2>2. call' = [call EXCEPT ![c] = [call[c] EXCEPT !.pc = pc, !.secret = a]]
    BY <2>1 DEF Cat!OursInv
  <2> DEFINE x == [call[c] EXCEPT !.pc = pc, !.secret = a]
  <2>3. x \in Cat!Caller /\ x.seen = call[c].seen /\ x.drop = call[c].drop
    BY ZenonT(60), GoesTo
  <2> HIDE DEF x
  <2>4. call' = [call EXCEPT ![c] = x]
    BY <2>2 DEF x
  <2> QED BY <2>3, <2>4, CallerMoves
<1> QED BY <1>1, <1>2, <1>3, <1>4

\* The start of a call.
LEMMA StartsRight ==
    ASSUME Cat!OursInv, NEW c \in CatCallers, NEW pc \in Cat!Stages, NEW op \in Cat!Ops, Cat!StartCall(c, op, pc)
    PROVE  Cat!OursInv'
<1> DEFINE x == [Cat!Resting EXCEPT !.pc = pc, !.op = op]
<1>1. \A r \in Cat!Caller : /\ [r EXCEPT !.pc = pc, !.op = op] \in Cat!Caller
                            /\ [r EXCEPT !.pc = pc, !.op = op].seen = r.seen /\ [r EXCEPT !.pc = pc, !.op = op].drop = r.drop
  BY DEF Cat!Caller
<1>2. x \in Cat!Caller /\ x.seen = Cat!Resting.seen /\ x.drop = Cat!Resting.drop
  BY <1>1, RestingIs
<1>3. call' = [call EXCEPT ![c] = x] /\ UNCHANGED <<inst, remote, stored, secrets>>
  BY DEF Cat!StartCall
<1> HIDE DEF x
<1>4. /\ \A e \in Entries : Cat!IsManaged(x.seen[e]) \/ e \in x.drop => Cat!Ours(e)
      /\ remote' \in [Entries -> Cat!Row \cup {None}] /\ stored' \in Nat /\ secrets' \in Nat
  BY <1>2, <1>3, RestingIs DEF Cat!OursInv
<1>5. \A e \in Entries : Cat!Ours(e) => Cat!Ours(e)'
  BY <1>3 DEF Cat!Ours
<1> QED BY <1>2, <1>3, <1>4, <1>5, OursStays

LEMMA CallsStart ==
    ASSUME Cat!OursInv, NEW c \in CatCallers,
           \/ Cat!Notified(c) \/ Cat!SyncNow(c) \/ Cat!RotateKey(c) \/ Cat!Save(c) \/ \E u \in BOOLEAN : Cat!Disconnect(c, u)
    PROVE  Cat!OursInv'
<1>1. {"lock", "rotate", "unlist", "forget", "account"} \subseteq Cat!Stages /\ {"sync", "rotate", "disconnect", "save"} \subseteq Cat!Ops
  BY DEF Cat!Stages, Cat!Ops
<1>2. \A pc \in {"lock", "rotate", "unlist", "forget", "account"}, op \in {"sync", "rotate", "disconnect", "save"} :
          Cat!StartCall(c, op, pc) => Cat!OursInv'
  BY <1>1, StartsRight
<1>3. CASE Cat!Notified(c) \/ Cat!SyncNow(c)
  BY <1>2, <1>3 DEF Cat!Notified, Cat!SyncNow, Cat!Asked
<1>4. CASE Cat!RotateKey(c)
  BY <1>2, <1>4 DEF Cat!RotateKey, Cat!Asked
<1>5. CASE Cat!Save(c)
  BY <1>2, <1>5 DEF Cat!Save, Cat!Asked
<1>6. CASE \E u \in BOOLEAN : Cat!Disconnect(c, u)
  BY <1>2, <1>6 DEF Cat!Disconnect, Cat!Asked
<1> QED BY <1>3, <1>4, <1>5, <1>6

\* Steps that leave the rows and what was seen of them alone.
LEMMA MovingSteps ==
    ASSUME Cat!OursInv, NEW c \in CatCallers,
           \/ Cat!Lock(c) \/ Cat!NewProxyClient(c) \/ Cat!EnsureAccount(c) \/ Cat!CreateAccount(c) \/ Cat!EnsureKey(c) \/ Cat!CreateKey(c)
           \/ Cat!CheckStored(c) \/ Cat!RotateSecret(c) \/ Cat!StoreSecret(c) \/ Cat!StoreFails(c) \/ Cat!Finish(c) \/ Cat!Fails(c) \/ Cat!LeaveFails(c)
           \/ Cat!ForgetPrincipal(c) \/ Cat!ForgetProxyKey(c) \/ Cat!ForgetSecret(c) \/ Cat!ForgetSettings(c)
    PROVE  Cat!OursInv'
<1>1. stored \in Nat /\ secrets \in Nat /\ call[c] \in Cat!Caller
  BY DEF Cat!OursInv
<1>2. call[c].secret \in Nat /\ call[c].acct \in Nat
  BY <1>1 DEF Cat!Caller
<1>3. CatAccounts \in Nat
  BY CatalogAssumed DEF Cat!CatalogAssumption
<1>0. {"client", "account", "newaccount", "key", "newkey", "check", "ready", "rotate", "store", "lock", "proxykey", "secret",
       "settings", "idle"} \subseteq Cat!Stages
  BY DEF Cat!Stages
<1>4. CASE Cat!Lock(c) \/ Cat!NewProxyClient(c) \/ Cat!EnsureKey(c) \/ Cat!CheckStored(c) \/ Cat!Finish(c) \/ Cat!Fails(c) \/ Cat!LeaveFails(c) \/ Cat!StoreFails(c)
           \/ Cat!ForgetPrincipal(c) \/ Cat!ForgetProxyKey(c) \/ Cat!ForgetSettings(c)
  <2>1. UNCHANGED <<inst, remote, secrets>> /\ stored' \in Nat
    BY <1>1, <1>4 DEF Cat!Lock, Cat!NewProxyClient, Cat!EnsureKey, Cat!CheckStored, Cat!Finish, Cat!Fails, Cat!LeaveFails, Cat!StoreFails, Cat!ForgetPrincipal,
              Cat!ForgetProxyKey, Cat!ForgetSettings, Cat!store
  <2>2. \/ Cat!Goto(c, "client") \/ Cat!Goto(c, "account") \/ Cat!Goto(c, "newkey") \/ Cat!Goto(c, "check") \/ Cat!Goto(c, "ready") \/ Cat!Goto(c, "rotate")
        \/ Cat!Goto(c, "proxykey") \/ Cat!Goto(c, "secret") \/ call' = [call EXCEPT ![c] = Cat!Resting]
    BY <1>4 DEF Cat!Lock, Cat!NewProxyClient, Cat!EnsureKey, Cat!CheckStored, Cat!Finish, Cat!Fails, Cat!LeaveFails, Cat!StoreFails, Cat!ForgetPrincipal,
              Cat!ForgetProxyKey, Cat!ForgetSettings, Cat!Failed, Cat!Ends, Cat!Goto
  <2>3. ASSUME NEW pc \in Cat!Stages, Cat!Goto(c, pc) \/ call' = [call EXCEPT ![c] = Cat!Resting] PROVE Cat!OursInv'
    BY <1>1, <2>1, <2>3, MovesRight DEF Cat!Goto
  <2> QED BY <1>0, <2>2, <2>3
<1>5. CASE Cat!EnsureAccount(c)
  <2>1. Cat!Exist # {} => Cat!First \in Nat
    <3>1. Cat!Exist \subseteq Nat
      BY DEF Cat!Exist
    <3>2. Cat!Exist # {} => \E a \in Cat!Exist : \A b \in Cat!Exist : a <= b
      BY <3>1, OneIsLeast
    <3> QED BY <3>1, <3>2 DEF Cat!First
  <2>2. UNCHANGED <<inst, remote, stored, secrets>>
    BY <1>5 DEF Cat!EnsureAccount, Cat!store
  <2>3. CASE Cat!Exist = {}
    <3>1. call' = [call EXCEPT ![c].pc = "newaccount"]
      BY <1>5, <2>3 DEF Cat!EnsureAccount
    <3> QED BY <1>0, <1>1, <2>2, <3>1, MovesRight
  <2>4. CASE Cat!Exist # {}
    <3>1. \E a \in Nat : call' = [call EXCEPT ![c].pc = "key", ![c].acct = a]
      BY <1>5, <2>1, <2>4 DEF Cat!EnsureAccount
    <3> QED BY <1>0, <1>1, <2>2, <3>1, MovesRight
  <2> QED BY <2>3, <2>4
<1>6. CASE Cat!CreateAccount(c)
  <2>1. UNCHANGED <<inst, remote, stored, secrets>> /\ \E a \in Nat : call' = [call EXCEPT ![c].pc = "key", ![c].acct = a]
    <3>1. UNCHANGED <<inst, remote, stored, secrets>>
      BY <1>6 DEF Cat!CreateAccount
    <3>2. PICK a \in 1..CatAccounts : call' = [call EXCEPT ![c].pc = "key", ![c].acct = a]
      BY <1>6 DEF Cat!CreateAccount
    <3>3. a \in Nat
      BY <1>3
    <3> QED BY <3>1, <3>2, <3>3
  <2> QED BY <1>0, <1>1, <2>1, MovesRight
<1>7. CASE Cat!CreateKey(c) \/ Cat!RotateSecret(c)
  <2>1. UNCHANGED <<inst, remote, stored>>
    BY <1>7 DEF Cat!CreateKey, Cat!RotateSecret
  <2>2. secrets' = secrets + 1 /\ call' = [call EXCEPT ![c].pc = "store", ![c].secret = secrets']
    BY <1>7 DEF Cat!CreateKey, Cat!RotateSecret, Cat!NewSecret
  <2>3. secrets' \in Nat
    BY <1>1, <2>2
  <2>4. \E a \in Nat : call' = [call EXCEPT ![c].pc = "store", ![c].secret = a]
    BY <2>2, <2>3, Zenon
  <2> QED BY <1>0, <1>1, <2>1, <2>3, <2>4, MovesRight
<1>8. CASE Cat!StoreSecret(c)
  <2>1. UNCHANGED <<inst, remote, secrets>> /\ stored' \in Nat
    BY <1>2, <1>8 DEF Cat!StoreSecret
  <2>2. call' = [call EXCEPT ![c].pc = "lock"] \/ call' = [call EXCEPT ![c].pc = "ready"]
    BY <1>8 DEF Cat!StoreSecret, Cat!Goto
  <2> QED BY <1>0, <1>1, <2>1, <2>2, MovesRight
<1>9. CASE Cat!ForgetSecret(c)
  <2>1. UNCHANGED <<inst, remote, secrets>> /\ stored' \in Nat /\ call' = [call EXCEPT ![c].pc = "settings"]
    BY <1>9 DEF Cat!ForgetSecret, Cat!Goto
  <2> QED BY <1>0, <1>1, <2>1, MovesRight
<1> QED BY <1>4, <1>5, <1>6, <1>7, <1>8, <1>9

LEMMA EditRight ==
    ASSUME Cat!OursInv, NEW i \in CatInsts, Cat!Edit(i) \/ Cat!Unannounced(i)
    PROVE  Cat!OursInv'
<1>1. inst' \in [CatInsts -> [slug : Names \cup {None}, on : BOOLEAN] \cup {None}]
  <2>1. CASE \E s \in Names, on \in BOOLEAN : inst' = [inst EXCEPT ![i] = [slug |-> s, on |-> on]]
    BY <2>1 DEF Cat!OursInv
  <2>2. CASE inst' = [inst EXCEPT ![i] = Cat!Gone]
    <3>1. Cat!Gone \in [slug : Names \cup {None}, on : BOOLEAN]
      BY DEF Cat!Gone
    <3> QED BY <2>2, <3>1 DEF Cat!OursInv
  <2>3. CASE Cat!Unannounced(i) /\ inst' = [inst EXCEPT ![i].on = ~@]
    <3>1. inst[i] \in [slug : Names \cup {None}, on : BOOLEAN] /\ inst' = [inst EXCEPT ![i] = [inst[i] EXCEPT !.on = ~@]]
      BY <2>3 DEF Cat!Unannounced, Cat!OursInv
    <3>2. \A x \in [slug : Names \cup {None}, on : BOOLEAN] : [x EXCEPT !.on = ~@] \in [slug : Names \cup {None}, on : BOOLEAN]
      OBVIOUS
    <3> QED BY <3>1, <3>2 DEF Cat!OursInv
  <2> QED BY <2>1, <2>2, <2>3 DEF Cat!Edit, Cat!Unannounced
<1>2. UNCHANGED <<remote, stored, secrets, call>>
  BY DEF Cat!Edit, Cat!Unannounced
<1> QED BY <1>1, <1>2 DEF Cat!OursInv, Cat!Ours

LEMMA RebootRight ==
    ASSUME Cat!OursInv, Cat!Reboot
    PROVE  Cat!OursInv'
<1>1. call' = [c \in CatCallers |-> Cat!Resting] /\ UNCHANGED <<inst, remote, stored, secrets>>
  BY DEF Cat!Reboot, Cat!store
<1> QED BY <1>1, RestingIs DEF Cat!OursInv, Cat!Ours

\* With the principal in place.
LEMMA PrincipalRight ==
    ASSUME Cat!OursInv, NEW c \in CatCallers, Cat!Principal(c)
    PROVE  Cat!OursInv'
<1>1. UNCHANGED <<inst, remote, stored, secrets>>
  BY DEF Cat!Principal
<1>2. stored \in Nat /\ secrets \in Nat /\ {"lock", "list", "idle"} \subseteq Cat!Stages /\ call[c] \in Cat!Caller
  BY DEF Cat!OursInv, Cat!Stages
<1>3. CASE call' = [call EXCEPT ![c].pc = "lock"]
  BY <1>1, <1>2, <1>3, MovesRight
<1>4. CASE call' = [call EXCEPT ![c] = Cat!Resting]
  BY <1>1, <1>2, <1>4, MovesRight
<1>5. CASE call' = [call EXCEPT ![c].pc = "list", ![c].secret = stored, ![c].want = Cat!EnabledNow]
  <2> DEFINE x == [call[c] EXCEPT !.pc = "list", !.secret = stored, !.want = Cat!EnabledNow]
  <2>1. call' = [call EXCEPT ![c] = x]
    BY <1>5 DEF Cat!OursInv
  <2>2. Cat!EnabledNow \in [CatInsts -> Names \cup {None}]
    BY DEF Cat!OursInv, Cat!EnabledNow
  <2>3. \A r \in Cat!Caller, w \in [CatInsts -> Names \cup {None}] :
          /\ [r EXCEPT !.pc = "list", !.secret = stored, !.want = w] \in Cat!Caller
          /\ [r EXCEPT !.pc = "list", !.secret = stored, !.want = w].seen = r.seen
          /\ [r EXCEPT !.pc = "list", !.secret = stored, !.want = w].drop = r.drop
    BY <1>2 DEF Cat!Caller
  <2>4. x \in Cat!Caller /\ x.seen = call[c].seen /\ x.drop = call[c].drop
    BY <1>2, <2>2, <2>3
  <2> HIDE DEF x
  <2> QED BY <1>1, <1>2, <2>1, <2>4, CallerMoves
<1>6. \/ call' = [call EXCEPT ![c].pc = "lock"] \/ call' = [call EXCEPT ![c] = Cat!Resting]
      \/ call' = [call EXCEPT ![c].pc = "list", ![c].secret = stored, ![c].want = Cat!EnabledNow]
  BY DEF Cat!Principal, Cat!Goto
<1> QED BY <1>3, <1>4, <1>5, <1>6

\* The list takes the rows as they are.
LEMMA ListRight ==
    ASSUME Cat!OursInv, NEW c \in CatCallers, Cat!List(c)
    PROVE  Cat!OursInv'
<1>1. UNCHANGED <<inst, remote, stored, secrets>>
  BY DEF Cat!List, Cat!store
<1>2. stored \in Nat /\ secrets \in Nat /\ {"publish", "idle"} \subseteq Cat!Stages /\ call[c] \in Cat!Caller
  BY DEF Cat!OursInv, Cat!Stages
<1> DEFINE todo == {i \in CatInsts : call[c].want[i] # None}
           drop == {e \in Entries : Cat!IsManaged(remote[e]) /\ Cat!StandsFor(call[c], remote[e]) = {}}
<1>4. CASE call' = [call EXCEPT ![c].pc = "publish", ![c].seen = remote, ![c].todo = todo, ![c].drop = drop]
  <2>1. todo \in SUBSET CatInsts /\ drop \in SUBSET Entries /\ \A e \in drop : Cat!Ours(e)
    BY DEF Cat!IsManaged, Cat!Ours
  <2> HIDE DEF todo, drop
  <2> DEFINE x == [call[c] EXCEPT !.pc = "publish", !.seen = remote, !.todo = todo, !.drop = drop]
  <2>2. call' = [call EXCEPT ![c] = x]
    BY <1>4 DEF Cat!OursInv
  <2>3. \A r \in Cat!Caller, s \in [Entries -> Cat!Row \cup {None}] :
          /\ [r EXCEPT !.pc = "publish", !.seen = s, !.todo = todo, !.drop = drop] \in Cat!Caller
          /\ [r EXCEPT !.pc = "publish", !.seen = s, !.todo = todo, !.drop = drop].seen = s
          /\ [r EXCEPT !.pc = "publish", !.seen = s, !.todo = todo, !.drop = drop].drop = drop
    BY <1>2, <2>1 DEF Cat!Caller
  <2>4. remote \in [Entries -> Cat!Row \cup {None}]
    BY DEF Cat!OursInv
  <2>5. x \in Cat!Caller /\ x.seen = remote /\ x.drop = drop
    BY <1>2, <2>3, <2>4
  <2> HIDE DEF x
  <2>6. \A e \in Entries : Cat!IsManaged(x.seen[e]) \/ e \in x.drop => Cat!Ours(e)
    BY <2>1, <2>5 DEF Cat!IsManaged, Cat!Ours
  <2>7. \A e \in Entries : Cat!Ours(e) => Cat!Ours(e)'
    BY <1>1 DEF Cat!Ours
  <2> QED BY <1>1, <1>2, <2>2, <2>4, <2>5, <2>6, <2>7, OursStays
<1> QED BY <1>4 DEF Cat!List

\* What is published is the manager's.
LEMMA PublishedOurs ==
    ASSUME Cat!OursInv, NEW c \in CatCallers, NEW i \in CatInsts
    PROVE  Cat!Published(call[c], i) \in Cat!Row /\ Cat!Published(call[c], i).managed
<1>1. call[c] \in Cat!Caller
  BY DEF Cat!OursInv
<1>2. call[c].want[i] \in Names \cup {None} /\ call[c].secret \in Nat
  BY <1>1 DEF Cat!Caller
<1> QED BY <1>2 DEF Cat!Published, Cat!Row

\* A caller has less to do, and the proxy's rows are as they were but for some of the manager's.
LEMMA RowsRight ==
    ASSUME Cat!OursInv, NEW c \in CatCallers, NEW todo \in SUBSET CatInsts, NEW drop \in SUBSET Entries,
           drop \subseteq call[c].drop,
           \/ call' = [call EXCEPT ![c].todo = todo] /\ drop = call[c].drop
           \/ call' = [call EXCEPT ![c].drop = drop] /\ todo = call[c].todo,
           UNCHANGED <<inst, stored, secrets>>,
           remote' \in [Entries -> Cat!Row \cup {None}], \A e \in Entries : Cat!Ours(e) => Cat!Ours(e)'
    PROVE  Cat!OursInv'
<1>1. call[c] \in Cat!Caller /\ stored \in Nat /\ secrets \in Nat
  BY DEF Cat!OursInv
<1> DEFINE x == [call[c] EXCEPT !.todo = todo, !.drop = drop]
<1>2. \A r \in Cat!Caller : /\ [r EXCEPT !.todo = todo, !.drop = drop] \in Cat!Caller
                            /\ [r EXCEPT !.todo = todo, !.drop = drop].seen = r.seen
                            /\ [r EXCEPT !.todo = todo, !.drop = drop].drop = drop
                            /\ drop = r.drop => ([r EXCEPT !.todo = todo] = [r EXCEPT !.todo = todo, !.drop = drop])
                            /\ todo = r.todo => ([r EXCEPT !.drop = drop] = [r EXCEPT !.todo = todo, !.drop = drop])
  BY DEF Cat!Caller
<1>3. x \in Cat!Caller /\ x.seen = call[c].seen /\ x.drop = drop
  BY <1>1, <1>2
<1>4. call' = [call EXCEPT ![c] = x]
  <2>1. CASE call' = [call EXCEPT ![c].todo = todo] /\ drop = call[c].drop
    <3>1. call' = [call EXCEPT ![c] = [call[c] EXCEPT !.todo = todo]]
      BY SMTT(60), <2>1
    <3> QED BY <1>1, <1>2, <2>1, <3>1
  <2>2. CASE call' = [call EXCEPT ![c].drop = drop] /\ todo = call[c].todo
    <3>1. call' = [call EXCEPT ![c] = [call[c] EXCEPT !.drop = drop]]
      BY <2>2
    <3> QED BY <1>1, <1>2, <2>2, <3>1
  <2> QED BY <2>1, <2>2
<1> HIDE DEF x
<1>5. \A e \in Entries : Cat!IsManaged(x.seen[e]) \/ e \in x.drop => Cat!Ours(e)
  BY <1>3 DEF Cat!OursInv
<1> QED BY <1>1, <1>3, <1>4, <1>5, OursStays

\* A row that is written, or taken out, was the manager's.
LEMMA RowWritten ==
    ASSUME Cat!OursInv, NEW e \in Entries, NEW r \in Cat!Row \cup {None}, remote' = [remote EXCEPT ![e] = r],
           r = None \/ r.managed, Cat!Ours(e)
    PROVE  /\ remote' \in [Entries -> Cat!Row \cup {None}] /\ \A k \in Entries : Cat!Ours(k) => Cat!Ours(k)'
           /\ \A k \in Entries : ~Cat!Ours(k) => remote'[k] = remote[k]
<1>1. remote \in [Entries -> Cat!Row \cup {None}]
  BY DEF Cat!OursInv
<1>2. remote' \in [Entries -> Cat!Row \cup {None}] /\ remote'[e] = r /\ \A k \in Entries : k # e => remote'[k] = remote[k]
  BY <1>1
<1>3. \A k \in Entries : Cat!Ours(k) => Cat!Ours(k)'
  BY <1>2 DEF Cat!Ours
<1> QED BY <1>2, <1>3

\* What a step of a pass does to the rows: at most it writes one of the manager's.
LEMMA OneRow ==
    ASSUME Cat!OursInv, NEW c \in CatCallers, Cat!Publish(c) \/ Cat!Unpublish(c) \/ Cat!UnpublishOne(c)
    PROVE  \/ UNCHANGED remote
           \/ \E e \in Entries, r \in Cat!Row \cup {None} :
                remote' = [remote EXCEPT ![e] = r] /\ (r = None \/ r.managed) /\ Cat!Ours(e)
<1>1. call[c] \in Cat!Caller
  BY DEF Cat!OursInv
<1>2. call[c].todo \subseteq CatInsts /\ call[c].drop \subseteq Entries /\ \A e \in call[c].drop : Cat!Ours(e)
  BY <1>1 DEF Cat!Caller, Cat!OursInv
<1>3. CASE Cat!Publish(c)
  <2>1. PICK i \in call[c].todo :
          \/ UNCHANGED remote
          \/ \E e \in Entries : remote[e] = None /\ remote' = [remote EXCEPT ![e] = Cat!Published(call[c], i)]
          \/ \E e \in Cat!Candidates(call[c], i) : remote' = [remote EXCEPT ![e] = Cat!Published(call[c], i)]
    BY <1>3, Zenon DEF Cat!Publish
  <2>2. Cat!Published(call[c], i) \in Cat!Row /\ Cat!Published(call[c], i).managed
    BY <1>2, PublishedOurs
  <2>3. \A e \in Cat!Candidates(call[c], i) : e \in Entries /\ Cat!Ours(e)
    <3>1. \A e \in Cat!Candidates(call[c], i) : e \in Entries /\ Cat!IsManaged(call[c].seen[e])
      BY DEF Cat!Candidates
    <3> QED BY <3>1 DEF Cat!OursInv
  <2>4. \A e \in Entries : remote[e] = None => Cat!Ours(e)
    BY DEF Cat!Ours
  <2> QED BY <2>1, <2>2, <2>3, <2>4
<1>4. CASE Cat!Unpublish(c)
  <2>1. UNCHANGED remote \/ \E e \in call[c].drop : remote' = [remote EXCEPT ![e] = None]
    BY <1>4 DEF Cat!Unpublish
  <2> QED BY <1>2, <2>1
<1>5. CASE Cat!UnpublishOne(c)
  <2>1. UNCHANGED remote \/ \E e \in call[c].drop : remote' = [remote EXCEPT ![e] = None]
    BY <1>5 DEF Cat!UnpublishOne
  <2> QED BY <1>2, <2>1
<1> QED BY <1>3, <1>4, <1>5

LEMMA RowSteps ==
    ASSUME Cat!OursInv, NEW c \in CatCallers, Cat!Publish(c) \/ Cat!Unpublish(c) \/ Cat!UnpublishOne(c)
    PROVE  Cat!OursInv'
<1>1. call[c] \in Cat!Caller /\ stored \in Nat /\ secrets \in Nat /\ {"forget", "idle"} \subseteq Cat!Stages
  BY DEF Cat!OursInv, Cat!Stages
<1>2. call[c].todo \in SUBSET CatInsts /\ call[c].drop \in SUBSET Entries
  BY <1>1 DEF Cat!Caller
<1>3. remote' \in [Entries -> Cat!Row \cup {None}] /\ \A e \in Entries : Cat!Ours(e) => Cat!Ours(e)'
  <2>1. CASE UNCHANGED remote
    BY <2>1 DEF Cat!OursInv, Cat!Ours
  <2> QED BY <2>1, OneRow, RowWritten
<1>4. UNCHANGED <<inst, stored, secrets>>
  BY DEF Cat!Publish, Cat!Unpublish, Cat!UnpublishOne
<1>6. CASE UNCHANGED remote /\ call' = [call EXCEPT ![c].pc = "forget"]
  BY <1>1, <1>4, <1>6, MovesRight
<1>7. CASE \E i : call' = [call EXCEPT ![c].todo = @ \ {i}]
  <2>1. PICK i : call' = [call EXCEPT ![c].todo = @ \ {i}]
    BY <1>7
  <2> DEFINE todo == call[c].todo \ {i}
  <2>2. call' = [call EXCEPT ![c].todo = todo] /\ todo \in SUBSET CatInsts
    BY <1>2, <2>1 DEF Cat!OursInv
  <2> HIDE DEF todo
  <2> QED BY <1>2, <1>3, <1>4, <2>2, RowsRight
<1>8. CASE \E e : call' = [call EXCEPT ![c].drop = @ \ {e}]
  <2>1. PICK e : call' = [call EXCEPT ![c].drop = @ \ {e}]
    BY <1>8
  <2> DEFINE drop == call[c].drop \ {e}
  <2>2. call' = [call EXCEPT ![c].drop = drop] /\ drop \in SUBSET Entries /\ drop \subseteq call[c].drop
    BY <1>2, <2>1 DEF Cat!OursInv
  <2> HIDE DEF drop
  <2> QED BY <1>2, <1>3, <1>4, <2>2, RowsRight
<1>9. CASE Cat!Publish(c)
  <2> QED BY <1>7, <1>9, Zenon DEF Cat!Publish
<1>10. CASE Cat!Unpublish(c)
  <2> QED BY <1>8, <1>10 DEF Cat!Unpublish
<1>11. CASE Cat!UnpublishOne(c)
  <2>1. CASE call[c].drop = {} /\ Cat!Goto(c, "forget") /\ UNCHANGED remote
    BY <1>6, <2>1 DEF Cat!Goto
  <2>2. CASE \E e \in call[c].drop : remote' = [remote EXCEPT ![e] = None] /\ call' = [call EXCEPT ![c].drop = @ \ {e}]
    BY <1>8, <2>2
  <2> QED BY <1>11, <2>1, <2>2, Zenon DEF Cat!UnpublishOne
<1> QED BY <1>9, <1>10, <1>11

\* unpublishAll takes the manager's rows as they are.
LEMMA UnpublishAllRight ==
    ASSUME Cat!OursInv, NEW c \in CatCallers, Cat!UnpublishAll(c)
    PROVE  Cat!OursInv'
<1>1. UNCHANGED <<inst, remote, stored, secrets>>
  BY DEF Cat!UnpublishAll, Cat!store
<1>2. stored \in Nat /\ secrets \in Nat /\ {"unpublish", "idle"} \subseteq Cat!Stages /\ call[c] \in Cat!Caller
  BY DEF Cat!OursInv, Cat!Stages
<1> DEFINE drop == {e \in Entries : Cat!IsManaged(remote[e])}
<1>4. CASE call' = [call EXCEPT ![c].pc = "unpublish", ![c].drop = drop]
  <2>1. drop \in SUBSET Entries /\ \A e \in drop : Cat!Ours(e)
    BY DEF Cat!IsManaged, Cat!Ours
  <2> HIDE DEF drop
  <2> DEFINE x == [call[c] EXCEPT !.pc = "unpublish", !.drop = drop]
  <2>2. call' = [call EXCEPT ![c] = x]
    BY <1>4 DEF Cat!OursInv
  <2>3. \A r \in Cat!Caller : /\ [r EXCEPT !.pc = "unpublish", !.drop = drop] \in Cat!Caller
                              /\ [r EXCEPT !.pc = "unpublish", !.drop = drop].seen = r.seen
                              /\ [r EXCEPT !.pc = "unpublish", !.drop = drop].drop = drop
    BY <1>2, <2>1 DEF Cat!Caller
  <2>4. x \in Cat!Caller /\ x.seen = call[c].seen /\ x.drop = drop
    BY <1>2, <2>3
  <2> HIDE DEF x
  <2>5. \A e \in Entries : Cat!IsManaged(x.seen[e]) \/ e \in x.drop => Cat!Ours(e)
    BY <2>1, <2>4 DEF Cat!OursInv
  <2>6. remote' \in [Entries -> Cat!Row \cup {None}] /\ \A e \in Entries : Cat!Ours(e) => Cat!Ours(e)'
    BY <1>1 DEF Cat!OursInv, Cat!Ours
  <2> QED BY <1>1, <1>2, <2>2, <2>4, <2>5, <2>6, OursStays
<1> QED BY <1>4 DEF Cat!UnpublishAll

\* At the start nobody has seen anything.
LEMMA CatBegin == Cat!CatInit => Cat!OursInv
<1> SUFFICES ASSUME Cat!CatInit PROVE Cat!OursInv
  OBVIOUS
<1>1. inst \in [CatInsts -> [slug : Names \cup {None}, on : BOOLEAN] \cup {None}]
  <2>1. inst \in [CatInsts -> {None} \cup [slug : Names, on : BOOLEAN]]
    BY DEF Cat!CatInit
  <2> QED BY <2>1
<1>2. remote \in [Entries -> Cat!Row \cup {None}]
  <2>1. PICK legacy \in {None} \cup (Entries \ Foreign), s \in Names :
          remote = [e \in Entries |-> IF e \in Foreign THEN [managed |-> FALSE, owner |-> None, name |-> s, key |-> 0]
                                      ELSE IF e = legacy THEN [managed |-> TRUE, owner |-> s, name |-> s, key |-> 0] ELSE None]
    BY DEF Cat!CatInit
  <2>2. \A m \in BOOLEAN : [managed |-> m, owner |-> None, name |-> s, key |-> 0] \in Cat!Row
                         /\ [managed |-> m, owner |-> s, name |-> s, key |-> 0] \in Cat!Row
    BY DEF Cat!Row
  <2> QED BY <2>1, <2>2
<1>3. stored \in Nat /\ secrets \in Nat /\ call = [c \in CatCallers |-> Cat!Resting]
  BY DEF Cat!CatInit
<1> QED BY <1>1, <1>2, <1>3, RestingIs DEF Cat!OursInv

LEMMA CatGo == Cat!OursInv /\ [Cat!CatNext]_(Cat!catVars) => Cat!OursInv'
<1> SUFFICES ASSUME Cat!OursInv, [Cat!CatNext]_(Cat!catVars) PROVE Cat!OursInv'
  OBVIOUS
<1>1. CASE UNCHANGED Cat!catVars
  BY <1>1 DEF Cat!catVars, Cat!OursInv, Cat!Ours
<1>2. ASSUME NEW c \in CatCallers, Cat!Pass(c) PROVE Cat!OursInv'
  BY <1>2, MovingSteps, PrincipalRight, ListRight, RowSteps, UnpublishAllRight DEF Cat!Pass
<1> QED BY <1>1, <1>2, EditRight, RebootRight, CallsStart DEF Cat!CatNext

\* A step changes only rows that are not there or the manager's.
LEMMA CatOthers == Cat!OursInv /\ [Cat!CatNext]_(Cat!catVars) => Cat!OthersKept
<1> SUFFICES ASSUME Cat!OursInv, [Cat!CatNext]_(Cat!catVars), NEW e \in Entries, ~Cat!Ours(e) PROVE remote'[e] = remote[e]
  BY DEF Cat!OthersKept, Cat!Ours
<1>1. CASE UNCHANGED remote
  BY <1>1
<1>2. ASSUME NEW c \in CatCallers, Cat!Publish(c) \/ Cat!Unpublish(c) \/ Cat!UnpublishOne(c) PROVE remote'[e] = remote[e]
  BY <1>2, OneRow, RowWritten
<1>3. ASSUME NEW c \in CatCallers, Cat!Pass(c) PROVE remote'[e] = remote[e]
  <2>1. \/ Cat!Publish(c) \/ Cat!Unpublish(c) \/ Cat!UnpublishOne(c) \/ UNCHANGED remote
    BY <1>3 DEF Cat!Pass, Cat!Lock, Cat!NewProxyClient, Cat!EnsureAccount, Cat!CreateAccount, Cat!EnsureKey, Cat!CreateKey, Cat!CheckStored, Cat!RotateSecret,
                Cat!StoreSecret, Cat!StoreFails, Cat!Fails, Cat!LeaveFails, Cat!Principal, Cat!List, Cat!Finish, Cat!UnpublishAll, Cat!ForgetPrincipal, Cat!ForgetProxyKey, Cat!ForgetSecret,
                Cat!ForgetSettings, Cat!store
  <2> QED BY SMTT(60), <1>1, <1>2, <2>1
<1>4. ASSUME NEW c \in CatCallers, Cat!Notified(c) \/ Cat!SyncNow(c) \/ Cat!RotateKey(c) \/ Cat!Save(c) \/ \E u \in BOOLEAN : Cat!Disconnect(c, u)
      PROVE  UNCHANGED remote
  BY <1>4 DEF Cat!Notified, Cat!SyncNow, Cat!RotateKey, Cat!Save, Cat!Disconnect, Cat!Asked, Cat!StartCall
<1>5. ASSUME NEW i \in CatInsts, Cat!Edit(i) \/ Cat!Unannounced(i) PROVE UNCHANGED remote
  BY <1>5 DEF Cat!Edit, Cat!Unannounced
<1>6. CASE Cat!Reboot
  BY <1>6 DEF Cat!Reboot, Cat!store
<1>7. CASE UNCHANGED Cat!catVars
  BY <1>7 DEF Cat!catVars
<1> QED BY <1>1, <1>3, <1>4, <1>5, <1>6, <1>7 DEF Cat!CatNext


-----------------------------------------------------------------------------
(* The model imports.                                                      *)

Requests == ImpRequests
Plain == ImpPlain
SlugOf == ImpSlugs
Starters == ImpStarters
Elsewhere == n2
impJob == s1
file == s2
impModel == s3
impInst == s4
imp == s5
impCall == s6
pass == s7
clean == s8
made == s9
told == s10
smooth == s11
impEdits == s12
USE DEF Requests, Plain, SlugOf, Starters, Elsewhere, impJob, file, impModel, impInst, imp, impCall, pass, clean, made, told, smooth, impEdits

\* The models' names tell what they were made for.
LEMMA ModelNames ==
    /\ \A r \in Requests : Imp!Own(r) \in Imp!Models /\ Imp!Own(r) # None /\ Imp!Own(r) # Imp!Users
    /\ \A j \in Imp!Jobs : Imp!Reg(j) \in Imp!Models /\ Imp!Reg(j) # None
    /\ \A r \in Requests, j \in Imp!Jobs : Imp!Own(r) # Imp!Reg(j)
    /\ \A q, r \in Requests : Imp!Own(q) = Imp!Own(r) => q = r
    /\ \A j, k \in Imp!Jobs : Imp!Reg(j) = Imp!Reg(k) => j = k
    /\ Imp!Users \in Imp!Models /\ Imp!Users # None /\ Elsewhere \notin Imp!Models /\ Elsewhere # None /\ None \notin Imp!Jobs /\ None \notin Imp!Models
    /\ Requests \subseteq Imp!Jobs /\ Requests \subseteq Imp!Passes /\ None \notin Requests /\ Starters \subseteq Requests
  BY ImportsAssumed DEF Imp!ImportsAssumption, Imp!Models, Imp!Jobs, Imp!Passes, Imp!Own, Imp!Reg, Imp!Users

\* What is recorded of the models' jobs stays.
MadeStays == \A m \in Imp!Models : made[m] # None => made'[m] = made[m]
\* A call that is settled stays so.
SettledStays == \A r \in Requests : impCall[r].pc \in Imp!Settled => impCall'[r].pc \in Imp!Settled
\* A row that has its instance after a step had it before, and may have lost its model.
LinksShrink ==
    \A k \in Requests :
        impCall[k].pc \in Imp!Settled /\ Imp!Joined(k)' =>
            /\ Imp!Joined(k) /\ imp'[k].job = imp[k].job /\ imp'[k].model \in {imp[k].model, None}
            /\ impJob[imp[k].job] = "COMPLETED" => impJob'[imp[k].job] = "COMPLETED"
            /\ smooth /\ impJob[imp[k].job] \in Imp!Lost => impJob'[imp[k].job] \in Imp!Lost

\* What a pass has read of a row stays right while rows only lose their links.
LEMMA ItemsStay ==
    ASSUME SettledStays, LinksShrink, smooth' = smooth, smooth /\ file => file', NEW it \in Imp!Item, Imp!ItemRight(it)
    PROVE  Imp!ItemRight(it)'
<1>1. it.key \in Requests
  BY DEF Imp!Item
<1>2. it.inst = it.key /\ impCall[it.key].pc \in Imp!Settled /\ (it.to = "COMPLETED" /\ smooth => file)
  BY DEF Imp!ItemRight
<1>3. impCall'[it.key].pc \in Imp!Settled /\ (it.to = "COMPLETED" /\ smooth' => file')
  BY <1>1, <1>2 DEF SettledStays
<1>4. ASSUME Imp!Joined(it.key)'
      PROVE  /\ imp'[it.key].model \in {it.model, None}
             /\ it.to = "COMPLETED" => impJob'[imp'[it.key].job] = "COMPLETED"
             /\ smooth' /\ it.to \in Imp!Lost => impJob'[imp'[it.key].job] \in Imp!Lost
  BY <1>1, <1>2, <1>4 DEF Imp!ItemRight, LinksShrink
<1> QED BY <1>2, <1>3, <1>4 DEF Imp!ItemRight

\* How a pass looks at each of its steps.
LEMMA PassAs ==
    ASSUME Imp!ImpTyped, NEW p \in Imp!Passes
    PROVE  /\ pass[p].pc \in {"idle", "items", "file", "enable", "claim", "start", "jobs", "create", "link"}
           /\ pass[p] = [pc |-> pass[p].pc, todo |-> pass[p].todo, item |-> pass[p].item]
           /\ pass[p].pc \in {"items", "file", "enable", "claim", "start"} => pass[p].todo \in SUBSET Imp!Item
           /\ pass[p].pc \in {"file", "enable", "claim", "start"} => pass[p].item \in Imp!Item
           /\ pass[p].pc \in {"jobs", "create", "link"} => pass[p].todo \in SUBSET Imp!Jobs
           /\ pass[p].pc \in {"create", "link"} => pass[p].item \in Imp!JobItem
           /\ pass[p].pc = "items" => pass[p].item \in {None} \cup Imp!Item
           /\ pass[p].pc = "jobs" => pass[p].item \in {None} \cup Imp!JobItem
<1>1. pass[p] \in Imp!Pass
  BY DEF Imp!ImpTyped
<1> QED BY <1>1 DEF Imp!Pass

LEMMA PassMade ==
    /\ \A todo \in SUBSET Imp!Item, it \in Imp!Item, pc \in {"items", "file", "enable", "claim", "start"} :
          [pc |-> pc, todo |-> todo, item |-> it] \in Imp!Pass
    /\ \A todo \in SUBSET Imp!Item : [pc |-> "items", todo |-> todo, item |-> None] \in Imp!Pass
    /\ \A todo \in SUBSET Imp!Jobs, it \in Imp!JobItem, pc \in {"jobs", "create", "link"} : [pc |-> pc, todo |-> todo, item |-> it] \in Imp!Pass
    /\ \A todo \in SUBSET Imp!Jobs : [pc |-> "jobs", todo |-> todo, item |-> None] \in Imp!Pass
    /\ Imp!NoPass \in Imp!Pass
  BY DEF Imp!Pass, Imp!NoPass

\* The invariant, for a pass that moves to x.
LEMMA ImpPassMoves ==
    ASSUME Imp!ImpInv, NEW p \in Imp!Passes, NEW x \in Imp!Pass, pass' = [pass EXCEPT ![p] = x],
           x.pc \in {"items", "file", "enable", "claim", "start"} => \A it \in x.todo : Imp!ItemRight(it)',
           x.pc \in {"file", "enable", "claim", "start"} => Imp!ItemRight(x.item)' /\ x.item.to = "COMPLETED",
           x.pc \in {"create", "link"} /\ x.item.owns => x.item.model = Imp!Reg(x.item.job) /\ made'[Imp!Reg(x.item.job)] = x.item.job,
           x.pc = "create" => ~x.item.owns,
           MadeStays, SettledStays, LinksShrink, smooth' = smooth, smooth /\ file => file'
    PROVE  pass' \in [Imp!Passes -> Imp!Pass] /\ \A q \in Imp!Passes : Imp!PassRight(q)'
<1>1. pass \in [Imp!Passes -> Imp!Pass]
  BY DEF Imp!ImpInv, Imp!ImpTyped
<1>2. pass' \in [Imp!Passes -> Imp!Pass] /\ pass'[p] = x /\ \A q \in Imp!Passes : q # p => pass'[q] = pass[q]
  BY <1>1
<1>3. Imp!PassRight(p)'
  BY <1>2 DEF Imp!PassRight
<1>4. ASSUME NEW q \in Imp!Passes, q # p PROVE Imp!PassRight(q)'
  <2>1. Imp!PassRight(q) /\ Imp!ImpTyped
    BY DEF Imp!ImpInv
  <2>2. pass[q].pc \in {"items", "file", "enable", "claim", "start"} => \A it \in pass[q].todo : Imp!ItemRight(it)'
    BY <2>1, PassAs, ItemsStay DEF Imp!PassRight
  <2>3. pass'[q].pc \in {"file", "enable", "claim", "start"} => Imp!ItemRight(pass[q].item)' /\ pass'[q].item.to = "COMPLETED"
    <3> HAVE pass'[q].pc \in {"file", "enable", "claim", "start"}
    <3>1. pass[q].item \in Imp!Item /\ Imp!ItemRight(pass[q].item) /\ pass[q].item.to = "COMPLETED"
      BY <1>2, <1>4, <2>1, PassAs DEF Imp!PassRight
    <3>2. PICK it \in Imp!Item : it = pass[q].item
      BY <3>1
    <3>3. Imp!ItemRight(it)'
      BY <3>1, <3>2, ItemsStay
    <3> QED BY <1>2, <1>4, <3>1, <3>2, <3>3
  <2>4. pass[q].pc \in {"create", "link"} /\ pass[q].item.owns =>
          pass[q].item.model = Imp!Reg(pass[q].item.job) /\ made'[Imp!Reg(pass[q].item.job)] = pass[q].item.job
    <3> HAVE pass[q].pc \in {"create", "link"} /\ pass[q].item.owns
    <3>1. pass[q].item.job \in Imp!Jobs
      BY <2>1, PassAs DEF Imp!JobItem
    <3>2. pass[q].item.model = Imp!Reg(pass[q].item.job) /\ made[Imp!Reg(pass[q].item.job)] = pass[q].item.job
      BY <2>1 DEF Imp!PassRight
    <3> QED BY <3>1, <3>2, ModelNames DEF MadeStays
  <2>5. pass[q].pc = "create" => ~pass[q].item.owns
    BY <2>1 DEF Imp!PassRight
  <2> QED BY <1>2, <1>4, <2>2, <2>3, <2>4, <2>5 DEF Imp!PassRight
<1> QED BY <1>2, <1>3, <1>4

\* The same when no pass moves.
LEMMA PassesStay ==
    ASSUME Imp!ImpInv, UNCHANGED pass, MadeStays, SettledStays, LinksShrink, smooth' = smooth, smooth /\ file => file'
    PROVE  pass' \in [Imp!Passes -> Imp!Pass] /\ \A q \in Imp!Passes : Imp!PassRight(q)'
<1> SUFFICES ASSUME NEW q \in Imp!Passes PROVE Imp!PassRight(q)'
  BY DEF Imp!ImpInv, Imp!ImpTyped
<1>1. Imp!PassRight(q) /\ Imp!ImpTyped
  BY DEF Imp!ImpInv
<1>2. pass[q].pc \in {"items", "file", "enable", "claim", "start"} => \A it \in pass[q].todo : Imp!ItemRight(it)'
  BY <1>1, PassAs, ItemsStay DEF Imp!PassRight
<1>3. pass[q].pc \in {"file", "enable", "claim", "start"} => Imp!ItemRight(pass[q].item)' /\ pass[q].item.to = "COMPLETED"
  BY <1>1, PassAs, ItemsStay DEF Imp!PassRight
<1>4. pass[q].pc \in {"create", "link"} /\ pass[q].item.owns =>
        pass[q].item.model = Imp!Reg(pass[q].item.job) /\ made'[Imp!Reg(pass[q].item.job)] = pass[q].item.job
  <2> HAVE pass[q].pc \in {"create", "link"} /\ pass[q].item.owns
  <2>1. pass[q].item.job \in Imp!Jobs
    BY <1>1, PassAs DEF Imp!JobItem
  <2>2. pass[q].item.model = Imp!Reg(pass[q].item.job) /\ made[Imp!Reg(pass[q].item.job)] = pass[q].item.job
    BY <1>1 DEF Imp!PassRight
  <2> QED BY <2>1, <2>2, ModelNames DEF MadeStays
<1>5. pass[q].pc = "create" => ~pass[q].item.owns
  BY <1>1 DEF Imp!PassRight
<1> QED BY <1>2, <1>3, <1>4, <1>5 DEF Imp!PassRight

\* What a removal has read stays right.
LEMMA CleanStays ==
    ASSUME Imp!ImpInv, UNCHANGED clean, MadeStays
    PROVE  clean' \in Imp!Clean /\ \A r \in clean'.rows : r.job = clean'.job /\ Imp!Rightly(r)'
<1>1. \A r \in clean.rows : r \in Imp!ImpRow /\ r.job = clean.job /\ Imp!Rightly(r)
  BY DEF Imp!ImpInv, Imp!ImpTyped, Imp!Clean
<1>2. \A r \in clean.rows : r.owns /\ r.model # None => made'[r.model] = r.job
  BY <1>1, ModelNames DEF Imp!Rightly, MadeStays, Imp!ImpRow
<1> QED BY <1>1, <1>2 DEF Imp!Rightly, Imp!ImpInv, Imp!ImpTyped

\* A row stays right that a step leaves alone, with what it refers to.
LEMMA RowStays ==
    ASSUME Imp!ImpInv, NEW k \in Imp!Jobs, imp'[k] = imp[k], smooth' = smooth, told \subseteq told', MadeStays, SettledStays,
           imp[k] # None => Imp!Exists(imp[k].job)' /\ imp[k].model \in {impModel', None},
           Imp!Joined(k) =>
             /\ impInst'[k] # None /\ (impInst'[k].enabled /\ ~impInst'[k].asked => impInst[k].enabled /\ ~impInst[k].asked)
             /\ impJob[imp[k].job] = "COMPLETED" => impJob'[imp[k].job] = "COMPLETED"
             /\ smooth /\ impJob[imp[k].job] \in Imp!Lost => impJob'[imp[k].job] \in Imp!Lost
    PROVE  Imp!RowRight(k)'
<1>1. Imp!RowRight(k) /\ imp[k] \in Imp!ImpRow \cup {None}
  BY DEF Imp!ImpInv, Imp!ImpTyped
<1>2. imp[k] # None => Imp!Rightly(imp[k])'
  BY <1>1, ModelNames DEF Imp!RowRight, Imp!Rightly, MadeStays, Imp!ImpRow
<1>3. Imp!Joined(k)' => Imp!Joined(k)
  BY DEF Imp!Joined
<1> QED BY <1>1, <1>2, <1>3 DEF Imp!RowRight, Imp!Joined, Imp!HasInst, SettledStays

\* Where the call may go whose instance is there.
MayStand == {"undo_inst", "undo_rest", "left"} \cup Imp!Settled

\* An instance likewise.
LEMMA InstStays ==
    ASSUME Imp!ImpInv, NEW i \in Requests, impInst'[i] = impInst[i], smooth' = smooth, told \subseteq told',
           Imp!HasInst(i) => /\ impInst[i].model \in {impModel', Elsewhere}
                             /\ impCall'[i] = impCall[i] \/ impCall'[i].pc \in MayStand
    PROVE  Imp!InstRight(i)'
<1>1. Imp!InstRight(i)
  BY DEF Imp!ImpInv
<1> QED BY <1>1 DEF Imp!InstRight, Imp!HasInst, Imp!Settled, MayStand

\* And a call.
LEMMA CallStays ==
    ASSUME Imp!ImpInv, NEW r \in Requests, impCall'[r] = impCall[r], made'[Imp!Own(r)] = made[Imp!Own(r)], impModel' = Imp!Own(r) => impModel = Imp!Own(r),
           impJob[r] = "absent" => impJob'[r] = "absent" \/ impCall[r].pc # "idle",
           \A j \in Imp!Jobs : impJob[j] \in {"COMPLETED", "removed"} => impJob'[j] \in {"COMPLETED", "removed"}
    PROVE  Imp!CallRight(r)'
<1>1. Imp!CallRight(r) /\ impCall[r] \in Imp!Call
  BY DEF Imp!ImpInv, Imp!ImpTyped
<1>2. impCall[r].job \in Imp!Jobs \cup {None}
  BY <1>1 DEF Imp!Call
<1> QED BY <1>1, <1>2 DEF Imp!CallRight

\* A request's place in its call, when it moves.
LEMMA CallAs ==
    ASSUME Imp!ImpInv, NEW r \in Requests
    PROVE  /\ impCall[r] = [pc |-> impCall[r].pc, job |-> impCall[r].job, done |-> impCall[r].done, model |-> impCall[r].model, owns |-> impCall[r].owns]
           /\ impCall[r].pc \in {"idle", "look", "model", "failed", "left"} \cup Imp!Held \cup Imp!Settled
           /\ impCall[r].job \in Imp!Jobs \cup {None} /\ impCall[r].done \in BOOLEAN /\ impCall[r].model \in Imp!Models \cup {None}
           /\ impCall[r].owns \in BOOLEAN /\ Imp!CallRight(r)
<1>1. impCall[r] \in Imp!Call /\ Imp!CallRight(r)
  BY DEF Imp!ImpInv, Imp!ImpTyped
<1> QED BY <1>1 DEF Imp!Call

\* The calls, when one moves.
LEMMA CallMoves ==
    ASSUME Imp!ImpInv, NEW r \in Requests, impCall' \in [Requests -> Imp!Call], \A q \in Requests : q # r => impCall'[q] = impCall[q],
           impCall[r].pc \notin Imp!Settled \/ impCall'[r].pc \in Imp!Settled, Imp!CallRight(r)',
           \A q \in Requests : made'[Imp!Own(q)] = made[Imp!Own(q)] \/ q = r,
           \A q \in Requests : (impModel' = Imp!Own(q) => impModel = Imp!Own(q)) \/ q = r,
           \A q \in Requests : impJob[q] = "absent" => impJob'[q] = "absent" \/ q = r,
           \A j \in Imp!Jobs : impJob[j] \in {"COMPLETED", "removed"} => impJob'[j] \in {"COMPLETED", "removed"}
    PROVE  SettledStays /\ \A q \in Requests : Imp!CallRight(q)'
<1>1. SettledStays
  BY DEF SettledStays
<1>2. ASSUME NEW q \in Requests, q # r PROVE Imp!CallRight(q)'
  BY <1>2, CallStays
<1> QED BY <1>1, <1>2

\* A step of the downloads and of calls, that leaves the rows alone.
LEMMA RowsKept ==
    ASSUME Imp!ImpInv, UNCHANGED <<file, impModel, impInst, imp, pass, clean, made, told, smooth>>, impEdits' \in 0..ImpEdits,
           impJob' \in [Imp!Jobs -> Imp!States \cup {"absent", "removed"}], impCall' \in [Requests -> Imp!Call], SettledStays,
           \A j \in Imp!Jobs : impJob[j] # "absent" => impJob'[j] = impJob[j],
           \A j \in Imp!Jobs : impJob'[j] = "COMPLETED" => impJob[j] = "COMPLETED",
           \A i \in Requests : Imp!HasInst(i) => impCall'[i] = impCall[i] \/ impCall'[i].pc \in MayStand,
           \A q \in Requests : Imp!CallRight(q)'
    PROVE  Imp!ImpInv'
<1>1. MadeStays
  BY DEF MadeStays
<1>2. ASSUME NEW k \in Imp!Jobs, imp[k] # None
      PROVE  imp[k].job \in Imp!Jobs /\ impJob[imp[k].job] \in Imp!States /\ impJob'[imp[k].job] = impJob[imp[k].job] /\ imp[k].model \in {impModel, None}
  BY <1>2 DEF Imp!ImpInv, Imp!ImpTyped, Imp!RowRight, Imp!Exists, Imp!ImpRow, Imp!States
<1>3. \A k \in Imp!Jobs : Imp!RowRight(k)'
  <2> SUFFICES ASSUME NEW k \in Imp!Jobs PROVE Imp!RowRight(k)'
    OBVIOUS
  <2>1. imp[k] # None => Imp!Exists(imp[k].job)' /\ imp[k].model \in {impModel', None}
    BY <1>2 DEF Imp!Exists
  <2>2. Imp!Joined(k) => impInst[k] # None /\ k \in Requests
    BY DEF Imp!ImpInv, Imp!RowRight, Imp!HasInst
  <2>3. Imp!Joined(k) => impJob'[imp[k].job] = impJob[imp[k].job]
    BY <1>2 DEF Imp!Joined
  <2> QED BY <1>1, <2>1, <2>2, <2>3, RowStays
<1>4. LinksShrink
  <2> SUFFICES ASSUME NEW k \in Requests, Imp!Joined(k)'
               PROVE  Imp!Joined(k) /\ imp'[k].job = imp[k].job /\ imp'[k].model = imp[k].model /\ impJob'[imp[k].job] = impJob[imp[k].job]
    BY DEF LinksShrink
  <2> QED BY <1>2, ModelNames DEF Imp!Joined
<1>5. \A i \in Requests : Imp!InstRight(i)'
  <2> SUFFICES ASSUME NEW i \in Requests PROVE Imp!InstRight(i)'
    OBVIOUS
  <2>1. Imp!HasInst(i) => impInst[i].model \in {impModel, Elsewhere}
    BY DEF Imp!ImpInv, Imp!InstRight
  <2> QED BY <2>1, InstStays
<1>6. pass' \in [Imp!Passes -> Imp!Pass] /\ \A q \in Imp!Passes : Imp!PassRight(q)'
  BY <1>1, <1>4, PassesStay
<1>7. clean' \in Imp!Clean /\ \A r \in clean'.rows : r.job = clean'.job /\ Imp!Rightly(r)'
  BY <1>1, CleanStays
<1>8. Imp!ImpTyped'
  BY <1>6, <1>7 DEF Imp!ImpInv, Imp!ImpTyped
<1>9. \A k \in Imp!Jobs : made'[Imp!Reg(k)] \in {None, k} /\ (smooth' /\ impJob'[k] = "COMPLETED" => file')
  BY DEF Imp!ImpInv
<1> QED BY <1>3, <1>5, <1>6, <1>7, <1>8, <1>9 DEF Imp!ImpInv

\* A job that is asked for, for the first time.
LEMMA JobsGrow ==
    ASSUME Imp!ImpInv, NEW j \in Imp!Jobs, impJob[j] = "absent", Imp!NewJob(j)
    PROVE  /\ impJob' \in [Imp!Jobs -> Imp!States \cup {"absent", "removed"}]
           /\ \A k \in Imp!Jobs : impJob[k] # "absent" \/ k # j => impJob'[k] = impJob[k]
           /\ \A k \in Imp!Jobs : impJob'[k] = "COMPLETED" => impJob[k] = "COMPLETED"
           /\ j \in Requests => \E k \in Imp!Jobs, d \in BOOLEAN :
                (d => impJob[k] = "COMPLETED") /\ impCall' = [impCall EXCEPT ![j] = [@ EXCEPT !.pc = "look", !.job = k, !.done = d]]
<1>1. impJob \in [Imp!Jobs -> Imp!States \cup {"absent", "removed"}]
  BY DEF Imp!ImpInv, Imp!ImpTyped
<1>2. PICK k \in Imp!Jobs : /\ impJob' = IF impJob[k] = "COMPLETED" THEN impJob ELSE [impJob EXCEPT ![j] = "DOWNLOADING"]
                            /\ j \in Requests => impCall' = [impCall EXCEPT ![j] = [@ EXCEPT !.pc = "look", !.job = k, !.done = impJob[k] = "COMPLETED"]]
  BY DEF Imp!NewJob
<1>3. PICK d \in BOOLEAN : d = (impJob[k] = "COMPLETED")
  OBVIOUS
<1>4. j \in Requests => impCall' = [impCall EXCEPT ![j] = [@ EXCEPT !.pc = "look", !.job = k, !.done = d]]
  BY <1>2, <1>3
<1> QED BY <1>1, <1>2, <1>3, <1>4 DEF Imp!States

LEMMA ImpPrepare ==
    ASSUME Imp!ImpInv, NEW r \in Requests, Imp!Prepare(r)
    PROVE  Imp!ImpInv'
<1>1. r \in Imp!Jobs /\ impCall[r].pc = "idle" /\ impJob[r] = "absent" /\ ~impCall[r].owns /\ made[Imp!Own(r)] = None /\ impModel # Imp!Own(r)
  BY CallAs, ModelNames DEF Imp!CallRight, Imp!Prepare, Imp!Held, Imp!Settled
<1>2. /\ impJob' \in [Imp!Jobs -> Imp!States \cup {"absent", "removed"}]
      /\ \A k \in Imp!Jobs : impJob[k] # "absent" \/ k # r => impJob'[k] = impJob[k]
      /\ \A k \in Imp!Jobs : impJob'[k] = "COMPLETED" => impJob[k] = "COMPLETED"
  BY <1>1, JobsGrow DEF Imp!Prepare
<1>3. PICK k \in Imp!Jobs, d \in BOOLEAN :
        (d => impJob[k] = "COMPLETED") /\ impCall' = [impCall EXCEPT ![r] = [@ EXCEPT !.pc = "look", !.job = k, !.done = d]]
  BY <1>1, JobsGrow DEF Imp!Prepare
<1>4. /\ impCall' \in [Requests -> Imp!Call] /\ \A q \in Requests : q # r => impCall'[q] = impCall[q]
      /\ impCall'[r].pc = "look" /\ impCall'[r].job = k /\ (impCall'[r].done => impJob[k] = "COMPLETED") /\ ~impCall'[r].owns
  <2>1. impCall \in [Requests -> Imp!Call]
    BY DEF Imp!ImpInv, Imp!ImpTyped
  <2>2. [impCall[r] EXCEPT !.pc = "look", !.job = k, !.done = d] \in Imp!Call
    BY <2>1 DEF Imp!Call
  <2>3. impCall[r] \in Imp!Call
    BY <2>1
  <2> QED BY <1>1, <1>3, <2>1, <2>2, <2>3 DEF Imp!Call
<1>7. Imp!CallRight(r)'
  <2>1. k # None
    BY ModelNames
  <2>2. impCall'[r].done => impJob'[k] = "COMPLETED"
    BY <1>2, <1>4
  <2> QED BY <1>1, <1>4, <2>1, <2>2 DEF Imp!CallRight, Imp!Prepare, Imp!Held
<1>8. SettledStays /\ \A q \in Requests : Imp!CallRight(q)'
  <2>1. impCall[r].pc \notin Imp!Settled
    BY <1>1 DEF Imp!Settled
  <2>2. \A q \in Requests : impJob[q] = "absent" => impJob'[q] = "absent" \/ q = r
    BY <1>2, ModelNames
  <2>3. \A j \in Imp!Jobs : impJob[j] \in {"COMPLETED", "removed"} => impJob'[j] \in {"COMPLETED", "removed"}
    BY <1>2
  <2> QED BY <1>4, <1>7, <2>1, <2>2, <2>3, CallMoves DEF Imp!Prepare
<1>9. ~Imp!HasInst(r)
  BY <1>1 DEF Imp!ImpInv, Imp!InstRight, Imp!Settled
<1>10. impEdits' \in 0..ImpEdits
  BY ImportsAssumed DEF Imp!ImpInv, Imp!ImpTyped, Imp!Prepare, Imp!ImportsAssumption
<1> QED BY <1>2, <1>4, <1>8, <1>9, <1>10, RowsKept DEF Imp!Prepare

\* A step of one call that touches nothing else.
LEMMA CallOnly ==
    ASSUME Imp!ImpInv, NEW r \in Requests, UNCHANGED <<Imp!rows, file, pass, clean, made, told, smooth, impEdits>>,
           impCall' \in [Requests -> Imp!Call], \A q \in Requests : q # r => impCall'[q] = impCall[q],
           impCall[r].pc \notin Imp!Settled, Imp!HasInst(r) => impCall'[r].pc \in MayStand, Imp!CallRight(r)'
    PROVE  Imp!ImpInv'
<1>1. SettledStays /\ \A q \in Requests : Imp!CallRight(q)'
  BY CallMoves DEF Imp!rows
<1>2. /\ impJob' \in [Imp!Jobs -> Imp!States \cup {"absent", "removed"}] /\ impEdits' \in 0..ImpEdits
      /\ \A j \in Imp!Jobs : impJob[j] # "absent" => impJob'[j] = impJob[j]
      /\ \A j \in Imp!Jobs : impJob'[j] = "COMPLETED" => impJob[j] = "COMPLETED"
  BY DEF Imp!ImpInv, Imp!ImpTyped, Imp!rows
<1>3. \A i \in Requests : Imp!HasInst(i) => impCall'[i] = impCall[i] \/ impCall'[i].pc \in MayStand
  OBVIOUS
<1> QED BY <1>1, <1>2, <1>3, RowsKept DEF Imp!rows

\* Links stay where jobs and rows do.
LEMMA LinksSame ==
    ASSUME UNCHANGED <<impJob, imp>>
    PROVE  LinksShrink
  BY DEF LinksShrink, Imp!Joined

\* A call that is over.
LEMMA CallOver ==
    ASSUME Imp!ImpInv, NEW r \in Requests, NEW pc \in {"failed", "left", "reconcile", "done"}, impCall' = [impCall EXCEPT ![r] = Imp!Ended(pc)],
           pc = "failed" => impModel' # Imp!Own(r)
    PROVE  /\ impCall' \in [Requests -> Imp!Call] /\ \A q \in Requests : q # r => impCall'[q] = impCall[q]
           /\ impCall'[r].pc = pc /\ Imp!CallRight(r)'
<1>1. Imp!Ended(pc) \in Imp!Call
  BY DEF Imp!Ended, Imp!NoCall, Imp!Call, Imp!Settled
<1>2. /\ impCall' \in [Requests -> Imp!Call] /\ \A q \in Requests : q # r => impCall'[q] = impCall[q]
      /\ impCall'[r] = [pc |-> pc, job |-> None, done |-> FALSE, model |-> None, owns |-> FALSE]
  BY <1>1 DEF Imp!ImpInv, Imp!ImpTyped, Imp!Ended, Imp!NoCall
<1> QED BY <1>2 DEF Imp!CallRight, Imp!Held, Imp!Settled

LEMMA ImpLookModel ==
    ASSUME Imp!ImpInv, NEW r \in Requests, Imp!LookModel(r)
    PROVE  Imp!ImpInv'
<1>1. impCall \in [Requests -> Imp!Call] /\ impCall[r] \in Imp!Call /\ impModel \in Imp!Models \cup {None}
  BY DEF Imp!ImpInv, Imp!ImpTyped
<1>2. impCall[r].pc = "look" /\ Imp!CallRight(r)
  BY CallAs DEF Imp!LookModel
<1>3. ~Imp!HasInst(r)
  BY <1>2 DEF Imp!ImpInv, Imp!InstRight, Imp!Settled
<1>4. made[Imp!Own(r)] = None /\ ~impCall[r].owns /\ impModel # Imp!Own(r) /\ impCall[r].job # None
  BY <1>2 DEF Imp!CallRight, Imp!Held, Imp!Settled
<1>5. UNCHANGED <<Imp!rows, file, pass, clean, made, told, smooth, impEdits>>
  BY DEF Imp!LookModel
<1>6. CASE impCall' = [impCall EXCEPT ![r] = Imp!Ended("failed")]
  BY <1>2, <1>3, <1>4, <1>5, <1>6, CallOver, CallOnly DEF Imp!rows, Imp!Settled
<1>7. CASE impCall' = [impCall EXCEPT ![r].pc = IF impModel = None THEN "model" ELSE "inst", ![r].model = impModel]
  <2>1. /\ impCall' \in [Requests -> Imp!Call] /\ \A q \in Requests : q # r => impCall'[q] = impCall[q]
        /\ impCall'[r] = [impCall[r] EXCEPT !.pc = IF impModel = None THEN "model" ELSE "inst", !.model = impModel]
    <3>1. [impCall[r] EXCEPT !.pc = IF impModel = None THEN "model" ELSE "inst", !.model = impModel] \in Imp!Call
      BY <1>1 DEF Imp!Call, Imp!Held
    <3> QED BY <1>1, <1>7, <3>1
  <2>2. /\ impCall'[r].pc = IF impModel = None THEN "model" ELSE "inst"
        /\ impCall'[r].model = impModel /\ impCall'[r].job = impCall[r].job /\ impCall'[r].done = impCall[r].done /\ impCall'[r].owns = impCall[r].owns
    BY <1>1, <2>1 DEF Imp!Call
  <2>3. Imp!CallRight(r)'
    BY <1>2, <1>4, <1>5, <2>2 DEF Imp!CallRight, Imp!LookModel, Imp!rows, Imp!Held, Imp!Settled
  <2> QED BY <1>2, <1>3, <1>5, <2>1, <2>3, CallOnly DEF Imp!Settled
<1> QED BY <1>6, <1>7 DEF Imp!LookModel

\* A model registered for the path that had none.
LEMMA ModelComes ==
    ASSUME Imp!ImpInv, impModel = None, NEW m \in Imp!Models, impModel' = m, UNCHANGED <<impJob, impInst, imp, smooth, told>>,
           MadeStays, SettledStays,
           \A i \in Requests : Imp!HasInst(i) => impCall'[i] = impCall[i]
    PROVE  /\ \A k \in Imp!Jobs : Imp!RowRight(k)'
           /\ \A i \in Requests : Imp!InstRight(i)'
<1>1. ASSUME NEW k \in Imp!Jobs PROVE Imp!RowRight(k)'
  <2>1. Imp!RowRight(k)
    BY DEF Imp!ImpInv
  <2>2. imp[k] # None => Imp!Exists(imp[k].job)' /\ imp[k].model \in {impModel', None}
    BY <2>1 DEF Imp!RowRight, Imp!Exists
  <2>3. Imp!Joined(k) => impInst[k] # None /\ k \in Requests
    BY <2>1 DEF Imp!RowRight, Imp!HasInst
  <2> QED BY <2>2, <2>3, RowStays
<1>2. ASSUME NEW i \in Requests PROVE Imp!InstRight(i)'
  <2>1. Imp!InstRight(i) /\ impInst[i] \in Imp!InstRow \cup {None}
    BY DEF Imp!ImpInv, Imp!ImpTyped
  <2>2. Imp!HasInst(i) => impInst[i].model \in {None, Elsewhere} /\ impInst[i].model \in Imp!Models \cup {Elsewhere}
    BY <2>1 DEF Imp!InstRight, Imp!InstRow, Imp!HasInst
  <2> QED BY <2>2, InstStays, ModelNames
<1> QED BY <1>1, <1>2

LEMMA ImpMakeModel ==
    ASSUME Imp!ImpInv, NEW r \in Requests, Imp!MakeModel(r)
    PROVE  Imp!ImpInv'
<1>1. impCall[r].pc = "model" /\ Imp!CallRight(r) /\ impCall \in [Requests -> Imp!Call] /\ impCall[r] \in Imp!Call
  BY DEF Imp!MakeModel, Imp!ImpInv, Imp!ImpTyped
<1>2. impCall[r].job \in Imp!Jobs /\ made[Imp!Own(r)] = None /\ impModel # Imp!Own(r) /\ ~Imp!HasInst(r)
  BY <1>1 DEF Imp!CallRight, Imp!Held, Imp!Settled, Imp!Call, Imp!ImpInv, Imp!InstRight
<1>3. CASE impCall' = [impCall EXCEPT ![r] = Imp!Ended("failed")] /\ UNCHANGED <<impModel, made>>
  <2>1. impCall' = [impCall EXCEPT ![r] = Imp!Ended("failed")] /\ UNCHANGED <<Imp!rows, file, pass, clean, made, told, smooth, impEdits>>
    BY <1>3 DEF Imp!MakeModel, Imp!rows
  <2> QED BY <1>1, <1>2, <2>1, CallOver, CallOnly DEF Imp!rows, Imp!Settled
<1>4. CASE /\ impModel = None /\ impModel' = Imp!Own(r) /\ made' = [made EXCEPT ![Imp!Own(r)] = impCall[r].job]
           /\ impCall' = [impCall EXCEPT ![r].pc = "inst", ![r].model = Imp!Own(r), ![r].owns = TRUE]
  <2>1. /\ impModel' = Imp!Own(r) /\ made' = [made EXCEPT ![Imp!Own(r)] = impCall[r].job]
        /\ impCall' = [impCall EXCEPT ![r].pc = "inst", ![r].model = Imp!Own(r), ![r].owns = TRUE]
        /\ UNCHANGED <<impJob, impInst, imp, file, pass, clean, told, smooth, impEdits>>
    BY <1>4 DEF Imp!MakeModel
  <2>2. made \in [Imp!Models -> Imp!Jobs \cup {None}] /\ Imp!Own(r) \in Imp!Models
    BY ModelNames DEF Imp!ImpInv, Imp!ImpTyped
  <2>3. /\ made' \in [Imp!Models -> Imp!Jobs \cup {None}] /\ made'[Imp!Own(r)] = impCall[r].job
        /\ \A m \in Imp!Models : m # Imp!Own(r) => made'[m] = made[m]
    BY <1>2, <2>1, <2>2
  <2>4. MadeStays
    BY <1>2, <2>3 DEF MadeStays
  <2>5. /\ impCall' \in [Requests -> Imp!Call] /\ \A q \in Requests : q # r => impCall'[q] = impCall[q]
        /\ impCall'[r].pc = "inst" /\ impCall'[r].model = Imp!Own(r) /\ impCall'[r].owns
        /\ impCall'[r].job = impCall[r].job /\ impCall'[r].done = impCall[r].done
    BY <1>1, <2>1, <2>2 DEF Imp!Call, Imp!Held
  <2>6. Imp!CallRight(r)'
    BY <1>1, <1>2, <2>1, <2>3, <2>5, ModelNames DEF Imp!CallRight, Imp!Held
  <2>7. SettledStays /\ \A q \in Requests : Imp!CallRight(q)'
    <3>1. \A q \in Requests : made'[Imp!Own(q)] = made[Imp!Own(q)] \/ q = r
      BY <2>3, ModelNames
    <3>2. \A q \in Requests : (impModel' = Imp!Own(q) => impModel = Imp!Own(q)) \/ q = r
      BY <2>1, ModelNames
    <3> QED BY <1>1, <2>1, <2>5, <2>6, <3>1, <3>2, CallMoves DEF Imp!Settled
  <2>8. (\A k \in Imp!Jobs : Imp!RowRight(k)') /\ (\A i \in Requests : Imp!InstRight(i)')
    BY <1>2, <1>4, <2>1, <2>2, <2>4, <2>5, <2>7, ModelComes
  <2>9. pass' \in [Imp!Passes -> Imp!Pass] /\ \A q \in Imp!Passes : Imp!PassRight(q)'
    BY <2>1, <2>4, <2>7, LinksSame, PassesStay
  <2>10. clean' \in Imp!Clean /\ \A q \in clean'.rows : q.job = clean'.job /\ Imp!Rightly(q)'
    BY <2>1, <2>4, CleanStays
  <2>11. Imp!ImpTyped'
    BY <2>1, <2>2, <2>3, <2>5, <2>9, <2>10 DEF Imp!ImpInv, Imp!ImpTyped
  <2>12. \A k \in Imp!Jobs : made'[Imp!Reg(k)] \in {None, k} /\ (smooth' /\ impJob'[k] = "COMPLETED" => file')
    BY <2>1, <2>3, ModelNames DEF Imp!ImpInv
  <2> QED BY <2>7, <2>8, <2>9, <2>10, <2>11, <2>12 DEF Imp!ImpInv
<1> QED BY <1>3, <1>4 DEF Imp!MakeModel

LEMMA ImpMakeInst ==
    ASSUME Imp!ImpInv, NEW r \in Requests, Imp!MakeInst(r)
    PROVE  Imp!ImpInv'
<1>1. impCall[r].pc = "inst" /\ Imp!CallRight(r) /\ impCall \in [Requests -> Imp!Call] /\ impCall[r] \in Imp!Call /\ ~Imp!HasInst(r)
  BY DEF Imp!MakeInst, Imp!ImpInv, Imp!ImpTyped, Imp!InstRight, Imp!Settled
<1>2. impCall[r].model \in Imp!Models
  BY <1>1 DEF Imp!CallRight, Imp!Call, Imp!Held
<1>3. ASSUME impCall' = [impCall EXCEPT ![r].pc = "undo_model"], UNCHANGED <<Imp!rows, file, pass, clean, made, told, smooth, impEdits>>
      PROVE  Imp!ImpInv'
  <2>1. /\ impCall' \in [Requests -> Imp!Call] /\ \A q \in Requests : q # r => impCall'[q] = impCall[q]
        /\ impCall'[r].pc = "undo_model" /\ impCall'[r].model = impCall[r].model /\ impCall'[r].owns = impCall[r].owns
        /\ impCall'[r].job = impCall[r].job /\ impCall'[r].done = impCall[r].done
    BY <1>1, <1>3 DEF Imp!Call, Imp!Held
  <2>2. Imp!CallRight(r)'
    BY <1>1, <1>3, <2>1 DEF Imp!CallRight, Imp!Held, Imp!rows
  <2> QED BY <1>1, <1>3, <2>1, <2>2, CallOnly DEF Imp!Settled
<1>4. ASSUME impModel = impCall[r].model, impInst' = [impInst EXCEPT ![r] = [model |-> impModel, enabled |-> impCall[r].done, asked |-> FALSE]],
             told' = IF impCall[r].done THEN told \cup {r} ELSE told, impCall' = [impCall EXCEPT ![r].pc = "import"],
             UNCHANGED <<impJob, impModel, imp, file, pass, clean, made, smooth, impEdits>>
      PROVE  Imp!ImpInv'
  <2>1. /\ impCall' \in [Requests -> Imp!Call] /\ \A q \in Requests : q # r => impCall'[q] = impCall[q]
        /\ impCall'[r].pc = "import" /\ impCall'[r].model = impCall[r].model /\ impCall'[r].owns = impCall[r].owns
        /\ impCall'[r].job = impCall[r].job /\ impCall'[r].done = impCall[r].done
    BY <1>1, <1>4 DEF Imp!Call, Imp!Held
  <2>2. Imp!CallRight(r)'
    BY <1>1, <1>4, <2>1 DEF Imp!CallRight, Imp!Held
  <2>3. SettledStays /\ \A q \in Requests : Imp!CallRight(q)'
    BY <1>1, <1>4, <2>1, <2>2, CallMoves DEF Imp!Settled
  <2>4. MadeStays /\ LinksShrink /\ told \subseteq told' /\ told' \in SUBSET Requests
    <3>1. told \in SUBSET Requests
      BY DEF Imp!ImpInv, Imp!ImpTyped
    <3> QED BY <1>4, <3>1, LinksSame DEF MadeStays
  <2>5. [model |-> impModel, enabled |-> impCall[r].done, asked |-> FALSE] \in Imp!InstRow
    BY <1>1, <1>2, <1>4 DEF Imp!InstRow, Imp!Call
  <2>6. impInst' \in [Requests -> Imp!InstRow \cup {None}] /\ \A i \in Requests : i # r => impInst'[i] = impInst[i]
    BY <1>4, <2>5 DEF Imp!ImpInv, Imp!ImpTyped
  <2>7. impInst'[r] = [model |-> impModel, enabled |-> impCall[r].done, asked |-> FALSE]
    BY <1>4 DEF Imp!ImpInv, Imp!ImpTyped
  <2>8. ASSUME NEW k \in Imp!Jobs PROVE Imp!RowRight(k)'
    <3>1. Imp!RowRight(k)
      BY DEF Imp!ImpInv
    <3>2. imp[k] # None => Imp!Exists(imp[k].job)' /\ imp[k].model \in {impModel', None}
      BY <1>4, <3>1 DEF Imp!RowRight, Imp!Exists
    <3>3. Imp!Joined(k) => k \in Requests /\ impInst[k] # None /\ k # r
      BY <1>1, <3>1 DEF Imp!RowRight, Imp!HasInst
    <3>4. Imp!Joined(k) => impInst'[k] = impInst[k]
      BY <2>6, <3>3
    <3> QED BY <1>4, <2>3, <2>4, <3>2, <3>3, <3>4, RowStays
  <2>9. ASSUME NEW i \in Requests PROVE Imp!InstRight(i)'
    <3>1. CASE i = r
      <4>1. impInst'[r].model = impModel' /\ impModel' # Elsewhere
        BY <1>2, <1>4, <2>7, ModelNames
      <4>2. ~impInst'[r].asked /\ (impInst'[r].enabled => impCall'[r].done)
        <5>1. PICK d \in BOOLEAN : d = impCall[r].done
          BY <1>1 DEF Imp!Call
        <5>2. impInst'[r] = [model |-> impModel, enabled |-> d, asked |-> FALSE]
          BY <2>7, <5>1
        <5>3. impInst'[r].enabled = d /\ ~impInst'[r].asked
          BY <5>2
        <5> QED BY <2>1, <5>1, <5>3
      <4>3. impCall'[r].done => r \in told'
        BY <1>4, <2>1
      <4> QED BY <2>1, <3>1, <4>1, <4>2, <4>3 DEF Imp!InstRight
    <3>2. CASE i # r
      <4>1. Imp!HasInst(i) => impInst[i].model \in {impModel', Elsewhere}
        BY <1>4 DEF Imp!ImpInv, Imp!InstRight
      <4> QED BY <1>4, <2>1, <2>4, <2>6, <3>2, <4>1, InstStays
    <3> QED BY <3>1, <3>2
  <2>10. pass' \in [Imp!Passes -> Imp!Pass] /\ \A q \in Imp!Passes : Imp!PassRight(q)'
    BY <1>4, <2>3, <2>4, PassesStay
  <2>11. clean' \in Imp!Clean /\ \A q \in clean'.rows : q.job = clean'.job /\ Imp!Rightly(q)'
    BY <1>4, <2>4, CleanStays
  <2>12. Imp!ImpTyped'
    BY <1>4, <2>1, <2>4, <2>6, <2>10, <2>11 DEF Imp!ImpInv, Imp!ImpTyped
  <2>13. \A k \in Imp!Jobs : made'[Imp!Reg(k)] \in {None, k} /\ (smooth' /\ impJob'[k] = "COMPLETED" => file')
    BY <1>4 DEF Imp!ImpInv
  <2> QED BY <2>3, <2>8, <2>9, <2>10, <2>11, <2>12, <2>13 DEF Imp!ImpInv
<1> QED BY <1>3, <1>4 DEF Imp!MakeInst, Imp!rows

\* A step that leaves the passes and the removal alone.
LEMMA RowsStep ==
    ASSUME Imp!ImpInv, UNCHANGED <<pass, clean, made, smooth>>, file' \in BOOLEAN, smooth /\ file => file', impEdits' \in 0..ImpEdits,
           impJob' \in [Imp!Jobs -> Imp!States \cup {"absent", "removed"}], impModel' \in Imp!Models \cup {None}, told' \in SUBSET Requests,
           impInst' \in [Requests -> Imp!InstRow \cup {None}], imp' \in [Imp!Jobs -> Imp!ImpRow \cup {None}], impCall' \in [Requests -> Imp!Call],
           SettledStays, LinksShrink, \A k \in Imp!Jobs : Imp!RowRight(k)', \A k \in Imp!Jobs : smooth /\ impJob'[k] = "COMPLETED" => file',
           \A i \in Requests : Imp!InstRight(i)', \A r \in Requests : Imp!CallRight(r)'
    PROVE  Imp!ImpInv'
<1>1. MadeStays
  BY DEF MadeStays
<1>2. pass' \in [Imp!Passes -> Imp!Pass] /\ \A q \in Imp!Passes : Imp!PassRight(q)'
  BY <1>1, PassesStay
<1>3. clean' \in Imp!Clean /\ \A r \in clean'.rows : r.job = clean'.job /\ Imp!Rightly(r)'
  BY <1>1, CleanStays
<1>4. Imp!ImpTyped'
  BY <1>2, <1>3 DEF Imp!ImpInv, Imp!ImpTyped
<1>5. \A k \in Imp!Jobs : made'[Imp!Reg(k)] \in {None, k}
  BY DEF Imp!ImpInv
<1> QED BY <1>2, <1>3, <1>4, <1>5 DEF Imp!ImpInv

\* A call that goes on with what it holds.
LEMMA CallGoes ==
    ASSUME Imp!ImpInv, NEW r \in Requests, impCall[r].pc \in Imp!Held, NEW pc \in Imp!Held, impCall' = [impCall EXCEPT ![r].pc = pc],
           UNCHANGED <<impJob, made, impModel>>
    PROVE  /\ impCall' \in [Requests -> Imp!Call] /\ \A q \in Requests : q # r => impCall'[q] = impCall[q]
           /\ impCall'[r].pc = pc /\ SettledStays /\ \A q \in Requests : Imp!CallRight(q)'
<1>1. impCall \in [Requests -> Imp!Call] /\ impCall[r] \in Imp!Call /\ Imp!CallRight(r)
  BY DEF Imp!ImpInv, Imp!ImpTyped
<1>2. /\ impCall' \in [Requests -> Imp!Call] /\ \A q \in Requests : q # r => impCall'[q] = impCall[q]
      /\ impCall'[r].pc = pc /\ impCall'[r].model = impCall[r].model /\ impCall'[r].owns = impCall[r].owns
      /\ impCall'[r].job = impCall[r].job /\ impCall'[r].done = impCall[r].done
  BY <1>1 DEF Imp!Call
<1>3. Imp!CallRight(r)'
  BY <1>1, <1>2 DEF Imp!CallRight, Imp!Held
<1>4. impCall[r].pc \notin Imp!Settled
  BY DEF Imp!Held, Imp!Settled
<1> QED BY <1>2, <1>3, <1>4, CallMoves

LEMMA ImpMakeImport ==
    ASSUME Imp!ImpInv, NEW r \in Requests, Imp!MakeImport(r)
    PROVE  Imp!ImpInv'
<1>1. impCall[r].pc = "import" /\ Imp!CallRight(r) /\ impCall \in [Requests -> Imp!Call] /\ impCall[r] \in Imp!Call /\ Imp!InstRight(r) /\ r \in Imp!Jobs
  BY ModelNames DEF Imp!MakeImport, Imp!ImpInv, Imp!ImpTyped
<1>2. impCall[r].job \in Imp!Jobs /\ impCall[r].model \in Imp!Models /\ impCall[r].pc \in Imp!Held /\ impCall[r].pc \notin Imp!Settled
  BY <1>1 DEF Imp!CallRight, Imp!Call, Imp!Held, Imp!Settled
<1>3. ASSUME impCall' = [impCall EXCEPT ![r].pc = "undo_inst"], UNCHANGED <<Imp!rows, file, pass, clean, made, told, smooth, impEdits>>
      PROVE  Imp!ImpInv'
  BY <1>2, <1>3, CallGoes, CallOnly DEF Imp!Held, Imp!rows, MayStand
<1>4. ASSUME Imp!Exists(impCall[r].job), Imp!HasInst(r), impModel = impCall[r].model,
             imp' = [imp EXCEPT ![r] = [job |-> impCall[r].job, model |-> impCall[r].model, inst |-> r, owns |-> impCall[r].owns,
                        state |-> IF impCall[r].done THEN "COMPLETED" ELSE "DOWNLOADING", tried |-> FALSE]],
             impCall' = [impCall EXCEPT ![r] = Imp!Ended(IF impCall[r].done THEN "reconcile" ELSE "done")],
             UNCHANGED <<impJob, impModel, impInst, file, pass, clean, made, told, smooth, impEdits>>
      PROVE  Imp!ImpInv'
  <2>1. PICK o \in BOOLEAN, st \in {"COMPLETED", "DOWNLOADING"} :
          o = impCall[r].owns /\ st = IF impCall[r].done THEN "COMPLETED" ELSE "DOWNLOADING"
    BY <1>1 DEF Imp!Call
  <2> DEFINE x == [job |-> impCall[r].job, model |-> impCall[r].model, inst |-> r, owns |-> o, state |-> st, tried |-> FALSE]
  <2>2. x \in Imp!ImpRow
    BY <1>2 DEF Imp!ImpRow, Imp!States
  <2>3. imp' = [imp EXCEPT ![r] = x]
    BY <1>4, <2>1
  <2>4. imp' \in [Imp!Jobs -> Imp!ImpRow \cup {None}] /\ imp'[r] = x /\ \A k \in Imp!Jobs : k # r => imp'[k] = imp[k]
    BY <1>1, <2>2, <2>3 DEF Imp!ImpInv, Imp!ImpTyped
  <2>5. /\ impCall' \in [Requests -> Imp!Call] /\ \A q \in Requests : q # r => impCall'[q] = impCall[q]
        /\ impCall'[r].pc \in {"reconcile", "done"} /\ Imp!CallRight(r)'
    BY <1>4, CallOver
  <2>6. SettledStays /\ \A q \in Requests : Imp!CallRight(q)'
    BY <1>2, <1>4, <2>5, CallMoves DEF Imp!Settled
  <2>11. x.job = impCall[r].job /\ x.model = impCall[r].model /\ x.inst = r /\ x.owns = o /\ x.state = st
    OBVIOUS
  <2> HIDE DEF x
  <2>7. LinksShrink
    <3> SUFFICES ASSUME NEW k \in Requests, impCall[k].pc \in Imp!Settled PROVE imp'[k] = imp[k]
      BY <1>4 DEF LinksShrink, Imp!Joined
    <3> QED BY <1>2, <2>4, ModelNames
  <2>8. Imp!RowRight(r)'
    <3>1. (x.owns => made'[x.model] = x.job) /\ x.model # None
      BY <1>1, <1>2, <1>4, <2>1, <2>11, ModelNames DEF Imp!CallRight
    <3>2. st = "COMPLETED" => r \in told
      BY <1>1, <1>4, <2>1 DEF Imp!InstRight
    <3>3. impInst[r].enabled /\ ~impInst[r].asked => impJob[x.job] = "COMPLETED"
      BY <1>1, <1>4, <2>11 DEF Imp!InstRight, Imp!CallRight, Imp!Exists, Imp!States
    <3>4. impJob'[x.job] \in Imp!States /\ x.model = impModel' /\ x.inst = r /\ x.state = st /\ x.state \notin Imp!Lost
      BY <1>4, <2>1, <2>11 DEF Imp!Exists, Imp!Lost
    <3>5. imp'[r] = x /\ impInst'[r] = impInst[r] /\ impInst[r] # None /\ told' = told /\ impJob' = impJob /\ impCall'[r].pc \in Imp!Settled
      BY <1>4, <2>4, <2>5 DEF Imp!HasInst, Imp!Settled
    <3> QED BY <1>1, <3>1, <3>2, <3>3, <3>4, <3>5 DEF Imp!RowRight, Imp!Joined, Imp!HasInst, Imp!Rightly, Imp!Exists
  <2>9. ASSUME NEW k \in Imp!Jobs, k # r PROVE Imp!RowRight(k)'
    <3>1. imp[k] # None => Imp!Exists(imp[k].job)' /\ imp[k].model \in {impModel', None}
      BY <1>4 DEF Imp!ImpInv, Imp!RowRight, Imp!Exists
    <3>2. Imp!Joined(k) => impInst[k] # None
      BY DEF Imp!ImpInv, Imp!RowRight, Imp!HasInst
    <3>3. MadeStays
      BY <1>4 DEF MadeStays
    <3> QED BY <1>4, <2>4, <2>6, <2>9, <3>1, <3>2, <3>3, RowStays
  <2>10. ASSUME NEW i \in Requests PROVE Imp!InstRight(i)'
    <3>1. Imp!HasInst(i) => impInst[i].model \in {impModel', Elsewhere}
      BY <1>4 DEF Imp!ImpInv, Imp!InstRight
    <3> QED BY <1>4, <2>5, <3>1, InstStays DEF Imp!Settled, MayStand
  <2> QED BY <1>4, <2>4, <2>5, <2>6, <2>7, <2>8, <2>9, <2>10, RowsStep DEF Imp!ImpInv, Imp!ImpTyped
<1> QED BY <1>3, <1>4 DEF Imp!MakeImport, Imp!rows

\* An instance goes: no row has it any more.
LEMMA InstDropped ==
    ASSUME Imp!ImpInv, NEW i \in Requests, Imp!DropInst(i), UNCHANGED <<impJob, impModel, smooth, told, made>>, SettledStays,
           \A q \in Requests : Imp!HasInst(q) /\ q # i => impCall'[q] = impCall[q]
    PROVE  /\ impInst' \in [Requests -> Imp!InstRow \cup {None}] /\ imp' \in [Imp!Jobs -> Imp!ImpRow \cup {None}] /\ LinksShrink
           /\ impInst'[i] = None /\ (\A k \in Imp!Jobs : Imp!RowRight(k)') /\ \A q \in Requests : Imp!InstRight(q)'
<1>1. impInst \in [Requests -> Imp!InstRow \cup {None}] /\ imp \in [Imp!Jobs -> Imp!ImpRow \cup {None}]
  BY DEF Imp!ImpInv, Imp!ImpTyped
<1>2. impInst' \in [Requests -> Imp!InstRow \cup {None}] /\ impInst'[i] = None /\ \A q \in Requests : q # i => impInst'[q] = impInst[q]
  BY <1>1 DEF Imp!DropInst
<1>3. ASSUME NEW k \in Imp!Jobs
      PROVE  /\ imp'[k] \in Imp!ImpRow \cup {None} /\ (imp'[k] # None => imp[k] # None)
             /\ imp'[k] # None => /\ imp'[k].job = imp[k].job /\ imp'[k].model = imp[k].model /\ imp'[k].owns = imp[k].owns
                                  /\ imp'[k].state = imp[k].state /\ imp'[k].inst \in {imp[k].inst, None} /\ imp'[k].inst # i
  <2>1. imp'[k] = IF imp[k] # None /\ imp[k].inst = i THEN [imp[k] EXCEPT !.inst = None] ELSE imp[k]
    BY DEF Imp!DropInst
  <2>2. imp[k] \in Imp!ImpRow => Imp!ImpRow # {} /\ [imp[k] EXCEPT !.inst = None] \in Imp!ImpRow
    BY DEF Imp!ImpRow
  <2>3. imp[k] \in Imp!ImpRow =>
          LET x == [imp[k] EXCEPT !.inst = None] IN
          x.job = imp[k].job /\ x.model = imp[k].model /\ x.owns = imp[k].owns /\ x.state = imp[k].state /\ x.inst = None
    BY DEF Imp!ImpRow
  <2>4. i # None
    BY ModelNames
  <2> QED BY <1>1, <2>1, <2>2, <2>3, <2>4
<1>4. imp' \in [Imp!Jobs -> Imp!ImpRow \cup {None}]
  <2>1. imp' = [k \in Imp!Jobs |-> imp'[k]]
    BY DEF Imp!DropInst
  <2> QED BY <1>3, <2>1
<1>5. ASSUME NEW k \in Imp!Jobs, Imp!Joined(k)'
      PROVE  Imp!Joined(k) /\ imp'[k].inst = imp[k].inst /\ k # i /\ k \in Requests /\ impInst'[k] = impInst[k]
  <2>1. Imp!Joined(k) /\ imp'[k].inst = imp[k].inst /\ imp[k].inst # i
    BY <1>3, <1>5 DEF Imp!Joined
  <2>2. imp[k].inst = k /\ k \in Requests
    BY <2>1 DEF Imp!ImpInv, Imp!RowRight
  <2> QED BY <1>2, <2>1, <2>2
<1>6. LinksShrink
  <2> SUFFICES ASSUME NEW k \in Requests, Imp!Joined(k)'
               PROVE  Imp!Joined(k) /\ imp'[k].job = imp[k].job /\ imp'[k].model = imp[k].model
    BY DEF LinksShrink
  <2> QED BY <1>3, <1>5, ModelNames DEF Imp!Joined
<1>7. ASSUME NEW k \in Imp!Jobs PROVE Imp!RowRight(k)'
  <2>1. Imp!RowRight(k) /\ imp[k] \in Imp!ImpRow \cup {None}
    BY <1>1 DEF Imp!ImpInv
  <2>2. imp'[k] # None => Imp!Exists(imp[k].job)' /\ imp'[k].model \in {impModel', None} /\ Imp!Rightly(imp[k])'
    BY <1>3, <2>1 DEF Imp!RowRight, Imp!Exists, Imp!Rightly
  <2>3. Imp!Joined(k)' => impCall'[k].pc \in Imp!Settled
    BY <1>5, <2>1 DEF Imp!RowRight, SettledStays
  <2> QED BY <1>3, <1>5, <2>1, <2>2, <2>3 DEF Imp!RowRight, Imp!Joined, Imp!HasInst
<1>8. ASSUME NEW q \in Requests PROVE Imp!InstRight(q)'
  <2>1. Imp!HasInst(q) => impInst[q].model \in {impModel', Elsewhere}
    BY DEF Imp!ImpInv, Imp!InstRight
  <2> QED BY <1>2, <2>1, InstStays DEF Imp!InstRight, Imp!HasInst
<1> QED BY <1>2, <1>4, <1>6, <1>7, <1>8

LEMMA ImpUndoInst ==
    ASSUME Imp!ImpInv, NEW r \in Requests, Imp!UndoInst(r)
    PROVE  Imp!ImpInv'
<1>1. impCall[r].pc = "undo_inst" /\ impCall[r].pc \in Imp!Held /\ impCall[r].pc \notin Imp!Settled
  BY DEF Imp!UndoInst, Imp!Held, Imp!Settled
<1>2. UNCHANGED <<impJob, impModel, file, pass, clean, made, told, smooth, impEdits>>
  BY DEF Imp!UndoInst
<1>3. CASE Imp!DropInst(r) /\ impCall' = [impCall EXCEPT ![r].pc = "undo_model"]
  <2>1. /\ impCall' \in [Requests -> Imp!Call] /\ \A q \in Requests : q # r => impCall'[q] = impCall[q]
        /\ SettledStays /\ \A q \in Requests : Imp!CallRight(q)'
    BY <1>1, <1>2, <1>3, CallGoes DEF Imp!Held
  <2>2. /\ impInst' \in [Requests -> Imp!InstRow \cup {None}] /\ imp' \in [Imp!Jobs -> Imp!ImpRow \cup {None}] /\ LinksShrink
        /\ (\A k \in Imp!Jobs : Imp!RowRight(k)') /\ \A q \in Requests : Imp!InstRight(q)'
    BY <1>2, <1>3, <2>1, InstDropped
  <2>3. /\ file' \in BOOLEAN /\ impEdits' \in 0..ImpEdits /\ impModel' \in Imp!Models \cup {None} /\ told' \in SUBSET Requests
        /\ impJob' \in [Imp!Jobs -> Imp!States \cup {"absent", "removed"}] /\ \A k \in Imp!Jobs : smooth /\ impJob'[k] = "COMPLETED" => file'
    BY <1>2 DEF Imp!ImpInv, Imp!ImpTyped
  <2> QED BY <1>2, <2>1, <2>2, <2>3, RowsStep
<1>4. CASE impCall' = [impCall EXCEPT ![r].pc = "undo_rest"] /\ UNCHANGED <<impInst, imp>>
  BY <1>1, <1>2, <1>4, CallGoes, CallOnly DEF Imp!Held, Imp!rows, MayStand
<1> QED BY <1>3, <1>4 DEF Imp!UndoInst

\* A model goes, and its instances with it.
LEMMA ModelDropped ==
    ASSUME Imp!ImpInv, NEW m \in Imp!Models, Imp!DropModel(m), UNCHANGED <<impJob, smooth, told, made>>, SettledStays,
           \A q \in Requests : Imp!HasInst(q) /\ impCall'[q] # impCall[q] => impCall'[q].pc \in MayStand
    PROVE  /\ impInst' \in [Requests -> Imp!InstRow \cup {None}] /\ imp' \in [Imp!Jobs -> Imp!ImpRow \cup {None}] /\ LinksShrink
           /\ impModel' \in {impModel, None} /\ impModel' # m
           /\ (\A k \in Imp!Jobs : Imp!RowRight(k)') /\ \A q \in Requests : Imp!InstRight(q)'
<1> DEFINE lost == {i \in Requests : Imp!HasInst(i) /\ impInst[i].model = m}
           left(x) == [x EXCEPT !.model = IF @ = m THEN None ELSE @, !.inst = IF @ \in lost THEN None ELSE @]
<1>1. impInst \in [Requests -> Imp!InstRow \cup {None}] /\ imp \in [Imp!Jobs -> Imp!ImpRow \cup {None}] /\ m # None /\ m # Elsewhere
  BY SMTT(60), ModelNames DEF Imp!ImpInv, Imp!ImpTyped
<1>2. /\ impModel' = IF impModel = m THEN None ELSE impModel
      /\ impInst' = [i \in Requests |-> IF i \in lost THEN None ELSE impInst[i]]
      /\ imp' = [k \in Imp!Jobs |-> IF imp[k] = None THEN None ELSE left(imp[k])]
  BY <1>1 DEF Imp!DropModel
<1>3. /\ impInst' \in [Requests -> Imp!InstRow \cup {None}]
      /\ \A q \in Requests : impInst'[q] = IF q \in lost THEN None ELSE impInst[q]
  <2> HIDE DEF lost
  <2>1. \A q \in Requests : impInst'[q] = IF q \in lost THEN None ELSE impInst[q]
    BY <1>2
  <2>2. impInst' = [q \in Requests |-> impInst'[q]]
    BY <1>2
  <2> QED BY <1>1, <2>1, <2>2
<1>4. ASSUME NEW k \in Imp!Jobs
      PROVE  /\ imp'[k] \in Imp!ImpRow \cup {None} /\ (imp'[k] # None => imp[k] # None)
             /\ imp[k] # None => /\ imp'[k].job = imp[k].job /\ imp'[k].owns = imp[k].owns /\ imp'[k].state = imp[k].state
                                 /\ imp'[k].model = IF imp[k].model = m THEN None ELSE imp[k].model
                                 /\ imp'[k].inst = IF imp[k].inst \in lost THEN None ELSE imp[k].inst
  <2>1. ASSUME NEW x \in Imp!ImpRow
        PROVE  /\ left(x) \in Imp!ImpRow /\ left(x).job = x.job /\ left(x).owns = x.owns /\ left(x).state = x.state
               /\ left(x).model = IF x.model = m THEN None ELSE x.model
               /\ left(x).inst = IF x.inst \in lost THEN None ELSE x.inst
    <3>1. PICK a \in Imp!Models \cup {None}, b \in Requests \cup {None} :
            (a = IF x.model = m THEN None ELSE x.model) /\ (b = IF x.inst \in lost THEN None ELSE x.inst)
      BY DEF Imp!ImpRow
    <3>2. left(x) = [x EXCEPT !.model = a, !.inst = b]
      BY <3>1 DEF Imp!ImpRow
    <3> QED BY <3>1, <3>2 DEF Imp!ImpRow
  <2>2. imp[k] \in Imp!ImpRow \cup {None} /\ imp'[k] = IF imp[k] = None THEN None ELSE left(imp[k])
    BY <1>1, <1>2
  <2> HIDE DEF left
  <2> QED BY <2>1, <2>2
<1>5. imp' \in [Imp!Jobs -> Imp!ImpRow \cup {None}]
  BY ZenonT(60), <1>2, <1>4
<1> HIDE DEF left
<1>6. ASSUME NEW k \in Imp!Jobs, Imp!Joined(k)'
      PROVE  Imp!Joined(k) /\ imp'[k].inst = imp[k].inst /\ k \in Requests /\ k \notin lost /\ impInst'[k] = impInst[k]
  <2>1. Imp!Joined(k) /\ imp'[k].inst = imp[k].inst /\ imp[k].inst \notin lost
    BY <1>4, <1>6 DEF Imp!Joined
  <2>2. imp[k].inst = k /\ k \in Requests
    BY <2>1 DEF Imp!ImpInv, Imp!RowRight
  <2> QED BY <1>3, <2>1, <2>2
<1>7. LinksShrink
  <2> SUFFICES ASSUME NEW k \in Requests, Imp!Joined(k)'
               PROVE  Imp!Joined(k) /\ imp'[k].job = imp[k].job /\ imp'[k].model \in {imp[k].model, None}
    BY DEF LinksShrink
  <2> QED BY <1>4, <1>6, ModelNames DEF Imp!Joined
<1>8. ASSUME NEW k \in Imp!Jobs PROVE Imp!RowRight(k)'
  <2>1. Imp!RowRight(k)
    BY DEF Imp!ImpInv
  <2>2. imp'[k] # None => Imp!Exists(imp[k].job)' /\ imp'[k].model \in {impModel', None} /\ (imp'[k].owns /\ imp'[k].model # None => made'[imp'[k].model] = imp'[k].job)
    BY <1>1, <1>2, <1>4, <2>1 DEF Imp!RowRight, Imp!Exists, Imp!Rightly
  <2>3. Imp!Joined(k)' => impCall'[k].pc \in Imp!Settled
    BY <1>6, <2>1 DEF Imp!RowRight, SettledStays
  <2>4. Imp!Joined(k)' /\ smooth => imp'[k].model = imp[k].model
    <3>1. Imp!Joined(k)' /\ smooth => Imp!HasInst(k) /\ impInst[k].model = impModel /\ imp[k].model = impModel
      BY <1>6, <2>1 DEF Imp!RowRight, Imp!ImpInv, Imp!InstRight, Imp!Joined
    <3> QED BY <1>4, <1>6, <3>1 DEF Imp!Joined
  <2> QED BY <1>4, <1>6, <2>1, <2>2, <2>3, <2>4 DEF Imp!RowRight, Imp!Joined, Imp!HasInst, Imp!Exists, Imp!Rightly
<1>9. ASSUME NEW q \in Requests PROVE Imp!InstRight(q)'
  <2>1. CASE q \in lost
    BY <1>3, <2>1 DEF Imp!InstRight, Imp!HasInst
  <2>2. CASE q \notin lost
    <3>1. Imp!HasInst(q) => impInst[q].model \in {impModel', Elsewhere}
      BY <1>2, <2>2 DEF Imp!ImpInv, Imp!InstRight
    <3> QED BY <1>3, <2>2, <3>1, InstStays
  <2> QED BY <2>1, <2>2
<1> QED BY <1>1, <1>2, <1>3, <1>5, <1>7, <1>8, <1>9

LEMMA ImpUndoModel ==
    ASSUME Imp!ImpInv, NEW r \in Requests, Imp!UndoModel(r)
    PROVE  Imp!ImpInv'
<1>1. /\ impCall[r].pc \in {"undo_model", "undo_rest"} /\ Imp!CallRight(r) /\ impCall[r].pc \notin Imp!Settled
      /\ impCall[r].pc = "undo_model" => ~Imp!HasInst(r)
  BY DEF Imp!UndoModel, Imp!ImpInv, Imp!InstRight, Imp!Settled
<1>2. UNCHANGED <<impJob, file, pass, clean, made, told, smooth, impEdits>>
  BY DEF Imp!UndoModel
<1>3. ASSUME impCall' = [impCall EXCEPT ![r] = Imp!Ended("left")], UNCHANGED <<impModel, impInst, imp>> PROVE Imp!ImpInv'
  BY <1>1, <1>2, <1>3, CallOver, CallOnly DEF Imp!rows, MayStand
<1>4. ASSUME Imp!DropModel(IF impCall[r].owns THEN impCall[r].model ELSE None),
             impCall' = [impCall EXCEPT ![r] = Imp!Ended(IF impCall[r].pc = "undo_model" THEN "failed" ELSE "left")]
      PROVE  Imp!ImpInv'
  <2>1. PICK pc \in {"failed", "left"} : pc = IF impCall[r].pc = "undo_model" THEN "failed" ELSE "left"
    OBVIOUS
  <2>2. impModel' # Imp!Own(r) /\ impModel' \in {impModel, None}
    <3>1. CASE impCall[r].owns
      <4>1. impCall[r].model = Imp!Own(r) /\ Imp!Own(r) \in Imp!Models /\ Imp!Own(r) # None
        BY <1>1, <3>1, ModelNames DEF Imp!CallRight
      <4> QED BY <1>4, <3>1, <4>1 DEF Imp!DropModel
    <3>2. CASE ~impCall[r].owns
      BY <1>1, <1>4, <3>2 DEF Imp!DropModel, Imp!CallRight, Imp!Held
    <3> QED BY <3>1, <3>2
  <2>3. /\ impCall' \in [Requests -> Imp!Call] /\ \A q \in Requests : q # r => impCall'[q] = impCall[q]
        /\ impCall'[r].pc = pc /\ Imp!CallRight(r)'
    BY <1>4, <2>1, <2>2, CallOver
  <2>4. SettledStays /\ \A q \in Requests : Imp!CallRight(q)'
    <3>1. \A q \in Requests : impModel' = Imp!Own(q) => impModel = Imp!Own(q)
      BY <2>2, ModelNames
    <3> QED BY <1>1, <1>2, <2>3, <3>1, CallMoves
  <2>5. Imp!HasInst(r) => impCall'[r].pc \in MayStand
    BY <1>1, <2>1, <2>3 DEF MayStand
  <2>6. CASE impCall[r].owns
    <3>1. impCall[r].model \in Imp!Models /\ Imp!DropModel(impCall[r].model)
      BY <1>1, <1>4, <2>6, ModelNames DEF Imp!CallRight
    <3>2. \A q \in Requests : Imp!HasInst(q) /\ impCall'[q] # impCall[q] => impCall'[q].pc \in MayStand
      BY <2>3, <2>5
    <3>3. /\ impInst' \in [Requests -> Imp!InstRow \cup {None}] /\ imp' \in [Imp!Jobs -> Imp!ImpRow \cup {None}] /\ LinksShrink
          /\ impModel' \in {impModel, None} /\ (\A k \in Imp!Jobs : Imp!RowRight(k)') /\ \A q \in Requests : Imp!InstRight(q)'
      BY <1>2, <2>4, <3>1, <3>2, ModelDropped
    <3>4. /\ file' \in BOOLEAN /\ impEdits' \in 0..ImpEdits /\ impModel' \in Imp!Models \cup {None} /\ told' \in SUBSET Requests
          /\ impJob' \in [Imp!Jobs -> Imp!States \cup {"absent", "removed"}] /\ \A k \in Imp!Jobs : smooth /\ impJob'[k] = "COMPLETED" => file'
      BY <1>2, <3>3 DEF Imp!ImpInv, Imp!ImpTyped
    <3> QED BY <1>2, <2>3, <2>4, <3>3, <3>4, RowsStep
  <2>7. CASE ~impCall[r].owns
    <3>1. UNCHANGED <<Imp!rows, file, pass, clean, made, told, smooth, impEdits>>
      BY <1>2, <1>4, <2>7 DEF Imp!DropModel, Imp!rows
    <3> QED BY <1>1, <2>3, <2>5, <3>1, CallOnly
  <2> QED BY <2>6, <2>7
<1> QED BY <1>3, <1>4 DEF Imp!UndoModel

\* A pass that ends, a request's with its call.
LEMMA CallLeaves ==
    ASSUME Imp!ImpInv, NEW p \in Imp!Passes, UNCHANGED impCall \/ Imp!Over(p), UNCHANGED <<impJob, impModel, made>>
    PROVE  /\ impCall' \in [Requests -> Imp!Call] /\ SettledStays /\ \A q \in Requests : Imp!CallRight(q)'
           /\ \A q \in Requests : impCall'[q] = impCall[q] \/ impCall'[q].pc \in Imp!Settled
<1>1. CASE UNCHANGED impCall
  <2>1. impCall' \in [Requests -> Imp!Call] /\ \A q \in Requests : Imp!CallRight(q)'
    BY <1>1, CallStays DEF Imp!ImpInv, Imp!ImpTyped
  <2> QED BY <1>1, <2>1 DEF SettledStays
<1>2. CASE p \in Requests /\ impCall' = [impCall EXCEPT ![p] = Imp!Ended("done")]
  <2>1. /\ impCall' \in [Requests -> Imp!Call] /\ \A q \in Requests : q # p => impCall'[q] = impCall[q]
        /\ impCall'[p].pc = "done" /\ Imp!CallRight(p)'
    BY <1>2, CallOver
  <2>2. SettledStays /\ \A q \in Requests : Imp!CallRight(q)'
    BY <1>2, <2>1, CallMoves DEF Imp!Settled
  <2> QED BY <2>1, <2>2 DEF Imp!Settled
<1> QED BY <1>1, <1>2 DEF Imp!Over

\* A step of a pass.
LEMMA PassRows ==
    ASSUME Imp!ImpInv, UNCHANGED <<impJob, file, clean, smooth>>, impEdits' \in 0..ImpEdits, MadeStays, made' \in [Imp!Models -> Imp!Jobs \cup {None}],
           \A k \in Imp!Jobs : made'[Imp!Reg(k)] \in {None, k}, pass' \in [Imp!Passes -> Imp!Pass], \A q \in Imp!Passes : Imp!PassRight(q)',
           impModel' \in Imp!Models \cup {None}, told' \in SUBSET Requests, impInst' \in [Requests -> Imp!InstRow \cup {None}],
           imp' \in [Imp!Jobs -> Imp!ImpRow \cup {None}], impCall' \in [Requests -> Imp!Call],
           \A k \in Imp!Jobs : Imp!RowRight(k)', \A i \in Requests : Imp!InstRight(i)', \A r \in Requests : Imp!CallRight(r)'
    PROVE  Imp!ImpInv'
<1>1. clean' \in Imp!Clean /\ \A r \in clean'.rows : r.job = clean'.job /\ Imp!Rightly(r)'
  BY CleanStays
<1>2. Imp!ImpTyped'
  BY <1>1 DEF Imp!ImpInv, Imp!ImpTyped
<1>3. \A k \in Imp!Jobs : smooth' /\ impJob'[k] = "COMPLETED" => file'
  BY DEF Imp!ImpInv
<1> QED BY <1>1, <1>2, <1>3 DEF Imp!ImpInv

LEMMA EditsKept ==
    ASSUME Imp!ImpInv, UNCHANGED impEdits
    PROVE  impEdits' \in 0..ImpEdits
  BY DEF Imp!ImpInv, Imp!ImpTyped

\* A pass that changes no row goes on with what it has read.
LEMMA PassOnly ==
    ASSUME Imp!ImpInv, NEW p \in Imp!Passes, NEW x \in Imp!Pass, pass' = [pass EXCEPT ![p] = x],
           UNCHANGED <<Imp!rows, file, clean, made, told, smooth>>, impEdits' \in 0..ImpEdits, UNCHANGED impCall \/ Imp!Over(p),
           x.pc \in {"items", "file"} => \A it \in x.todo : it \in Imp!Item /\ Imp!ItemRight(it),
           x.pc = "file" => x.item \in Imp!Item /\ Imp!ItemRight(x.item) /\ x.item.to = "COMPLETED",
           x.pc \in {"idle", "items", "file", "jobs", "create", "link"}, x.pc \in {"create", "link"} => ~x.item.owns
    PROVE  Imp!ImpInv'
<1>1. UNCHANGED <<impJob, impModel, impInst, imp, made, told, smooth>>
  BY DEF Imp!rows
<1>2. /\ impCall' \in [Requests -> Imp!Call] /\ SettledStays /\ \A q \in Requests : Imp!CallRight(q)'
      /\ \A q \in Requests : impCall'[q] = impCall[q] \/ impCall'[q].pc \in Imp!Settled
  BY <1>1, CallLeaves
<1>3. LinksShrink /\ MadeStays
  BY <1>1, LinksSame DEF MadeStays
<1>4. \A k \in Imp!Jobs : Imp!RowRight(k)'
  <2> SUFFICES ASSUME NEW k \in Imp!Jobs PROVE Imp!RowRight(k)'
    OBVIOUS
  <2>1. imp[k] # None => Imp!Exists(imp[k].job)' /\ imp[k].model \in {impModel', None}
    BY <1>1 DEF Imp!ImpInv, Imp!RowRight, Imp!Exists
  <2>2. Imp!Joined(k) => impInst[k] # None /\ k \in Requests
    BY DEF Imp!ImpInv, Imp!RowRight, Imp!HasInst
  <2> QED BY <1>1, <1>2, <1>3, <2>1, <2>2, RowStays
<1>5. \A i \in Requests : Imp!InstRight(i)'
  <2> SUFFICES ASSUME NEW i \in Requests PROVE Imp!InstRight(i)'
    OBVIOUS
  <2>1. Imp!HasInst(i) => impInst[i].model \in {impModel, Elsewhere}
    BY DEF Imp!ImpInv, Imp!InstRight
  <2> QED BY <1>1, <1>2, <2>1, InstStays DEF MayStand
<1>6. pass' \in [Imp!Passes -> Imp!Pass] /\ \A q \in Imp!Passes : Imp!PassRight(q)'
  <2>1. x.pc \in {"items", "file"} => \A it \in x.todo : Imp!ItemRight(it)'
    BY <1>1, <1>2, <1>3, ItemsStay
  <2>2. x.pc = "file" => Imp!ItemRight(x.item)'
    <3> HAVE x.pc = "file"
    <3>1. PICK it \in Imp!Item : it = x.item
      OBVIOUS
    <3> QED BY <1>1, <1>2, <1>3, <3>1, ItemsStay
  <2> QED BY <1>1, <1>2, <1>3, <2>1, <2>2, ImpPassMoves
<1>7. /\ impModel' \in Imp!Models \cup {None} /\ told' \in SUBSET Requests /\ impInst' \in [Requests -> Imp!InstRow \cup {None}]
      /\ imp' \in [Imp!Jobs -> Imp!ImpRow \cup {None}] /\ made' \in [Imp!Models -> Imp!Jobs \cup {None}]
      /\ \A k \in Imp!Jobs : made'[Imp!Reg(k)] \in {None, k}
  BY <1>1 DEF Imp!ImpInv, Imp!ImpTyped
<1> QED BY <1>1, <1>2, <1>3, <1>4, <1>5, <1>6, <1>7, PassRows

LEMMA ImpReadRows ==
    ASSUME Imp!ImpInv, NEW p \in Imp!Passes, Imp!ReadRows(p)
    PROVE  Imp!ImpInv'
<1>1. CASE \E k \in Imp!Waiting : imp[k].model = None
  <2>1. pass' = [pass EXCEPT ![p] = Imp!NoPass] /\ Imp!NoPass \in Imp!Pass /\ Imp!NoPass.pc = "idle"
    BY <1>1, PassMade DEF Imp!ReadRows, Imp!Leave, Imp!NoPass
  <2> QED BY <1>1, <2>1, PassOnly, EditsKept DEF Imp!ReadRows, Imp!Leave, Imp!Turn
<1>2. CASE \A k \in Imp!Waiting : imp[k].model # None
  <2> DEFINE read(k) == [key |-> k, inst |-> imp[k].inst, model |-> imp[k].model, to |-> impJob[imp[k].job], tried |-> imp[k].tried]
             x == [pc |-> "items", item |-> None, todo |-> {read(k) : k \in Imp!Waiting}]
  <2>1. ASSUME NEW k \in Imp!Waiting PROVE read(k) \in Imp!Item /\ Imp!ItemRight(read(k))
    <3>1. k \in Imp!Jobs /\ Imp!Joined(k) /\ Imp!RowRight(k) /\ imp[k] \in Imp!ImpRow
      BY DEF Imp!Waiting, Imp!Joined, Imp!ImpInv, Imp!ImpTyped
    <3>2. imp[k].inst = k /\ k \in Requests /\ impCall[k].pc \in Imp!Settled /\ impJob[imp[k].job] \in Imp!States /\ imp[k].job \in Imp!Jobs
      BY <3>1 DEF Imp!RowRight, Imp!Joined, Imp!Exists, Imp!ImpRow
    <3>3. PICK t \in Imp!States, b \in BOOLEAN, m \in Imp!Models : t = impJob[imp[k].job] /\ b = imp[k].tried /\ m = imp[k].model
      BY <1>2, <3>1, <3>2 DEF Imp!ImpRow
    <3>4. read(k) = [key |-> k, inst |-> k, model |-> m, to |-> t, tried |-> b]
      BY <3>2, <3>3
    <3>5. PICK it : it = [key |-> k, inst |-> k, model |-> m, to |-> t, tried |-> b]
      OBVIOUS
    <3>6. it \in Imp!Item /\ it.key = k /\ it.inst = k /\ it.model = m /\ it.to = t
      BY <3>2, <3>5 DEF Imp!Item
    <3>7. Imp!ItemRight(it)
      BY <3>2, <3>3, <3>6 DEF Imp!ItemRight, Imp!ImpInv
    <3> QED BY <3>4, <3>5, <3>6, <3>7
  <2> HIDE DEF read
  <2>2. x \in Imp!Pass /\ x.pc = "items" /\ \A it \in x.todo : it \in Imp!Item /\ Imp!ItemRight(it)
    BY <2>1, PassMade
  <2>3. pass' = [pass EXCEPT ![p] = x] /\ UNCHANGED <<impCall, Imp!rows, file, clean, made, told, smooth, impEdits>> /\ pass[p].pc = "idle"
    BY <1>2 DEF Imp!ReadRows, read, Imp!Turn
  <2> HIDE DEF x
  <2> QED BY <2>2, <2>3, PassOnly, EditsKept
<1> QED BY <1>1, <1>2

Reading == {"items", "file", "enable", "claim", "start"}

\* A pass that goes on with the item it has.
LEMMA PassGoes ==
    ASSUME Imp!ImpInv, NEW p \in Imp!Passes, pass[p].pc \in {"file", "enable", "claim", "start"}, NEW pc \in Reading, Imp!Goes(p, pc)
    PROVE  \E x \in Imp!Pass :
             /\ pass' = [pass EXCEPT ![p] = x] /\ x.pc = pc /\ x.todo = pass[p].todo /\ x.item = pass[p].item
             /\ x.item \in Imp!Item /\ Imp!ItemRight(x.item) /\ x.item.to = "COMPLETED" /\ \A it \in x.todo : it \in Imp!Item /\ Imp!ItemRight(it)
<1>1. Imp!ImpTyped /\ Imp!PassRight(p) /\ pass \in [Imp!Passes -> Imp!Pass]
  BY DEF Imp!ImpInv, Imp!ImpTyped
<1>2. /\ pass[p] = [pc |-> pass[p].pc, todo |-> pass[p].todo, item |-> pass[p].item]
      /\ pass[p].todo \in SUBSET Imp!Item /\ pass[p].item \in Imp!Item
  BY <1>1, PassAs
<1>3. [pc |-> pc, todo |-> pass[p].todo, item |-> pass[p].item] \in Imp!Pass
  BY <1>2, PassMade DEF Reading
<1>4. [pass[p] EXCEPT !.pc = pc] = [pc |-> pc, todo |-> pass[p].todo, item |-> pass[p].item]
  BY <1>2
<1>5. pass' = [pass EXCEPT ![p] = [pc |-> pc, todo |-> pass[p].todo, item |-> pass[p].item]]
  BY <1>1, <1>4 DEF Imp!Goes
<1>6. /\ Imp!ItemRight(pass[p].item) /\ pass[p].item.to = "COMPLETED"
      /\ \A it \in pass[p].todo : it \in Imp!Item /\ Imp!ItemRight(it)
  BY <1>1, <1>2 DEF Imp!PassRight
<1> QED BY <1>2, <1>3, <1>5, <1>6

\* A row is written, its links as they were.
Rewrites(k, y) ==
    /\ imp[k] # None /\ imp' = [imp EXCEPT ![k] = y]
    /\ y.job = imp[k].job /\ y.model = imp[k].model /\ y.inst = imp[k].inst /\ y.owns = imp[k].owns
    /\ Imp!Joined(k) /\ y.state = "COMPLETED" => k \in told'
    /\ Imp!Joined(k) /\ smooth /\ y.state \in Imp!Lost => impJob[y.job] \in Imp!Lost

\* A pass that writes at most one row, of what does not link it.
LEMMA PassWrites ==
    ASSUME Imp!ImpInv, NEW p \in Imp!Passes, NEW x \in Imp!Pass, pass' = [pass EXCEPT ![p] = x], x.pc \in Reading,
           UNCHANGED <<impJob, impModel, impInst, file, impCall, clean, made, smooth, impEdits>>, told \subseteq told', told' \in SUBSET Requests,
           \A it \in x.todo : it \in Imp!Item /\ Imp!ItemRight(it),
           x.pc # "items" => x.item \in Imp!Item /\ Imp!ItemRight(x.item) /\ x.item.to = "COMPLETED",
           NEW k \in Imp!Jobs, NEW y \in Imp!ImpRow,
           imp' = imp \/ Rewrites(k, y)
    PROVE  Imp!ImpInv'
<1>1. imp \in [Imp!Jobs -> Imp!ImpRow \cup {None}]
  BY DEF Imp!ImpInv, Imp!ImpTyped
<1>2. imp' \in [Imp!Jobs -> Imp!ImpRow \cup {None}] /\ \A q \in Imp!Jobs : q # k => imp'[q] = imp[q]
  BY <1>1 DEF Rewrites
<1>3. ASSUME NEW q \in Imp!Jobs, imp'[q] # None
      PROVE  /\ imp[q] # None /\ imp'[q].job = imp[q].job /\ imp'[q].model = imp[q].model /\ imp'[q].inst = imp[q].inst
             /\ imp'[q].owns = imp[q].owns
  <2>1. CASE imp'[q] = imp[q]
    BY <1>3, <2>1
  <2>2. CASE q = k /\ Rewrites(k, y)
    BY <1>1, <2>2 DEF Rewrites
  <2> QED BY <1>2, <2>1, <2>2
<1>4. LinksShrink /\ MadeStays /\ SettledStays
  <2>1. LinksShrink
    <3> SUFFICES ASSUME NEW q \in Requests, Imp!Joined(q)'
                 PROVE  Imp!Joined(q) /\ imp'[q].job = imp[q].job /\ imp'[q].model = imp[q].model
      BY DEF LinksShrink
    <3> QED BY <1>3, ModelNames DEF Imp!Joined
  <2> QED BY <2>1 DEF MadeStays, SettledStays
<1>5. ASSUME NEW q \in Imp!Jobs PROVE Imp!RowRight(q)'
  <2>1. Imp!RowRight(q)
    BY DEF Imp!ImpInv
  <2>4. imp'[q] = imp[q] \/ (q = k /\ Rewrites(k, y))
    <3>1. imp' = imp => imp'[q] = imp[q]
      BY Zenon
    <3> QED BY <1>2, <3>1
  <2>2. CASE imp'[q] = imp[q]
    <3>1. imp[q] # None => Imp!Exists(imp[q].job)' /\ imp[q].model \in {impModel', None}
      BY <2>1, <2>2 DEF Imp!RowRight, Imp!Exists
    <3>2. Imp!Joined(q) => impInst[q] # None
      BY <2>1 DEF Imp!RowRight, Imp!HasInst
    <3> QED BY <1>4, <2>2, <3>1, <3>2, RowStays
  <2>3. CASE imp'[q] # imp[q]
    <3>1. /\ q = k /\ imp[q] # None /\ imp'[q] = y /\ (Imp!Joined(q)' => Imp!Joined(q))
          /\ y.job = imp[q].job /\ y.model = imp[q].model /\ y.inst = imp[q].inst /\ y.owns = imp[q].owns
          /\ Imp!Joined(q) /\ y.state = "COMPLETED" => q \in told'
          /\ Imp!Joined(q) /\ smooth /\ y.state \in Imp!Lost => impJob[y.job] \in Imp!Lost
      BY <1>1, <2>1, <2>3, <2>4 DEF Imp!Joined, Rewrites
    <3>2. Imp!Exists(y.job)' /\ y.model \in {impModel', None} /\ (y.owns /\ y.model # None => made'[y.model] = y.job)
      BY <2>1, <3>1 DEF Imp!RowRight, Imp!Exists, Imp!Rightly
    <3> QED BY <2>1, <3>1, <3>2 DEF Imp!RowRight, Imp!Joined, Imp!HasInst, Imp!Exists, Imp!Rightly
  <2> QED BY <2>2, <2>3
<1>6. \A i \in Requests : Imp!InstRight(i)'
  <2> SUFFICES ASSUME NEW i \in Requests PROVE Imp!InstRight(i)'
    OBVIOUS
  <2>1. Imp!HasInst(i) => impInst[i].model \in {impModel', Elsewhere}
    BY DEF Imp!ImpInv, Imp!InstRight
  <2> QED BY <2>1, InstStays
<1>7. \A r \in Requests : Imp!CallRight(r)'
  BY CallStays
<1>8. pass' \in [Imp!Passes -> Imp!Pass] /\ \A q \in Imp!Passes : Imp!PassRight(q)'
  <2>1. \A it \in x.todo : Imp!ItemRight(it)'
    BY <1>4, ItemsStay
  <2>2. x.pc # "items" => Imp!ItemRight(x.item)'
    <3> HAVE x.pc # "items"
    <3>1. PICK it \in Imp!Item : it = x.item
      OBVIOUS
    <3> QED BY <1>4, <3>1, ItemsStay
  <2> QED BY <1>4, <2>1, <2>2, ImpPassMoves DEF Reading
<1>9. /\ impModel' \in Imp!Models \cup {None} /\ impInst' \in [Requests -> Imp!InstRow \cup {None}] /\ impCall' \in [Requests -> Imp!Call]
      /\ made' \in [Imp!Models -> Imp!Jobs \cup {None}] /\ \A q \in Imp!Jobs : made'[Imp!Reg(q)] \in {None, q}
  BY DEF Imp!ImpInv, Imp!ImpTyped
<1> QED BY <1>2, <1>4, <1>5, <1>6, <1>7, <1>8, <1>9, PassRows, EditsKept

\* What writing a row's state does.
LEMMA StateSet ==
    ASSUME Imp!ImpInv, NEW k \in Imp!Jobs, NEW s \in Imp!States, Imp!SetState(k, s), Imp!Joined(k) /\ s = "COMPLETED" => k \in told',
           Imp!Joined(k) /\ smooth /\ s \in Imp!Lost => impJob[imp[k].job] \in Imp!Lost
    PROVE  \E y \in Imp!ImpRow : imp' = imp \/ Rewrites(k, y)
<1>1. imp[k] \in Imp!ImpRow \cup {None}
  BY DEF Imp!ImpInv, Imp!ImpTyped
<1>2. CASE imp[k] = None
  <2>1. [job |-> k, model |-> None, inst |-> None, owns |-> FALSE, state |-> "FAILED", tried |-> FALSE] \in Imp!ImpRow
    BY DEF Imp!ImpRow, Imp!States
  <2> QED BY <1>2, <2>1 DEF Imp!SetState
<1>3. CASE imp[k] # None
  <2>1. PICK y : y = [imp[k] EXCEPT !.state = s]
    OBVIOUS
  <2>2. y \in Imp!ImpRow /\ y.job = imp[k].job /\ y.model = imp[k].model /\ y.inst = imp[k].inst /\ y.owns = imp[k].owns /\ y.state = s
    BY <1>1, <1>3, <2>1 DEF Imp!ImpRow
  <2>3. imp' = [imp EXCEPT ![k] = y]
    BY <1>3, <2>1 DEF Imp!SetState
  <2> QED BY <1>3, <2>2, <2>3 DEF Rewrites
<1> QED BY <1>2, <1>3

LEMMA ImpTakeItem ==
    ASSUME Imp!ImpInv, NEW p \in Imp!Passes, Imp!TakeItem(p)
    PROVE  Imp!ImpInv'
<1>1. pass[p].pc = "items" /\ Imp!ImpTyped /\ Imp!PassRight(p) /\ pass \in [Imp!Passes -> Imp!Pass]
  BY DEF Imp!TakeItem, Imp!ImpInv, Imp!ImpTyped
<1>2. PICK it \in pass[p].todo :
        IF it.to # "COMPLETED"
        THEN Imp!SetState(it.key, it.to) /\ pass' = [pass EXCEPT ![p].todo = @ \ {it}]
        ELSE UNCHANGED imp /\ pass' = [pass EXCEPT ![p] = [pc |-> "file", item |-> it, todo |-> @.todo \ {it}]]
  BY DEF Imp!TakeItem
<1>3. /\ pass[p] = [pc |-> "items", todo |-> pass[p].todo, item |-> pass[p].item] /\ pass[p].todo \in SUBSET Imp!Item
      /\ pass[p].item \in {None} \cup Imp!Item /\ \A i \in pass[p].todo : i \in Imp!Item /\ Imp!ItemRight(i)
  BY <1>1, PassAs DEF Imp!PassRight
<1>4. it \in Imp!Item /\ Imp!ItemRight(it) /\ it.key \in Imp!Jobs /\ it.to \in Imp!States
  BY <1>2, <1>3, ModelNames DEF Imp!Item
<1>5. UNCHANGED <<impJob, impModel, impInst, file, impCall, clean, made, told, smooth, impEdits>> /\ told' \in SUBSET Requests
  BY DEF Imp!TakeItem, Imp!ImpInv, Imp!ImpTyped
<1>6. CASE it.to # "COMPLETED"
  <2> DEFINE x == [pc |-> "items", todo |-> pass[p].todo \ {it}, item |-> pass[p].item]
  <2>1. x \in Imp!Pass /\ x.pc = "items" /\ \A i \in x.todo : i \in Imp!Item /\ Imp!ItemRight(i)
    BY <1>3, PassMade
  <2>2. pass' = [pass EXCEPT ![p] = x]
    <3>1. [pass[p] EXCEPT !.todo = pass[p].todo \ {it}] = [pc |-> "items", todo |-> pass[p].todo \ {it}, item |-> pass[p].item]
      BY <1>3
    <3>2. pass' = [pass EXCEPT ![p].todo = pass[p].todo \ {it}]
      BY <1>2, <1>6
    <3> QED BY <3>1, <3>2
  <2> HIDE DEF x
  <2>3. PICK y \in Imp!ImpRow : imp' = imp \/ Rewrites(it.key, y)
    BY <1>2, <1>4, <1>6, StateSet DEF Imp!ItemRight
  <2> QED BY <1>4, <1>5, <2>1, <2>2, <2>3, PassWrites DEF Reading
<1>7. CASE it.to = "COMPLETED"
  <2> DEFINE x == [pc |-> "file", todo |-> pass[p].todo \ {it}, item |-> it]
  <2>1. x \in Imp!Pass /\ x.pc = "file" /\ x.item = it /\ \A i \in x.todo : i \in Imp!Item /\ Imp!ItemRight(i)
    BY <1>3, <1>4, PassMade
  <2>2. pass' = [pass EXCEPT ![p] = x] /\ UNCHANGED imp
    BY <1>2, <1>7
  <2> HIDE DEF x
  <2> QED BY <1>1, <1>4, <1>5, <1>7, <2>1, <2>2, PassOnly, EditsKept DEF Imp!rows
<1> QED BY <1>6, <1>7

LEMMA ImpCheckFile ==
    ASSUME Imp!ImpInv, NEW p \in Imp!Passes, Imp!CheckFile(p)
    PROVE  Imp!ImpInv'
<1>1. pass[p].pc = "file" /\ UNCHANGED <<impJob, impModel, impInst, file, impCall, clean, made, told, smooth, impEdits>>
  BY DEF Imp!CheckFile, Imp!Goes
<1>4. Imp!ImpTyped /\ told \in SUBSET Requests
  BY DEF Imp!ImpInv, Imp!ImpTyped
<1>2. PICK pc \in {"items", "enable"} : Imp!Goes(p, pc)
  BY DEF Imp!CheckFile
<1>3. PICK x \in Imp!Pass :
        /\ pass' = [pass EXCEPT ![p] = x] /\ x.pc = pc /\ x.todo = pass[p].todo /\ x.item = pass[p].item
        /\ x.item \in Imp!Item /\ Imp!ItemRight(x.item) /\ x.item.to = "COMPLETED" /\ \A it \in x.todo : it \in Imp!Item /\ Imp!ItemRight(it)
  BY <1>1, <1>2, PassGoes DEF Reading
<1>5. \E k \in Imp!Jobs, y \in Imp!ImpRow : imp' = imp \/ Rewrites(k, y)
  <2>1. x.item.key \in Imp!Jobs /\ "FAILED" \in Imp!States
    BY <1>3, ModelNames DEF Imp!Item, Imp!States
  <2>2. CASE file /\ impModel = x.item.model
    <3>1. imp' = imp /\ "DOWNLOADING" \in Imp!States
      BY <1>3, <2>2 DEF Imp!CheckFile, Imp!States
    <3>2. [job |-> x.item.key, model |-> None, inst |-> None, owns |-> FALSE, state |-> "FAILED", tried |-> FALSE] \in Imp!ImpRow
      BY <2>1 DEF Imp!ImpRow
    <3> QED BY <2>1, <3>1, <3>2
  <2>3. CASE ~(file /\ impModel = x.item.model)
    <3>1. Imp!SetState(x.item.key, "FAILED")
      BY <1>3, <2>3 DEF Imp!CheckFile
    <3>2. ~(Imp!Joined(x.item.key) /\ smooth)
      BY <1>3, <2>1, <2>3 DEF Imp!ItemRight, Imp!ImpInv, Imp!RowRight, Imp!Joined
    <3> QED BY <2>1, <3>1, <3>2, StateSet
  <2> QED BY <2>2, <2>3
<1> QED BY <1>1, <1>2, <1>3, <1>5, <1>4, PassWrites DEF Reading

LEMMA ImpEnable ==
    ASSUME Imp!ImpInv, NEW p \in Imp!Passes, Imp!Enable(p)
    PROVE  Imp!ImpInv'
<1>1. pass[p].pc = "enable" /\ UNCHANGED <<impJob, impModel, imp, file, impCall, clean, made, told, smooth, impEdits>> /\ Imp!Goes(p, "claim")
  BY DEF Imp!Enable, Imp!Goes
<1>2. PICK x \in Imp!Pass :
        /\ pass' = [pass EXCEPT ![p] = x] /\ x.pc = "claim" /\ x.todo = pass[p].todo /\ x.item = pass[p].item
        /\ x.item \in Imp!Item /\ Imp!ItemRight(x.item) /\ x.item.to = "COMPLETED" /\ \A it \in x.todo : it \in Imp!Item /\ Imp!ItemRight(it)
  BY <1>1, PassGoes DEF Reading
<1>3. PICK i \in Requests : i = x.item.inst /\ i = x.item.key /\ impCall[i].pc \in Imp!Settled
  BY <1>2 DEF Imp!Item, Imp!ItemRight
<1>4. impInst \in [Requests -> Imp!InstRow \cup {None}] /\ pass \in [Imp!Passes -> Imp!Pass]
  BY DEF Imp!ImpInv, Imp!ImpTyped
<1>5. /\ impInst' \in [Requests -> Imp!InstRow \cup {None}] /\ \A q \in Requests : q # i => impInst'[q] = impInst[q]
      /\ Imp!HasInst(i)' => Imp!HasInst(i) /\ impInst'[i].model = impInst[i].model /\ impInst'[i].asked = impInst[i].asked
      /\ Imp!HasInst(i) => impInst'[i] # None /\ impInst'[i].enabled
  <2>1. CASE Imp!HasInst(i)
    <3>1. PICK y : y = [impInst[i] EXCEPT !.enabled = TRUE]
      OBVIOUS
    <3>2. y \in Imp!InstRow /\ y.model = impInst[i].model /\ y.asked = impInst[i].asked /\ y.enabled
      BY <1>4, <2>1, <3>1 DEF Imp!InstRow, Imp!HasInst
    <3>3. impInst' = [impInst EXCEPT ![i] = y]
      BY <1>2, <1>3, <2>1, <3>1 DEF Imp!Enable
    <3>4. impInst'[i] = y
      BY <1>4, <3>3
    <3>5. y # None
      BY <3>2, ImportsAssumed DEF Imp!ImportsAssumption
    <3> QED BY <1>4, <2>1, <3>2, <3>3, <3>4, <3>5 DEF Imp!HasInst
  <2>2. CASE ~Imp!HasInst(i)
    BY <1>2, <1>3, <1>4, <2>2 DEF Imp!Enable, Imp!HasInst
  <2> QED BY <2>1, <2>2
<1>6. LinksShrink /\ MadeStays /\ SettledStays
  BY <1>1, LinksSame DEF MadeStays, SettledStays
<1>7. ASSUME NEW k \in Imp!Jobs PROVE Imp!RowRight(k)'
  <2>1. Imp!RowRight(k)
    BY DEF Imp!ImpInv
  <2>2. imp[k] # None => Imp!Exists(imp[k].job)' /\ imp[k].model \in {impModel', None}
    BY <1>1, <2>1 DEF Imp!RowRight, Imp!Exists
  <2>3. CASE k # i
    <3>1. Imp!Joined(k) => impInst[k] # None /\ impInst'[k] = impInst[k]
      BY SMTT(60), <1>5, <2>1, <2>3 DEF Imp!RowRight, Imp!HasInst
    <3> QED BY <1>1, <1>6, <2>2, <3>1, RowStays
  <2>4. CASE k = i
    <3>1. Imp!Joined(k) => impJob[imp[k].job] = "COMPLETED"
      BY <1>2, <1>3, <2>4 DEF Imp!ItemRight
    <3>2. Imp!Joined(k)' => Imp!Joined(k) /\ impInst'[k] # None
      BY <1>1, <1>5, <2>1, <2>4 DEF Imp!Joined, Imp!RowRight
    <3>3. Imp!Rightly(imp[k])' <=> Imp!Rightly(imp[k])
      BY <1>1 DEF Imp!Rightly
    <3> QED BY SMTT(60), <1>1, <1>3, <2>1, <2>2, <2>4, <3>1, <3>2, <3>3 DEF Imp!RowRight, Imp!Joined, Imp!HasInst
  <2> QED BY <2>3, <2>4
<1>8. ASSUME NEW q \in Requests PROVE Imp!InstRight(q)'
  <2>1. Imp!InstRight(q)
    BY DEF Imp!ImpInv
  <2>2. CASE q # i
    BY <1>1, <1>5, <2>1, <2>2, InstStays DEF Imp!InstRight
  <2>3. CASE q = i
    <3>1. impCall'[q].pc \in Imp!Settled /\ impCall'[q].pc # "import"
      BY <1>1, <1>3, <2>3 DEF Imp!Settled
    <3> QED BY <1>1, <1>5, <2>1, <2>3, <3>1 DEF Imp!InstRight
  <2> QED BY <2>2, <2>3
<1>9. pass' \in [Imp!Passes -> Imp!Pass] /\ \A q \in Imp!Passes : Imp!PassRight(q)'
  <2>1. \A it \in x.todo \cup {x.item} : Imp!ItemRight(it)'
    BY <1>1, <1>2, <1>6, ItemsStay
  <2> QED BY <1>1, <1>2, <1>6, <2>1, ImpPassMoves
<1>10. \A r \in Requests : Imp!CallRight(r)'
  BY <1>1, CallStays
<1>11. /\ impModel' \in Imp!Models \cup {None} /\ told' \in SUBSET Requests /\ imp' \in [Imp!Jobs -> Imp!ImpRow \cup {None}]
       /\ impCall' \in [Requests -> Imp!Call] /\ made' \in [Imp!Models -> Imp!Jobs \cup {None}] /\ \A k \in Imp!Jobs : made'[Imp!Reg(k)] \in {None, k}
  BY <1>1 DEF Imp!ImpInv, Imp!ImpTyped
<1> QED BY <1>1, <1>5, <1>6, <1>7, <1>8, <1>9, <1>10, <1>11, PassRows, EditsKept

LEMMA ImpClaim ==
    ASSUME Imp!ImpInv, NEW p \in Imp!Passes, Imp!Claim(p)
    PROVE  Imp!ImpInv'
<1>1. pass[p].pc = "claim" /\ UNCHANGED <<impJob, impModel, impInst, file, impCall, clean, made, smooth, impEdits>> /\ Imp!Goes(p, "start")
  BY DEF Imp!Claim, Imp!Goes
<1>2. PICK x \in Imp!Pass :
        /\ pass' = [pass EXCEPT ![p] = x] /\ x.pc = "start" /\ x.todo = pass[p].todo /\ x.item = pass[p].item
        /\ x.item \in Imp!Item /\ Imp!ItemRight(x.item) /\ x.item.to = "COMPLETED" /\ \A it \in x.todo : it \in Imp!Item /\ Imp!ItemRight(it)
  BY <1>1, PassGoes DEF Reading
<1>3. PICK i \in Requests : i = x.item.inst /\ i = x.item.key /\ i \in Imp!Jobs
  BY <1>2, ModelNames DEF Imp!Item, Imp!ItemRight
<1>4. /\ told \in SUBSET Requests /\ imp[i] \in Imp!ImpRow \cup {None} /\ "COMPLETED" \in Imp!States /\ Imp!RowRight(i)
      /\ pass \in [Imp!Passes -> Imp!Pass]
  BY <1>3 DEF Imp!ImpInv, Imp!ImpTyped, Imp!States
<1>5. CASE imp[i] # None /\ imp[i].state = "DOWNLOADING"
  <2>1. Imp!SetState(i, "COMPLETED") /\ told' = told \cup {i}
    BY <1>2, <1>3, <1>5 DEF Imp!Claim
  <2>2. PICK y \in Imp!ImpRow : imp' = imp \/ Rewrites(i, y)
    BY <1>3, <1>4, <2>1, StateSet DEF Imp!Lost
  <2>3. told \subseteq told' /\ told' \in SUBSET Requests /\ i \in told'
    BY <1>4, <2>1
  <2> QED BY <1>1, <1>2, <1>3, <2>2, <2>3, PassWrites DEF Reading
<1>6. CASE ~(imp[i] # None /\ imp[i].state = "DOWNLOADING")
  <2>1. imp' = imp /\ told' = told
    BY <1>2, <1>3, <1>6 DEF Imp!Claim
  <2>2. [job |-> i, model |-> None, inst |-> None, owns |-> FALSE, state |-> "FAILED", tried |-> FALSE] \in Imp!ImpRow
    BY <1>3 DEF Imp!ImpRow, Imp!States
  <2> QED BY <1>1, <1>2, <1>3, <1>4, <2>1, <2>2, PassWrites DEF Reading
<1> QED BY <1>5, <1>6

LEMMA ImpStartOnce ==
    ASSUME Imp!ImpInv, NEW p \in Imp!Passes, Imp!StartOnce(p)
    PROVE  Imp!ImpInv'
<1>1. /\ pass[p].pc = "start" /\ UNCHANGED <<impJob, impModel, impInst, file, impCall, clean, made, told, smooth, impEdits>>
      /\ Imp!Goes(p, "items")
  BY DEF Imp!StartOnce, Imp!Goes
<1>2. PICK x \in Imp!Pass :
        /\ pass' = [pass EXCEPT ![p] = x] /\ x.pc = "items" /\ x.todo = pass[p].todo /\ x.item = pass[p].item
        /\ x.item \in Imp!Item /\ \A it \in x.todo : it \in Imp!Item /\ Imp!ItemRight(it)
  BY <1>1, PassGoes DEF Reading
<1>3. PICK k \in Imp!Jobs : k = x.item.key
  BY <1>2, ModelNames DEF Imp!Item
<1>4. told \in SUBSET Requests /\ imp[k] \in Imp!ImpRow \cup {None} /\ Imp!RowRight(k)
  BY DEF Imp!ImpInv, Imp!ImpTyped
<1>5. \E y \in Imp!ImpRow : imp' = imp \/ Rewrites(k, y)
  <2>1. CASE imp' = imp
    <3>1. [job |-> k, model |-> None, inst |-> None, owns |-> FALSE, state |-> "FAILED", tried |-> FALSE] \in Imp!ImpRow
      BY DEF Imp!ImpRow, Imp!States
    <3> QED BY <2>1, <3>1
  <2>2. CASE imp' # imp
    <3>1. imp[k] # None /\ imp' = [imp EXCEPT ![k].tried = TRUE]
      BY <1>2, <1>3, <2>2 DEF Imp!StartOnce
    <3>2. PICK y : y = [imp[k] EXCEPT !.tried = TRUE]
      OBVIOUS
    <3>3. /\ y \in Imp!ImpRow /\ y.job = imp[k].job /\ y.model = imp[k].model /\ y.inst = imp[k].inst /\ y.owns = imp[k].owns
          /\ y.state = imp[k].state
      BY <1>4, <3>1, <3>2 DEF Imp!ImpRow
    <3>4. imp' = [imp EXCEPT ![k] = y]
      BY <3>1, <3>2
    <3> QED BY <1>1, <1>4, <3>1, <3>3, <3>4 DEF Rewrites, Imp!RowRight
  <2> QED BY <2>1, <2>2
<1> QED BY <1>1, <1>2, <1>4, <1>5, PassWrites DEF Reading

LEMMA ImpReadUnclaimed ==
    ASSUME Imp!ImpInv, NEW p \in Imp!Passes, Imp!ReadUnclaimed(p)
    PROVE  Imp!ImpInv'
<1>1. PICK todo \in SUBSET Imp!Jobs : todo = {j \in Imp!Jobs : impJob[j] = "COMPLETED" /\ ~Imp!Imported(j)}
  OBVIOUS
<1>2. PICK x \in Imp!Pass : x = [pc |-> "jobs", item |-> None, todo |-> todo]
  BY PassMade
<1> QED BY <1>1, <1>2, PassOnly, EditsKept DEF Imp!ReadUnclaimed

LEMMA ImpTakeJob ==
    ASSUME Imp!ImpInv, NEW p \in Imp!Passes, Imp!TakeJob(p)
    PROVE  Imp!ImpInv'
<1>1. pass[p].pc = "jobs" /\ Imp!ImpTyped /\ impModel \in Imp!Models \cup {None} /\ pass[p].todo \in SUBSET Imp!Jobs
  BY PassAs DEF Imp!TakeJob, Imp!ImpInv, Imp!ImpTyped
<1>2. CASE pass[p].todo = {}
  <2>1. Imp!NoPass \in Imp!Pass /\ Imp!NoPass.pc = "idle" /\ pass' = [pass EXCEPT ![p] = Imp!NoPass]
    BY <1>2, PassMade DEF Imp!NoPass, Imp!TakeJob, Imp!Leave
  <2> QED BY <1>1, <1>2, <2>1, PassOnly, EditsKept DEF Imp!TakeJob, Imp!Leave
<1>3. CASE pass[p].todo # {}
  <2>1. PICK j \in pass[p].todo :
          pass' = [pass EXCEPT ![p] = [pc |-> IF impModel = None THEN "create" ELSE "link", todo |-> @.todo \ {j},
                                       item |-> [job |-> j, model |-> impModel, owns |-> FALSE]]]
    BY <1>3 DEF Imp!TakeJob
  <2>2. PICK pc \in {"create", "link"}, it \in Imp!JobItem :
          pc = (IF impModel = None THEN "create" ELSE "link") /\ it = [job |-> j, model |-> impModel, owns |-> FALSE]
    BY <1>1 DEF Imp!JobItem
  <2>3. PICK x \in Imp!Pass : x = [pc |-> pc, todo |-> pass[p].todo \ {j}, item |-> it]
    BY <1>1, <2>2, PassMade
  <2>4. pass' = [pass EXCEPT ![p] = x] /\ x.pc \in {"create", "link"} /\ ~x.item.owns
    BY <2>1, <2>2, <2>3
  <2> QED BY <1>1, <1>3, <2>4, PassOnly, EditsKept DEF Imp!TakeJob
<1> QED BY <1>2, <1>3

LEMMA PassFields ==
    \A c, t, i : \A y \in [pc : {c}, todo : {t}, item : {i}] : y = [pc |-> c, todo |-> t, item |-> i]
  OBVIOUS

LEMMA ImpCreateModel ==
    ASSUME Imp!ImpInv, NEW p \in Imp!Passes, Imp!CreateModel(p)
    PROVE  Imp!ImpInv'
<1>1. /\ pass[p].pc = "create" /\ Imp!ImpTyped /\ Imp!PassRight(p) /\ impModel \in Imp!Models \cup {None} /\ pass \in [Imp!Passes -> Imp!Pass]
      /\ made \in [Imp!Models -> Imp!Jobs \cup {None}]
  BY DEF Imp!CreateModel, Imp!ImpInv, Imp!ImpTyped
<1>2. PICK j \in Imp!Jobs : j = pass[p].item.job
  BY <1>1, PassAs DEF Imp!JobItem
<1>3. /\ pass[p] = [pc |-> "create", todo |-> pass[p].todo, item |-> pass[p].item] /\ pass[p].todo \in SUBSET Imp!Jobs
      /\ pass[p].item \in Imp!JobItem /\ ~pass[p].item.owns
  BY <1>1, PassAs DEF Imp!PassRight
<1>4. UNCHANGED <<impJob, impInst, imp, file, impCall, clean, told, smooth, impEdits>>
  BY DEF Imp!CreateModel
<1>5. CASE impModel = None /\ file
  <2>1. impModel' = Imp!Reg(j) /\ made' = [made EXCEPT ![Imp!Reg(j)] = j] /\ Imp!Reg(j) \in Imp!Models
    BY <1>2, <1>5, ModelNames DEF Imp!CreateModel
  <2>2. PICK it \in Imp!JobItem : it = [job |-> j, model |-> Imp!Reg(j), owns |-> TRUE]
    BY <2>1 DEF Imp!JobItem
  <2>3. PICK x \in Imp!Pass : x = [pc |-> "link", todo |-> pass[p].todo, item |-> it]
    BY <1>3, <2>2, PassMade
  <2>4. pass' = [pass EXCEPT ![p] = x]
    <3>1. pass' = [pass EXCEPT ![p].pc = "link", ![p].item = it]
      BY <1>2, <1>5, <2>2 DEF Imp!CreateModel
    <3>2. [pass[p] EXCEPT !.pc = "link", !.item = it] = [pc |-> "link", todo |-> pass[p].todo, item |-> it]
      <4>1. pass[p] \in [pc : {"create"}, todo : {pass[p].todo}, item : {pass[p].item}]
        BY <1>3
      <4>2. [pass[p] EXCEPT !.pc = "link", !.item = it] \in [pc : {"link"}, todo : {pass[p].todo}, item : {it}]
        BY <4>1
      <4> QED BY <4>2, PassFields
    <3> QED BY <2>3, <3>1, <3>2
  <2>5. /\ made' \in [Imp!Models -> Imp!Jobs \cup {None}] /\ made'[Imp!Reg(j)] = j /\ \A m \in Imp!Models : m # Imp!Reg(j) => made'[m] = made[m]
    BY <1>1, <2>1
  <2>6. MadeStays /\ \A k \in Imp!Jobs : made'[Imp!Reg(k)] \in {None, k}
    <3>1. \A k \in Imp!Jobs : made[Imp!Reg(k)] \in {None, k}
      BY DEF Imp!ImpInv
    <3> QED BY <2>5, <3>1, ModelNames DEF MadeStays
  <2>7. SettledStays /\ LinksShrink
    BY <1>4, LinksSame DEF SettledStays
  <2>8. (\A k \in Imp!Jobs : Imp!RowRight(k)') /\ \A i \in Requests : Imp!InstRight(i)'
    BY <1>4, <1>5, <2>1, <2>6, <2>7, ModelComes
  <2>9. \A r \in Requests : Imp!CallRight(r)'
    BY <1>4, <2>1, <2>5, CallStays, ModelNames
  <2>10. pass' \in [Imp!Passes -> Imp!Pass] /\ \A q \in Imp!Passes : Imp!PassRight(q)'
    BY <1>4, <2>2, <2>3, <2>4, <2>5, <2>6, <2>7, ImpPassMoves
  <2>11. /\ told' \in SUBSET Requests /\ impInst' \in [Requests -> Imp!InstRow \cup {None}] /\ imp' \in [Imp!Jobs -> Imp!ImpRow \cup {None}]
         /\ impCall' \in [Requests -> Imp!Call] /\ impModel' \in Imp!Models \cup {None}
    BY <1>4, <2>1 DEF Imp!ImpInv, Imp!ImpTyped
  <2> QED BY <1>4, <2>5, <2>6, <2>8, <2>9, <2>10, <2>11, PassRows, EditsKept
<1>6. CASE ~(impModel = None /\ file)
  <2>1. PICK pc \in {"jobs", "link"}, it \in Imp!JobItem :
          pc = (IF impModel = None THEN "jobs" ELSE "link") /\ it = [pass[p].item EXCEPT !.model = impModel]
    BY <1>1, <1>3 DEF Imp!JobItem
  <2>2. PICK x \in Imp!Pass : x = [pc |-> pc, todo |-> pass[p].todo, item |-> it]
    BY <1>3, <2>1, PassMade
  <2>3. pass' = [pass EXCEPT ![p] = x] /\ UNCHANGED <<impModel, made>>
    <3>1. UNCHANGED <<impModel, made>> /\ pass' = [pass EXCEPT ![p].pc = pc, ![p].item.model = impModel]
      BY <1>6, <2>1 DEF Imp!CreateModel
    <3>2. [pass[p] EXCEPT !.pc = pc, !.item.model = impModel] = [pc |-> pc, todo |-> pass[p].todo, item |-> it]
      <4>1. it = [pass[p].item EXCEPT !.model = impModel]
        BY <2>1
      <4>2. pass[p] \in [pc : {"create"}, todo : {pass[p].todo}, item : {pass[p].item}]
        BY <1>3
      <4>3. [pass[p] EXCEPT !.pc = pc, !.item = it] \in [pc : {pc}, todo : {pass[p].todo}, item : {it}]
        BY <4>2
      <4>4. [pass[p] EXCEPT !.pc = pc, !.item.model = impModel] = [pass[p] EXCEPT !.pc = pc, !.item = it]
        BY <4>1, <4>2
      <4> QED BY <4>3, <4>4, PassFields
    <3> QED BY ZenonT(60), <2>2, <3>1, <3>2
  <2>4. ~it.owns
    BY <1>3, <2>1 DEF Imp!JobItem
  <2> QED BY <1>1, <1>4, <2>2, <2>3, <2>4, PassOnly, EditsKept DEF Imp!rows
<1> QED BY <1>5, <1>6

LEMMA ImpLinkJob ==
    ASSUME Imp!ImpInv, NEW p \in Imp!Passes, Imp!LinkJob(p)
    PROVE  Imp!ImpInv'
<1>1. /\ pass[p].pc = "link" /\ Imp!ImpTyped /\ Imp!PassRight(p) /\ pass \in [Imp!Passes -> Imp!Pass] /\ imp \in [Imp!Jobs -> Imp!ImpRow \cup {None}]
      /\ UNCHANGED <<impJob, impModel, impInst, file, clean, made, told, smooth, impEdits>>
  BY DEF Imp!LinkJob, Imp!ImpInv, Imp!ImpTyped
<1>2. PICK it \in Imp!JobItem : it = pass[p].item /\ (it.owns => it.model = Imp!Reg(it.job) /\ made[Imp!Reg(it.job)] = it.job)
  BY <1>1, PassAs DEF Imp!PassRight
<1>3. PICK j \in Imp!Jobs : j = it.job
  BY DEF Imp!JobItem
<1>4. /\ pass[p] = [pc |-> "link", todo |-> pass[p].todo, item |-> it] /\ pass[p].todo \in SUBSET Imp!Jobs
  BY <1>1, <1>2, PassAs
<1>5. CASE Imp!Exists(j) /\ impModel = it.model
  <2> DEFINE y == [job |-> j, model |-> it.model, inst |-> None, owns |-> it.owns, state |-> "COMPLETED", tried |-> TRUE]
  <2>1. Imp!Goes(p, "jobs") /\ imp' = IF imp[j] # None THEN imp ELSE [imp EXCEPT ![j] = y]
    BY <1>2, <1>3, <1>5 DEF Imp!LinkJob
  <2>2. /\ y \in Imp!ImpRow /\ y.job = j /\ y.model = impModel /\ y.inst = None
        /\ y.owns /\ y.model # None => made[y.model] = j
    BY <1>2, <1>3, <1>5 DEF Imp!ImpRow, Imp!States, Imp!JobItem
  <2> HIDE DEF y
  <2>3. imp' \in [Imp!Jobs -> Imp!ImpRow \cup {None}] /\ \A k \in Imp!Jobs : imp'[k] = imp[k] \/ (k = j /\ imp'[k] = y)
    <3>1. CASE imp[j] # None
      <4>1. imp' = imp
        BY <2>1, <3>1
      <4>2. \A k \in Imp!Jobs : imp'[k] = imp[k]
        BY <4>1, Zenon
      <4> QED BY <1>1, <4>1, <4>2, Zenon
    <3>2. CASE imp[j] = None
      <4>1. imp' = [imp EXCEPT ![j] = y]
        BY <2>1, <3>2
      <4>2. imp' \in [Imp!Jobs -> Imp!ImpRow \cup {None}] /\ imp'[j] = y /\ \A k \in Imp!Jobs : k # j => imp'[k] = imp[k]
        BY <1>1, <2>2, <4>1
      <4> QED BY <4>2, Zenon
    <3> QED BY <3>1, <3>2
  <2>4. PICK x \in Imp!Pass : x = [pc |-> "jobs", todo |-> pass[p].todo, item |-> it]
    BY <1>4, PassMade
  <2>5. pass' = [pass EXCEPT ![p] = x] /\ UNCHANGED impCall
    <3>1. [pass[p] EXCEPT !.pc = "jobs"] = [pc |-> "jobs", todo |-> pass[p].todo, item |-> it]
      BY <1>4
    <3> QED BY <2>1, <2>4, <3>1 DEF Imp!Goes
  <2>6. MadeStays /\ SettledStays /\ LinksShrink
    <3>1. LinksShrink
      <4> SUFFICES ASSUME NEW k \in Requests, Imp!Joined(k)' PROVE imp'[k] = imp[k] /\ Imp!Joined(k)
        BY <1>1 DEF LinksShrink
      <4> QED BY <2>2, <2>3, ModelNames DEF Imp!Joined
    <3> QED BY <1>1, <2>5, <3>1 DEF MadeStays, SettledStays
  <2>7. ASSUME NEW k \in Imp!Jobs PROVE Imp!RowRight(k)'
    <3>1. Imp!RowRight(k)
      BY DEF Imp!ImpInv
    <3>2. CASE imp'[k] = imp[k]
      <4>1. imp[k] # None => Imp!Exists(imp[k].job)' /\ imp[k].model \in {impModel', None}
        BY <1>1, <3>1, <3>2 DEF Imp!RowRight, Imp!Exists
      <4>2. Imp!Joined(k) => impInst[k] # None
        BY <3>1 DEF Imp!RowRight, Imp!HasInst
      <4> QED BY <1>1, <2>6, <3>2, <4>1, <4>2, RowStays
    <3>3. CASE k = j /\ imp'[k] = y
      BY <1>1, <1>5, <2>2, <3>3 DEF Imp!RowRight, Imp!Joined, Imp!Exists, Imp!Rightly
    <3> QED BY <2>3, <3>2, <3>3
  <2>8. ASSUME NEW i \in Requests PROVE Imp!InstRight(i)' /\ Imp!CallRight(i)'
    <3>1. Imp!HasInst(i) => impInst[i].model \in {impModel', Elsewhere}
      BY <1>1 DEF Imp!ImpInv, Imp!InstRight
    <3> QED BY <1>1, <2>5, <3>1, InstStays, CallStays
  <2>9. pass' \in [Imp!Passes -> Imp!Pass] /\ \A q \in Imp!Passes : Imp!PassRight(q)'
    BY <1>1, <2>4, <2>5, <2>6, ImpPassMoves
  <2>10. /\ told' \in SUBSET Requests /\ impInst' \in [Requests -> Imp!InstRow \cup {None}] /\ impCall' \in [Requests -> Imp!Call]
         /\ impModel' \in Imp!Models \cup {None} /\ made' \in [Imp!Models -> Imp!Jobs \cup {None}] /\ \A k \in Imp!Jobs : made'[Imp!Reg(k)] \in {None, k}
    BY <1>1, <2>5 DEF Imp!ImpInv, Imp!ImpTyped
  <2> QED BY SMTT(60), <1>1, <2>3, <2>6, <2>7, <2>8, <2>9, <2>10, PassRows, EditsKept
<1>6. CASE ~(Imp!Exists(j) /\ impModel = it.model)
  <2>1. Imp!Leave(p) /\ UNCHANGED imp
    BY <1>2, <1>3, <1>6 DEF Imp!LinkJob
  <2>2. Imp!NoPass \in Imp!Pass /\ Imp!NoPass.pc = "idle"
    BY PassMade DEF Imp!NoPass
  <2> QED BY <1>1, <2>1, <2>2, PassOnly, EditsKept DEF Imp!Leave, Imp!rows
<1> QED BY <1>5, <1>6

LEMMA ImpBreakOff ==
    ASSUME Imp!ImpInv, NEW p \in Imp!Passes, Imp!BreakOff(p)
    PROVE  Imp!ImpInv'
<1>1. pass' = [pass EXCEPT ![p] = Imp!NoPass] /\ Imp!NoPass \in Imp!Pass /\ Imp!NoPass.pc = "idle"
  BY PassMade DEF Imp!BreakOff, Imp!Leave, Imp!NoPass
<1>2. impEdits' \in 0..ImpEdits
  BY ImportsAssumed DEF Imp!BreakOff, Imp!ImpInv, Imp!ImpTyped, Imp!ImportsAssumption
<1> QED BY <1>1, <1>2, PassOnly DEF Imp!BreakOff, Imp!Leave

\* A step that leaves the calls and the passes alone.
LEMMA RowsMove ==
    ASSUME Imp!ImpInv, UNCHANGED <<impCall, pass, made, told, smooth>>, file' \in BOOLEAN, smooth /\ file => file',
           impEdits' \in 0..ImpEdits, impJob' \in [Imp!Jobs -> Imp!States \cup {"absent", "removed"}], impModel' \in Imp!Models \cup {None},
           impInst' \in [Requests -> Imp!InstRow \cup {None}], imp' \in [Imp!Jobs -> Imp!ImpRow \cup {None}], LinksShrink,
           \A k \in Imp!Jobs : Imp!RowRight(k)', \A i \in Requests : Imp!InstRight(i)',
           \A k \in Imp!Jobs : smooth /\ impJob'[k] = "COMPLETED" => file',
           \A r \in Requests : impModel' = Imp!Own(r) => impModel = Imp!Own(r), \A k \in Imp!Jobs : impJob[k] = "absent" => impJob'[k] = "absent",
           \A k \in Imp!Jobs : impJob[k] \in {"COMPLETED", "removed"} => impJob'[k] \in {"COMPLETED", "removed"},
           clean' \in Imp!Clean, \A r \in clean'.rows : r.job = clean'.job /\ (r.owns /\ r.model # None => made[r.model] = r.job)
    PROVE  Imp!ImpInv'
<1>1. MadeStays /\ SettledStays
  BY DEF MadeStays, SettledStays
<1>2. pass' \in [Imp!Passes -> Imp!Pass] /\ \A q \in Imp!Passes : Imp!PassRight(q)'
  BY <1>1, PassesStay
<1>3. \A r \in Requests : Imp!CallRight(r)'
  BY CallStays, ModelNames
<1>4. \A r \in clean'.rows : r.job = clean'.job /\ Imp!Rightly(r)'
  BY DEF Imp!Rightly
<1>5. Imp!ImpTyped'
  BY <1>2 DEF Imp!ImpInv, Imp!ImpTyped
<1>6. \A k \in Imp!Jobs : made'[Imp!Reg(k)] \in {None, k} /\ (smooth' /\ impJob'[k] = "COMPLETED" => file')
  BY DEF Imp!ImpInv
<1> QED BY <1>2, <1>3, <1>4, <1>5, <1>6 DEF Imp!ImpInv

\* The rows are right after a step that leaves them and what they refer to alone.
LEMMA RowsSame ==
    ASSUME Imp!ImpInv, UNCHANGED <<impJob, impModel, impInst, imp, impCall, pass, made, told, smooth>>
    PROVE  LinksShrink /\ (\A k \in Imp!Jobs : Imp!RowRight(k)') /\ \A i \in Requests : Imp!InstRight(i)'
<1>1. MadeStays /\ SettledStays /\ LinksShrink
  BY LinksSame DEF MadeStays, SettledStays
<1>2. ASSUME NEW k \in Imp!Jobs PROVE Imp!RowRight(k)'
  <2>1. imp[k] # None => Imp!Exists(imp[k].job)' /\ imp[k].model \in {impModel', None}
    BY DEF Imp!ImpInv, Imp!RowRight, Imp!Exists
  <2>2. Imp!Joined(k) => impInst[k] # None
    BY DEF Imp!ImpInv, Imp!RowRight, Imp!HasInst
  <2> QED BY <1>1, <2>1, <2>2, RowStays
<1>3. ASSUME NEW i \in Requests PROVE Imp!InstRight(i)'
  <2>1. Imp!HasInst(i) => impInst[i].model \in {impModel', Elsewhere}
    BY DEF Imp!ImpInv, Imp!InstRight
  <2> QED BY <2>1, InstStays
<1> QED BY <1>1, <1>2, <1>3

\* A removal that only goes on, and a file that only a rough run loses.
LEMMA RemovalOnly ==
    ASSUME Imp!ImpInv, UNCHANGED <<impJob, impModel, impInst, imp, impCall, pass, made, told, smooth>>, file' \in BOOLEAN, smooth => file' = file,
           impEdits' \in 0..ImpEdits, clean' \in Imp!Clean,
           \A r \in clean'.rows : r.job = clean'.job /\ (r.owns /\ r.model # None => made[r.model] = r.job)
    PROVE  Imp!ImpInv'
<1>1. LinksShrink /\ (\A k \in Imp!Jobs : Imp!RowRight(k)') /\ \A i \in Requests : Imp!InstRight(i)'
  BY RowsSame
<1>2. /\ impJob' \in [Imp!Jobs -> Imp!States \cup {"absent", "removed"}] /\ impModel' \in Imp!Models \cup {None}
      /\ impInst' \in [Requests -> Imp!InstRow \cup {None}] /\ imp' \in [Imp!Jobs -> Imp!ImpRow \cup {None}]
  BY DEF Imp!ImpInv, Imp!ImpTyped
<1>3. \A k \in Imp!Jobs : smooth /\ impJob'[k] = "COMPLETED" => file'
  BY DEF Imp!ImpInv
<1> QED BY <1>1, <1>2, <1>3, RowsMove

LEMMA CleanAs ==
    ASSUME Imp!ImpInv
    PROVE  /\ clean = [pc |-> clean.pc, job |-> clean.job, rows |-> clean.rows]
           /\ clean.pc \in {"idle", "read", "insts", "imports", "models", "remove"}
           /\ clean.pc # "idle" => clean.job \in Imp!Jobs /\ clean.rows \in SUBSET Imp!ImpRow
           /\ \A r \in clean.rows : r.job = clean.job /\ (r.owns /\ r.model # None => made[r.model] = r.job)
           /\ \A pc \in {"read", "insts", "imports", "models", "remove"}, j \in Imp!Jobs, rs \in SUBSET Imp!ImpRow :
                 [pc |-> pc, job |-> j, rows |-> rs] \in Imp!Clean
           /\ Imp!NoClean \in Imp!Clean
<1>1. clean \in Imp!Clean /\ \A r \in clean.rows : r.job = clean.job /\ (r.owns /\ r.model # None => made[r.model] = r.job)
  BY DEF Imp!ImpInv, Imp!ImpTyped, Imp!Rightly
<1> QED BY <1>1 DEF Imp!Clean, Imp!NoClean

LEMMA ImpCleanBegin ==
    ASSUME Imp!ImpInv, NEW j \in Imp!Jobs, Imp!CleanBegin(j)
    PROVE  Imp!ImpInv'
<1>1. PICK pc \in {"read", "remove"} : clean' = [Imp!NoClean EXCEPT !.pc = pc, !.job = j]
  BY DEF Imp!CleanBegin
<1>2. clean' = [pc |-> pc, job |-> j, rows |-> {}]
  BY <1>1 DEF Imp!NoClean
<1>3. clean' \in Imp!Clean /\ clean'.rows = {}
  BY <1>2, CleanAs
<1>4. impEdits' \in 0..ImpEdits
  BY ImportsAssumed DEF Imp!CleanBegin, Imp!ImpInv, Imp!ImpTyped, Imp!ImportsAssumption
<1>5. UNCHANGED <<impJob, impModel, impInst, imp, impCall, pass, made, told, smooth>> /\ file' \in BOOLEAN /\ (smooth => file' = file)
  BY DEF Imp!CleanBegin, Imp!rows, Imp!ImpInv, Imp!ImpTyped
<1> QED BY <1>3, <1>4, <1>5, RemovalOnly

LEMMA ImpCleanRead ==
    ASSUME Imp!ImpInv, Imp!CleanRead
    PROVE  Imp!ImpInv'
<1>1. PICK j \in Imp!Jobs : j = clean.job /\ clean = [pc |-> "read", job |-> j, rows |-> clean.rows]
  BY CleanAs DEF Imp!CleanRead
<1>2. PICK rs : rs = {imp[k] : k \in {k \in Imp!Jobs : imp[k] # None /\ imp[k].job = j}}
  OBVIOUS
<1>3. \A r \in rs : r \in Imp!ImpRow /\ r.job = j /\ (r.owns /\ r.model # None => made[r.model] = r.job)
  BY <1>2 DEF Imp!ImpInv, Imp!ImpTyped, Imp!RowRight, Imp!Rightly
<1>4. clean' = [pc |-> "insts", job |-> j, rows |-> rs]
  BY <1>1, <1>2 DEF Imp!CleanRead
<1>5. clean' \in Imp!Clean /\ clean'.rows = rs /\ clean'.job = j
  BY <1>3, <1>4, CleanAs
<1>6. UNCHANGED <<impJob, impModel, impInst, imp, impCall, pass, made, told, smooth>> /\ file' \in BOOLEAN /\ (smooth => file' = file)
  BY DEF Imp!CleanRead, Imp!rows, Imp!ImpInv, Imp!ImpTyped
<1>7. impEdits' \in 0..ImpEdits
  BY DEF Imp!CleanRead, Imp!ImpInv, Imp!ImpTyped
<1> QED BY <1>3, <1>5, <1>6, <1>7, RemovalOnly

\* Instances that go with a step that leaves the calls and the passes alone.
LEMMA InstGoes ==
    ASSUME Imp!ImpInv, NEW i \in Requests, Imp!DropInst(i), UNCHANGED <<impJob, impModel, file, impCall, pass, clean, made, told, smooth>>,
           impEdits' \in 0..ImpEdits
    PROVE  Imp!ImpInv'
<1>1. SettledStays
  BY DEF SettledStays
<1>2. /\ impInst' \in [Requests -> Imp!InstRow \cup {None}] /\ imp' \in [Imp!Jobs -> Imp!ImpRow \cup {None}] /\ LinksShrink
      /\ (\A k \in Imp!Jobs : Imp!RowRight(k)') /\ \A q \in Requests : Imp!InstRight(q)'
  BY <1>1, InstDropped
<1>3. /\ file' \in BOOLEAN /\ impModel' \in Imp!Models \cup {None} /\ impJob' \in [Imp!Jobs -> Imp!States \cup {"absent", "removed"}]
      /\ (\A k \in Imp!Jobs : smooth /\ impJob'[k] = "COMPLETED" => file') /\ clean' \in Imp!Clean
  BY DEF Imp!ImpInv, Imp!ImpTyped
<1>4. \A r \in clean'.rows : r.job = clean'.job /\ (r.owns /\ r.model # None => made[r.model] = r.job)
  BY CleanAs
<1> QED BY <1>2, <1>3, <1>4, RowsMove

\* And a model.
LEMMA ModelGoes ==
    ASSUME Imp!ImpInv, NEW m \in Imp!Models, Imp!DropModel(m), UNCHANGED <<impJob, file, impCall, pass, made, told, smooth>>,
           impEdits' \in 0..ImpEdits, clean' \in Imp!Clean, clean'.job = clean.job, clean'.rows \subseteq clean.rows
    PROVE  Imp!ImpInv'
<1>1. SettledStays /\ \A q \in Requests : impCall'[q] = impCall[q]
  BY DEF SettledStays
<1>2. /\ impInst' \in [Requests -> Imp!InstRow \cup {None}] /\ imp' \in [Imp!Jobs -> Imp!ImpRow \cup {None}] /\ LinksShrink
      /\ impModel' \in {impModel, None} /\ (\A k \in Imp!Jobs : Imp!RowRight(k)') /\ \A q \in Requests : Imp!InstRight(q)'
  BY <1>1, ModelDropped
<1>3. /\ file' \in BOOLEAN /\ impModel' \in Imp!Models \cup {None} /\ impJob' \in [Imp!Jobs -> Imp!States \cup {"absent", "removed"}]
      /\ (\A k \in Imp!Jobs : smooth /\ impJob'[k] = "COMPLETED" => file')
  BY <1>2 DEF Imp!ImpInv, Imp!ImpTyped
<1>4. \A r \in clean'.rows : r.job = clean'.job /\ (r.owns /\ r.model # None => made[r.model] = r.job)
  BY CleanAs
<1>5. \A r \in Requests : impModel' = Imp!Own(r) => impModel = Imp!Own(r)
  BY <1>2, ModelNames
<1> QED BY <1>2, <1>3, <1>4, <1>5, RowsMove

LEMMA ImpCleanInst ==
    ASSUME Imp!ImpInv, Imp!CleanInst
    PROVE  Imp!ImpInv'
<1> DEFINE ripe == {r \in clean.rows : r.inst # None /\ Imp!HasInst(r.inst)}
<1>1. /\ clean.pc = "insts" /\ UNCHANGED <<impJob, impModel, file, impCall, pass, made, told, smooth, impEdits>>
      /\ impEdits' \in 0..ImpEdits /\ file' \in BOOLEAN
  BY DEF Imp!CleanInst, Imp!ImpInv, Imp!ImpTyped
<1>2. CASE \E r \in ripe : Imp!DropInst(r.inst) /\ UNCHANGED clean
  <2>1. PICK r \in clean.rows : r.inst # None /\ Imp!DropInst(r.inst) /\ UNCHANGED clean
    BY <1>2
  <2>2. r.inst \in Requests
    BY <1>1, <2>1, CleanAs DEF Imp!ImpRow
  <2> QED BY <1>1, <2>1, <2>2, InstGoes
<1>3. CASE clean' = [clean EXCEPT !.pc = "imports"] /\ UNCHANGED <<impInst, imp>>
  <2>1. clean' = [pc |-> "imports", job |-> clean.job, rows |-> clean.rows]
    <3>1. clean = [pc |-> clean.pc, job |-> clean.job, rows |-> clean.rows]
      BY CleanAs
    <3> QED BY <1>3, <3>1
  <2>2. clean' \in Imp!Clean /\ clean'.rows = clean.rows /\ clean'.job = clean.job
    BY <1>1, <2>1, CleanAs
  <2>3. \A r \in clean'.rows : r.job = clean'.job /\ (r.owns /\ r.model # None => made[r.model] = r.job)
    BY <2>2, CleanAs
  <2> QED BY <1>1, <1>3, <2>2, <2>3, RemovalOnly
<1> QED BY <1>2, <1>3 DEF Imp!CleanInst

LEMMA ImpCleanModel ==
    ASSUME Imp!ImpInv, Imp!CleanModel
    PROVE  Imp!ImpInv'
<1> DEFINE ripe == {r \in clean.rows : r.owns /\ r.model # None}
<1>1. /\ clean.pc = "models" /\ UNCHANGED <<impJob, file, impCall, pass, made, told, smooth, impEdits>>
      /\ impEdits' \in 0..ImpEdits /\ file' \in BOOLEAN
  BY DEF Imp!CleanModel, Imp!ImpInv, Imp!ImpTyped
<1>2. clean = [pc |-> "models", job |-> clean.job, rows |-> clean.rows] /\ clean.job \in Imp!Jobs /\ clean.rows \in SUBSET Imp!ImpRow
  BY <1>1, CleanAs
<1>3. CASE \E r \in ripe : Imp!DropModel(r.model) /\ clean' = [clean EXCEPT !.rows = @ \ {r}]
  <2>1. PICK r \in clean.rows : r.model # None /\ Imp!DropModel(r.model) /\ clean' = [clean EXCEPT !.rows = @ \ {r}]
    BY <1>3
  <2>2. r.model \in Imp!Models
    BY <1>2, <2>1 DEF Imp!ImpRow
  <2>3. PICK rs : rs = clean.rows \ {r}
    OBVIOUS
  <2>4. clean' = [pc |-> "models", job |-> clean.job, rows |-> rs]
    BY <1>2, <2>1, <2>3
  <2>5. clean' \in Imp!Clean /\ clean'.job = clean.job /\ clean'.rows \subseteq clean.rows
    BY <1>2, <2>3, <2>4, CleanAs
  <2> QED BY <1>1, <2>1, <2>2, <2>5, ModelGoes
<1>4. CASE clean' = [clean EXCEPT !.pc = "remove"] /\ UNCHANGED <<impModel, impInst, imp>>
  <2>1. clean' = [pc |-> "remove", job |-> clean.job, rows |-> clean.rows]
    BY <1>2, <1>4
  <2>2. clean' \in Imp!Clean /\ clean'.rows = clean.rows /\ clean'.job = clean.job
    BY <1>2, <2>1, CleanAs
  <2>3. \A r \in clean'.rows : r.job = clean'.job /\ (r.owns /\ r.model # None => made[r.model] = r.job)
    BY <2>2, CleanAs
  <2> QED BY <1>1, <1>4, <2>2, <2>3, RemovalOnly
<1> QED BY <1>3, <1>4 DEF Imp!CleanModel

\* The rows of a job go.
LEMMA RowsGone ==
    ASSUME Imp!ImpInv, NEW j \in Imp!Jobs, imp' = [k \in Imp!Jobs |-> IF imp[k] # None /\ imp[k].job = j THEN None ELSE imp[k]],
           UNCHANGED <<impModel, impInst, file, impCall, pass, made, told, smooth>>, impEdits' \in 0..ImpEdits,
           impJob' = impJob \/ (impJob' = [impJob EXCEPT ![j] = "removed"] /\ impJob[j] # "absent"),
           clean' \in Imp!Clean, \A r \in clean'.rows : r.job = clean'.job /\ (r.owns /\ r.model # None => made[r.model] = r.job)
    PROVE  Imp!ImpInv'
<1>1. /\ imp \in [Imp!Jobs -> Imp!ImpRow \cup {None}] /\ impJob \in [Imp!Jobs -> Imp!States \cup {"absent", "removed"}]
      /\ impInst \in [Requests -> Imp!InstRow \cup {None}] /\ impModel \in Imp!Models \cup {None} /\ file \in BOOLEAN
  BY DEF Imp!ImpInv, Imp!ImpTyped
<1>2. /\ imp' \in [Imp!Jobs -> Imp!ImpRow \cup {None}] /\ impJob' \in [Imp!Jobs -> Imp!States \cup {"absent", "removed"}]
      /\ \A k \in Imp!Jobs : k # j => impJob'[k] = impJob[k]
      /\ impJob'[j] \in {impJob[j], "removed"} /\ (impJob[j] = "absent" => impJob'[j] = "absent")
  BY <1>1
<1>3. ASSUME NEW k \in Imp!Jobs, imp'[k] # None
      PROVE  imp'[k] = imp[k] /\ imp[k] # None /\ imp[k].job \in Imp!Jobs /\ impJob'[imp[k].job] = impJob[imp[k].job]
  <2>1. imp'[k] = imp[k] /\ imp[k] # None /\ imp[k].job # j
    BY <1>3
  <2>2. imp[k].job \in Imp!Jobs
    BY <1>1, <2>1 DEF Imp!ImpRow
  <2> QED BY <1>2, <2>1, <2>2
<1>4. MadeStays /\ SettledStays
  BY DEF MadeStays, SettledStays
<1>5. LinksShrink
  <2> SUFFICES ASSUME NEW k \in Requests, Imp!Joined(k)'
               PROVE  Imp!Joined(k) /\ imp'[k] = imp[k] /\ impJob'[imp[k].job] = impJob[imp[k].job]
    BY DEF LinksShrink
  <2>1. k \in Imp!Jobs /\ imp'[k] # None /\ imp'[k].inst # None
    BY ModelNames DEF Imp!Joined
  <2> QED BY <1>3, <2>1 DEF Imp!Joined
<1>6. ASSUME NEW k \in Imp!Jobs PROVE Imp!RowRight(k)'
  <2>1. CASE imp'[k] = None
    BY <2>1 DEF Imp!RowRight, Imp!Joined
  <2>2. CASE imp'[k] # None
    <3>1. imp[k] # None => Imp!Exists(imp[k].job)' /\ imp[k].model \in {impModel', None}
      BY <1>3, <2>2 DEF Imp!ImpInv, Imp!RowRight, Imp!Exists
    <3>2. Imp!Joined(k) => impInst[k] # None
      BY DEF Imp!ImpInv, Imp!RowRight, Imp!HasInst
    <3> QED BY <1>3, <1>4, <2>2, <3>1, <3>2, RowStays
  <2> QED BY <2>1, <2>2
<1>7. ASSUME NEW i \in Requests PROVE Imp!InstRight(i)'
  <2>1. Imp!HasInst(i) => impInst[i].model \in {impModel', Elsewhere}
    BY DEF Imp!ImpInv, Imp!InstRight
  <2> QED BY <2>1, InstStays
<1>8. \A k \in Imp!Jobs : smooth /\ impJob'[k] = "COMPLETED" => file'
  BY <1>2 DEF Imp!ImpInv
<1>9. \A k \in Imp!Jobs : impJob[k] = "absent" => impJob'[k] = "absent"
  BY <1>2
<1>10. \A k \in Imp!Jobs : impJob[k] \in {"COMPLETED", "removed"} => impJob'[k] \in {"COMPLETED", "removed"}
  BY <1>2
<1> QED BY <1>1, <1>2, <1>5, <1>6, <1>7, <1>8, <1>9, <1>10, RowsMove

LEMMA ImpCleanImports ==
    ASSUME Imp!ImpInv, Imp!CleanImports
    PROVE  Imp!ImpInv'
<1>1. clean.pc = "imports" /\ impEdits' \in 0..ImpEdits
  BY DEF Imp!CleanImports, Imp!ImpInv, Imp!ImpTyped
<1>2. clean = [pc |-> "imports", job |-> clean.job, rows |-> clean.rows] /\ clean.job \in Imp!Jobs /\ clean.rows \in SUBSET Imp!ImpRow
  BY <1>1, CleanAs
<1>3. clean' = [pc |-> "models", job |-> clean.job, rows |-> clean.rows]
  BY <1>2 DEF Imp!CleanImports
<1>4. clean' \in Imp!Clean /\ clean'.rows = clean.rows /\ clean'.job = clean.job
  BY <1>2, <1>3, CleanAs
<1>5. \A r \in clean'.rows : r.job = clean'.job /\ (r.owns /\ r.model # None => made[r.model] = r.job)
  BY <1>4, CleanAs
<1> QED BY <1>1, <1>2, <1>4, <1>5, RowsGone DEF Imp!CleanImports

LEMMA ImpCleanRemove ==
    ASSUME Imp!ImpInv, Imp!CleanRemove
    PROVE  Imp!ImpInv'
<1>1. clean.pc = "remove" /\ clean.job \in Imp!Jobs
  BY CleanAs DEF Imp!CleanRemove
<1>2. clean' = Imp!NoClean /\ clean' \in Imp!Clean /\ clean'.rows = {}
  BY CleanAs DEF Imp!CleanRemove, Imp!NoClean
<1>3. UNCHANGED <<impModel, impInst, file, impCall, pass, made, told, smooth>> /\ impEdits' \in 0..ImpEdits /\ file' \in BOOLEAN /\ file' = file
  BY DEF Imp!CleanRemove, Imp!ImpInv, Imp!ImpTyped
<1>4. CASE impJob[clean.job] \in {"COMPLETED", "FAILED", "CANCELLED"}
  BY <1>1, <1>2, <1>3, <1>4, RowsGone DEF Imp!CleanRemove
<1>5. CASE impJob[clean.job] \notin {"COMPLETED", "FAILED", "CANCELLED"}
  BY SMTT(60), <1>2, <1>3, <1>5, RemovalOnly DEF Imp!CleanRemove
<1> QED BY <1>4, <1>5

LEMMA ImpCleanFails ==
    ASSUME Imp!ImpInv, Imp!CleanFails
    PROVE  Imp!ImpInv'
<1>1. clean' = Imp!NoClean /\ clean' \in Imp!Clean /\ clean'.rows = {}
  BY CleanAs DEF Imp!CleanFails, Imp!NoClean
<1>2. /\ UNCHANGED <<impJob, impModel, impInst, imp, impCall, pass, made, told, smooth>> /\ impEdits' \in 0..ImpEdits
      /\ file' \in BOOLEAN /\ (smooth => file' = file)
  BY DEF Imp!CleanFails, Imp!rows, Imp!ImpInv, Imp!ImpTyped
<1> QED BY <1>1, <1>2, RemovalOnly

LEMMA ImpDownload ==
    ASSUME Imp!ImpInv, NEW p \in Plain, Imp!Download(p)
    PROVE  Imp!ImpInv'
<1>1. p \in Imp!Jobs /\ p \notin Requests /\ impJob[p] = "absent" /\ Imp!NewJob(p)
  BY ImportsAssumed DEF Imp!Download, Imp!Jobs, Imp!ImportsAssumption
<1>2. /\ impJob' \in [Imp!Jobs -> Imp!States \cup {"absent", "removed"}]
      /\ \A k \in Imp!Jobs : impJob[k] # "absent" \/ k # p => impJob'[k] = impJob[k]
      /\ \A k \in Imp!Jobs : impJob'[k] = "COMPLETED" => impJob[k] = "COMPLETED"
  BY <1>1, JobsGrow
<1>3. /\ UNCHANGED <<impCall, file, impModel, impInst, imp, pass, clean, made, told, smooth>> /\ impEdits' \in 0..ImpEdits
      /\ impCall' \in [Requests -> Imp!Call] /\ SettledStays
  BY DEF Imp!Download, Imp!ImpInv, Imp!ImpTyped, SettledStays
<1>4. \A j \in Imp!Jobs : impJob[j] # "absent" => impJob'[j] = impJob[j]
  BY <1>2
<1>5. \A r \in Requests : impJob[r] = "absent" => impJob'[r] = "absent"
  BY <1>1, <1>2, ModelNames
<1>6. \A q \in Requests : Imp!CallRight(q)'
  BY <1>3, <1>4, <1>5, CallStays
<1>7. \A i \in Requests : Imp!HasInst(i) => impCall'[i] = impCall[i]
  BY <1>3
<1> QED BY <1>2, <1>3, <1>4, <1>6, <1>7, RowsKept

\* A job that is under way, or whose end is no end, moves.
LEMMA ImpJobMoves ==
    ASSUME Imp!ImpInv, NEW j \in Imp!Jobs, impJob[j] \in {"DOWNLOADING"} \cup Imp!Lost, smooth => impJob[j] = "DOWNLOADING",
           NEW s \in Imp!States, impJob' = [impJob EXCEPT ![j] = s], file' \in BOOLEAN, file => file', s = "COMPLETED" => file',
           UNCHANGED <<impModel, impInst, imp, impCall, pass, clean, made, told, smooth>>, impEdits' \in 0..ImpEdits
    PROVE  Imp!ImpInv'
<1>1. /\ imp' \in [Imp!Jobs -> Imp!ImpRow \cup {None}] /\ impJob \in [Imp!Jobs -> Imp!States \cup {"absent", "removed"}]
      /\ impInst' \in [Requests -> Imp!InstRow \cup {None}] /\ impModel' \in Imp!Models \cup {None}
  BY DEF Imp!ImpInv, Imp!ImpTyped
<1>2. /\ impJob' \in [Imp!Jobs -> Imp!States \cup {"absent", "removed"}] /\ impJob'[j] = s /\ impJob[j] \notin {"COMPLETED", "absent", "removed"}
      /\ \A k \in Imp!Jobs : k # j => impJob'[k] = impJob[k]
  BY <1>1 DEF Imp!Lost
<1>3. \A k \in Imp!Jobs : smooth /\ impJob[k] \in Imp!Lost => impJob'[k] = impJob[k]
  BY <1>2 DEF Imp!Lost
<1>4. \A k \in Imp!Jobs : impJob[k] \in {"COMPLETED", "absent", "removed"} => impJob'[k] = impJob[k]
  BY <1>2
<1>5. \A k \in Imp!Jobs : imp[k] # None => imp[k].job \in Imp!Jobs
  BY DEF Imp!ImpInv, Imp!ImpTyped, Imp!ImpRow
<1>6. MadeStays /\ SettledStays
  BY DEF MadeStays, SettledStays
<1>7. LinksShrink
  <2> SUFFICES ASSUME NEW k \in Requests, Imp!Joined(k)'
               PROVE  /\ Imp!Joined(k) /\ imp[k].job \in Imp!Jobs
                      /\ impJob[imp[k].job] = "COMPLETED" => impJob'[imp[k].job] = "COMPLETED"
                      /\ smooth /\ impJob[imp[k].job] \in Imp!Lost => impJob'[imp[k].job] \in Imp!Lost
    BY DEF LinksShrink
  <2> QED BY <1>3, <1>4, <1>5, ModelNames DEF Imp!Joined
<1>8. ASSUME NEW k \in Imp!Jobs PROVE Imp!RowRight(k)'
  <2>1. imp[k] # None => Imp!Exists(imp[k].job)' /\ imp[k].model \in {impModel', None}
    BY <1>2, <1>5 DEF Imp!ImpInv, Imp!RowRight, Imp!Exists
  <2>2. Imp!Joined(k) => impInst[k] # None
    BY DEF Imp!ImpInv, Imp!RowRight, Imp!HasInst
  <2>3. Imp!Joined(k) => imp[k].job \in Imp!Jobs
    BY <1>5 DEF Imp!Joined
  <2> QED BY <1>3, <1>4, <1>6, <2>1, <2>2, <2>3, RowStays
<1>9. ASSUME NEW i \in Requests PROVE Imp!InstRight(i)'
  <2>1. Imp!HasInst(i) => impInst[i].model \in {impModel', Elsewhere}
    BY DEF Imp!ImpInv, Imp!InstRight
  <2> QED BY <2>1, InstStays
<1>10. \A k \in Imp!Jobs : smooth /\ impJob'[k] = "COMPLETED" => file'
  BY <1>2 DEF Imp!ImpInv
<1>11. clean' \in Imp!Clean /\ \A r \in clean'.rows : r.job = clean'.job /\ (r.owns /\ r.model # None => made[r.model] = r.job)
  BY CleanAs DEF Imp!ImpInv, Imp!ImpTyped
<1> QED BY <1>1, <1>2, <1>4, <1>7, <1>8, <1>9, <1>10, <1>11, RowsMove

LEMMA ImpJobEnds ==
    ASSUME Imp!ImpInv, NEW j \in Imp!Jobs, Imp!JobEnds(j)
    PROVE  Imp!ImpInv'
<1>1. UNCHANGED <<impModel, impInst, imp, impCall, pass, clean, made, told, smooth>> /\ impEdits' \in 0..ImpEdits /\ file \in BOOLEAN
  BY DEF Imp!JobEnds, Imp!ImpInv, Imp!ImpTyped
<1>2. CASE /\ impJob[j] = "DOWNLOADING"
           /\ \E s \in Imp!States \ {"DOWNLOADING"} : impJob' = [impJob EXCEPT ![j] = s] /\ file' = (file \/ s = "COMPLETED")
  <2>1. PICK s \in Imp!States : impJob' = [impJob EXCEPT ![j] = s] /\ file' = (file \/ s = "COMPLETED")
    BY <1>2
  <2>2. file' \in BOOLEAN /\ (file => file') /\ (s = "COMPLETED" => file')
    BY <1>1, <2>1
  <2> QED BY <1>1, <1>2, <2>1, <2>2, ImpJobMoves
<1>3. CASE impJob[j] = "CANCELLED" /\ ~smooth /\ impJob' = [impJob EXCEPT ![j] = "COMPLETED"] /\ file' = TRUE
  BY <1>1, <1>3, ImpJobMoves DEF Imp!States, Imp!Lost
<1> QED BY <1>2, <1>3 DEF Imp!JobEnds

LEMMA ImpJobRetried ==
    ASSUME Imp!ImpInv, NEW j \in Imp!Jobs, Imp!JobRetried(j)
    PROVE  Imp!ImpInv'
<1>1. UNCHANGED <<file, impModel, impInst, imp, impCall, pass, clean, made, told, smooth>> /\ impEdits' \in 0..ImpEdits /\ file \in BOOLEAN
  BY ImportsAssumed DEF Imp!JobRetried, Imp!ImpInv, Imp!ImpTyped, Imp!ImportsAssumption
<1>2. impJob[j] \in Imp!Lost /\ ~smooth /\ impJob' = [impJob EXCEPT ![j] = "DOWNLOADING"]
  BY DEF Imp!JobRetried, Imp!Lost
<1> QED BY <1>1, <1>2, ImpJobMoves DEF Imp!States

\* A user's PUT: what it enables is announced.
LEMMA InstPut ==
    ASSUME Imp!ImpInv, NEW i \in Requests, Imp!PutInst(i),
           UNCHANGED <<impJob, impModel, imp, file, impCall, pass, clean, made, smooth>>, impEdits' \in 0..ImpEdits
    PROVE  Imp!ImpInv'
<1>1. /\ imp' \in [Imp!Jobs -> Imp!ImpRow \cup {None}] /\ impJob' \in [Imp!Jobs -> Imp!States \cup {"absent", "removed"}]
      /\ impInst \in [Requests -> Imp!InstRow \cup {None}] /\ impModel' \in Imp!Models \cup {None} /\ file' \in BOOLEAN
      /\ impCall' \in [Requests -> Imp!Call] /\ told \in SUBSET Requests /\ impInst[i] \in Imp!InstRow /\ Imp!InstRight(i)
  BY DEF Imp!ImpInv, Imp!ImpTyped, Imp!PutInst, Imp!HasInst
<1>2. PICK e \in BOOLEAN, m \in {impInst[i].model, Elsewhere} :
        /\ smooth => m = impInst[i].model
        /\ impInst' = [impInst EXCEPT ![i] = [model |-> m, enabled |-> e, asked |-> e]]
        /\ told' = IF e THEN told \cup {i} ELSE told
  BY DEF Imp!PutInst
<1>3. PICK y \in Imp!InstRow : y = [model |-> m, enabled |-> e, asked |-> e]
  BY <1>1 DEF Imp!InstRow
<1>4. y.model = m /\ y.enabled = e /\ y.asked = e /\ y # None /\ Imp!HasInst(i)
  BY <1>3, ImportsAssumed DEF Imp!ImportsAssumption, Imp!PutInst
<1>5. /\ impInst' \in [Requests -> Imp!InstRow \cup {None}] /\ impInst'[i] = y
      /\ \A q \in Requests : q # i => impInst'[q] = impInst[q]
  BY <1>1, <1>2, <1>3
<1>6. told \subseteq told' /\ told' \in SUBSET Requests /\ (e => i \in told')
  BY <1>1, <1>2
<1>7. LinksShrink /\ MadeStays /\ SettledStays
  BY LinksSame DEF MadeStays, SettledStays
<1>8. ASSUME NEW k \in Imp!Jobs PROVE Imp!RowRight(k)'
  <2>1. imp[k] # None => Imp!Exists(imp[k].job)' /\ imp[k].model \in {impModel', None}
    BY DEF Imp!ImpInv, Imp!RowRight, Imp!Exists
  <2>2. Imp!Joined(k) => k \in Requests /\ impInst[k] # None
    BY DEF Imp!ImpInv, Imp!RowRight, Imp!HasInst
  <2>3. Imp!Joined(k) => impInst'[k] # None /\ (impInst'[k].enabled /\ ~impInst'[k].asked => impInst[k].enabled /\ ~impInst[k].asked)
    BY <1>4, <1>5, <2>2
  <2> QED BY <1>6, <1>7, <2>1, <2>3, RowStays
<1>9. ASSUME NEW q \in Requests PROVE Imp!InstRight(q)'
  <2>1. Imp!InstRight(q)
    BY DEF Imp!ImpInv
  <2>2. CASE q # i
    BY <1>5, <1>6, <2>1, <2>2, InstStays DEF Imp!InstRight
  <2>3. CASE q = i
    <3>1. y.model \in {impModel', Elsewhere} /\ (smooth' => y.model # Elsewhere)
      BY <1>1, <1>2, <1>4 DEF Imp!InstRight
    <3>2. impCall'[i].pc = "import" /\ impCall'[i].done => i \in told'
      BY <1>1, <1>4, <1>6 DEF Imp!InstRight
    <3> QED BY <1>1, <1>4, <1>5, <1>6, <2>3, <3>1, <3>2 DEF Imp!InstRight
  <2> QED BY <2>2, <2>3
<1>10. \A r \in Requests : Imp!CallRight(r)'
  BY CallStays
<1>11. \A k \in Imp!Jobs : smooth /\ impJob'[k] = "COMPLETED" => file'
  BY DEF Imp!ImpInv
<1> QED BY <1>1, <1>5, <1>6, <1>7, <1>8, <1>9, <1>10, <1>11, RowsStep

LEMMA ImpUserEdit ==
    ASSUME Imp!ImpInv, Imp!UserEdit
    PROVE  Imp!ImpInv'
<1>1. UNCHANGED <<impJob, impCall, pass, clean, made, smooth>> /\ impEdits' \in 0..ImpEdits
  BY ImportsAssumed DEF Imp!UserEdit, Imp!ImpInv, Imp!ImpTyped, Imp!ImportsAssumption
<1>2. /\ impInst \in [Requests -> Imp!InstRow \cup {None}] /\ imp \in [Imp!Jobs -> Imp!ImpRow \cup {None}] /\ impModel \in Imp!Models \cup {None}
      /\ impJob \in [Imp!Jobs -> Imp!States \cup {"absent", "removed"}] /\ file \in BOOLEAN /\ clean \in Imp!Clean
  BY DEF Imp!ImpInv, Imp!ImpTyped
<1>3. ASSUME NEW i \in Requests, Imp!PutInst(i), UNCHANGED <<impModel, imp, file>> PROVE Imp!ImpInv'
  BY <1>1, <1>3, InstPut
<1>4. ASSUME NEW i \in Requests, Imp!DropInst(i), UNCHANGED told, UNCHANGED <<impModel, file>> PROVE Imp!ImpInv'
  BY <1>1, <1>4, InstGoes
<1>5. ASSUME impModel # None, Imp!DropModel(impModel), UNCHANGED told, UNCHANGED file PROVE Imp!ImpInv'
  BY <1>1, <1>2, <1>5, ModelGoes
<1>6. ASSUME impModel = None, UNCHANGED told, file, impModel' = Imp!Users, UNCHANGED <<impInst, imp, file>> PROVE Imp!ImpInv'
  <2>1. MadeStays /\ SettledStays /\ LinksShrink /\ \A i \in Requests : impCall'[i] = impCall[i]
    BY <1>1, <1>6, LinksSame DEF MadeStays, SettledStays
  <2>2. Imp!Users \in Imp!Models /\ \A r \in Requests : impModel' # Imp!Own(r)
    BY <1>6, ModelNames
  <2>3. (\A k \in Imp!Jobs : Imp!RowRight(k)') /\ \A i \in Requests : Imp!InstRight(i)'
    BY <1>1, <1>6, <2>1, <2>2, ModelComes
  <2>4. \A r \in clean'.rows : r.job = clean'.job /\ (r.owns /\ r.model # None => made[r.model] = r.job)
    BY <1>1, CleanAs
  <2>5. clean' \in Imp!Clean /\ impModel' \in Imp!Models \cup {None} /\ \A k \in Imp!Jobs : smooth /\ impJob'[k] = "COMPLETED" => file'
    BY <1>1, <1>2, <1>6, <2>2 DEF Imp!ImpInv
  <2> QED BY <1>1, <1>2, <1>6, <2>1, <2>2, <2>3, <2>4, <2>5, RowsMove
<1>7. ASSUME ~smooth, UNCHANGED told, file' = FALSE, UNCHANGED <<impModel, impInst, imp>> PROVE Imp!ImpInv'
  <2>1. clean' \in Imp!Clean /\ \A r \in clean'.rows : r.job = clean'.job /\ (r.owns /\ r.model # None => made[r.model] = r.job)
    BY <1>1, <1>2, CleanAs
  <2> QED BY <1>1, <1>7, <2>1, RemovalOnly
<1> QED BY <1>3, <1>4, <1>5, <1>6, <1>7 DEF Imp!UserEdit, Imp!UserChanges

LEMMA ImpBegin == Imp!ImpInit => Imp!ImpInv
<1> SUFFICES ASSUME Imp!ImpInit PROVE Imp!ImpInv
  OBVIOUS
<1>1. /\ impJob = [j \in Imp!Jobs |-> "absent"] /\ file = FALSE /\ impModel = None
      /\ impInst = [i \in Requests |-> None] /\ imp = [k \in Imp!Jobs |-> None]
      /\ impCall = [r \in Requests |-> Imp!NoCall] /\ pass = [p \in Imp!Passes |-> Imp!NoPass] /\ clean = Imp!NoClean
      /\ made = [m \in Imp!Models |-> None] /\ told = {} /\ impEdits = 0 /\ smooth \in BOOLEAN
  BY DEF Imp!ImpInit
<1>2. Imp!NoCall \in Imp!Call /\ Imp!NoCall.pc = "idle" /\ ~Imp!NoCall.done /\ ~Imp!NoCall.owns
  BY DEF Imp!NoCall, Imp!Call
<1>3. Imp!NoPass \in Imp!Pass /\ Imp!NoPass.pc = "idle"
  BY DEF Imp!NoPass, Imp!Pass
<1>4. Imp!NoClean \in Imp!Clean /\ Imp!NoClean.rows = {}
  BY DEF Imp!NoClean, Imp!Clean
<1>5. 0 \in 0..ImpEdits
  BY ImportsAssumed DEF Imp!ImportsAssumption
<1>6. Imp!ImpTyped
  BY <1>1, <1>2, <1>3, <1>4, <1>5 DEF Imp!ImpTyped
<1>7. \A k \in Imp!Jobs : Imp!RowRight(k) /\ made[Imp!Reg(k)] \in {None, k} /\ (smooth /\ impJob[k] = "COMPLETED" => file)
  BY <1>1, ModelNames DEF Imp!RowRight, Imp!Joined
<1>8. ASSUME NEW r \in Requests PROVE Imp!InstRight(r) /\ Imp!CallRight(r)
  <2>1. ~Imp!HasInst(r) /\ impJob[r] = "absent" /\ impCall[r] = Imp!NoCall /\ made[Imp!Own(r)] = None /\ impModel # Imp!Own(r)
    BY <1>1, ModelNames DEF Imp!HasInst
  <2> QED BY <1>2, <2>1 DEF Imp!InstRight, Imp!CallRight, Imp!Held
<1>9. \A p \in Imp!Passes : Imp!PassRight(p)
  BY <1>1, <1>3 DEF Imp!PassRight
<1> QED BY <1>4, <1>1, <1>6, <1>7, <1>8, <1>9 DEF Imp!ImpInv

LEMMA ImpGo == Imp!ImpInv /\ [Imp!ImpNext]_(Imp!impVars) => Imp!ImpInv'
<1> SUFFICES ASSUME Imp!ImpInv, [Imp!ImpNext]_(Imp!impVars) PROVE Imp!ImpInv'
  OBVIOUS
<1>1. ASSUME NEW r \in Requests,
             Imp!Prepare(r) \/ Imp!LookModel(r) \/ Imp!MakeModel(r) \/ Imp!MakeInst(r) \/ Imp!MakeImport(r) \/ Imp!UndoInst(r) \/ Imp!UndoModel(r)
      PROVE  Imp!ImpInv'
  BY <1>1, ImpPrepare, ImpLookModel, ImpMakeModel, ImpMakeInst, ImpMakeImport, ImpUndoInst, ImpUndoModel
<1>2. ASSUME NEW p \in Imp!Passes, Imp!PassStep(p) \/ Imp!BreakOff(p) PROVE Imp!ImpInv'
  BY <1>2, ImpBreakOff, ImpReadRows, ImpTakeItem, ImpCheckFile, ImpEnable, ImpClaim, ImpStartOnce, ImpReadUnclaimed, ImpTakeJob, ImpCreateModel,
     ImpLinkJob DEF Imp!PassStep
<1>3. ASSUME NEW j \in Imp!Jobs, Imp!CleanBegin(j) \/ Imp!JobEnds(j) \/ Imp!JobRetried(j) PROVE Imp!ImpInv'
  BY <1>3, ImpCleanBegin, ImpJobEnds, ImpJobRetried
<1>4. ASSUME Imp!CleanRead \/ Imp!CleanInst \/ Imp!CleanImports \/ Imp!CleanModel \/ Imp!CleanRemove \/ Imp!CleanFails PROVE Imp!ImpInv'
  BY <1>4, ImpCleanFails, ImpCleanRead, ImpCleanInst, ImpCleanImports, ImpCleanModel, ImpCleanRemove
<1>5. CASE UNCHANGED Imp!impVars
  <2>1. clean' \in Imp!Clean /\ \A r \in clean'.rows : r.job = clean'.job /\ (r.owns /\ r.model # None => made[r.model] = r.job)
    BY <1>5, CleanAs DEF Imp!impVars, Imp!ImpInv, Imp!ImpTyped
  <2>2. file' \in BOOLEAN /\ impEdits' \in 0..ImpEdits
    BY <1>5 DEF Imp!impVars, Imp!ImpInv, Imp!ImpTyped
  <2> QED BY <1>5, <2>1, <2>2, RemovalOnly DEF Imp!impVars
<1> QED BY <1>1, <1>2, <1>3, <1>4, <1>5, ImpDownload, ImpUserEdit DEF Imp!ImpNext

LEMMA ImpKeeps == Imp!ImpInv => Imp!ImpTypeOK /\ Imp!RowsLinked /\ Imp!EnabledWhenDone /\ Imp!FailedLeavesNothing /\ Imp!ToldIfSmooth
<1> SUFFICES ASSUME Imp!ImpInv PROVE Imp!ImpTypeOK /\ Imp!RowsLinked /\ Imp!EnabledWhenDone /\ Imp!FailedLeavesNothing /\ Imp!ToldIfSmooth
  OBVIOUS
<1>1. Imp!ImpTypeOK
  BY DEF Imp!ImpInv, Imp!ImpTyped, Imp!ImpTypeOK, Imp!HasInst, Imp!ImpRow
<1>2. ASSUME NEW k \in Imp!Jobs, Imp!Joined(k)
      PROVE  /\ imp[k].inst = k /\ k \in Requests /\ Imp!HasInst(k)
             /\ impInst[k].enabled /\ ~impInst[k].asked => impJob[imp[k].job] = "COMPLETED"
  BY <1>2 DEF Imp!ImpInv, Imp!RowRight
<1>3. Imp!RowsLinked
  BY <1>2 DEF Imp!RowsLinked, Imp!ImpInv, Imp!RowRight, Imp!InstRight, Imp!Joined
<1>4. Imp!EnabledWhenDone
  BY <1>2 DEF Imp!EnabledWhenDone, Imp!Joined
<1>5. Imp!FailedLeavesNothing
  BY DEF Imp!FailedLeavesNothing, Imp!ImpInv, Imp!InstRight, Imp!CallRight, Imp!Held, Imp!Settled
<1>6. Imp!ToldIfSmooth
  <2> SUFFICES ASSUME smooth, NEW k \in Imp!Jobs, Imp!Joined(k), impInst[k].enabled
               PROVE  k \in told \/ imp[k].state = "DOWNLOADING"
    BY <1>2 DEF Imp!ToldIfSmooth, Imp!CompletionTold, Imp!Joined
  <2>1. /\ Imp!RowRight(k) /\ Imp!InstRight(k) /\ Imp!HasInst(k) /\ imp[k].state \in Imp!States
        /\ impInst[k].asked => k \in told
    BY <1>2 DEF Imp!ImpInv, Imp!ImpTyped, Imp!Joined, Imp!ImpRow, Imp!InstRight
  <2>2. CASE impInst[k].asked
    BY <2>1, <2>2
  <2>3. CASE ~impInst[k].asked
    <3>1. impJob[imp[k].job] = "COMPLETED"
      BY <1>2, <2>3
    <3>2. imp[k].state \notin Imp!Lost /\ (imp[k].state = "COMPLETED" => k \in told)
      BY <2>1, <3>1 DEF Imp!RowRight, Imp!Lost
    <3> QED BY <2>1, <3>2 DEF Imp!States, Imp!Lost
  <2> QED BY <2>2, <2>3
<1> QED BY <1>1, <1>3, <1>4, <1>5, <1>6

LEMMA ImpCleanupOwn == Imp!ImpInv /\ [Imp!ImpNext]_(Imp!impVars) => Imp!CleanupOwnModel
<1> SUFFICES ASSUME Imp!ImpInv, [Imp!ImpNext]_(Imp!impVars), clean.pc = "models", clean' # clean, impModel # None, impModel' # impModel
             PROVE  made[impModel] = clean.job
  BY SMTT(60) DEF Imp!CleanupOwnModel
<1>1. Imp!CleanModel
  BY ZenonT(60) DEF Imp!ImpNext, Imp!impVars, Imp!rows, Imp!Prepare, Imp!LookModel, Imp!MakeModel, Imp!MakeInst, Imp!MakeImport, Imp!UndoInst, Imp!UndoModel, Imp!PassStep, Imp!ReadRows, Imp!TakeItem,
     Imp!CheckFile, Imp!Enable, Imp!Claim, Imp!StartOnce, Imp!ReadUnclaimed, Imp!TakeJob, Imp!CreateModel, Imp!LinkJob, Imp!CleanBegin, Imp!JobEnds, Imp!JobRetried, Imp!CleanRead,
     Imp!CleanInst, Imp!CleanImports, Imp!CleanRemove, Imp!Download, Imp!UserEdit, Imp!BreakOff, Imp!CleanFails
<1>2. PICK r \in clean.rows : r.owns /\ r.model # None /\ Imp!DropModel(r.model)
  BY <1>1 DEF Imp!CleanModel
<1>3. r.model = impModel
  BY <1>2 DEF Imp!DropModel
<1> QED BY <1>2, <1>3, CleanAs
=============================================================================
