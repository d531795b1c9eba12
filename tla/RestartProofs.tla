--------------------------- MODULE RestartProofs ----------------------------
(***************************************************************************)
(* What the services with work of their own keep while managers crash, stop*)
(* and start again, for any number of each of their parts: the recovery of *)
(* stale workers (supervisor/reconcile.go), benchmark runs (benchmark) and *)
(* downloads (downloads/manager.go).  They share no state; one section is  *)
(* about each.                                                             *)
(***************************************************************************)
EXTENDS Recovery, Benchmarks, Downloads, Sums

-----------------------------------------------------------------------------
(* Recovery: the inductive invariant.                                      *)

\* The steps of terminateOwned, and those at which processes wait to be handled.
Handling == {"term", "wait", "kill", "last", "port", "forget"}
Sorting  == {"rows", "row"} \cup Handling

\* A number, with its PID and instance, stands for a worker or for none that lives.
Names(S, top, num, pid, i) ==
    /\ num <= top
    /\ \A p \in Pids : S[p] # Gone /\ S[p].num = num =>
           S[p].kind = "worker" /\ S[p].inst = i /\ p = pid

\* What each step of the reconciliation has in hand; nothing runs for the
\* manager before launches are allowed.
Stages ==
    /\ boot \in Handling <=> target # NoTarget
    /\ boot \in {"up", "down", "scan"} => scanned = {}
    /\ boot \in {"up", "down", "scan", "rows"} => todo = {}
    /\ boot # "up" => \A i \in Instances : workers[i] = NoWorker
    /\ boot # "up" => clearing = {}

\* A number belongs to one process.
Distinct ==
    /\ \A p \in Pids : os[p] # Gone => os[p].num <= started
    /\ \A p, q \in Pids : os[p] # Gone /\ os[q] # Gone /\ os[p].num = os[q].num => p = q

\* So does every note of one: of the workers, in the rows and on the lists.
Traces ==
    /\ \A i \in Instances :
          workers[i] # NoWorker => Names(os, started, workers[i].num, workers[i].pid, i)
    /\ \A i \in Instances :
          rows[i] # NoRow => Names(os, started, rows[i].num, rows[i].pid, i)
    /\ \A s \in scanned \cup todo : Names(os, started, s.num, s.pid, s.inst)
    /\ target # NoTarget => Names(os, started, target.num, target.pid, target.inst)

\* A row that remains to be handled is as it was read, or cleared.
Current ==
    \A r \in todo : \/ rows[r.inst] = NoRow
                    \/ rows[r.inst].num = r.num /\ rows[r.inst].pid = r.pid

\* While PIDs are not used again, what has the PID of a process found is that process.
Watched ==
    /\ \A s \in scanned : os[s.pid] # Gone => os[s.pid].num = s.num
    /\ target # NoTarget /\ os[target.pid] # Gone => os[target.pid].num = target.num

\* A worker left behind is still to be handled, or blocks its instance.
Covered ==
    boot \in Sorting => \A p \in Pids : os[p] # Gone /\ os[p].kind = "worker" =>
        \/ [pid |-> p, num |-> os[p].num, inst |-> os[p].inst] \in scanned
        \/ os[p].inst \in blocked

\* A port is released for a process that is gone; a blocked instance has no worker.
Settled ==
    /\ boot \in {"port", "forget"} => ~Alive(target.pid, target.num)
    /\ \A i \in blocked : workers[i] = NoWorker

RecInv ==
    /\ RecTypeOK /\ Stages /\ Distinct /\ Traces /\ Current
    /\ ~Recycles => Watched /\ InnocentSpared
    /\ Covered /\ Settled /\ OrphansBlocked

-----------------------------------------------------------------------------
(* Recovery: lemmas.                                                       *)

\* How processes change: those there are fade, or one is born.
Same(p) == os'[p].kind = os[p].kind /\ os'[p].num = os[p].num /\ os'[p].inst = os[p].inst

Fades == started' = started /\ \A p \in Pids : os'[p] # Gone => os[p] # Gone /\ Same(p)

\* A signal changes nothing else of a process.
LEMMA SignalFades ==
    ASSUME RecTypeOK, NEW x, Signal(x)
    PROVE  /\ os' \in [Pids -> Process \cup {Gone}]
           /\ \A p \in Pids : os'[p] # Gone => os[p] # Gone /\ Same(p)
           /\ \A p \in Pids : p # x => os'[p] = os[p]
  <1>1. /\ os' \in [Pids -> Process \cup {Gone}]
        /\ \A p \in Pids : p # x => os'[p] = os[p]
    BY ZenonT(60) DEF RecTypeOK, Signal, Process, Gone
  <1>2. \A p \in Pids : os'[p] # Gone => os[p] # Gone /\ Same(p)
    BY DEF RecTypeOK, Signal, Process, Gone, Same
  <1> QED BY <1>1, <1>2

\* The types and stages are kept by every step.
LEMMA ShapeKept ==
    ASSUME RecoveryAssumption, RecInv, [RecNext]_recVars PROVE  RecTypeOK' /\ Stages'
<1> USE DEF RecInv, RecTypeOK, Stages, Handling, Boots, Process, Gone, Row, NoRow, Stale,
    NoWorker, NoTarget, Numbers, NoProcess, memory, search, RecoveryAssumption
<1>1. ASSUME NEW p \in Pids, Ends(p)
      PROVE  RecTypeOK' /\ Stages'
  BY <1>1 DEF Ends
<1>2. ASSUME NEW p \in Pids, NEW i \in Instances, Launch(i, p)
      PROVE  RecTypeOK' /\ Stages'
  BY <1>2 DEF Launch, NewProcess
<1>3. ASSUME NEW p \in Pids, NEW i \in Instances, NEW k \in {"stranger", "hidden"},
             StrangerStarts(p, k, i)
      PROVE  RecTypeOK' /\ Stages'
  BY <1>3 DEF StrangerStarts, NewProcess
<1>4. ASSUME NEW i \in Instances, Persisted(i)
      PROVE  RecTypeOK' /\ Stages'
  <2>1. /\ workers[i].at = "persist" /\ workers[i] # NoWorker
        /\ workers[i].num \in Numbers /\ workers[i].pid \in Pids
    BY <1>4 DEF Persisted
  <2>2. os' \in [Pids -> Process \cup {Gone}]
    BY <1>4, <2>1, SignalFades DEF Persisted
  <2>3. /\ rows' \in [Instances -> Row \cup {NoRow}]
        /\ workers' \in [Instances -> [num : Numbers, pid : Pids, at : {"persist", "abort", "run"}]
                                       \cup {NoWorker}]
    BY <1>4, <2>1 DEF Persisted
  <2> QED BY <1>4, <2>1, <2>2, <2>3 DEF Persisted
<1>5. ASSUME NEW i \in Instances, Reaped(i)
      PROVE  RecTypeOK' /\ Stages'
  BY <1>5 DEF Reaped
<1>6. ASSUME NEW c \in clearing, RowRead(c)
      PROVE  RecTypeOK' /\ Stages'
  BY <1>6 DEF RowRead
<1>7. ASSUME NEW c \in clearing, RowCleared(c)
      PROVE  RecTypeOK' /\ Stages'
  BY <1>7 DEF RowCleared
<1>8. CASE Crash
  <2>1. /\ workers' \in [Instances -> [num : Numbers, pid : Pids, at : {"persist", "abort", "run"}]
                                       \cup {NoWorker}]
        /\ \A i \in Instances : workers'[i] = NoWorker
    BY <1>8 DEF Crash
  <2>2. crashes' \in 0..MaxCrashes
    BY <1>8 DEF Crash
  <2>3. /\ boot' = "down" /\ clearing' = {} /\ scanned' = {} /\ todo' = {}
        /\ target' = NoTarget /\ blocked' = {} /\ blind' = FALSE
        /\ UNCHANGED <<os, started, rows>>
    BY <1>8 DEF Crash
  <2>4. RecTypeOK'
    BY <2>1, <2>2, <2>3
  <2>5. Stages'
    BY <2>1, <2>3
  <2> QED BY <2>4, <2>5
<1>9. CASE Restart
  BY <1>9 DEF Restart
<1>10. CASE Scan
  <2>1. Owned \subseteq Stale
    BY DEF Owned, Running
  <2> QED BY <1>10, <2>1 DEF Scan
<1>11. CASE LoadRows
  BY <1>11 DEF LoadRows
<1>12. CASE Reconciled
  BY <1>12 DEF Reconciled
<1>13. ASSUME NEW r \in todo, CheckRow(r)
      PROVE  RecTypeOK' /\ Stages'
  BY <1>13 DEF CheckRow, Unreadable, Mismatch, Proven, Alive
<1>14. ASSUME NEW s \in scanned, CheckProc(s)
      PROVE  RecTypeOK' /\ Stages'
  BY <1>14 DEF CheckProc
<1>15. CASE Terminate
  <2>1. target \in Stale /\ target # NoTarget
    BY <1>15 DEF Terminate
  <2>2. CASE Signal(target.pid) /\ Proceed("wait")
    <3>1. os' \in [Pids -> Process \cup {Gone}]
      BY Zenon, <2>2, SignalFades
    <3> QED BY <1>15, <2>1, <2>2, <3>1 DEF Terminate, Proceed
  <2>3. CASE UNCHANGED os /\ GiveUp
    BY <1>15, <2>1, <2>3 DEF Terminate, GiveUp
  <2> QED BY Zenon, <1>15, <2>2, <2>3 DEF Terminate
<1>16. CASE Escalate
  BY <1>16 DEF Escalate, AwaitGone, Proceed
<1>17. CASE KillTarget
  <2>1. target \in Stale /\ target # NoTarget
    BY <1>17 DEF KillTarget
  <2>2. CASE Signal(target.pid) /\ Proceed("last")
    <3>1. os' \in [Pids -> Process \cup {Gone}]
      BY Zenon, <2>2, SignalFades
    <3> QED BY <1>17, <2>1, <2>2, <3>1 DEF KillTarget, Proceed
  <2>3. CASE UNCHANGED os /\ GiveUp
    BY <1>17, <2>1, <2>3 DEF KillTarget, GiveUp
  <2> QED BY Zenon, <1>17, <2>2, <2>3 DEF KillTarget
<1>18. CASE Despair
  BY <1>18 DEF Despair, AwaitGone, Proceed, GiveUp
<1>19. CASE Release
  BY <1>19 DEF Release, Proceed, GiveUp
<1>20. CASE Forget
  BY <1>20 DEF Forget
<1>21. CASE UNCHANGED recVars
  BY <1>21 DEF recVars
<1> QED
  BY ZenonT(60), <1>1, <1>2, <1>3, <1>4, <1>5, <1>6, <1>7, <1>8, <1>9, <1>10, <1>11, <1>12, <1>13,
       <1>14, <1>15, <1>16, <1>17, <1>18, <1>19, <1>20, <1>21 DEF RecNext, Reconcile

\* A process starts under the next number.
Born(p, kind, i) ==
    /\ os[p] = Gone
    /\ os' = [os EXCEPT ![p] =
                 [kind |-> kind, inst |-> i, num |-> started + 1, signalled |-> FALSE]]
    /\ started' = started + 1

\* A step lets processes fade or one be born; a worker only in service.
LEMMA ProcessesChange ==
    ASSUME RecTypeOK, [RecNext]_recVars
    PROVE  \/ Fades
           \/ \E p \in Pids, k \in {"worker", "stranger", "hidden"}, i \in Instances :
                 Born(p, k, i) /\ (boot = "up" \/ (k # "worker" /\ StrangerStarts(p, k, i)))
<1>1. ASSUME NEW p \in Pids, Ends(p)
      PROVE  Fades
  BY <1>1 DEF RecTypeOK, Ends, Fades, Same
<1>2. ASSUME NEW p \in Pids, NEW i \in Instances, Launch(i, p)
      PROVE  Born(p, "worker", i) /\ boot = "up"
  BY Zenon, <1>2 DEF Launch, NewProcess, Born
<1>3. ASSUME NEW p \in Pids, NEW i \in Instances, NEW k \in {"stranger", "hidden"},
             StrangerStarts(p, k, i)
      PROVE  Born(p, k, i) /\ k # "worker" /\ StrangerStarts(p, k, i)
  BY Zenon, <1>3 DEF StrangerStarts, NewProcess, Born
<1>4. ASSUME NEW x, Signal(x), UNCHANGED started
      PROVE  Fades
  BY Zenon, <1>4, SignalFades DEF Fades
<1>5. ASSUME UNCHANGED <<os, started>>
      PROVE  Fades
  BY <1>5 DEF Fades, Same
<1>6. ASSUME NEW i \in Instances, Persisted(i)
      PROVE  Fades
  BY Zenon, <1>4, <1>5, <1>6 DEF Persisted
<1>7. ASSUME Terminate \/ KillTarget
      PROVE  Fades
  BY Zenon, <1>4, <1>5, <1>7 DEF Terminate, KillTarget
<1>8. ASSUME \/ \E i \in Instances : Reaped(i)
             \/ \E c \in clearing : RowRead(c) \/ RowCleared(c)
             \/ Crash \/ Restart \/ Scan \/ LoadRows \/ Reconciled
             \/ \E r \in todo : CheckRow(r)
             \/ \E s \in scanned : CheckProc(s)
             \/ Escalate \/ Despair \/ Release \/ Forget
             \/ UNCHANGED recVars
      PROVE  Fades
  <2>1. UNCHANGED <<os, started>>
    BY Zenon, <1>8 DEF Reaped, RowRead, RowCleared, Crash, Restart, Scan, LoadRows, Reconciled,
         CheckRow,
       CheckProc, Escalate, Despair, AwaitGone, Release, Forget, recVars
  <2> QED BY <1>5, <2>1
<1> QED
  BY Zenon, <1>1, <1>2, <1>3, <1>6, <1>7, <1>8 DEF RecNext, Reconcile

\* A note stays true of processes that fade ...
LEMMA FadesNames ==
    ASSUME Fades, NEW n, NEW p, NEW i, Names(os, started, n, p, i)
    PROVE  Names(os', started', n, p, i)
  BY DEF Fades, Same, Names

\* ... and of one that is born, as its number is new.
LEMMA BornNames ==
    ASSUME RecTypeOK, RecoveryAssumption, NEW q \in Pids, NEW k \in {"worker", "stranger",
           "hidden"}, NEW j \in Instances,
           Born(q, k, j), NEW n \in Nat, NEW p, NEW i, Names(os, started, n, p, i)
    PROVE  Names(os', started', n, p, i)
  BY DEF RecTypeOK, Born, Names, Process, Gone, Numbers, RecoveryAssumption

\* Numbers stay distinct and notes stay true.
LEMMA NumbersStay ==
    ASSUME RecTypeOK, RecoveryAssumption, [RecNext]_recVars, Distinct
    PROVE  /\ Distinct'
           /\ \A n \in Nat : \A p, i : Names(os, started, n, p, i) => Names(os', started', n, p, i)
<1>1. CASE Fades
  BY <1>1, FadesNames DEF Fades, Same, Distinct
<1>2. ASSUME NEW p \in Pids, NEW k \in {"worker", "stranger", "hidden"}, NEW i \in Instances,
             Born(p, k, i)
      PROVE  Distinct'
  BY <1>2 DEF RecTypeOK, Born, Process, Gone, Numbers, RecoveryAssumption, Distinct
<1>3. ASSUME NEW p \in Pids, NEW k \in {"worker", "stranger", "hidden"}, NEW i \in Instances,
             Born(p, k, i)
      PROVE  \A n \in Nat : \A q, j : Names(os, started, n, q, j) => Names(os', started', n, q, j)
  BY Zenon, <1>3, BornNames
<1> QED
  BY Zenon, <1>1, <1>2, <1>3, ProcessesChange

\* The notes bear numbers.
LEMMA NumberedAlike ==
    ASSUME RecInv, RecoveryAssumption
    PROVE  /\ \A i \in Instances : workers[i] # NoWorker => workers[i].num \in Nat \ {0}
           /\ \A i \in Instances : rows[i] # NoRow => rows[i].num \in Nat \ {0}
           /\ \A s \in scanned \cup todo : s.num \in Nat \ {0}
           /\ target # NoTarget => target.num \in Nat \ {0}
  BY DEF RecInv, RecTypeOK, Row, NoRow, Stale, NoWorker, NoTarget, Numbers, NoProcess,
       RecoveryAssumption

\* Traces in the next state.
TracedNext ==
    /\ \A i \in Instances :
          workers'[i] # NoWorker => Names(os', started', workers'[i].num, workers'[i].pid, i)
    /\ \A i \in Instances :
          rows'[i] # NoRow => Names(os', started', rows'[i].num, rows'[i].pid, i)
    /\ \A s \in scanned' \cup todo' : Names(os', started', s.num, s.pid, s.inst)
    /\ target' # NoTarget => Names(os', started', target'.num, target'.pid, target'.inst)

\* Every note of the next state is an old one or of the process just started.
LEMMA TracesKept ==
    ASSUME RecoveryAssumption, RecInv, [RecNext]_recVars PROVE  TracedNext
<1> USE DEF RecInv, TracedNext, memory, search
<1>a. \A n \in Nat : \A p, i : Names(os, started, n, p, i) => Names(os', started', n, p, i)
  BY Zenon, NumbersStay
<1>b. /\ \A i \in Instances :
            workers[i] # NoWorker => Names(os', started', workers[i].num, workers[i].pid, i)
      /\ \A i \in Instances : rows[i] # NoRow => Names(os', started', rows[i].num, rows[i].pid, i)
      /\ \A s \in scanned \cup todo : Names(os', started', s.num, s.pid, s.inst)
      /\ target # NoTarget => Names(os', started', target.num, target.pid, target.inst)
  BY <1>a, NumberedAlike DEF Traces
<1>c. /\ workers \in [Instances -> [num : Numbers, pid : Pids, at : {"persist", "abort", "run"}]
                                       \cup {NoWorker}]
      /\ rows \in [Instances -> Row \cup {NoRow}]
      /\ clearing \subseteq [inst : Instances, num : Numbers, at : {"get", "delete"}]
  BY DEF RecTypeOK
<1>1. ASSUME NEW p \in Pids, Ends(p)
      PROVE  TracedNext
  BY <1>1, <1>b DEF Ends
<1>2. ASSUME NEW p \in Pids, NEW i \in Instances, Launch(i, p)
      PROVE  TracedNext
  <2>1. /\ workers' = [workers EXCEPT ![i] = [num |-> started + 1, pid |-> p, at |-> "persist"]]
        /\ UNCHANGED <<rows, scanned, todo, target>>
    BY <1>2 DEF Launch
  <2>2. Names(os', started', started + 1, p, i)
    BY <1>2 DEF Launch, NewProcess, Names, RecTypeOK, Process, Gone, Distinct, Numbers,
         RecoveryAssumption
  <2> QED BY <1>b, <1>c, <2>1, <2>2
<1>3. ASSUME NEW p \in Pids, NEW i \in Instances, NEW k \in {"stranger", "hidden"},
             StrangerStarts(p, k, i)
      PROVE  TracedNext
  BY <1>3, <1>b DEF StrangerStarts, NewProcess
<1>4. ASSUME NEW i \in Instances, Persisted(i)
      PROVE  TracedNext
  <2>1. workers[i] # NoWorker
    BY <1>4 DEF Persisted, NoWorker
  <2>2. /\ \A j \in Instances : j # i => workers'[j] = workers[j]
        /\ workers'[i].num = workers[i].num /\ workers'[i].pid = workers[i].pid
    BY <1>4, <1>c, <2>1 DEF Persisted
  <2>3. \A j \in Instances :
            \/ rows'[j] = rows[j]
            \/ j = i /\ rows'[j].num = workers[i].num /\ rows'[j].pid = workers[i].pid
    BY <1>4, <1>c DEF Persisted
  <2>4. UNCHANGED <<scanned, todo, target>>
    BY <1>4 DEF Persisted
  <2> QED BY <1>b, <2>1, <2>2, <2>3, <2>4
<1>5. ASSUME NEW i \in Instances, Reaped(i)
      PROVE  TracedNext
  BY <1>5, <1>b, <1>c DEF Reaped
<1>6. ASSUME NEW c \in clearing, RowRead(c)
      PROVE  TracedNext
  BY <1>6, <1>b DEF RowRead
<1>7. ASSUME NEW c \in clearing, RowCleared(c)
      PROVE  TracedNext
  BY <1>7, <1>b, <1>c DEF RowCleared
<1>8. CASE Crash
  BY <1>8, <1>b DEF Crash
<1>9. CASE Restart
  BY <1>9, <1>b DEF Restart
<1>10. CASE Scan
  <2>1. \A s \in Owned : Names(os', started', s.num, s.pid, s.inst)
    BY <1>10 DEF Scan, Owned, Running, Distinct, Names
  <2> QED BY <1>10, <1>b, <2>1 DEF Scan
<1>11. CASE LoadRows
  BY <1>11, <1>b DEF LoadRows
<1>12. CASE Reconciled
  BY <1>12, <1>b DEF Reconciled
<1>13. ASSUME NEW r \in todo, CheckRow(r)
      PROVE  TracedNext
  <2>1. UNCHANGED <<workers, scanned>> /\ todo' \subseteq todo /\ (target' = target \/ target' = r)
    BY <1>13 DEF CheckRow
  <2>2. rows' = rows \/ rows' = [rows EXCEPT ![r.inst] = NoRow]
    BY <1>13 DEF CheckRow
  <2> QED BY <1>b, <1>c, <2>1, <2>2
<1>14. ASSUME NEW s \in scanned, CheckProc(s)
      PROVE  TracedNext
  BY <1>14, <1>b DEF CheckProc
<1>15. CASE Terminate
  BY <1>15, <1>b DEF Terminate, Proceed, GiveUp
<1>16. CASE Escalate
  BY <1>16, <1>b DEF Escalate, AwaitGone, Proceed
<1>17. CASE KillTarget
  BY <1>17, <1>b DEF KillTarget, Proceed, GiveUp
<1>18. CASE Despair
  BY <1>18, <1>b DEF Despair, AwaitGone, Proceed, GiveUp
<1>19. CASE Release
  BY <1>19, <1>b DEF Release, Proceed, GiveUp
<1>20. CASE Forget
  BY <1>20, <1>b, <1>c DEF Forget
<1>21. CASE UNCHANGED recVars
  BY <1>21, <1>b DEF recVars
<1> QED
  BY Zenon, <1>1, <1>2, <1>3, <1>4, <1>5, <1>6, <1>7, <1>8, <1>9, <1>10, <1>11, <1>12, <1>13,
       <1>14, <1>15, <1>16, <1>17, <1>18, <1>19, <1>20, <1>21 DEF RecNext, Reconcile

\* The numbers and notes are kept by every step.
LEMMA TracesStay ==
    ASSUME RecoveryAssumption, RecInv, [RecNext]_recVars PROVE  Distinct' /\ Traces'
<1>1. TracedNext
  BY Zenon, TracesKept
<1>2. Distinct'
  BY NumbersStay DEF RecInv
<1> QED BY <1>1, <1>2 DEF TracedNext, Traces, Names

\* The processes found remain all the workers there are: none starts meanwhile.
LEMMA CoverStays ==
    ASSUME RecTypeOK, [RecNext]_recVars, Covered, boot \in Sorting
    PROVE  \A p \in Pids : os'[p] # Gone /\ os'[p].kind = "worker" =>
               \/ [pid |-> p, num |-> os'[p].num, inst |-> os'[p].inst] \in scanned
               \/ os'[p].inst \in blocked
<1>1. CASE Fades
  BY <1>1 DEF Fades, Same, Covered
<1>2. ASSUME NEW p \in Pids, NEW k \in {"worker", "stranger", "hidden"}, NEW i \in Instances,
             Born(p, k, i), k # "worker"
      PROVE  \A q \in Pids : os'[q] # Gone /\ os'[q].kind = "worker" => os'[q] = os[q]
  BY <1>2 DEF Born, RecTypeOK
<1>3. boot # "up"
  BY DEF Sorting, Handling
<1> QED BY <1>1, <1>2, <1>3, ProcessesChange DEF Covered

\* A process that is gone stays gone: its number is not given again.
LEMMA StaysGone ==
    ASSUME RecTypeOK, RecoveryAssumption, [RecNext]_recVars, NEW p \in Pids, NEW n \in Nat, n <=
           started, ~Alive(p, n)
    PROVE  ~(os'[p] # Gone /\ os'[p].num = n)
<1>1. CASE Fades
  BY <1>1 DEF Fades, Same, Alive
<1>2. ASSUME NEW q \in Pids, NEW k \in {"worker", "stranger", "hidden"}, NEW i \in Instances,
             Born(q, k, i)
      PROVE  ~(os'[p] # Gone /\ os'[p].num = n)
  BY <1>2 DEF Born, RecTypeOK, Alive, RecoveryAssumption
<1> QED BY Zenon, <1>1, <1>2, ProcessesChange

\* Covered in the next state.
CoverNext ==
    boot' \in Sorting => \A p \in Pids : os'[p] # Gone /\ os'[p].kind = "worker" =>
        \/ [pid |-> p, num |-> os'[p].num, inst |-> os'[p].inst] \in scanned'
        \/ os'[p].inst \in blocked'

\* A worker is taken off the list when it is gone or blocks its instance.
LEMMA CoverKept ==
    ASSUME RecoveryAssumption, RecInv, [RecNext]_recVars PROVE  CoverNext
<1> USE DEF RecInv, CoverNext, Sorting, Handling, memory, search
<1>a. boot \in Sorting => \A p \in Pids : os'[p] # Gone /\ os'[p].kind = "worker" =>
               \/ [pid |-> p, num |-> os'[p].num, inst |-> os'[p].inst] \in scanned
               \/ os'[p].inst \in blocked
  BY Zenon, CoverStays
<1>1. ASSUME NEW p \in Pids, Ends(p)
      PROVE  CoverNext
  BY <1>1, <1>a DEF Ends
<1>2. ASSUME NEW p \in Pids, NEW i \in Instances, Launch(i, p)
      PROVE  CoverNext
  BY <1>2, <1>a DEF Launch, NewProcess
<1>3. ASSUME NEW p \in Pids, NEW i \in Instances, NEW k \in {"stranger", "hidden"},
             StrangerStarts(p, k, i)
      PROVE  CoverNext
  BY <1>3, <1>a DEF StrangerStarts, NewProcess
<1>4. ASSUME NEW i \in Instances, Persisted(i)
      PROVE  CoverNext
  BY <1>4, <1>a DEF Persisted
<1>5. ASSUME NEW i \in Instances, Reaped(i)
      PROVE  CoverNext
  BY <1>5, <1>a DEF Reaped
<1>6. ASSUME NEW c \in clearing, RowRead(c)
      PROVE  CoverNext
  BY <1>6, <1>a DEF RowRead
<1>7. ASSUME NEW c \in clearing, RowCleared(c)
      PROVE  CoverNext
  BY <1>7, <1>a DEF RowCleared
<1>8. CASE Crash
  BY <1>8, <1>a DEF Crash
<1>9. CASE Restart
  BY <1>9, <1>a DEF Restart
<1>10. CASE Scan
  <2>1. UNCHANGED os /\ (boot' = "up" \/ (boot' = "rows" /\ scanned' = Owned))
    BY Zenon, <1>10 DEF Scan
  <2>2. \A p \in Pids : os[p] # Gone /\ os[p].kind = "worker" =>
            [pid |-> p, num |-> os[p].num, inst |-> os[p].inst] \in Owned
    BY DEF Owned, Running
  <2> QED BY <2>1, <2>2
<1>11. CASE LoadRows
  BY <1>11, <1>a DEF LoadRows
<1>12. CASE Reconciled
  BY <1>12, <1>a DEF Reconciled
<1>13. ASSUME NEW r \in todo, CheckRow(r)
      PROVE  CoverNext
  BY <1>13, <1>a DEF CheckRow, Unreadable, Mismatch, Proven, Alive
<1>14. ASSUME NEW s \in scanned, CheckProc(s)
      PROVE  CoverNext
  BY <1>14, <1>a DEF CheckProc
<1>15. CASE Terminate
  BY <1>15, <1>a DEF Terminate, Proceed, GiveUp
<1>16. CASE Escalate
  BY <1>16, <1>a DEF Escalate, AwaitGone, Proceed
<1>17. CASE KillTarget
  BY <1>17, <1>a DEF KillTarget, Proceed, GiveUp
<1>18. CASE Despair
  BY <1>18, <1>a DEF Despair, AwaitGone, Proceed, GiveUp
<1>19. CASE Release
  BY <1>19, <1>a DEF Release, Proceed, GiveUp
<1>20. CASE Forget
  <2>1. ~Alive(target.pid, target.num) /\ UNCHANGED os
    BY <1>20 DEF Forget, Settled
  <2> QED BY <1>20, <1>a, <2>1 DEF Forget, Alive
<1>21. CASE UNCHANGED recVars
  BY <1>21, <1>a DEF recVars
<1> QED
  BY Zenon, <1>1, <1>2, <1>3, <1>4, <1>5, <1>6, <1>7, <1>8, <1>9, <1>10, <1>11, <1>12, <1>13,
       <1>14, <1>15, <1>16, <1>17, <1>18, <1>19, <1>20, <1>21 DEF RecNext, Reconcile

\* Settled in the next state.
SettledNext ==
    /\ boot' \in {"port", "forget"} =>
          ~(os'[target'.pid] # Gone /\ os'[target'.pid].num = target'.num)
    /\ \A i \in blocked' : workers'[i] = NoWorker

\* An instance is blocked before launches are allowed, and not launched after.
LEMMA SettledKept ==
    ASSUME RecoveryAssumption, RecInv, [RecNext]_recVars PROVE  SettledNext
<1> USE DEF RecInv, SettledNext, memory, search
<1>a. boot \in {"port", "forget"} => ~(os'[target.pid] # Gone /\ os'[target.pid].num = target.num)
  <2> SUFFICES ASSUME boot \in {"port", "forget"}
               PROVE  ~(os'[target.pid] # Gone /\ os'[target.pid].num = target.num)
    OBVIOUS
  <2>1. target \in Stale /\ target # NoTarget
    BY DEF Stages, Handling, RecTypeOK
  <2>2. target.pid \in Pids /\ target.num \in Nat /\ target.num <= started
    BY <2>1 DEF Traces, Names, Stale, Numbers, RecoveryAssumption
  <2> QED BY <2>2, StaysGone DEF Settled
<1>b. /\ boot # "up" => \A i \in Instances : workers[i] = NoWorker
      /\ \A i \in blocked : workers[i] = NoWorker
      /\ blocked \subseteq Instances
  BY DEF Stages, Settled, RecTypeOK
<1>c. /\ boot \in Handling => target.inst \in Instances
      /\ \A r \in todo : r.inst \in Instances
  BY DEF Stages, RecTypeOK, Stale
<1>1. ASSUME NEW p \in Pids, Ends(p)
      PROVE  SettledNext
  BY <1>1, <1>a, <1>b, <1>c DEF Ends
<1>2. ASSUME NEW p \in Pids, NEW i \in Instances, Launch(i, p)
      PROVE  SettledNext
  BY <1>2, <1>b DEF Launch, RecTypeOK
<1>3. ASSUME NEW p \in Pids, NEW i \in Instances, NEW k \in {"stranger", "hidden"},
             StrangerStarts(p, k, i)
      PROVE  SettledNext
  BY <1>3, <1>a, <1>b, <1>c DEF StrangerStarts, NewProcess
<1>4. ASSUME NEW i \in Instances, Persisted(i)
      PROVE  SettledNext
  <2>1. workers[i] # NoWorker
    BY <1>4 DEF Persisted, NoWorker
  <2>2. \A j \in Instances : j # i => workers'[j] = workers[j]
    BY <1>4 DEF Persisted, RecTypeOK
  <2>3. boot' = boot /\ target' = target /\ blocked' = blocked
    BY <1>4 DEF Persisted
  <2> QED BY <1>a, <1>b, <2>1, <2>2, <2>3
<1>5. ASSUME NEW i \in Instances, Reaped(i)
      PROVE  SettledNext
  BY <1>5, <1>a, <1>b, <1>c DEF Reaped
<1>6. ASSUME NEW c \in clearing, RowRead(c)
      PROVE  SettledNext
  BY <1>6, <1>a, <1>b, <1>c DEF RowRead
<1>7. ASSUME NEW c \in clearing, RowCleared(c)
      PROVE  SettledNext
  BY <1>7, <1>a, <1>b, <1>c DEF RowCleared
<1>8. CASE Crash
  BY <1>8, <1>a, <1>b, <1>c DEF Crash
<1>9. CASE Restart
  BY <1>9, <1>a, <1>b, <1>c DEF Restart
<1>10. CASE Scan
  BY <1>10, <1>a, <1>b, <1>c DEF Scan
<1>11. CASE LoadRows
  BY <1>11, <1>a, <1>b, <1>c DEF LoadRows
<1>12. CASE Reconciled
  BY <1>12, <1>a, <1>b, <1>c DEF Reconciled
<1>13. ASSUME NEW r \in todo, CheckRow(r)
      PROVE  SettledNext
  BY <1>13, <1>a, <1>b, <1>c DEF CheckRow, Unreadable, Mismatch, Proven, Alive
<1>14. ASSUME NEW s \in scanned, CheckProc(s)
      PROVE  SettledNext
  BY <1>14, <1>a, <1>b, <1>c DEF CheckProc
<1>15. CASE Terminate
  BY <1>15, <1>a, <1>b, <1>c DEF Terminate, Proceed, GiveUp, Handling
<1>16. CASE Escalate
  BY <1>16, <1>a, <1>b DEF Escalate, AwaitGone, Proceed, Alive
<1>17. CASE KillTarget
  BY <1>17, <1>a, <1>b, <1>c DEF KillTarget, Proceed, GiveUp, Handling
<1>18. CASE Despair
  BY <1>18, <1>a, <1>b, <1>c DEF Despair, AwaitGone, Proceed, GiveUp, Handling, Alive
<1>19. CASE Release
  BY <1>19, <1>a, <1>b, <1>c DEF Release, Proceed, GiveUp, Handling
<1>20. CASE Forget
  BY <1>20, <1>a, <1>b, <1>c DEF Forget
<1>21. CASE UNCHANGED recVars
  BY <1>21, <1>a, <1>b DEF recVars
<1> QED
  BY Zenon, <1>1, <1>2, <1>3, <1>4, <1>5, <1>6, <1>7, <1>8, <1>9, <1>10, <1>11, <1>12, <1>13,
       <1>14, <1>15, <1>16, <1>17, <1>18, <1>19, <1>20, <1>21 DEF RecNext, Reconcile

\* Current in the next state.
CurrentNext ==
    \A r \in todo' : \/ rows'[r.inst] = NoRow
                     \/ rows'[r.inst].num = r.num /\ rows'[r.inst].pid = r.pid

\* The reconciliation clears rows and writes none.
LEMMA CurrentKept ==
    ASSUME RecoveryAssumption, RecInv, [RecNext]_recVars PROVE  CurrentNext
<1> USE DEF RecInv, CurrentNext, memory, search
<1>a. /\ Current
      /\ boot = "up" => todo = {}
      /\ rows \in [Instances -> Row \cup {NoRow}]
      /\ todo \subseteq Stale
  BY DEF Stages, RecTypeOK
<1>b. \A i \in Instances : workers[i] # NoWorker => boot = "up"
  BY DEF Stages
<1>c. clearing # {} => boot = "up"
  BY DEF Stages
<1>1. ASSUME NEW p \in Pids, Ends(p)
      PROVE  CurrentNext
  BY <1>1, <1>a DEF Ends, Current
<1>2. ASSUME NEW p \in Pids, NEW i \in Instances, Launch(i, p)
      PROVE  CurrentNext
  BY <1>2, <1>a DEF Launch, NewProcess, Current
<1>3. ASSUME NEW p \in Pids, NEW i \in Instances, NEW k \in {"stranger", "hidden"},
             StrangerStarts(p, k, i)
      PROVE  CurrentNext
  BY <1>3, <1>a DEF StrangerStarts, NewProcess, Current
<1>4. ASSUME NEW i \in Instances, Persisted(i)
      PROVE  CurrentNext
  <2>1. workers[i] # NoWorker
    BY <1>4 DEF Persisted, NoWorker
  <2>2. todo' = {}
    BY <1>4, <1>a, <1>b, <2>1 DEF Persisted
  <2> QED BY <2>2
<1>5. ASSUME NEW i \in Instances, Reaped(i)
      PROVE  CurrentNext
  BY <1>5, <1>a DEF Reaped, Current
<1>6. ASSUME NEW c \in clearing, RowRead(c)
      PROVE  CurrentNext
  BY <1>6, <1>a, <1>c DEF RowRead, Current
<1>7. ASSUME NEW c \in clearing, RowCleared(c)
      PROVE  CurrentNext
  BY <1>7, <1>a, <1>c DEF RowCleared, Current
<1>8. CASE Crash
  BY <1>8 DEF Crash
<1>9. CASE Restart
  BY <1>9, <1>a DEF Restart, Current
<1>10. CASE Scan
  BY <1>10, <1>a DEF Scan, Current
<1>11. CASE LoadRows
  BY <1>11, <1>a DEF LoadRows, Current
<1>12. CASE Reconciled
  BY <1>12, <1>a DEF Reconciled, Current
<1>13. ASSUME NEW r \in todo, CheckRow(r)
      PROVE  CurrentNext
  <2>1. todo' \subseteq todo /\ (rows' = rows \/ rows' = [rows EXCEPT ![r.inst] = NoRow])
    BY <1>13 DEF CheckRow
  <2> QED BY <1>a, <2>1 DEF Current, Stale
<1>14. ASSUME NEW s \in scanned, CheckProc(s)
      PROVE  CurrentNext
  BY <1>14, <1>a DEF CheckProc, Current
<1>15. CASE Terminate
  BY <1>15, <1>a DEF Terminate, Proceed, GiveUp, Current
<1>16. CASE Escalate
  BY <1>16, <1>a DEF Escalate, AwaitGone, Proceed, Current
<1>17. CASE KillTarget
  BY <1>17, <1>a DEF KillTarget, Proceed, GiveUp, Current
<1>18. CASE Despair
  BY <1>18, <1>a DEF Despair, AwaitGone, Proceed, GiveUp, Current
<1>19. CASE Release
  BY <1>19, <1>a DEF Release, Proceed, GiveUp, Current
<1>20. CASE Forget
  <2>1. UNCHANGED todo /\ (rows' = rows \/ rows' = [rows EXCEPT ![target.inst] = NoRow])
    BY <1>20 DEF Forget
  <2> QED BY <1>a, <2>1 DEF Current, Stale
<1>21. CASE UNCHANGED recVars
  BY <1>21, <1>a DEF recVars, Current
<1> QED
  BY Zenon, <1>1, <1>2, <1>3, <1>4, <1>5, <1>6, <1>7, <1>8, <1>9, <1>10, <1>11, <1>12, <1>13,
       <1>14, <1>15, <1>16, <1>17, <1>18, <1>19, <1>20, <1>21 DEF RecNext, Reconcile

\* Watched in the next state.
WatchedNext ==
    /\ \A s \in scanned' : os'[s.pid] # Gone => os'[s.pid].num = s.num
    /\ target' # NoTarget /\ os'[target'.pid] # Gone => os'[target'.pid].num = target'.num

\* No other process takes the PID of one that was found.
LEMMA WatchStays ==
    ASSUME RecTypeOK, [RecNext]_recVars, Watched, ~Recycles, Stages
    PROVE  /\ \A s \in scanned : os'[s.pid] # Gone => os'[s.pid].num = s.num
           /\ target # NoTarget /\ os'[target.pid] # Gone => os'[target.pid].num = target.num
<1>1. CASE Fades
  BY <1>1 DEF Fades, Same, Watched, RecTypeOK, Stale
<1>2. ASSUME NEW p \in Pids, NEW i \in Instances, NEW k \in {"stranger", "hidden"},
             StrangerStarts(p, k, i)
      PROVE  /\ \A s \in scanned : os'[s.pid] # Gone => os'[s.pid].num = s.num
             /\ target # NoTarget /\ os'[target.pid] # Gone => os'[target.pid].num = target.num
  BY <1>2 DEF StrangerStarts, NewProcess, Watched, RecTypeOK
<1>3. CASE boot = "up"
  BY <1>3 DEF Stages, Handling
<1> QED BY <1>1, <1>2, <1>3, ProcessesChange

\* The lists of processes found are kept true by every step.
LEMMA WatchKept ==
    ASSUME RecoveryAssumption, RecInv, [RecNext]_recVars, ~Recycles PROVE  WatchedNext
<1> USE DEF RecInv, WatchedNext, memory, search
<1>a. /\ \A s \in scanned : os'[s.pid] # Gone => os'[s.pid].num = s.num
      /\ target # NoTarget /\ os'[target.pid] # Gone => os'[target.pid].num = target.num
  BY WatchStays
<1>1. ASSUME NEW p \in Pids, Ends(p)
      PROVE  WatchedNext
  BY <1>1, <1>a DEF Ends
<1>2. ASSUME NEW p \in Pids, NEW i \in Instances, Launch(i, p)
      PROVE  WatchedNext
  BY <1>2, <1>a DEF Launch, NewProcess
<1>3. ASSUME NEW p \in Pids, NEW i \in Instances, NEW k \in {"stranger", "hidden"},
             StrangerStarts(p, k, i)
      PROVE  WatchedNext
  BY <1>3, <1>a DEF StrangerStarts, NewProcess
<1>4. ASSUME NEW i \in Instances, Persisted(i)
      PROVE  WatchedNext
  BY <1>4, <1>a DEF Persisted
<1>5. ASSUME NEW i \in Instances, Reaped(i)
      PROVE  WatchedNext
  BY <1>5, <1>a DEF Reaped
<1>6. ASSUME NEW c \in clearing, RowRead(c)
      PROVE  WatchedNext
  BY <1>6, <1>a DEF RowRead
<1>7. ASSUME NEW c \in clearing, RowCleared(c)
      PROVE  WatchedNext
  BY <1>7, <1>a DEF RowCleared
<1>8. CASE Crash
  BY <1>8, <1>a DEF Crash
<1>9. CASE Restart
  BY <1>9, <1>a DEF Restart
<1>10. CASE Scan
  <2>1. \A s \in Owned : os[s.pid] # Gone => os[s.pid].num = s.num
    BY DEF Owned, Running
  <2> QED BY <1>10, <1>a, <2>1 DEF Scan
<1>11. CASE LoadRows
  BY <1>11, <1>a DEF LoadRows
<1>12. CASE Reconciled
  BY <1>12, <1>a DEF Reconciled
<1>13. ASSUME NEW r \in todo, CheckRow(r)
      PROVE  WatchedNext
  BY <1>13, <1>a DEF CheckRow, Unreadable, Mismatch, Proven, Alive
<1>14. ASSUME NEW s \in scanned, CheckProc(s)
      PROVE  WatchedNext
  BY <1>14, <1>a DEF CheckProc
<1>15. CASE Terminate
  BY <1>15, <1>a DEF Terminate, Proceed, GiveUp
<1>16. CASE Escalate
  BY <1>16, <1>a DEF Escalate, AwaitGone, Proceed
<1>17. CASE KillTarget
  BY <1>17, <1>a DEF KillTarget, Proceed, GiveUp
<1>18. CASE Despair
  BY <1>18, <1>a DEF Despair, AwaitGone, Proceed, GiveUp
<1>19. CASE Release
  BY <1>19, <1>a DEF Release, Proceed, GiveUp
<1>20. CASE Forget
  BY <1>20, <1>a DEF Forget
<1>21. CASE UNCHANGED recVars
  BY <1>21, <1>a DEF recVars
<1> QED
  BY Zenon, <1>1, <1>2, <1>3, <1>4, <1>5, <1>6, <1>7, <1>8, <1>9, <1>10, <1>11, <1>12, <1>13,
       <1>14, <1>15, <1>16, <1>17, <1>18, <1>19, <1>20, <1>21 DEF RecNext, Reconcile

\* Each signal goes to a PID whose process is a worker or gone.
LEMMA InnocentKept ==
    ASSUME RecoveryAssumption, RecInv, [RecNext]_recVars, ~Recycles
    PROVE  \A p \in Pids : os'[p] # Gone /\ os'[p].kind # "worker" => ~os'[p].signalled
<1>0. RecTypeOK /\ InnocentSpared
  BY DEF RecInv
<1>1. ASSUME NEW x \in Pids, Signal(x), os[x] # Gone => os[x].kind = "worker"
      PROVE  \A p \in Pids : os'[p] # Gone /\ os'[p].kind # "worker" => ~os'[p].signalled
  BY <1>0, <1>1, SignalFades DEF Same, InnocentSpared
<1>2. ASSUME NEW p \in Pids, Ends(p)
      PROVE  \A q \in Pids : os'[q] # Gone => os'[q] = os[q]
  BY <1>0, <1>2 DEF Ends, RecTypeOK
<1>3. ASSUME NEW p \in Pids, NEW k \in {"worker", "stranger", "hidden"}, NEW i \in Instances,
             Born(p, k, i)
      PROVE  \A q \in Pids : os'[q] = os[q] \/ ~os'[q].signalled
  BY <1>0, <1>3 DEF Born, RecTypeOK
<1>4. ASSUME NEW p \in Pids, NEW i \in Instances, Launch(i, p)
      PROVE  \A q \in Pids : os'[q] = os[q] \/ ~os'[q].signalled
  <2>1. Born(p, "worker", i)
    BY Zenon, <1>4 DEF Launch, NewProcess, Born
  <2> QED BY <1>3, <2>1
<1>5. ASSUME NEW p \in Pids, NEW i \in Instances, NEW k \in {"stranger", "hidden"},
             StrangerStarts(p, k, i)
      PROVE  \A q \in Pids : os'[q] = os[q] \/ ~os'[q].signalled
  <2>1. Born(p, k, i)
    BY Zenon, <1>5 DEF StrangerStarts, NewProcess, Born
  <2> QED BY <1>3, <2>1
<1>6. ASSUME NEW i \in Instances, Persisted(i), ~UNCHANGED os
      PROVE  \A p \in Pids : os'[p] # Gone /\ os'[p].kind # "worker" => ~os'[p].signalled
  <2>1. workers[i] # NoWorker /\ workers[i].pid \in Pids
    BY <1>0, <1>6 DEF Persisted, NoWorker, RecTypeOK
  <2>2. Signal(workers[i].pid) /\ Alive(workers[i].pid, workers[i].num)
    BY Zenon, <1>6 DEF Persisted
  <2>3. os[workers[i].pid].kind = "worker"
    BY <2>1, <2>2 DEF RecInv, Traces, Names, Alive
  <2> QED BY <1>1, <2>1, <2>2, <2>3
<1>7. ASSUME Terminate \/ KillTarget, ~UNCHANGED os
      PROVE  \A p \in Pids : os'[p] # Gone /\ os'[p].kind # "worker" => ~os'[p].signalled
  <2>1. target # NoTarget /\ target.pid \in Pids
    BY <1>0, <1>7 DEF RecInv, Stages, Terminate, KillTarget, Handling, RecTypeOK, Stale
  <2>2. Signal(target.pid)
    BY Zenon, <1>7 DEF Terminate, KillTarget
  <2>3. os[target.pid] # Gone => os[target.pid].kind = "worker"
    BY <2>1 DEF RecInv, Traces, Names, Watched
  <2> QED BY <1>1, <2>1, <2>2, <2>3
<1>8. ASSUME \/ \E i \in Instances : Reaped(i)
             \/ \E c \in clearing : RowRead(c) \/ RowCleared(c)
             \/ Crash \/ Restart \/ Scan \/ LoadRows \/ Reconciled
             \/ \E r \in todo : CheckRow(r)
             \/ \E s \in scanned : CheckProc(s)
             \/ Escalate \/ Despair \/ Release \/ Forget
             \/ UNCHANGED recVars
      PROVE  UNCHANGED os
  BY Zenon, <1>8 DEF Reaped, RowRead, RowCleared, Crash, Restart, Scan, LoadRows, Reconciled,
       CheckRow,
     CheckProc, Escalate, Despair, AwaitGone, Release, Forget, recVars
<1>9. CASE \A q \in Pids : os'[q] = os[q] \/ os'[q] = Gone \/ ~os'[q].signalled
  BY <1>0, <1>9 DEF InnocentSpared
<1>10. CASE UNCHANGED os
  BY <1>9, <1>10
<1> QED
  BY Zenon, <1>2, <1>4, <1>5, <1>6, <1>7, <1>8, <1>9, <1>10 DEF RecNext, Reconcile

\* OrphansBlocked in the next state.
OrphansNext ==
    boot' = "up" /\ ~blind' => \A p \in Pids :
        os'[p] # Gone /\ os'[p].kind = "worker" /\ os'[p].num # workers'[os'[p].inst].num
        => os'[p].inst \in blocked'

\* A worker launched belongs to an instance without orphans, and one reaped is gone.
LEMMA OrphansKept ==
    ASSUME RecoveryAssumption, RecInv, [RecNext]_recVars PROVE  OrphansNext
<1> USE DEF RecInv, OrphansNext, memory, search
<1>a. RecTypeOK /\ Stages /\ Distinct
  BY DEF RecInv
<1>b. boot = "up" /\ ~blind => \A p \in Pids :
          os[p] # Gone /\ os[p].kind = "worker" /\ os[p].num # workers[os[p].inst].num
          => os[p].inst \in blocked
  BY DEF OrphansBlocked, Orphan
<1>1. ASSUME NEW p \in Pids, Ends(p)
      PROVE  OrphansNext
  BY <1>1, <1>a, <1>b DEF Ends, RecTypeOK
<1>2. ASSUME NEW p \in Pids, NEW i \in Instances, Launch(i, p)
      PROVE  OrphansNext
  <2>1. Born(p, "worker", i)
    BY Zenon, <1>2 DEF Launch, NewProcess, Born
  <2>2. \A q \in Pids : q # p => os'[q] = os[q]
    BY <1>a, <2>1 DEF Born, RecTypeOK
  <2>3. os'[p].num = started + 1 /\ os'[p].inst = i
    BY <1>a, <2>1 DEF Born, RecTypeOK
  <2>4. /\ boot = "up" /\ i \notin blocked /\ UNCHANGED <<blocked, blind>>
        /\ workers'[i].num = started + 1 /\ \A j \in Instances : j # i => workers'[j] = workers[j]
    BY <1>2, <1>a DEF Launch, RecTypeOK
  <2>5. workers[i] = NoWorker
    BY <1>2 DEF Launch
  <2>6. \A q \in Pids : os[q] # Gone =>
            os[q].num \in Nat \ {0} /\ (os[q].kind = "worker" => os[q].inst \in Instances)
    BY <1>a DEF RecTypeOK, Process, Gone, Numbers, RecoveryAssumption
  <2>7. ASSUME ~blind, NEW q \in Pids, q # p, os[q] # Gone, os[q].kind = "worker",
               os[q].num # workers'[os[q].inst].num
        PROVE  os[q].inst \in blocked
    <3>1. CASE os[q].inst = i
      BY <1>b, <2>4, <2>5, <2>6, <2>7, <3>1 DEF NoWorker, NoProcess
    <3>2. CASE os[q].inst # i
      BY <1>b, <2>4, <2>6, <2>7, <3>2
    <3> QED BY <3>1, <3>2
  <2> QED BY <2>2, <2>3, <2>4, <2>7
<1>3. ASSUME NEW p \in Pids, NEW i \in Instances, NEW k \in {"stranger", "hidden"},
             StrangerStarts(p, k, i)
      PROVE  OrphansNext
  <2>1. Born(p, k, i) /\ UNCHANGED <<workers, boot, blocked, blind>>
    BY Zenon, <1>3 DEF StrangerStarts, NewProcess, Born, memory, search
  <2>2. \A q \in Pids : os'[q] # Gone /\ os'[q].kind = "worker" => os'[q] = os[q]
    BY <1>a, <2>1 DEF Born, RecTypeOK
  <2> QED BY <1>b, <2>1, <2>2
<1>4. ASSUME NEW i \in Instances, Persisted(i)
      PROVE  OrphansNext
  <2>1. /\ \A p \in Pids : os'[p] # Gone => os[p] # Gone /\ Same(p)
        /\ \A j \in Instances : workers'[j].num = workers[j].num
        /\ UNCHANGED <<boot, blocked, blind>>
    <3>1. \A p \in Pids : os'[p] # Gone => os[p] # Gone /\ Same(p)
      BY <1>4, <1>a, SignalFades DEF Persisted, Same
    <3>2. workers[i] # NoWorker
      BY <1>4 DEF Persisted, NoWorker
    <3>3. \A j \in Instances : workers'[j].num = workers[j].num
      BY <1>4, <1>a, <3>2 DEF Persisted, RecTypeOK
    <3> QED BY <1>4, <3>1, <3>3 DEF Persisted
  <2>2. \A p \in Pids : os[p] # Gone /\ os[p].kind = "worker" => os[p].inst \in Instances
    BY <1>a DEF RecTypeOK, Process, Gone
  <2> QED BY <1>b, <2>1, <2>2 DEF Same
<1>5. ASSUME NEW i \in Instances, Reaped(i)
      PROVE  OrphansNext
  <2>1. \A p \in Pids : os[p] # Gone => os[p].num # workers[i].num
    BY <1>5 DEF Reaped, Traces, Names, Alive
  <2>2. \A p \in Pids : os[p] # Gone /\ os[p].kind = "worker" => os[p].inst \in Instances
    BY <1>a DEF RecTypeOK, Process, Gone
  <2> QED BY <1>5, <1>a, <1>b, <2>1, <2>2 DEF Reaped, RecTypeOK
<1>6. ASSUME NEW c \in clearing, RowRead(c)
      PROVE  OrphansNext
  BY <1>6, <1>b DEF RowRead
<1>7. ASSUME NEW c \in clearing, RowCleared(c)
      PROVE  OrphansNext
  BY <1>7, <1>b DEF RowCleared
<1>8. CASE Crash
  BY <1>8, <1>b DEF Crash
<1>9. CASE Restart
  BY <1>9, <1>b DEF Restart
<1>10. CASE Scan
  BY <1>10, <1>b DEF Scan
<1>11. CASE LoadRows
  BY <1>11, <1>b DEF LoadRows
<1>12. CASE Reconciled
  BY <1>12 DEF Reconciled, Covered, Sorting
<1>13. ASSUME NEW r \in todo, CheckRow(r)
      PROVE  OrphansNext
  BY <1>13, <1>b DEF CheckRow, Unreadable, Mismatch, Proven, Alive
<1>14. ASSUME NEW s \in scanned, CheckProc(s)
      PROVE  OrphansNext
  BY <1>14, <1>b DEF CheckProc
<1>15. CASE Terminate
  BY <1>15, <1>b DEF Terminate, Proceed, GiveUp
<1>16. CASE Escalate
  BY <1>16, <1>b DEF Escalate, AwaitGone, Proceed
<1>17. CASE KillTarget
  BY <1>17, <1>b DEF KillTarget, Proceed, GiveUp
<1>18. CASE Despair
  BY <1>18, <1>b DEF Despair, AwaitGone, Proceed, GiveUp
<1>19. CASE Release
  BY <1>19, <1>b DEF Release, Proceed, GiveUp
<1>20. CASE Forget
  BY <1>20, <1>b DEF Forget
<1>21. CASE UNCHANGED recVars
  BY <1>21, <1>b DEF recVars
<1> QED
  BY Zenon, <1>1, <1>2, <1>3, <1>4, <1>5, <1>6, <1>7, <1>8, <1>9, <1>10, <1>11, <1>12, <1>13,
       <1>14, <1>15, <1>16, <1>17, <1>18, <1>19, <1>20, <1>21 DEF RecNext, Reconcile

-----------------------------------------------------------------------------
(* Recovery: the theorems.                                                 *)

\* The first manager finds nothing.
LEMMA RecoveryStarts ==
    ASSUME RecoveryAssumption PROVE  RecInit => RecInv
<1> SUFFICES ASSUME RecInit PROVE RecInv
  OBVIOUS
<1>1. RecTypeOK
  <2>1. /\ os \in [Pids -> Process \cup {Gone}]
        /\ rows \in [Instances -> Row \cup {NoRow}]
        /\ workers \in [Instances -> [num : Numbers, pid : Pids, at : {"persist", "abort", "run"}]
                                       \cup {NoWorker}]
    BY DEF RecInit
  <2>2. /\ started \in 0..MaxProcesses /\ crashes \in 0..MaxCrashes
    BY DEF RecInit, RecoveryAssumption
  <2>3. /\ boot \in Boots /\ blind \in BOOLEAN /\ target \in Stale \cup {NoTarget}
        /\ clearing = {} /\ scanned = {} /\ todo = {} /\ blocked = {}
    BY DEF RecInit, Boots
  <2> QED BY Zenon, <2>1, <2>2, <2>3 DEF RecTypeOK
<1>2. /\ Stages /\ Distinct /\ Traces /\ Current /\ Watched
      /\ InnocentSpared /\ Covered /\ Settled /\ OrphansBlocked
  BY DEF RecInit, Stages, Distinct, Traces, Current, Watched, InnocentSpared, Covered, Sorting,
       Handling, Settled, OrphansBlocked
<1> QED BY <1>1, <1>2 DEF RecInv

\* Every step keeps the invariant.
LEMMA RecoveryGoes ==
    ASSUME RecoveryAssumption PROVE  RecInv /\ [RecNext]_recVars => RecInv'
<1> SUFFICES ASSUME RecInv, [RecNext]_recVars PROVE RecInv'
  OBVIOUS
<1>1. RecTypeOK' /\ Stages'
  BY Zenon, ShapeKept
<1>2. Distinct' /\ Traces'
  BY Zenon, TracesStay
<1>3. Covered' /\ Current'
  <2>1. CoverNext
    BY Zenon, CoverKept
  <2>2. CurrentNext
    BY Zenon, CurrentKept
  <2> QED BY <2>1, <2>2 DEF CoverNext, Covered, CurrentNext, Current
<1>4. Settled'
  <2>1. SettledNext
    BY Zenon, SettledKept
  <2> QED BY <2>1 DEF SettledNext, Settled, Alive
<1>5. OrphansBlocked'
  <2>1. OrphansNext
    BY Zenon, OrphansKept
  <2> QED BY <2>1 DEF OrphansNext, OrphansBlocked, Orphan
<1>6. ASSUME ~Recycles PROVE (Watched /\ InnocentSpared)'
  <2>1. WatchedNext
    BY Zenon, <1>6, WatchKept
  <2>2. \A p \in Pids : os'[p] # Gone /\ os'[p].kind # "worker" => ~os'[p].signalled
    BY Zenon, <1>6, InnocentKept
  <2> QED BY <2>1, <2>2 DEF WatchedNext, Watched, InnocentSpared
<1> QED BY Zenon, <1>1, <1>2, <1>3, <1>4, <1>5, <1>6 DEF RecInv

\* The invariant holds throughout, through any number of crashes.
THEOREM RecoveryInductive ==
    ASSUME RecoveryAssumption PROVE  RecSpec => []RecInv
<1>1. RecInit => RecInv
  BY RecoveryStarts
<1>2. RecInv /\ [RecNext]_recVars => RecInv'
  BY RecoveryGoes
<1> QED BY <1>1, <1>2, PTL DEF RecSpec

\* Recovery signals no process but workers of this installation, as long as a
\* PID it looked up is not used again before the signal (supervisor/reconcile.go:
\* startIdentityMismatch, recordOwnsProcess).
THEOREM StrangersSpared ==
    ASSUME RecoveryAssumption, ~Recycles PROVE  RecSpec => []InnocentSpared
<1>1. RecInv => InnocentSpared
  BY DEF RecInv
<1> QED BY <1>1, RecoveryInductive, PTL

\* An orphan blocks its instance, and a blocked instance has no worker.
LEMMA OneWorker ==
    RecInv => NoTwin
<1> SUFFICES ASSUME RecInv, ~blind, NEW p \in Pids, Orphan(p) PROVE workers[os[p].inst] = NoWorker
  BY DEF NoTwin
<1>1. os[p].inst \in Instances
  BY DEF RecInv, RecTypeOK, Orphan, Process, Gone
<1> QED BY <1>1 DEF RecInv, Stages, Settled, OrphansBlocked

\* When launches are allowed an orphan blocks its instance, and an instance
\* with an orphan gets no second worker (supervisor/reconcile.go:
\* ReconcileStaleWorkers, orphanCleanupBlocked).
THEOREM NoTwins ==
    ASSUME RecoveryAssumption PROVE  RecSpec => [](OrphansBlocked /\ NoTwin)
<1>1. RecInv => OrphansBlocked /\ NoTwin
  BY OneWorker DEF RecInv
<1> QED BY <1>1, RecoveryInductive, PTL

\* A row is cleared for a process that is gone or is not the one it names.
LEMMA TraceStays ==
    ASSUME RecoveryAssumption, RecInv, [RecNext]_recVars
    PROVE  TraceKept
<1> SUFFICES ASSUME boot # "up", NEW i \in Instances, rows[i] # NoRow, rows'[i] = NoRow
             PROVE  ~Alive(rows[i].pid, rows[i].num)
  BY DEF TraceKept
<1>1. RecTypeOK /\ Stages /\ Traces
  BY DEF RecInv
<1>2. ASSUME NEW r \in todo, CheckRow(r)
      PROVE  ~Alive(rows[i].pid, rows[i].num)
  <2>1. r.inst = i /\ r.num = rows[i].num /\ r.pid = rows[i].pid
    BY <1>1, <1>2 DEF CheckRow, RecInv, Current, RecTypeOK, Stale
  <2>2. Alive(r.pid, r.num) => Proven(r) /\ ~Unreadable(r)
    BY <1>1, <2>1 DEF Traces, Names, Alive, Proven, Unreadable, RecTypeOK, Row, NoRow
  <2>3. ~Unreadable(r) /\ (Mismatch(r) \/ ~Proven(r))
    BY <1>2 DEF CheckRow
  <2> QED BY <2>1, <2>2, <2>3 DEF Mismatch
<1>3. ASSUME Forget PROVE ~Alive(rows[i].pid, rows[i].num)
  <2>1. rows[i].num = target.num /\ i = target.inst
    BY <1>1, <1>3 DEF Forget, RecTypeOK, NoRow
  <2>2. ~Alive(target.pid, target.num) /\ target # NoTarget
    BY <1>3 DEF RecInv, Settled, Forget, Stages, Handling
  <2>3. Alive(rows[i].pid, rows[i].num) => rows[i].pid = target.pid
    BY <1>1, <2>1, <2>2 DEF Traces, Names, Alive, RecTypeOK, Row, NoRow
  <2> QED BY <2>1, <2>2, <2>3
<1>4. ASSUME NEW j \in Instances, Persisted(j) \/ Reaped(j)
      PROVE  FALSE
  BY <1>1, <1>4 DEF Stages, Persisted, Reaped, NoWorker
<1>5. clearing = {}
  BY <1>1 DEF Stages
<1>6. ASSUME \/ \E p \in Pids : \/ Ends(p)
                                \/ \E j \in Instances : Launch(j, p)
                                \/ \E j \in Instances, k \in {"stranger", "hidden"} :
                                         StrangerStarts(p, k, j)
             \/ Crash \/ Restart \/ Scan \/ LoadRows \/ Reconciled
             \/ \E s \in scanned : CheckProc(s)
             \/ Terminate \/ Escalate \/ KillTarget \/ Despair \/ Release
             \/ UNCHANGED recVars
      PROVE  FALSE
  <2>1. UNCHANGED rows
    BY Zenon, <1>6 DEF Ends, Launch, StrangerStarts, Crash, Restart, Scan, LoadRows, Reconciled,
         CheckProc,
       Terminate, Escalate, KillTarget, Despair, AwaitGone, Release, Proceed, GiveUp, recVars
  <2> QED BY <2>1
<1> QED
  BY <1>2, <1>3, <1>4, <1>5, <1>6 DEF RecNext, Reconcile

\* The reconciliation never clears the row of a process that lives
\* (supervisor/reconcile.go:ReconcileStaleWorkers).
THEOREM TraceNeverLost ==
    ASSUME RecoveryAssumption PROVE  RecSpec => [][TraceKept]_recVars
<1>1. RecInv /\ [RecNext]_recVars => [TraceKept]_recVars
  BY Zenon, TraceStays
<1> QED BY <1>1, RecoveryInductive, PTL DEF RecSpec

-----------------------------------------------------------------------------
(* Benchmarks: the inductive invariant, run by run.                        *)

\* CreateWithOverrides holds what it has taken so far.
MakingOK(r) ==
    /\ making[r] # "done" => stage[r] = "none" /\ proc[r] = "none"
    /\ making[r] \in {"new", "held", "commit", "insert"} => bench[r] = "none"
    /\ making[r] = "new" => hold[r] = "none"
    /\ making[r] \in {"held", "commit"} => hold[r] = "reserved"
    /\ making[r] \in {"insert", "register"} => hold[r] = "committed"
    /\ making[r] = "register" => bench[r] \in {"QUEUED", "CANCELLED", "deleted"}
    /\ making[r] = "done" => stage[r] # "none"

Working == {"begin", "exec", "wait", "decide", "write", "fail"}
Listed  == Working \cup {"unlist"}

\* runJob has its lease until it releases it, and its row once it has begun.
JobOK(r) ==
    /\ stage[r] \in Listed \cup {"release"} => hold[r] = "committed"
    /\ stage[r] = "over" => hold[r] = "none"
    /\ stage[r] = "begin" => proc[r] = "none" /\ bench[r] \in {"QUEUED", "CANCELLED", "deleted"}
    /\ stage[r] \in Working \ {"begin"} => bench[r] = "RUNNING"
    /\ stage[r] = "write" => outcome[r] \in Ended
    /\ proc[r] = "alive" <=> stage[r] = "wait"
    /\ r \in listedRun <=> stage[r] \in Listed

\* What a caller has read cannot go back; a row that is live has somebody.
RowOK(r) ==
    /\ r \in deleter => bench[r] \in Ended \cup {"deleted"}
    /\ r \in results <=> bench[r] = "COMPLETED"
    /\ Awake /\ faulty = 0 /\ bench[r] \in Live => making[r] = "register" \/ stage[r] \in Working

\* A manager that is not up has no goroutines.
Quiet(r) ==
    /\ making[r] \in {"new", "done"} /\ stage[r] \in {"none", "over"}
    /\ canceller[r] = "none" /\ r \notin deleter

RunOK(r) == MakingOK(r) /\ JobOK(r) /\ RowOK(r) /\ (~Awake => Quiet(r))

BenchInv == BenchTypeOK /\ \A r \in Runs : RunOK(r)

-----------------------------------------------------------------------------
(* Benchmarks: it holds at first, and every step keeps it.                 *)

\* There are no runs at first.
LEMMA BenchBegins ==
    ASSUME BenchAssumption PROVE  BenchInit => BenchInv
  BY DEF BenchAssumption, BenchInit, BenchInv, BenchTypeOK, RunOK, MakingOK, JobOK, RowOK, Quiet, Working,
     Listed, Ended, Live, Status, Awake

\* The variables keep their types.
LEMMA BenchTyped ==
    ASSUME BenchAssumption, BenchInv, [BenchNext]_benchVars PROVE  BenchTypeOK'
<1> USE DEF BenchAssumption, BenchInv, BenchTypeOK, Ended, Live, Status, callers, counts
<1>1. ASSUME NEW r \in Runs, Reserve(r) PROVE BenchTypeOK'
  BY <1>1 DEF Reserve
<1>2. ASSUME NEW r \in Runs, Abandon(r) PROVE BenchTypeOK'
  BY <1>2 DEF Abandon
<1>3. ASSUME NEW r \in Runs, Map(r) PROVE BenchTypeOK'
  BY <1>3 DEF Map
<1>4. ASSUME NEW r \in Runs, CommitLease(r) PROVE BenchTypeOK'
  BY <1>4 DEF CommitLease
<1>5. ASSUME NEW r \in Runs, Insert(r) PROVE BenchTypeOK'
  BY <1>5 DEF Insert
<1>6. ASSUME NEW r \in Runs, Register(r) PROVE BenchTypeOK'
  BY <1>6 DEF Register, JobTo
<1>7. ASSUME NEW r \in Runs, BeginRun(r) PROVE BenchTypeOK'
  BY <1>7 DEF BeginRun, JobTo, Transition, Moves, CanTransition, WriteFails
<1>8. ASSUME NEW r \in Runs, Execute(r) PROVE BenchTypeOK'
  BY <1>8 DEF Execute, JobTo
<1>9. ASSUME NEW r \in Runs, Returns(r) PROVE BenchTypeOK'
  BY <1>9 DEF Returns, JobTo
<1>10. ASSUME NEW r \in Runs, Decide(r) PROVE BenchTypeOK'
  BY <1>10 DEF Decide, JobTo
<1>11. ASSUME NEW r \in Runs, Write(r) PROVE BenchTypeOK'
  BY <1>11 DEF Write, JobTo, Transition, Moves, CanTransition, WriteFails
<1>12. ASSUME NEW r \in Runs, FailRun(r) PROVE BenchTypeOK'
  BY <1>12 DEF FailRun, JobTo, Transition, Moves, CanTransition, WriteFails
<1>13. ASSUME NEW r \in Runs, Unlist(r) PROVE BenchTypeOK'
  BY <1>13 DEF Unlist, JobTo
<1>14. ASSUME NEW r \in Runs, ReleaseLease(r) PROVE BenchTypeOK'
  BY <1>14 DEF ReleaseLease, JobTo
<1>15. ASSUME NEW r \in Runs, CancelLooks(r) PROVE BenchTypeOK'
  BY <1>15 DEF CancelLooks
<1>16. ASSUME NEW r \in Runs, CancelActs(r) PROVE BenchTypeOK'
  BY <1>16 DEF CancelActs, Transition, Moves, CanTransition
<1>17. ASSUME NEW r \in Runs, DeleteLooks(r) PROVE BenchTypeOK'
  BY <1>17 DEF DeleteLooks
<1>18. ASSUME NEW r \in Runs, DeleteRun(r) PROVE BenchTypeOK'
  BY <1>18 DEF DeleteRun
<1>19. ASSUME NEW r \in Runs, ReconcileRow(r) PROVE BenchTypeOK'
  BY <1>19 DEF ReconcileRow, Transition, Moves, CanTransition
<1>20. ASSUME NEW r \in Runs, OrphanEnds(r) PROVE BenchTypeOK'
  BY <1>20 DEF OrphanEnds
<1>21. CASE StopManager
  BY <1>21 DEF StopManager
<1>22. CASE Exit
  BY <1>22 DEF Exit, ManagerGone
<1>23. CASE ManagerCrash
  BY <1>23 DEF ManagerCrash, ManagerGone
<1>24. CASE ManagerRestart
  BY <1>24 DEF ManagerRestart
<1>25. CASE Serve
  BY <1>25 DEF Serve
<1>26. CASE UNCHANGED benchVars
  BY <1>26 DEF benchVars
<1> QED
  BY Zenon, <1>1, <1>2, <1>3, <1>4, <1>5, <1>6, <1>7, <1>8, <1>9, <1>10, <1>11, <1>12, <1>13, <1>14,
      <1>15, <1>16, <1>17, <1>18, <1>19, <1>20, <1>21, <1>22, <1>23, <1>24, <1>25, <1>26
     DEF BenchNext, Make, RunJob, Ask

\* A step of one run, or of the manager, leaves every run in order.
LEMMA RunsKept ==
    ASSUME BenchAssumption, BenchInv, [BenchNext]_benchVars PROVE  \A x \in Runs : RunOK(x)'
<1> USE DEF BenchInv, BenchTypeOK, Ended, Live, Status, Awake, callers, counts, RunOK, MakingOK, JobOK,
    RowOK, Quiet, Working, Listed, BenchAssumption
<1>1. ASSUME NEW r \in Runs, Reserve(r) PROVE \A x \in Runs : RunOK(x)'
  BY <1>1 DEF Reserve
<1>2. ASSUME NEW r \in Runs, Abandon(r) PROVE \A x \in Runs : RunOK(x)'
  BY <1>2 DEF Abandon
<1>3. ASSUME NEW r \in Runs, Map(r) PROVE \A x \in Runs : RunOK(x)'
  BY <1>3 DEF Map
<1>4. ASSUME NEW r \in Runs, CommitLease(r) PROVE \A x \in Runs : RunOK(x)'
  BY <1>4 DEF CommitLease
<1>5. ASSUME NEW r \in Runs, Insert(r) PROVE \A x \in Runs : RunOK(x)'
  BY <1>5 DEF Insert
<1>6. ASSUME NEW r \in Runs, Register(r) PROVE \A x \in Runs : RunOK(x)'
  BY <1>6 DEF Register, JobTo
<1>7. ASSUME NEW r \in Runs, BeginRun(r) PROVE \A x \in Runs : RunOK(x)'
  BY <1>7 DEF BeginRun, JobTo, Transition, Moves, CanTransition, WriteFails
<1>8. ASSUME NEW r \in Runs, Execute(r) PROVE \A x \in Runs : RunOK(x)'
  BY <1>8 DEF Execute, JobTo
<1>9. ASSUME NEW r \in Runs, Returns(r) PROVE \A x \in Runs : RunOK(x)'
  BY <1>9 DEF Returns, JobTo
<1>10. ASSUME NEW r \in Runs, Decide(r) PROVE \A x \in Runs : RunOK(x)'
  BY <1>10 DEF Decide, JobTo
<1>11. ASSUME NEW r \in Runs, Write(r) PROVE \A x \in Runs : RunOK(x)'
  BY <1>11 DEF Write, JobTo, Transition, Moves, CanTransition, WriteFails
<1>12. ASSUME NEW r \in Runs, FailRun(r) PROVE \A x \in Runs : RunOK(x)'
  BY <1>12 DEF FailRun, JobTo, Transition, Moves, CanTransition, WriteFails
<1>13. ASSUME NEW r \in Runs, Unlist(r) PROVE \A x \in Runs : RunOK(x)'
  BY <1>13 DEF Unlist, JobTo
<1>14. ASSUME NEW r \in Runs, ReleaseLease(r) PROVE \A x \in Runs : RunOK(x)'
  BY <1>14 DEF ReleaseLease, JobTo
<1>15. ASSUME NEW r \in Runs, CancelLooks(r) PROVE \A x \in Runs : RunOK(x)'
  BY <1>15 DEF CancelLooks
<1>16. ASSUME NEW r \in Runs, CancelActs(r) PROVE \A x \in Runs : RunOK(x)'
  BY <1>16 DEF CancelActs, Transition, Moves, CanTransition
<1>17. ASSUME NEW r \in Runs, DeleteLooks(r) PROVE \A x \in Runs : RunOK(x)'
  BY <1>17 DEF DeleteLooks
<1>18. ASSUME NEW r \in Runs, DeleteRun(r) PROVE \A x \in Runs : RunOK(x)'
  BY <1>18 DEF DeleteRun
<1>19. ASSUME NEW r \in Runs, ReconcileRow(r) PROVE \A x \in Runs : RunOK(x)'
  BY <1>19 DEF ReconcileRow, Transition, Moves, CanTransition
<1>20. ASSUME NEW r \in Runs, OrphanEnds(r) PROVE \A x \in Runs : RunOK(x)'
  BY <1>20 DEF OrphanEnds
<1>21. CASE StopManager
  BY <1>21 DEF StopManager
<1>22. CASE Exit
  BY <1>22 DEF Exit, ManagerGone
<1>23. CASE ManagerCrash
  BY <1>23 DEF ManagerCrash, ManagerGone
<1>24. CASE ManagerRestart
  BY <1>24 DEF ManagerRestart
<1>25. CASE Serve
  BY <1>25 DEF Serve
<1>26. CASE UNCHANGED benchVars
  BY <1>26 DEF benchVars
<1> QED
  BY ZenonT(60), <1>1, <1>2, <1>3, <1>4, <1>5, <1>6, <1>7, <1>8, <1>9, <1>10, <1>11, <1>12, <1>13, <1>14,
      <1>15, <1>16, <1>17, <1>18, <1>19, <1>20, <1>21, <1>22, <1>23, <1>24, <1>25, <1>26
     DEF BenchNext, Make, RunJob, Ask

-----------------------------------------------------------------------------
(* Benchmarks: the theorems.                                               *)

\* The invariant holds throughout.
THEOREM BenchInductive ==
    ASSUME BenchAssumption PROVE  BenchSpec => []BenchInv
<1>1. BenchInit => BenchInv
  BY BenchBegins
<1>2. BenchInv /\ [BenchNext]_benchVars => BenchInv'
  BY BenchTyped, RunsKept DEF BenchInv
<1> QED BY <1>1, <1>2, PTL DEF BenchSpec

\* What the invariant says of each run is what the properties ask.
LEMMA RunsInOrder ==
    BenchInv => ProcessCovered /\ LeaseOwned /\ ResultsMatch /\ RowsTended
<1> SUFFICES ASSUME BenchInv, NEW r \in Runs
             PROVE  /\ proc[r] = "alive" => hold[r] = "committed" /\ bench[r] = "RUNNING"
                    /\ hold[r] # "none" => \/ making[r] \in {"held", "commit", "insert", "register"}
                                           \/ stage[r] \notin {"none", "over"}
                    /\ r \in results <=> bench[r] = "COMPLETED"
                    /\ boss = "up" /\ faulty = 0 /\ bench[r] \in Live =>
                           making[r] = "register" \/ stage[r] \notin {"none", "release", "over"}
  BY DEF ProcessCovered, LeaseOwned, ResultsMatch, RowsTended
<1>1. RunOK(r) /\ BenchTypeOK
  BY DEF BenchInv
<1> QED BY <1>1 DEF RunOK, MakingOK, JobOK, RowOK, BenchTypeOK, Working, Listed, Awake

\* llama-bench runs only under a committed lease and for a row that says so, a
\* lease belongs to a run under way, results are stored with COMPLETED alone,
\* and a live row has somebody who will end it (benchmark/service.go:runJob).
THEOREM RunsSafe ==
    ASSUME BenchAssumption
    PROVE  BenchSpec => [](ProcessCovered /\ LeaseOwned /\ ResultsMatch /\ RowsTended)
  BY RunsInOrder, BenchInductive, PTL

\* A step changes no outcome.
LEMMA OutcomeStays ==
    ASSUME BenchInv, [BenchNext]_benchVars PROVE OutcomeFinal
<1> USE DEF BenchTypeOK, Ended, Live, Status, callers, counts, RunOK, MakingOK, RowOK, BenchInv
<1>1. ASSUME NEW r \in Runs, bench[r] \in Ended
      PROVE  bench'[r] \in {bench[r], "deleted"}
  <2>1. ASSUME NEW x \in Runs, Make(x)
        PROVE  bench' = bench \/ (bench[x] = "none" /\ bench' = [bench EXCEPT ![x] = "QUEUED"])
    <3>1. CASE Insert(x)
      BY <1>1, <3>1 DEF Insert
    <3>2. CASE Reserve(x) \/ Abandon(x) \/ Map(x) \/ CommitLease(x) \/ Register(x)
      BY <3>2 DEF Reserve, Abandon, Map, CommitLease, Register
    <3> QED BY <2>1, <3>1, <3>2 DEF Make
  <2>2. ASSUME NEW x \in Runs, RunJob(x) \/ Ask(x) \/ ReconcileRow(x) \/ OrphanEnds(x)
        PROVE  \/ bench' = bench
               \/ bench' = [bench EXCEPT ![x] = "deleted"]
               \/ bench[x] \in Live /\ \E s \in Status : bench' = [bench EXCEPT ![x] = s]
    <3>1. CASE RunJob(x)
      BY <3>1 DEF RunJob, BeginRun, Execute, Returns, Decide, Write, FailRun, Unlist, ReleaseLease, Transition,
         Moves, CanTransition
    <3>2. CASE Ask(x)
      BY <3>2 DEF Ask, CancelLooks, CancelActs, DeleteLooks, DeleteRun, Transition, Moves, CanTransition
    <3>3. CASE ReconcileRow(x) \/ OrphanEnds(x)
      BY <3>3 DEF ReconcileRow, OrphanEnds, Transition, Moves, CanTransition
    <3> QED BY <2>2, <3>1, <3>2, <3>3
  <2>3. CASE StopManager \/ Exit \/ ManagerCrash \/ ManagerRestart \/ Serve \/ UNCHANGED benchVars
    BY <1>1, <2>3 DEF StopManager, Exit, ManagerCrash, ManagerGone, ManagerRestart, Serve, benchVars
  <2> QED BY <1>1, <2>1, <2>2, <2>3 DEF BenchNext
<1> QED BY <1>1 DEF OutcomeFinal

\* Whatever a late cancel, a reconciliation or a second writer does, the outcome
\* of a run does not change once it is written (benchmark/store_sql.go:TransitionRun).
THEOREM OutcomesStay ==
    ASSUME BenchAssumption PROVE  BenchSpec => [][OutcomeFinal]_benchVars
<1>1. BenchInv /\ [BenchNext]_benchVars => OutcomeFinal
  BY OutcomeStays
<1> QED BY <1>1, BenchInductive, PTL DEF BenchSpec

-----------------------------------------------------------------------------
(* Downloads: what a goroutine holds at each of its steps.                 *)

Transfer == {"temp", "begin", "get", "read", "rename"}    \* the steps that work on a partial file

\* Which version the units of partial and final files are of, unless a file
\* changes between its HEAD and its GET.
OneVersion(content, v) == \A a \in DOMAIN content : content[a] = v
UnitsRight(j) ==
    /\ \A f \in Parts : Exists(part[j][f]) => OneVersion(part[j][f], row[j][f].etag)
    /\ run[j].pc \in {"temp", "begin", "get"} => run[j].etag = remote
    /\ run[j].pc = "begin" /\ Exists(part[j][run[j].f]) /\ Len(part[j][run[j].f]) > 0 => row[j][run[j].f].etag = run[j].etag
    /\ run[j].pc \in {"get", "read"} => row[j][run[j].f].etag = run[j].etag
    /\ run[j].pc = "read" => run[j].src = run[j].etag

\* A goroutine works on a file of the artifact and knows how much of it it has,
\* and completes the job only when every file is there.
RunRight(j) ==
    /\ run[j].pc \in Transfer \cup {"record"} => run[j].f \in Parts
    /\ run[j].pc = "read" => run[j].src \in 1..Versions
    /\ run[j].pc \in Transfer \ {"temp"} => LET f == run[j].f IN Exists(part[j][f]) => Len(part[j][f]) = run[j].at
    /\ run[j].pc = "complete" \/ job[j] = "COMPLETED" => \A f \in Parts : Whole(f)

\* A job that shows as active has a goroutine that was not cancelled.
Tended(j) ==
    up /\ job[j] \in Waiting =>
        \/ run[j] # NoRun /\ run[j].pc # "exit" /\ ~run[j].cancelled
        \/ j \in missed
        \/ \E r \in Requests : request[r] = [pc |-> "launch", j |-> j]

FinalRight(f) ==
    Exists(final[f]) => Full(final[f]) /\ (~MidChange => \A a, b \in DOMAIN final[f] : final[f][a] = final[f][b])

DlInv ==
    /\ DlTypeOK
    /\ \A f \in Parts : FinalRight(f)
    /\ \A j \in Jobs : RunRight(j) /\ Tended(j) /\ (~MidChange => UnitsRight(j))

\* With one job, the files come in order, a file is either partial or final,
\* and the rows say how long the finished ones are.
InOrder(j) ==
    /\ run[j].pc = "start" => run[j].f = 1
    /\ \A f \in Parts : Exists(part[j][f]) => ~Exists(final[f])
    /\ \A f \in Parts : Exists(part[j][f]) \/ Exists(final[f]) => \A g \in 1..(f - 1) : Exists(final[g])
    /\ run[j].pc \in Transfer \cup {"file", "record"} => \A g \in 1..(run[j].f - 1) : Exists(final[g]) /\ row[j][g].bytes = Len(final[g])
    /\ run[j].pc \in Transfer => ~Exists(final[run[j].f])
    /\ run[j].pc = "record" => Exists(final[run[j].f]) /\ Len(final[run[j].f]) = run[j].at
OneJob == \A j, k \in Jobs : j = k
LimitInv == OneJob => (\A j \in Jobs : InOrder(j)) /\ WithinLimit

-----------------------------------------------------------------------------
(* Downloads: every step keeps it.                                         *)

\* What the content of a file is.
LEMMA ContentIs ==
    ASSUME DownloadsAssumption
    PROVE  /\ \A c : c \in Content <=> \E n \in Offset : c \in [1..n -> 1..Versions]
           /\ \A c \in Content : c \in Seq(1..Versions) /\ Len(c) \in Offset
           /\ \A c \in Seq(1..Versions) : Len(c) \in Offset => c \in Content
           /\ \A c \in Content : c # NoPart
           /\ <<>> \in Content
<1>1. \A c : c \in Content <=> \E n \in Offset : c \in [1..n -> 1..Versions]
  BY DEF Content
<1>2. \A c \in Content : c \in Seq(1..Versions) /\ Len(c) \in Offset
  BY <1>1 DEF DownloadsAssumption, Offset
<1>3. \A c \in Seq(1..Versions) : Len(c) \in Offset => c \in Content
  BY <1>1 DEF DownloadsAssumption, Offset
<1>4. \A c \in Content : c # NoPart
  <2> SUFFICES ASSUME NEW c \in Content, c = NoPart PROVE FALSE
    OBVIOUS
  <2>1. PICK n \in Offset : c \in [1..n -> 1..Versions]
    BY <1>1
  <2>2. DOMAIN c = 1..1 /\ c[1] = 0
    BY DEF NoPart
  <2>3. 1 \in 1..n
    <3>1. DOMAIN c = 1..n
      BY <2>1
    <3>2. 1 \in 1..1
      OBVIOUS
    <3> QED BY <2>2, <3>1, <3>2
  <2>4. c[1] \in 1..Versions
    BY <2>1, <2>3
  <2> QED BY <2>2, <2>4
<1>5. <<>> \in Content
  <2>1. <<>> \in Seq(1..Versions) /\ Len(<<>>) = 0 /\ 0 \in Offset
    BY DEF Offset, DownloadsAssumption
  <2> QED BY <1>3, <2>1
<1> QED BY <1>1, <1>2, <1>3, <1>4, <1>5

\* What a run, a row and a request hold, and the type invariant by variable.
Going == [pc : {"start", "file", "temp", "begin", "get", "read", "rename", "record", "verify", "complete", "fail", "exit"},
           f : 1..(Files + 1), etag : 0..Versions, src : 0..Versions, at : Offset, cancelled : BOOLEAN]
RowOf == [state : {"QUEUED", "DOWNLOADING", "COMPLETED", "FAILED"}, bytes : Offset, etag : 0..Versions, temp : BOOLEAN]
AskOf == [pc : {"launch", "cancel", "wait", "retry", "clean", "delete"}, j : Jobs]
JobsTyped == job \in [Jobs -> Waiting \cup Terminal \cup {"absent", "removed"}]
RowsTyped == row \in [Jobs -> [Parts -> RowOf]]
PartsTyped == part \in [Jobs -> [Parts -> Content \cup {NoPart}]]
FinalTyped == final \in [Parts -> Content \cup {NoPart}]
RunsTyped == run \in [Jobs -> {NoRun} \cup Going]
AsksTyped == request \in [Requests -> {NoCall} \cup AskOf]
RestTyped ==
    remote \in 1..Versions /\ offer \in Offers /\ missed \subseteq Jobs /\ up \in BOOLEAN /\ stops \in 0..MaxStops

LEMMA TypeParts ==
    DlTypeOK <=> /\ JobsTyped /\ RowsTyped /\ PartsTyped /\ FinalTyped /\ RunsTyped /\ AsksTyped
                 /\ RestTyped
  BY DEF RestTyped, DlTypeOK, JobsTyped, RowsTyped, PartsTyped, FinalTyped, RunsTyped, AsksTyped, Going, RowOf, AskOf

\* Who is not where nobody is holds a record.
LEMMA GoingThen ==
    ASSUME RunsTyped, NEW j \in Jobs, run[j].pc # "none" PROVE run[j] \in Going
  BY DEF RunsTyped, NoRun

LEMMA AskingThen ==
    ASSUME AsksTyped, NEW r \in Requests, request[r].pc # "idle" PROVE request[r] \in AskOf
  BY DEF AsksTyped, NoCall

\* A changed entry of the right type leaves the table of its type.
LEMMA RunEdit ==
    ASSUME RunsTyped, NEW j \in Jobs, NEW x \in {NoRun} \cup Going, run' = [run EXCEPT ![j] = x]
    PROVE  RunsTyped'
  BY DEF RunsTyped

LEMMA RowEdit ==
    ASSUME RowsTyped, NEW j \in Jobs, NEW f \in Parts, NEW x \in RowOf, row' = [row EXCEPT ![j][f] = x]
    PROVE  RowsTyped'
  BY DEF RowsTyped

LEMMA PartEdit ==
    ASSUME PartsTyped, NEW j \in Jobs, NEW f \in Parts, NEW x \in Content \cup {NoPart}, part' = [part EXCEPT ![j][f] = x]
    PROVE  PartsTyped'
  BY DEF PartsTyped

LEMMA AskEdit ==
    ASSUME AsksTyped, NEW r \in Requests, NEW x \in {NoCall} \cup AskOf, request' = [request EXCEPT ![r] = x]
    PROVE  AsksTyped'
  BY DEF AsksTyped

\* The record of a run, a row or a request that is there.
LEMMA Held ==
    ASSUME DownloadsAssumption, DlInv
    PROVE  /\ \A j \in Jobs, f \in Parts : row[j][f] \in RowOf /\ part[j][f] \in Content \cup {NoPart}
           /\ \A f \in Parts : final[f] \in Content \cup {NoPart}
           /\ \A j \in Jobs : run[j].pc \in Transfer \cup {"record"} => run[j].f \in Parts
           /\ \A j \in Jobs, f \in Parts : Exists(part[j][f]) => part[j][f] \in Seq(1..Versions) /\ Len(part[j][f]) \in Offset
           /\ \A f \in Parts : Exists(final[f]) => final[f] \in Seq(1..Versions) /\ Len(final[f]) \in Offset
<1>1. RowsTyped /\ PartsTyped /\ FinalTyped /\ \A j \in Jobs : RunRight(j)
  BY TypeParts DEF DlInv
<1>2. \A j \in Jobs, f \in Parts : row[j][f] \in RowOf /\ part[j][f] \in Content \cup {NoPart}
  BY <1>1 DEF RowsTyped, PartsTyped
<1>3. \A f \in Parts : final[f] \in Content \cup {NoPart}
  BY <1>1 DEF FinalTyped
<1>4. \A j \in Jobs : run[j].pc \in Transfer \cup {"record"} => run[j].f \in Parts
  BY <1>1 DEF RunRight
<1> QED BY <1>2, <1>3, <1>4, ContentIs DEF Exists

\* The types after a step.
TypesNext ==
    /\ JobsTyped' /\ RowsTyped' /\ PartsTyped' /\ FinalTyped' /\ RunsTyped' /\ AsksTyped'
    /\ RestTyped'

\* Every step keeps the types.
LEMMA DlTyped ==
    ASSUME DownloadsAssumption, DlInv, [DlNext]_dlVars PROVE  DlTypeOK'
<1> SUFFICES TypesNext
  BY DEF RestTyped, TypesNext, DlTypeOK, JobsTyped, RowsTyped, PartsTyped, FinalTyped, RunsTyped, AsksTyped, Going, RowOf, AskOf
<1>0. /\ JobsTyped /\ RowsTyped /\ PartsTyped /\ FinalTyped /\ RunsTyped /\ AsksTyped
      /\ RestTyped
  BY TypeParts DEF DlInv
<1>1. ASSUME NEW j \in Jobs, Begin(j) PROVE TypesNext
  <2>1. run[j] \in Going
    BY <1>0, <1>1, GoingThen DEF Begin, Works, On, SetJob, Step
  <2>2. JobsTyped'
    BY <1>0, <1>1, <2>1 DEF Begin, Works, On, SetJob, Step, JobsTyped, Waiting, Terminal
  <2>3. RunsTyped'
    BY <1>0, <1>1, <2>1 DEF Begin, Works, On, SetJob, Step, RunsTyped, Going, NextFile, Stop, Launched, Parts,
       Offset, DownloadsAssumption
  <2>4. RowsTyped' /\ PartsTyped' /\ FinalTyped' /\ AsksTyped'
    BY <1>0, <1>1 DEF Begin, disk, others, world, dlVars, RowsTyped, PartsTyped, FinalTyped, AsksTyped
  <2>5. RestTyped'
    BY <1>0, <1>1 DEF RestTyped, Begin, others, world, DownloadsAssumption
  <2> QED BY <2>1, <2>2, <2>3, <2>4, <2>5 DEF TypesNext
<1>2. ASSUME NEW j \in Jobs, Look(j) PROVE TypesNext
  <2>1. run[j] \in Going
    BY <1>0, <1>2, GoingThen DEF Look, Works, On, SetRow, NextFile, Step, Whole, Exists
  <2>2. RowsTyped'
    <3>1. run[j].f \in Parts /\ row[j][run[j].f] \in RowOf
      BY <1>2, Held DEF Look
    <3>2. CASE Whole(run[j].f) /\ SetRow(j, run[j].f, [row[j][run[j].f] EXCEPT !.state = "COMPLETED", !.bytes = Len(final[run[j].f]), !.temp = FALSE])
      <4>1. Len(final[run[j].f]) \in Offset
        BY <3>1, <3>2, Held DEF Whole
      <4>2. [row[j][run[j].f] EXCEPT !.state = "COMPLETED", !.bytes = Len(final[run[j].f]), !.temp = FALSE] \in RowOf
        BY <3>1, <4>1 DEF RowOf
      <4> QED BY <1>0, <3>1, <3>2, <4>2, RowEdit DEF SetRow
    <3>3. CASE row' = row
      BY <1>0, <3>3 DEF RowsTyped
    <3> QED BY <1>2, <3>2, <3>3 DEF Look
  <2>3. RunsTyped'
    <3>1. /\ [run[j] EXCEPT !.pc = "temp", !.etag = remote] \in Going
          /\ [run[j] EXCEPT !.pc = "fail"] \in Going
          /\ run[j].f \in Parts => [run[j] EXCEPT !.pc = "file", !.f = @ + 1] \in Going
      <4>1. [run[j] EXCEPT !.pc = "temp", !.etag = remote] \in Going
        <5>1. remote \in 0..Versions
          BY <1>0 DEF RestTyped, DownloadsAssumption
        <5>2. \A x \in Going, v \in 0..Versions : [x EXCEPT !.pc = "temp", !.etag = v] \in Going
          BY DEF Going
        <5> QED BY <2>1, <5>1, <5>2
      <4>2. [run[j] EXCEPT !.pc = "fail"] \in Going
        BY <2>1 DEF Going
      <4>3. ASSUME run[j].f \in Parts PROVE [run[j] EXCEPT !.pc = "file", !.f = @ + 1] \in Going
        <5>1. run[j].f + 1 \in 1..(Files + 1)
          BY <4>3 DEF Parts, DownloadsAssumption
        <5>2. \A x \in Going : x.f + 1 \in 1..(Files + 1) => [x EXCEPT !.pc = "file", !.f = @ + 1] \in Going
          BY DEF Going
        <5> QED BY <2>1, <5>1, <5>2
      <4> QED BY <4>1, <4>2, <4>3
    <3>2. /\ run[j].f \in Parts
          /\ \/ run' = [run EXCEPT ![j] = [run[j] EXCEPT !.pc = "temp", !.etag = remote]]
             \/ run' = [run EXCEPT ![j] = [run[j] EXCEPT !.pc = "fail"]]
             \/ run' = [run EXCEPT ![j] = [run[j] EXCEPT !.pc = "file", !.f = @ + 1]]
      BY <1>0, <1>2 DEF Look, NextFile, Step, RunsTyped
    <3> QED BY <1>0, <3>1, <3>2, RunEdit
  <2>4. JobsTyped' /\ PartsTyped' /\ FinalTyped' /\ AsksTyped'
    BY <1>0, <1>2 DEF Look, disk, others, world, dlVars, JobsTyped, PartsTyped, FinalTyped, AsksTyped
  <2>5. RestTyped'
    BY <1>0, <1>2 DEF RestTyped, Look, others, world, DownloadsAssumption
  <2> QED BY <2>1, <2>2, <2>3, <2>4, <2>5 DEF TypesNext
<1>3. ASSUME NEW j \in Jobs, Resolve(j) PROVE TypesNext
  <2>1. run[j] \in Going
    BY <1>0, <1>3, GoingThen DEF Resolve, Works, On, SetRow, Exists
  <2>2. RunsTyped'
    <3>1. run[j].f \in Parts
      BY <1>3, Held DEF Resolve, Works, On, Transfer
    <3> DEFINE a == run'[j].at
    <3>2. PICK b \in Offset : run' = [run EXCEPT ![j] = [run[j] EXCEPT !.pc = "begin", !.at = b]]
      <4>1. PICK b : /\ run' = [run EXCEPT ![j] = [run[j] EXCEPT !.pc = "begin", !.at = b]]
                     /\ b = 0 \/ (Exists(part[j][run[j].f]) /\ b = Len(part[j][run[j].f]))
        BY <1>0, <1>3 DEF Resolve, RunsTyped
      <4>2. 0 \in Offset
        BY DEF Offset, DownloadsAssumption
      <4>3. Exists(part[j][run[j].f]) => Len(part[j][run[j].f]) \in Offset
        BY <3>1, Held
      <4> QED BY ZenonT(60), <4>1, <4>2, <4>3
    <3>3. [run[j] EXCEPT !.pc = "begin", !.at = b] \in Going
      BY <2>1 DEF Going
    <3> QED BY <1>0, <3>2, <3>3, RunEdit
  <2>3. PartsTyped'
    <3>1. run[j].f \in Parts
      BY <1>3, Held DEF Resolve, Works, On, Transfer
    <3>2. \E x : part' = [part EXCEPT ![j][run[j].f] = x] /\ (x = <<>> \/ x = part[j][run[j].f])
      BY <1>3 DEF Resolve
    <3>3. part[j][run[j].f] \in Content \cup {NoPart} /\ <<>> \in Content
      BY <3>1, Held, ContentIs
    <3> QED BY <1>0, <3>1, <3>2, <3>3, PartEdit
  <2>4. RowsTyped'
    <3>1. run[j].f \in Parts /\ row[j][run[j].f] \in RowOf
      BY <1>3, Held DEF Resolve, Works, On, Transfer
    <3>2. [row[j][run[j].f] EXCEPT !.temp = TRUE] \in RowOf
      BY <3>1 DEF RowOf
    <3> QED BY <1>0, <1>3, <3>1, <3>2, RowEdit DEF Resolve, SetRow
  <2>5. JobsTyped' /\ FinalTyped' /\ AsksTyped'
    BY <1>0, <1>3 DEF Resolve, disk, others, world, dlVars, JobsTyped, FinalTyped, AsksTyped
  <2>6. RestTyped'
    BY <1>0, <1>3 DEF RestTyped, Resolve, others, world, DownloadsAssumption
  <2> QED BY <2>1, <2>2, <2>3, <2>4, <2>5, <2>6 DEF TypesNext
<1>4. ASSUME NEW j \in Jobs, Record(j) PROVE TypesNext
  <2>1. run[j] \in Going
    BY <1>0, <1>4, GoingThen DEF Record, Works, On, SetRow, SetJob, Step
  <2>2. RowsTyped'
    <3>1. run[j].f \in Parts /\ row[j][run[j].f] \in RowOf
      BY <1>4, Held DEF Record, Works, On, Transfer
    <3>2. [row[j][run[j].f] EXCEPT !.state = "DOWNLOADING", !.bytes = run[j].at, !.etag = run[j].etag] \in RowOf
      BY <2>1, <3>1 DEF RowOf, Going
    <3> QED BY <1>0, <1>4, <3>1, <3>2, RowEdit DEF Record, SetRow
  <2>3. JobsTyped'
    BY <1>0, <1>4, <2>1 DEF Record, Works, On, SetRow, SetJob, Step, JobsTyped, Waiting, Terminal
  <2>4. RunsTyped'
    BY <1>0, <1>4, <2>1 DEF Record, Works, On, SetRow, SetJob, Step, RunsTyped, Going, NextFile, Stop, Launched,
       Parts, Offset, DownloadsAssumption
  <2>5. PartsTyped' /\ FinalTyped' /\ AsksTyped'
    BY <1>0, <1>4 DEF Record, disk, others, world, dlVars, PartsTyped, FinalTyped, AsksTyped
  <2>6. RestTyped'
    BY <1>0, <1>4 DEF RestTyped, Record, others, world, DownloadsAssumption
  <2> QED BY <2>1, <2>2, <2>3, <2>4, <2>5, <2>6 DEF TypesNext
<1>5. ASSUME NEW j \in Jobs, Fetch(j) PROVE TypesNext
  <2>1. run[j] \in Going
    BY <1>0, <1>5, GoingThen DEF Fetch, Works, On, Step
  <2>2. RunsTyped'
    BY <1>0, <1>5, <2>1 DEF Fetch, Works, On, Step, RunsTyped, Going, NextFile, Stop, Launched, Parts, Offset,
       DownloadsAssumption
  <2>3. PartsTyped'
    <3>1. run[j].f \in Parts
      BY <1>5, Held DEF Fetch, Works, On, Transfer
    <3>2. part' = part \/ part' = [part EXCEPT ![j][run[j].f] = <<>>]
      BY <1>5 DEF Fetch
    <3> QED BY <1>0, <3>1, <3>2, ContentIs, PartEdit DEF PartsTyped
  <2>4. JobsTyped' /\ RowsTyped' /\ FinalTyped' /\ AsksTyped'
    BY <1>0, <1>5 DEF Fetch, disk, others, world, dlVars, JobsTyped, RowsTyped, FinalTyped, AsksTyped
  <2>5. RestTyped'
    BY <1>0, <1>5 DEF RestTyped, Fetch, others, world, DownloadsAssumption
  <2> QED BY <2>1, <2>2, <2>3, <2>4, <2>5 DEF TypesNext
<1>6. ASSUME NEW j \in Jobs, ReadUnit(j) PROVE TypesNext
  <2>1. run[j] \in Going
    BY <1>0, <1>6, GoingThen DEF ReadUnit, Works, On, Step, Exists
  <2>2. RunsTyped'
    <3>1. run' = [run EXCEPT ![j] = [run[j] EXCEPT !.at = @ + 1]] \/ run' = [run EXCEPT ![j] = [run[j] EXCEPT !.pc = "fail"]]
      BY <1>0, <1>6 DEF ReadUnit, Step, RunsTyped
    <3>2. [run[j] EXCEPT !.at = @ + 1] \in Going /\ [run[j] EXCEPT !.pc = "fail"] \in Going
      BY <1>6, <2>1 DEF ReadUnit, Going, Offset, DownloadsAssumption
    <3> QED BY <1>0, <3>1, <3>2, RunEdit
  <2>3. PartsTyped'
    <3>1. run[j].f \in Parts
      BY <1>6, Held DEF ReadUnit, Works, On, Transfer
    <3>2. CASE part' = [part EXCEPT ![j][run[j].f] = Append(part[j][run[j].f], run[j].src)] /\ Exists(part[j][run[j].f])
      <4>1. part[j][run[j].f] \in Seq(1..Versions) /\ Len(part[j][run[j].f]) = run[j].at
        BY <1>6, <3>1, <3>2, Held DEF DlInv, RunRight, ReadUnit, Works, On, Transfer
      <4>2. run[j].src \in 1..Versions
        BY <1>6 DEF ReadUnit, Works, On, DlInv, RunRight
      <4>3. Append(part[j][run[j].f], run[j].src) \in Content
        <5>1. /\ Append(part[j][run[j].f], run[j].src) \in Seq(1..Versions)
              /\ Len(Append(part[j][run[j].f], run[j].src)) = run[j].at + 1
          BY <4>1, <4>2
        <5>2. run[j].at + 1 \in Offset
          BY <1>6, <2>1 DEF ReadUnit, Going, Offset, DownloadsAssumption
        <5> QED BY <5>1, <5>2, ContentIs
      <4> QED BY <1>0, <3>1, <3>2, <4>3, PartEdit
    <3>3. CASE part' = [part EXCEPT ![j][run[j].f] = part[j][run[j].f]]
      BY <1>0, <3>1, <3>3, Held, PartEdit
    <3>4. CASE part' = part
      BY <1>0, <3>4 DEF PartsTyped
    <3> QED BY <1>6, <3>2, <3>3, <3>4 DEF ReadUnit
  <2>4. RowsTyped'
    <3>1. run[j].f \in Parts /\ row[j][run[j].f] \in RowOf
      BY <1>6, Held DEF ReadUnit, Works, On, Transfer
    <3>2. [row[j][run[j].f] EXCEPT !.bytes = run[j].at + 1] \in RowOf
      BY <1>6, <2>1, <3>1 DEF ReadUnit, RowOf, Going, Offset, DownloadsAssumption
    <3>3. row' = row \/ row' = [row EXCEPT ![j][run[j].f] = [row[j][run[j].f] EXCEPT !.bytes = run[j].at + 1]]
      BY <1>0, <1>6, <3>1 DEF ReadUnit, RowsTyped
    <3> QED BY <1>0, <3>1, <3>2, <3>3, RowEdit DEF RowsTyped
  <2>5. JobsTyped' /\ FinalTyped' /\ AsksTyped'
    BY <1>0, <1>6 DEF ReadUnit, disk, others, world, dlVars, JobsTyped, FinalTyped, AsksTyped
  <2>6. RestTyped'
    BY <1>0, <1>6 DEF RestTyped, ReadUnit, others, world, DownloadsAssumption
  <2> QED BY <2>1, <2>2, <2>3, <2>4, <2>5, <2>6 DEF TypesNext
<1>7. ASSUME NEW j \in Jobs, ReadEnd(j) PROVE TypesNext
  <2>1. run[j] \in Going
    BY <1>0, <1>7, GoingThen DEF ReadEnd, Works, On, Step
  <2>2. RunsTyped'
    BY <1>0, <1>7, <2>1 DEF ReadEnd, Works, On, Step, RunsTyped, Going, NextFile, Stop, Launched, Parts, Offset,
       DownloadsAssumption
  <2>3. JobsTyped' /\ RowsTyped' /\ PartsTyped' /\ FinalTyped' /\ AsksTyped'
    BY <1>0, <1>7 DEF ReadEnd, disk, others, world, dlVars, JobsTyped, RowsTyped, PartsTyped, FinalTyped, AsksTyped
  <2>4. RestTyped'
    BY <1>0, <1>7 DEF RestTyped, ReadEnd, others, world, DownloadsAssumption
  <2> QED BY <2>1, <2>2, <2>3, <2>4 DEF TypesNext
<1>8. ASSUME NEW j \in Jobs, Promote(j) PROVE TypesNext
  <2>1. run[j] \in Going
    BY <1>0, <1>8, GoingThen DEF Promote, On, Step, Exists
  <2>2. FinalTyped'
    <3>1. run[j].f \in Parts /\ part[j][run[j].f] \in Content \cup {NoPart}
      BY <1>8, Held DEF Promote, On, Transfer
    <3>2. final' = final \/ final' = [final EXCEPT ![run[j].f] = part[j][run[j].f]]
      BY <1>8 DEF Promote, disk
    <3> QED BY <1>0, <3>1, <3>2 DEF FinalTyped
  <2>3. PartsTyped'
    <3>1. run[j].f \in Parts
      BY <1>8, Held DEF Promote, On, Transfer
    <3>2. part' = part \/ part' = [part EXCEPT ![j][run[j].f] = NoPart]
      BY <1>8 DEF Promote, disk
    <3> QED BY <1>0, <3>1, <3>2, PartEdit DEF PartsTyped
  <2>4. RunsTyped'
    BY <1>0, <1>8, <2>1 DEF Promote, On, Step, Exists, RunsTyped, Going, NextFile, Stop, Launched, Parts,
       Offset, DownloadsAssumption
  <2>5. JobsTyped' /\ RowsTyped' /\ AsksTyped'
    BY <1>0, <1>8 DEF Promote, disk, others, world, dlVars, JobsTyped, RowsTyped, AsksTyped
  <2>6. RestTyped'
    BY <1>0, <1>8 DEF RestTyped, Promote, others, world, DownloadsAssumption
  <2> QED BY <2>1, <2>2, <2>3, <2>4, <2>5, <2>6 DEF TypesNext
<1>9. ASSUME NEW j \in Jobs, Promoted(j) PROVE TypesNext
  <2>1. run[j] \in Going
    BY <1>0, <1>9, GoingThen DEF Promoted, Works, On, SetRow, NextFile
  <2>2. RowsTyped'
    <3>1. run[j].f \in Parts /\ row[j][run[j].f] \in RowOf
      BY <1>9, Held DEF Promoted, Works, On, Transfer
    <3>2. [row[j][run[j].f] EXCEPT !.state = "COMPLETED", !.bytes = run[j].at, !.temp = FALSE] \in RowOf
      BY <2>1, <3>1 DEF RowOf, Going
    <3> QED BY <1>0, <1>9, <3>1, <3>2, RowEdit DEF Promoted, SetRow
  <2>3. RunsTyped'
    BY <1>0, <1>9, <2>1 DEF Promoted, Works, On, SetRow, NextFile, RunsTyped, Going, Step, Stop, Launched,
       Parts, Offset, DownloadsAssumption
  <2>4. JobsTyped' /\ PartsTyped' /\ FinalTyped' /\ AsksTyped'
    BY <1>0, <1>9 DEF Promoted, disk, others, world, dlVars, JobsTyped, PartsTyped, FinalTyped, AsksTyped
  <2>5. RestTyped'
    BY <1>0, <1>9 DEF RestTyped, Promoted, others, world, DownloadsAssumption
  <2> QED BY <2>1, <2>2, <2>3, <2>4, <2>5 DEF TypesNext
<1>10. ASSUME NEW j \in Jobs, Verify(j) PROVE TypesNext
  <2>1. run[j] \in Going
    BY <1>0, <1>10, GoingThen DEF Verify, Works, On, SetJob, Step
  <2>2. JobsTyped'
    BY <1>0, <1>10, <2>1 DEF Verify, Works, On, SetJob, Step, JobsTyped, Waiting, Terminal
  <2>3. RunsTyped'
    BY <1>0, <1>10, <2>1 DEF Verify, Works, On, SetJob, Step, RunsTyped, Going, NextFile, Stop, Launched, Parts,
       Offset, DownloadsAssumption
  <2>4. RowsTyped' /\ PartsTyped' /\ FinalTyped' /\ AsksTyped'
    BY <1>0, <1>10 DEF Verify, disk, others, world, dlVars, RowsTyped, PartsTyped, FinalTyped, AsksTyped
  <2>5. RestTyped'
    BY <1>0, <1>10 DEF RestTyped, Verify, others, world, DownloadsAssumption
  <2> QED BY <2>1, <2>2, <2>3, <2>4, <2>5 DEF TypesNext
<1>11. ASSUME NEW j \in Jobs, Verified(j) PROVE TypesNext
  <2>1. run[j] \in Going
    BY <1>0, <1>11, GoingThen DEF Verified, Works, On, Step
  <2>2. RunsTyped'
    BY <1>0, <1>11, <2>1 DEF Verified, Works, On, Step, RunsTyped, Going, NextFile, Stop, Launched, Parts,
       Offset, DownloadsAssumption
  <2>3. JobsTyped' /\ RowsTyped' /\ PartsTyped' /\ FinalTyped' /\ AsksTyped'
    BY <1>0, <1>11 DEF Verified, disk, others, world, dlVars, JobsTyped, RowsTyped, PartsTyped, FinalTyped, AsksTyped
  <2>4. RestTyped'
    BY <1>0, <1>11 DEF RestTyped, Verified, others, world, DownloadsAssumption
  <2> QED BY <2>1, <2>2, <2>3, <2>4 DEF TypesNext
<1>12. ASSUME NEW j \in Jobs, Complete(j) PROVE TypesNext
  <2>1. run[j] \in Going
    BY <1>0, <1>12, GoingThen DEF Complete, Works, On, Step
  <2>2. JobsTyped'
    BY <1>0, <1>12, <2>1 DEF Complete, Works, On, Step, JobsTyped, Waiting, Terminal, SetJob
  <2>3. RunsTyped'
    BY <1>0, <1>12, <2>1 DEF Complete, Works, On, Step, RunsTyped, Going, NextFile, Stop, Launched, Parts,
       Offset, DownloadsAssumption
  <2>4. RowsTyped' /\ PartsTyped' /\ FinalTyped' /\ AsksTyped'
    BY <1>0, <1>12 DEF Complete, disk, others, world, dlVars, RowsTyped, PartsTyped, FinalTyped, AsksTyped
  <2>5. RestTyped'
    BY <1>0, <1>12 DEF RestTyped, Complete, others, world, DownloadsAssumption
  <2> QED BY <2>1, <2>2, <2>3, <2>4, <2>5 DEF TypesNext
<1>13. ASSUME NEW j \in Jobs, Fail(j) PROVE TypesNext
  <2>1. run[j] \in Going
    BY <1>0, <1>13, GoingThen DEF Fail, On, SetJob, Step
  <2>2. JobsTyped'
    BY <1>0, <1>13, <2>1 DEF Fail, On, SetJob, Step, JobsTyped, Waiting, Terminal
  <2>3. RowsTyped'
    <3>1. \A f \in Parts : [row[j][f] EXCEPT !.state = "FAILED"] \in RowOf /\ row[j][f] \in RowOf
      BY Held DEF RowOf
    <3>2. [f \in Parts |-> IF f = run[j].f THEN [row[j][f] EXCEPT !.state = "FAILED"] ELSE row[j][f]] \in [Parts -> RowOf]
      BY <3>1
    <3>3. row' = [row EXCEPT ![j] = [f \in Parts |-> IF f = run[j].f THEN [row[j][f] EXCEPT !.state = "FAILED"] ELSE row[j][f]]]
      BY <1>13 DEF Fail
    <3> QED BY <1>0, <3>2, <3>3 DEF RowsTyped
  <2>4. RunsTyped'
    BY <1>0, <1>13, <2>1 DEF Fail, On, SetJob, Step, RunsTyped, Going, NextFile, Stop, Launched, Parts, Offset,
       DownloadsAssumption
  <2>5. PartsTyped' /\ FinalTyped' /\ AsksTyped'
    BY <1>0, <1>13 DEF Fail, disk, others, world, dlVars, PartsTyped, FinalTyped, AsksTyped
  <2>6. RestTyped'
    BY <1>0, <1>13 DEF RestTyped, Fail, others, world, DownloadsAssumption
  <2> QED BY <2>1, <2>2, <2>3, <2>4, <2>5, <2>6 DEF TypesNext
<1>14. ASSUME NEW j \in Jobs, Cancelled(j) PROVE TypesNext
  <2>1. run[j] \in Going
    BY <1>0, <1>14, GoingThen DEF Cancelled, Step
  <2>2. RunsTyped'
    BY <1>0, <1>14, <2>1 DEF Cancelled, Step, RunsTyped, Going, NextFile, Stop, Launched, Parts, Offset,
       DownloadsAssumption
  <2>3. JobsTyped' /\ RowsTyped' /\ PartsTyped' /\ FinalTyped' /\ AsksTyped'
    BY <1>0, <1>14 DEF Cancelled, disk, others, world, dlVars, JobsTyped, RowsTyped, PartsTyped, FinalTyped, AsksTyped
  <2>4. RestTyped'
    BY <1>0, <1>14 DEF RestTyped, Cancelled, others, world, DownloadsAssumption
  <2> QED BY <2>1, <2>2, <2>3, <2>4 DEF TypesNext
<1>15. ASSUME NEW j \in Jobs, Unregister(j) PROVE TypesNext
  <2>1. run[j] \in Going
    BY <1>0, <1>15, GoingThen DEF Unregister, On
  <2>2. RunsTyped'
    BY <1>0, <1>15, <2>1 DEF Unregister, On, RunsTyped, Going, Step, NextFile, Stop, Launched, Parts, Offset,
       DownloadsAssumption
  <2>3. JobsTyped' /\ RowsTyped' /\ PartsTyped' /\ FinalTyped' /\ AsksTyped'
    BY <1>0, <1>15 DEF Unregister, disk, others, world, dlVars, JobsTyped, RowsTyped, PartsTyped, FinalTyped,
       AsksTyped
  <2>4. RestTyped'
    BY <1>0, <1>15 DEF RestTyped, Unregister, others, world, DownloadsAssumption
  <2> QED BY <2>1, <2>2, <2>3, <2>4 DEF TypesNext
<1>16. ASSUME NEW j \in Jobs, NEW r \in Makers, Create(r, j) PROVE TypesNext
  <2>1. JobsTyped'
    BY <1>0, <1>16 DEF Create, Asking, AskAt, Requests, JobsTyped, Waiting, Terminal, SetJob
  <2>2. AsksTyped'
    BY <1>0, <1>16 DEF Create, Asking, AskAt, Requests, AsksTyped, AskOf, Answers
  <2>3. RowsTyped' /\ PartsTyped' /\ FinalTyped' /\ RunsTyped'
    BY <1>0, <1>16 DEF Create, disk, others, world, dlVars, RowsTyped, PartsTyped, FinalTyped, RunsTyped,
       Answers, AskAt
  <2>4. RestTyped'
    BY <1>0, <1>16 DEF RestTyped, Create, others, world, DownloadsAssumption
  <2> QED BY <2>1, <2>2, <2>3, <2>4 DEF TypesNext
<1>17. ASSUME NEW j \in Jobs, NEW r \in Makers, Retry(r, j) PROVE TypesNext
  <2>1. AsksTyped'
    BY <1>0, <1>17 DEF Retry, Asking, AskAt, Requests, AsksTyped, AskOf, Answers
  <2>2. JobsTyped' /\ RowsTyped' /\ PartsTyped' /\ FinalTyped' /\ RunsTyped'
    BY <1>0, <1>17 DEF Retry, disk, others, world, dlVars, JobsTyped, RowsTyped, PartsTyped, FinalTyped,
       RunsTyped, Answers, AskAt
  <2>3. RestTyped'
    BY <1>0, <1>17 DEF RestTyped, Retry, others, world, DownloadsAssumption
  <2> QED BY <2>1, <2>2, <2>3 DEF TypesNext
<1>18. ASSUME NEW j \in Jobs, NEW r \in Breakers, Cancel(r, j) PROVE TypesNext
  <2>1. JobsTyped'
    BY <1>0, <1>18 DEF Cancel, Asking, AskAt, Requests, JobsTyped, Waiting, Terminal, SetJob
  <2>2. AsksTyped'
    BY <1>0, <1>18 DEF Cancel, Asking, AskAt, Requests, AsksTyped, AskOf, Answers
  <2>3. RowsTyped' /\ PartsTyped' /\ FinalTyped' /\ RunsTyped'
    BY <1>0, <1>18 DEF Cancel, disk, others, world, dlVars, RowsTyped, PartsTyped, FinalTyped, RunsTyped,
       Answers, AskAt
  <2>4. RestTyped'
    BY <1>0, <1>18 DEF RestTyped, Cancel, others, world, DownloadsAssumption
  <2> QED BY <2>1, <2>2, <2>3, <2>4 DEF TypesNext
<1>19. ASSUME NEW j \in Jobs, NEW r \in Breakers, Remove(r, j) PROVE TypesNext
  <2>1. RunsTyped'
    <3>1. run[j] # NoRun => [run[j] EXCEPT !.cancelled = TRUE] \in Going
      BY ZenonT(60), <1>0 DEF RunsTyped, Going
    <3>2. run' = run \/ (run[j] # NoRun /\ run' = [run EXCEPT ![j] = [run[j] EXCEPT !.cancelled = TRUE]])
      BY <1>0, <1>19 DEF Remove, Stop, RunsTyped
    <3> QED BY <1>0, <3>1, <3>2, RunEdit DEF RunsTyped
  <2>2. AsksTyped'
    BY <1>0, <1>19 DEF Remove, Asking, AskAt, Stop, Requests, AsksTyped, AskOf, Answers
  <2>3. JobsTyped' /\ RowsTyped' /\ PartsTyped' /\ FinalTyped'
    BY <1>0, <1>19 DEF Remove, disk, others, world, dlVars, JobsTyped, RowsTyped, PartsTyped, FinalTyped,
       Answers, AskAt
  <2>4. RestTyped'
    BY <1>0, <1>19 DEF RestTyped, Remove, others, world, DownloadsAssumption
  <2> QED BY <2>1, <2>2, <2>3, <2>4 DEF TypesNext
<1>20. ASSUME NEW r \in Requests, LaunchJob(r) PROVE TypesNext
  <2>1. RunsTyped'
    <3> DEFINE i == request[r].j
               x == [pc |-> "start", f |-> 1, etag |-> 0, src |-> 0, at |-> 0, cancelled |-> FALSE]
    <3>1. i \in Jobs
      BY <1>0, <1>20, AskingThen DEF LaunchJob, Asking, AskOf
    <3>2. x \in Going
      BY DEF Going, Offset, DownloadsAssumption
    <3>3. run' = run \/ run' = [run EXCEPT ![i] = x]
      BY <1>20 DEF LaunchJob, Launched
    <3> HIDE DEF x
    <3> QED BY <1>0, <3>1, <3>2, <3>3, RunEdit DEF RunsTyped
  <2>2. AsksTyped'
    BY <1>0, <1>20 DEF LaunchJob, Asking, Answers, Launched, AsksTyped, AskOf, AskAt
  <2>3. JobsTyped' /\ RowsTyped' /\ PartsTyped' /\ FinalTyped'
    BY <1>0, <1>20 DEF LaunchJob, disk, others, world, dlVars, JobsTyped, RowsTyped, PartsTyped, FinalTyped,
       Answers, AskAt
  <2>4. RestTyped'
    BY <1>0, <1>20, AskingThen DEF RestTyped, LaunchJob, others, world, DownloadsAssumption, Asking, AskOf
  <2> QED BY <2>1, <2>2, <2>3, <2>4 DEF TypesNext
<1>21. ASSUME NEW r \in Requests, CancelRun(r) PROVE TypesNext
  <2>1. RunsTyped'
    <3> DEFINE i == request[r].j
    <3>1. i \in Jobs
      BY <1>0, <1>21, AskingThen DEF CancelRun, Asking, AskOf
    <3>2. run[i] # NoRun => [run[i] EXCEPT !.cancelled = TRUE] \in Going
      BY ZenonT(60), <1>0, <3>1 DEF RunsTyped, Going
    <3>3. run' = run \/ (run[i] # NoRun /\ run' = [run EXCEPT ![i] = [run[i] EXCEPT !.cancelled = TRUE]])
      BY <1>0, <1>21, <3>1 DEF CancelRun, Stop, RunsTyped
    <3> QED BY <1>0, <3>1, <3>2, <3>3, RunEdit DEF RunsTyped
  <2>2. AsksTyped'
    BY <1>0, <1>21 DEF CancelRun, Asking, Answers, Stop, AsksTyped, AskOf, AskAt
  <2>3. JobsTyped' /\ RowsTyped' /\ PartsTyped' /\ FinalTyped'
    BY <1>0, <1>21 DEF CancelRun, disk, others, world, dlVars, JobsTyped, RowsTyped, PartsTyped, FinalTyped,
       Answers, AskAt
  <2>4. RestTyped'
    BY <1>0, <1>21, AskingThen DEF RestTyped, CancelRun, others, world, DownloadsAssumption, Asking, AskOf
  <2> QED BY <2>1, <2>2, <2>3, <2>4 DEF TypesNext
<1>22. ASSUME NEW r \in Requests, WaitSlot(r) PROVE TypesNext
  <2>1. AsksTyped'
    <3>1. request[r] \in AskOf
      BY <1>0, <1>22, AskingThen DEF WaitSlot, Asking
    <3> QED BY <1>0, <1>22, <3>1, AskEdit DEF WaitSlot, AskAt, AskOf
  <2>2. JobsTyped' /\ RowsTyped' /\ PartsTyped' /\ FinalTyped' /\ RunsTyped'
    BY <1>0, <1>22 DEF WaitSlot, disk, others, world, dlVars, JobsTyped, RowsTyped, PartsTyped, FinalTyped,
       RunsTyped, Answers, AskAt
  <2>3. RestTyped'
    BY <1>0, <1>22 DEF RestTyped, WaitSlot, others, world, DownloadsAssumption
  <2> QED BY <2>1, <2>2, <2>3 DEF TypesNext
<1>23. ASSUME NEW r \in Requests, Requeue(r) PROVE TypesNext
  <2>1. JobsTyped'
    BY <1>0, <1>23 DEF Requeue, Asking, Answers, AskAt, JobsTyped, Waiting, Terminal, SetJob
  <2>2. RowsTyped'
    <3> DEFINE i == request[r].j
    <3>1. i \in Jobs
      BY <1>0, <1>23, AskingThen DEF Requeue, Asking, AskOf
    <3>2. \A f \in Parts : [row[i][f] EXCEPT !.state = "QUEUED"] \in RowOf /\ row[i][f] \in RowOf
      BY <3>1, Held DEF RowOf
    <3>3. [f \in Parts |-> IF row[i][f].state = "FAILED" THEN [row[i][f] EXCEPT !.state = "QUEUED"] ELSE row[i][f]] \in [Parts -> RowOf]
      BY <3>2
    <3>4. \/ row' = row
          \/ row' = [row EXCEPT ![i] = [f \in Parts |-> IF row[i][f].state = "FAILED" THEN [row[i][f] EXCEPT !.state = "QUEUED"] ELSE row[i][f]]]
      BY <1>23 DEF Requeue
    <3> QED BY <1>0, <3>1, <3>3, <3>4 DEF RowsTyped
  <2>3. AsksTyped'
    <3>1. request[r] \in AskOf
      BY <1>0, <1>23, AskingThen DEF Requeue, Asking
    <3>2. request' = [request EXCEPT ![r] = NoCall] \/ request' = [request EXCEPT ![r] = [pc |-> "launch", j |-> request[r].j]]
      BY <1>23 DEF Requeue, Answers, AskAt
    <3> QED BY <1>0, <3>1, <3>2, AskEdit DEF AskOf
  <2>4. PartsTyped' /\ FinalTyped' /\ RunsTyped'
    BY <1>0, <1>23 DEF Requeue, disk, others, world, dlVars, PartsTyped, FinalTyped, RunsTyped, Answers, AskAt
  <2>5. RestTyped'
    BY <1>0, <1>23 DEF RestTyped, Requeue, others, world, DownloadsAssumption
  <2> QED BY <2>1, <2>2, <2>3, <2>4, <2>5 DEF TypesNext
<1>24. ASSUME NEW r \in Requests, RemoveParts(r) PROVE TypesNext
  <2>1. PartsTyped'
    BY <1>0, <1>24, ContentIs DEF RemoveParts, Asking, AskAt, PartsTyped
  <2>2. AsksTyped'
    <3>1. request[r] \in AskOf
      BY <1>0, <1>24, AskingThen DEF RemoveParts, Asking
    <3> QED BY <1>0, <1>24, <3>1, AskEdit DEF RemoveParts, AskAt, AskOf
  <2>3. JobsTyped' /\ RowsTyped' /\ FinalTyped' /\ RunsTyped'
    BY <1>0, <1>24 DEF RemoveParts, disk, others, world, dlVars, JobsTyped, RowsTyped, FinalTyped, RunsTyped,
       Answers, AskAt
  <2>4. RestTyped'
    BY <1>0, <1>24 DEF RestTyped, RemoveParts, others, world, DownloadsAssumption
  <2> QED BY <2>1, <2>2, <2>3, <2>4 DEF TypesNext
<1>25. ASSUME NEW r \in Requests, RemoveRow(r) PROVE TypesNext
  <2>1. JobsTyped'
    BY <1>0, <1>25 DEF RemoveRow, Asking, Answers, JobsTyped, Waiting, Terminal, SetJob
  <2>2. AsksTyped'
    BY <1>0, <1>25 DEF RemoveRow, Asking, Answers, AsksTyped, AskOf, AskAt
  <2>3. RowsTyped' /\ PartsTyped' /\ FinalTyped' /\ RunsTyped'
    BY <1>0, <1>25 DEF RemoveRow, disk, others, world, dlVars, RowsTyped, PartsTyped, FinalTyped, RunsTyped,
       Answers, AskAt
  <2>4. RestTyped'
    BY <1>0, <1>25 DEF RestTyped, RemoveRow, others, world, DownloadsAssumption
  <2> QED BY <2>1, <2>2, <2>3, <2>4 DEF TypesNext
<1>26. CASE Shutdown
  <2>1. RunsTyped'
    BY <1>0, <1>26 DEF Shutdown, RunsTyped, Going, Step, NextFile, Stop, Launched, Parts, Offset, DownloadsAssumption
  <2>2. AsksTyped'
    BY <1>0, <1>26 DEF Shutdown, AsksTyped, AskOf, AskAt, Answers
  <2>3. JobsTyped' /\ RowsTyped' /\ PartsTyped' /\ FinalTyped'
    BY <1>0, <1>26 DEF Shutdown, disk, others, world, dlVars, JobsTyped, RowsTyped, PartsTyped, FinalTyped
  <2>4. RestTyped'
    <3>1. stops' \in 0..MaxStops
      BY <1>0, <1>26 DEF RestTyped, Shutdown, DownloadsAssumption
    <3>2. remote' = remote /\ offer' = offer /\ missed' = {} /\ up' = FALSE
      BY <1>26 DEF Shutdown
    <3> QED BY <1>0, <3>1, <3>2 DEF RestTyped
  <2> QED BY <2>1, <2>2, <2>3, <2>4 DEF TypesNext
<1>27. CASE ResumePending
  <2>1. JobsTyped'
    BY <1>0, <1>27 DEF ResumePending, JobsTyped, Waiting, Terminal, SetJob
  <2>2. RunsTyped'
    BY <1>0, <1>27 DEF ResumePending, RunsTyped, Going, Step, NextFile, Stop, Launched, Parts, Offset,
       DownloadsAssumption
  <2>3. RowsTyped' /\ PartsTyped' /\ FinalTyped' /\ AsksTyped'
    BY <1>0, <1>27 DEF ResumePending, disk, others, world, dlVars, RowsTyped, PartsTyped, FinalTyped, AsksTyped
  <2>4. RestTyped'
    BY <1>0, <1>27 DEF RestTyped, ResumePending, others, world, DownloadsAssumption
  <2> QED BY <2>1, <2>2, <2>3, <2>4 DEF TypesNext
<1>28. CASE Publish
  <2>1. JobsTyped' /\ RowsTyped' /\ PartsTyped' /\ FinalTyped' /\ RunsTyped' /\ AsksTyped'
    BY <1>0, <1>28 DEF Publish, disk, others, world, dlVars, JobsTyped, RowsTyped, PartsTyped, FinalTyped,
       RunsTyped, AsksTyped
  <2>2. RestTyped'
    BY <1>0, <1>28 DEF RestTyped, Publish, others, world, DownloadsAssumption
  <2> QED BY <2>1, <2>2 DEF TypesNext
<1>29. CASE UNCHANGED dlVars
  BY <1>0, <1>29 DEF RestTyped, dlVars, disk, TypesNext, JobsTyped, RowsTyped, PartsTyped, FinalTyped, RunsTyped, AsksTyped
<1> QED
  BY Zenon, <1>1, <1>2, <1>3, <1>4, <1>5, <1>6, <1>7, <1>8, <1>9, <1>10, <1>11, <1>12, <1>13, <1>14, <1>15,
     <1>16, <1>17, <1>18, <1>19, <1>20, <1>21, <1>22, <1>23, <1>24, <1>25, <1>26, <1>27, <1>28, <1>29
     DEF DlNext, RunStep, Continue

\* Final files only come, and what comes is whole and of one version.
\* A final file is only ever replaced by a partial one that is whole, of one
\* version.
LEMMA FinalsStay ==
    ASSUME DownloadsAssumption, DlInv, [DlNext]_dlVars
    PROVE  /\ \A f \in Parts : FinalRight(f)'
           /\ \A f \in Parts : Whole(f) => Whole(f)'
<1>0. \A f \in Parts : FinalRight(f)
  BY SMTT(60) DEF DlInv
<1>1. offer' = offer
  BY ZenonT(60) DEF DlNext, dlVars, RunStep, Begin, Look, Resolve, Record, Fetch, ReadUnit, ReadEnd, Promote, Promoted,
     Verify, Verified, Complete,
     Fail, Cancelled, Unregister, Create, Retry, Cancel, Remove, Continue, LaunchJob, CancelRun, WaitSlot, Requeue, RemoveParts, RemoveRow,
     Shutdown, ResumePending, Publish, others, world
<1>2. ASSUME final' # final
      PROVE  \E j \in Jobs : Promote(j) /\ final' = [final EXCEPT ![run[j].f] = part[j][run[j].f]]
  <2>1. \E j \in Jobs : Promote(j)
    BY ZenonT(60), <1>2 DEF DlNext, dlVars, RunStep, Begin, Look, Resolve, Record, Fetch, ReadUnit, ReadEnd, Promoted,
       Verify, Verified, Complete,
     Fail, Cancelled, Unregister, Create, Retry, Cancel, Remove, Continue, LaunchJob, CancelRun, WaitSlot, Requeue, RemoveParts, RemoveRow,
     Shutdown, ResumePending, Publish, others, world, disk
  <2> QED BY <1>2, <2>1 DEF Promote, disk
<1>3. ASSUME NEW j \in Jobs, Promote(j), final' # final
      PROVE  /\ run[j].f \in Parts /\ final' = [final EXCEPT ![run[j].f] = part[j][run[j].f]]
             /\ Exists(part[j][run[j].f]) /\ (offer.sized => Len(part[j][run[j].f]) = Length)
             /\ ~MidChange => \A a, b \in DOMAIN part[j][run[j].f] : part[j][run[j].f][a] = part[j][run[j].f][b]
  <2>1. final' = [final EXCEPT ![run[j].f] = part[j][run[j].f]] /\ Exists(part[j][run[j].f]) /\ (offer.sized => run[j].at = Length) /\ run[j].pc = "rename"
    BY <1>3 DEF Promote, On, disk
  <2>2. RunRight(j) /\ (~MidChange => UnitsRight(j))
    BY DEF DlInv
  <2>3. run[j].f \in Parts /\ Len(part[j][run[j].f]) = run[j].at
    BY <2>1, <2>2 DEF RunRight, Transfer
  <2> QED BY <2>1, <2>2, <2>3 DEF UnitsRight, OneVersion
<1>4. final \in [Parts -> Content \cup {NoPart}]
  BY DEF DlInv, DlTypeOK
<1>5. CASE final' = final
  BY <1>0, <1>1, <1>5 DEF FinalRight, Whole, Full, Exists
<1>6. CASE final' # final
  <2>1. PICK j \in Jobs : Promote(j)
    BY <1>2, <1>6
  <2>2. ASSUME NEW f \in Parts, f # run[j].f PROVE final'[f] = final[f]
    BY <1>3, <1>4, <1>6, <2>1, <2>2
  <2>3. final'[run[j].f] = part[j][run[j].f]
    BY <1>3, <1>4, <1>6, <2>1
  <2> QED BY <1>0, <1>1, <1>3, <1>6, <2>1, <2>2, <2>3 DEF FinalRight, Whole, Full, Exists
<1> QED BY <1>5, <1>6

\* A step leaves other runs as they are, and what it does to its own.
LEMMA RightElsewhere ==
    ASSUME NEW k \in Jobs, RunRight(k), run'[k] = run[k], job'[k] = job[k], part'[k] = part[k], \A f \in Parts : Whole(f) => Whole(f)'
    PROVE  RunRight(k)'
<1> PICK x : x = run[k]
  OBVIOUS
<1> PICK y : y = run'[k]
  OBVIOUS
<1>1. x = y
  OBVIOUS
<1> QED BY <1>1 DEF RunRight, Exists

LEMMA RightHere ==
    ASSUME NEW j \in Jobs, RunRight(j), job' = job, \A f \in Parts : Whole(f) => Whole(f)',
           NEW x, run'[j] = x, x.pc # "complete",
           x.pc \in Transfer \cup {"record"} => x.f \in Parts,
           x.pc = "read" => x.src \in 1..Versions,
           x.pc \in Transfer \ {"temp"} => (part'[j][x.f] # NoPart => Len(part'[j][x.f]) = x.at)
    PROVE  RunRight(j)'
  BY DEF RunRight, Exists

\* Every step keeps what a run holds.
LEMMA RunsRight ==
    ASSUME DownloadsAssumption, DlInv, [DlNext]_dlVars PROVE  \A k \in Jobs : RunRight(k)'
<1>0. /\ JobsTyped /\ RowsTyped /\ PartsTyped /\ FinalTyped /\ RunsTyped /\ AsksTyped
  BY TypeParts DEF DlInv
<1>1. \A f \in Parts : Whole(f) => Whole(f)'
  BY FinalsStay
<1>2. \A k \in Jobs : RunRight(k)
  BY DEF DlInv
<1>3. ASSUME NEW j \in Jobs, Begin(j) PROVE \A k \in Jobs : RunRight(k)'
  BY <1>0, <1>1, <1>2, <1>3 DEF Begin, Works, On, SetJob, Step, disk, others, world, DlInv, RunRight, JobsTyped,
     PartsTyped, RunsTyped, Going, Transfer, Exists, NoRun, Waiting
<1>4. ASSUME NEW j \in Jobs, Look(j) PROVE \A k \in Jobs : RunRight(k)'
  <2>1. \A k \in Jobs \ {j} : run'[k] = run[k] /\ job'[k] = job[k] /\ part'[k] = part[k]
    BY <1>0, <1>1, <1>2, <1>4 DEF Look, Works, On, SetRow, NextFile, Step, disk, others, RunsTyped, PartsTyped,
       JobsTyped
  <2>2. \A k \in Jobs \ {j} : RunRight(k)'
    BY <1>0, <1>1, <1>2, <2>1, RightElsewhere
  <2>3. run'[j].pc \in {"temp", "fail", "file"} /\ (run'[j].pc = "temp" => run'[j].f \in Parts) /\ job' = job
    <3>1. run[j] \in Going /\ run[j].f \in Parts /\ job' = job
      BY <1>0, <1>4, GoingThen DEF Look, Works, On
    <3>2. \/ run'[j] = [run[j] EXCEPT !.pc = "temp", !.etag = remote]
          \/ run'[j] = [run[j] EXCEPT !.pc = "fail"]
          \/ run'[j] = [run[j] EXCEPT !.pc = "file", !.f = @ + 1]
      BY <1>0, <1>4 DEF Look, NextFile, Step, RunsTyped
    <3> QED BY <3>1, <3>2 DEF Going
  <2>9. RunRight(j)'
    BY <1>0, <1>1, <1>2, <2>3 DEF RunRight, Transfer
  <2> QED BY <2>2, <2>9
<1>5. ASSUME NEW j \in Jobs, Resolve(j) PROVE \A k \in Jobs : RunRight(k)'
  BY <1>0, <1>1, <1>2, <1>5 DEF Resolve, Works, On, SetRow, disk, others, world, DlInv, RunRight, JobsTyped,
     PartsTyped, RunsTyped, Going, Transfer, Exists, NoRun, Waiting
<1>6. ASSUME NEW j \in Jobs, Record(j) PROVE \A k \in Jobs : RunRight(k)'
  BY <1>0, <1>1, <1>2, <1>6 DEF Record, Works, On, SetRow, SetJob, Step, disk, others, world, DlInv, RunRight,
     JobsTyped, PartsTyped, RunsTyped, Going, Transfer, Exists, NoRun, Waiting
<1>7. ASSUME NEW j \in Jobs, Fetch(j) PROVE \A k \in Jobs : RunRight(k)'
  <2>1. \A k \in Jobs \ {j} : run'[k] = run[k] /\ job'[k] = job[k] /\ part'[k] = part[k]
    BY <1>0, <1>1, <1>2, <1>7 DEF Fetch, Works, On, Step, disk, others, RunsTyped, PartsTyped, JobsTyped
  <2>2. \A k \in Jobs \ {j} : RunRight(k)'
    BY <1>0, <1>1, <1>2, <2>1, RightElsewhere
  <2>3. run[j] \in Going /\ run[j].f \in Parts /\ run[j].pc = "get" /\ job' = job /\ remote \in 1..Versions
    BY <1>0, <1>7, GoingThen, Held DEF Fetch, Works, On, Transfer, DlInv, DlTypeOK
  <2>4. \/ run'[j] = [run[j] EXCEPT !.pc = "read", !.src = remote] /\ part' = part
        \/ run'[j] = [run[j] EXCEPT !.pc = "read", !.src = remote, !.at = 0] /\ part' = [part EXCEPT ![j][run[j].f] = <<>>]
        \/ run'[j] = [run[j] EXCEPT !.pc = "fail"]
    BY <1>0, <1>7 DEF Fetch, Step, RunsTyped
  <2>5. ASSUME run'[j] = [run[j] EXCEPT !.pc = "read", !.src = remote] /\ part' = part
        PROVE  RunRight(j)'
    <3>1. run'[j].pc = "read" /\ run'[j].f = run[j].f /\ run'[j].at = run[j].at /\ run'[j].src \in 1..Versions
      BY <2>3, <2>5 DEF Going
    <3>2. part'[j][run[j].f] # NoPart => Len(part'[j][run[j].f]) = run[j].at
      BY <1>2, <2>3, <2>5 DEF RunRight, Transfer, Exists
    <3> QED BY <1>1, <1>2, <2>3, <3>1, <3>2, RightHere DEF Transfer
  <2>6. ASSUME run'[j] = [run[j] EXCEPT !.pc = "read", !.src = remote, !.at = 0] /\ part' = [part EXCEPT ![j][run[j].f] = <<>>]
        PROVE  RunRight(j)'
    <3>1. run'[j].pc = "read" /\ run'[j].f = run[j].f /\ run'[j].at = 0 /\ run'[j].src \in 1..Versions
      BY <2>3, <2>6 DEF Going
    <3>2. part'[j][run[j].f] = <<>>
      BY <1>0, <2>3, <2>6 DEF PartsTyped
    <3> QED BY <1>1, <1>2, <2>3, <3>1, <3>2, RightHere DEF Transfer
  <2>7. ASSUME run'[j] = [run[j] EXCEPT !.pc = "fail"]
        PROVE  RunRight(j)'
    <3>1. run'[j].pc = "fail"
      BY <2>3, <2>7 DEF Going
    <3> QED BY <1>1, <1>2, <2>3, <3>1, RightHere DEF Transfer
  <2>9. RunRight(j)'
    BY <2>4, <2>5, <2>6, <2>7
  <2> QED BY <2>2, <2>9
<1>8. ASSUME NEW j \in Jobs, ReadUnit(j) PROVE \A k \in Jobs : RunRight(k)'
  <2>1. \A k \in Jobs \ {j} : run'[k] = run[k] /\ job'[k] = job[k] /\ part'[k] = part[k]
    BY <1>0, <1>1, <1>2, <1>8 DEF ReadUnit, Works, On, Step, disk, others, RunsTyped, PartsTyped, JobsTyped
  <2>2. \A k \in Jobs \ {j} : RunRight(k)'
    BY <1>0, <1>1, <1>2, <2>1, RightElsewhere
  <2>3. run[j] \in Going /\ run[j].f \in Parts /\ run[j].pc = "read" /\ job' = job
    BY <1>0, <1>8, GoingThen, Held DEF ReadUnit, Works, On, Transfer
  <2>4. \/ /\ run'[j] = [run[j] EXCEPT !.at = @ + 1]
           /\ part' = [part EXCEPT ![j][run[j].f] = IF Exists(@) THEN Append(@, run[j].src) ELSE @]
        \/ run'[j] = [run[j] EXCEPT !.pc = "fail"]
    BY <1>0, <1>8 DEF ReadUnit, Step, RunsTyped
  <2>5. ASSUME /\ run'[j] = [run[j] EXCEPT !.at = @ + 1]
             /\ part' = [part EXCEPT ![j][run[j].f] = IF Exists(@) THEN Append(@, run[j].src) ELSE @]
        PROVE  RunRight(j)'
    <3>1. run'[j].pc = "read" /\ run'[j].f = run[j].f /\ run'[j].at = run[j].at + 1 /\ run'[j].src = run[j].src
      BY <2>3, <2>5 DEF Going
    <3>2. part'[j][run[j].f] = IF Exists(part[j][run[j].f]) THEN Append(part[j][run[j].f], run[j].src) ELSE part[j][run[j].f]
      BY <1>0, <2>3, <2>5 DEF PartsTyped
    <3>3. Exists(part[j][run[j].f]) => /\ Len(part[j][run[j].f]) = run[j].at /\ part[j][run[j].f] \in Seq(1..Versions)
      BY <1>2, <2>3, Held DEF RunRight, Transfer
    <3>4. run[j].src \in 1..Versions
      BY <1>2, <2>3 DEF RunRight
    <3>5. Exists(part'[j][run[j].f]) => Len(part'[j][run[j].f]) = run[j].at + 1
      <4>1. CASE Exists(part[j][run[j].f])
        BY <3>2, <3>3, <3>4, <4>1
      <4>2. CASE ~Exists(part[j][run[j].f])
        BY <3>2, <4>2
      <4> QED BY SMTT(60), <4>1, <4>2
    <3> QED BY <1>1, <1>2, <2>3, <3>1, <3>4, <3>5, RightHere DEF Transfer, Exists
  <2>6. ASSUME run'[j] = [run[j] EXCEPT !.pc = "fail"]
        PROVE  RunRight(j)'
    <3>1. run'[j].pc = "fail"
      BY <2>3, <2>6 DEF Going
    <3> QED BY <1>1, <1>2, <2>3, <3>1, RightHere DEF Transfer
  <2>9. RunRight(j)'
    BY <2>4, <2>5, <2>6
  <2> QED BY <2>2, <2>9
<1>9. ASSUME NEW j \in Jobs, ReadEnd(j) PROVE \A k \in Jobs : RunRight(k)'
  <2>1. \A k \in Jobs \ {j} : run'[k] = run[k] /\ job'[k] = job[k] /\ part'[k] = part[k]
    BY <1>0, <1>1, <1>2, <1>9 DEF ReadEnd, Works, On, Step, disk, others, RunsTyped, PartsTyped, JobsTyped
  <2>2. \A k \in Jobs \ {j} : RunRight(k)'
    BY <1>0, <1>1, <1>2, <2>1, RightElsewhere
  <2>3. run[j] \in Going /\ run[j].f \in Parts /\ run[j].pc = "read" /\ job' = job /\ part' = part
    BY <1>0, <1>9, GoingThen, Held DEF ReadEnd, Works, On, Transfer, disk
  <2>4. run'[j] = [run[j] EXCEPT !.pc = "rename"] \/ run'[j] = [run[j] EXCEPT !.pc = "fail"]
    BY <1>0, <1>9 DEF ReadEnd, Step, RunsTyped
  <2>5. run'[j].pc \in {"rename", "fail"} /\ run'[j].f = run[j].f /\ run'[j].at = run[j].at
    BY <2>3, <2>4 DEF Going
  <2>9. RunRight(j)'
    BY <1>1, <1>2, <2>3, <2>5 DEF RunRight, Transfer, Exists
  <2> QED BY <2>2, <2>9
<1>10. ASSUME NEW j \in Jobs, Promote(j) PROVE \A k \in Jobs : RunRight(k)'
  BY SMTT(60), <1>0, <1>1, <1>2, <1>10 DEF Promote, On, Step, disk, others, world, DlInv, RunRight, JobsTyped, PartsTyped,
     RunsTyped, Going, Transfer, Exists, NoRun, Waiting
<1>11. ASSUME NEW j \in Jobs, Promoted(j) PROVE \A k \in Jobs : RunRight(k)'
  BY <1>0, <1>1, <1>2, <1>11 DEF Promoted, Works, On, SetRow, NextFile, disk, others, world, DlInv, RunRight,
     JobsTyped, PartsTyped, RunsTyped, Going, Transfer, Exists, NoRun, Waiting
<1>12. ASSUME NEW j \in Jobs, Verify(j) PROVE \A k \in Jobs : RunRight(k)'
  BY <1>0, <1>1, <1>2, <1>12 DEF Verify, Works, On, SetJob, Step, disk, others, world, DlInv, RunRight,
     JobsTyped, PartsTyped, RunsTyped, Going, Transfer, Exists, NoRun, Waiting
<1>13. ASSUME NEW j \in Jobs, Verified(j) PROVE \A k \in Jobs : RunRight(k)'
  BY <1>0, <1>1, <1>2, <1>13 DEF Verified, Works, On, Step, disk, others, world, DlInv, RunRight, JobsTyped,
     PartsTyped, RunsTyped, Going, Transfer, Exists, NoRun, Waiting
<1>14. ASSUME NEW j \in Jobs, Complete(j) PROVE \A k \in Jobs : RunRight(k)'
  BY <1>0, <1>1, <1>2, <1>14 DEF Complete, Works, On, Step, disk, others, world, DlInv, RunRight, JobsTyped,
     PartsTyped, RunsTyped, Going, Transfer, Exists, NoRun, Waiting
<1>15. ASSUME NEW j \in Jobs, Fail(j) PROVE \A k \in Jobs : RunRight(k)'
  BY <1>0, <1>1, <1>2, <1>15 DEF Fail, On, SetJob, Step, disk, others, world, DlInv, RunRight, JobsTyped,
     PartsTyped, RunsTyped, Going, Transfer, Exists, NoRun, Waiting
<1>16. ASSUME NEW j \in Jobs, Cancelled(j) PROVE \A k \in Jobs : RunRight(k)'
  BY <1>0, <1>1, <1>2, <1>16 DEF Cancelled, Step, disk, others, world, DlInv, RunRight, JobsTyped, PartsTyped,
     RunsTyped, Going, Transfer, Exists, NoRun, Waiting
<1>17. ASSUME NEW j \in Jobs, Unregister(j) PROVE \A k \in Jobs : RunRight(k)'
  BY <1>0, <1>1, <1>2, <1>17 DEF Unregister, On, disk, others, world, DlInv, RunRight, JobsTyped, PartsTyped,
     RunsTyped, Going, Transfer, Exists, NoRun, Waiting
<1>18. ASSUME NEW j \in Jobs, NEW r \in Makers, Create(r, j) PROVE \A k \in Jobs : RunRight(k)'
  BY <1>0, <1>1, <1>2, <1>18 DEF Create, Asking, AskAt, disk, others, world, DlInv, RunRight, JobsTyped,
     PartsTyped, RunsTyped, Going, Transfer, Exists, NoRun, Waiting
<1>19. ASSUME NEW j \in Jobs, NEW r \in Makers, Retry(r, j) PROVE \A k \in Jobs : RunRight(k)'
  BY <1>0, <1>1, <1>2, <1>19 DEF Retry, Asking, AskAt, disk, others, world, DlInv, RunRight, JobsTyped,
     PartsTyped, RunsTyped, Going, Transfer, Exists, NoRun, Waiting
<1>20. ASSUME NEW j \in Jobs, NEW r \in Breakers, Cancel(r, j) PROVE \A k \in Jobs : RunRight(k)'
  BY <1>0, <1>1, <1>2, <1>20 DEF Cancel, Asking, AskAt, disk, others, world, DlInv, RunRight, JobsTyped,
     PartsTyped, RunsTyped, Going, Transfer, Exists, NoRun, Waiting
<1>21. ASSUME NEW j \in Jobs, NEW r \in Breakers, Remove(r, j) PROVE \A k \in Jobs : RunRight(k)'
  BY <1>0, <1>1, <1>2, <1>21 DEF Remove, Asking, AskAt, Stop, disk, others, world, DlInv, RunRight, JobsTyped,
     PartsTyped, RunsTyped, Going, Transfer, Exists, NoRun, Waiting
<1>22. ASSUME NEW r \in Requests, LaunchJob(r) PROVE \A k \in Jobs : RunRight(k)'
  BY SMTT(60), <1>0, <1>1, <1>2, <1>22 DEF LaunchJob, Asking, Answers, Launched, disk, others, world, DlInv, RunRight,
     JobsTyped, PartsTyped, RunsTyped, Going, Transfer, Exists, NoRun, Waiting
<1>23. ASSUME NEW r \in Requests, CancelRun(r) PROVE \A k \in Jobs : RunRight(k)'
  BY <1>0, <1>1, <1>2, <1>23 DEF CancelRun, Asking, Answers, Stop, disk, others, world, DlInv, RunRight,
     JobsTyped, PartsTyped, RunsTyped, Going, Transfer, Exists, NoRun, Waiting
<1>24. ASSUME NEW r \in Requests, WaitSlot(r) PROVE \A k \in Jobs : RunRight(k)'
  BY <1>0, <1>1, <1>2, <1>24 DEF WaitSlot, Asking, AskAt, disk, others, world, DlInv, RunRight, JobsTyped,
     PartsTyped, RunsTyped, Going, Transfer, Exists, NoRun, Waiting
<1>25. ASSUME NEW r \in Requests, Requeue(r) PROVE \A k \in Jobs : RunRight(k)'
  BY <1>0, <1>1, <1>2, <1>25 DEF Requeue, Asking, Answers, AskAt, disk, others, world, DlInv, RunRight,
     JobsTyped, PartsTyped, RunsTyped, Going, Transfer, Exists, NoRun, Waiting
<1>26. ASSUME NEW r \in Requests, RemoveParts(r) PROVE \A k \in Jobs : RunRight(k)'
  BY <1>0, <1>1, <1>2, <1>26 DEF RemoveParts, Asking, AskAt, disk, others, world, DlInv, RunRight, JobsTyped,
     PartsTyped, RunsTyped, Going, Transfer, Exists, NoRun, Waiting
<1>27. ASSUME NEW r \in Requests, RemoveRow(r) PROVE \A k \in Jobs : RunRight(k)'
  BY <1>0, <1>1, <1>2, <1>27 DEF RemoveRow, Asking, Answers, disk, others, world, DlInv, RunRight, JobsTyped,
     PartsTyped, RunsTyped, Going, Transfer, Exists, NoRun, Waiting
<1>28. CASE Shutdown
  BY <1>0, <1>1, <1>2, <1>28 DEF Shutdown, disk, others, world, DlInv, RunRight, JobsTyped, PartsTyped,
     RunsTyped, Going, Transfer, Exists, NoRun, Waiting
<1>29. CASE ResumePending
  BY <1>0, <1>1, <1>2, <1>29 DEF ResumePending, disk, others, world, DlInv, RunRight, JobsTyped, PartsTyped,
     RunsTyped, Going, Transfer, Exists, NoRun, Waiting
<1>30. CASE Publish
  BY <1>0, <1>1, <1>2, <1>30 DEF Publish, disk, others, world, DlInv, RunRight, JobsTyped, PartsTyped,
     RunsTyped, Going, Transfer, Exists, NoRun, Waiting
<1>31. CASE UNCHANGED dlVars
  BY <1>0, <1>1, <1>2, <1>31 DEF dlVars, disk, others, world, DlInv, RunRight, JobsTyped, PartsTyped, RunsTyped,
     Going, Transfer, Exists, NoRun, Waiting
<1> QED
  BY Zenon, <1>3, <1>4, <1>5, <1>6, <1>7, <1>8, <1>9, <1>10, <1>11, <1>12, <1>13, <1>14, <1>15, <1>16, <1>17,
     <1>18, <1>19, <1>20, <1>21, <1>22, <1>23, <1>24, <1>25, <1>26, <1>27, <1>28, <1>29, <1>30, <1>31
     DEF DlNext, RunStep, Continue

\* Every step leaves active jobs with a goroutine.
LEMMA TendedKept ==
    ASSUME DownloadsAssumption, DlInv, [DlNext]_dlVars PROVE  \A k \in Jobs : Tended(k)'
<1>0. /\ JobsTyped /\ RowsTyped /\ PartsTyped /\ FinalTyped /\ RunsTyped /\ AsksTyped
  BY TypeParts DEF DlInv
<1>1. \A k \in Jobs : Tended(k)
  BY DEF DlInv
<1>2. ASSUME NEW j \in Jobs, Begin(j) PROVE \A k \in Jobs : Tended(k)'
  BY <1>0, <1>1, <1>2 DEF Begin, Works, On, SetJob, Step, disk, others, world, Requests, NoRun, NoCall,
     JobsTyped, RunsTyped, Going, AsksTyped, AskOf, Waiting, Terminal, Tended
<1>3. ASSUME NEW j \in Jobs, Look(j) PROVE \A k \in Jobs : Tended(k)'
  BY <1>0, <1>1, <1>3 DEF Look, Works, On, SetRow, NextFile, Step, disk, others, world, Requests, NoRun, NoCall,
     JobsTyped, RunsTyped, Going, AsksTyped, AskOf, Waiting, Terminal, Tended
<1>4. ASSUME NEW j \in Jobs, Resolve(j) PROVE \A k \in Jobs : Tended(k)'
  <2>1. run[j] \in Going /\ ~run[j].cancelled /\ run[j].pc = "temp"
    BY SMTT(60), <1>0, <1>4, GoingThen DEF Resolve, Works, On
  <2>2. \E b : run' = [run EXCEPT ![j] = [run[j] EXCEPT !.pc = "begin", !.at = b]]
    BY <1>0, <1>4 DEF Resolve, RunsTyped
  <2>3. run'[j].pc = "begin" /\ run'[j].cancelled = run[j].cancelled
    BY <1>0, <2>1, <2>2 DEF Going, RunsTyped
  <2>4. run'[j] # NoRun
    BY <2>3 DEF NoRun
  <2>5. \A k \in Jobs \ {j} : run'[k] = run[k]
    BY <1>0, <2>2 DEF RunsTyped
  <2>6. UNCHANGED <<job, request, missed, up>>
    BY <1>4 DEF Resolve, others
  <2> QED BY <1>1, <2>1, <2>3, <2>4, <2>5, <2>6 DEF Tended
<1>5. ASSUME NEW j \in Jobs, Record(j) PROVE \A k \in Jobs : Tended(k)'
  BY <1>0, <1>1, <1>5 DEF Record, Works, On, SetRow, SetJob, Step, disk, others, world, Requests, NoRun, NoCall,
     JobsTyped, RunsTyped, Going, AsksTyped, AskOf, Waiting, Terminal, Tended
<1>6. ASSUME NEW j \in Jobs, Fetch(j) PROVE \A k \in Jobs : Tended(k)'
  BY SMTT(60), <1>0, <1>1, <1>6 DEF Fetch, Works, On, Step, disk, others, world, Requests, NoRun, NoCall, JobsTyped,
     RunsTyped, Going, AsksTyped, AskOf, Waiting, Terminal, Tended
<1>7. ASSUME NEW j \in Jobs, ReadUnit(j) PROVE \A k \in Jobs : Tended(k)'
  BY <1>0, <1>1, <1>7 DEF ReadUnit, Works, On, Step, disk, others, world, Requests, NoRun, NoCall, JobsTyped,
     RunsTyped, Going, AsksTyped, AskOf, Waiting, Terminal, Tended
<1>8. ASSUME NEW j \in Jobs, ReadEnd(j) PROVE \A k \in Jobs : Tended(k)'
  BY <1>0, <1>1, <1>8 DEF ReadEnd, Works, On, Step, disk, others, world, Requests, NoRun, NoCall, JobsTyped,
     RunsTyped, Going, AsksTyped, AskOf, Waiting, Terminal, Tended
<1>9. ASSUME NEW j \in Jobs, Promote(j) PROVE \A k \in Jobs : Tended(k)'
  BY <1>0, <1>1, <1>9 DEF Promote, On, Step, disk, others, world, Requests, NoRun, NoCall, JobsTyped, RunsTyped,
     Going, AsksTyped, AskOf, Waiting, Terminal, Tended
<1>10. ASSUME NEW j \in Jobs, Promoted(j) PROVE \A k \in Jobs : Tended(k)'
  BY <1>0, <1>1, <1>10 DEF Promoted, Works, On, SetRow, NextFile, disk, others, world, Requests, NoRun, NoCall,
     JobsTyped, RunsTyped, Going, AsksTyped, AskOf, Waiting, Terminal, Tended
<1>11. ASSUME NEW j \in Jobs, Verify(j) PROVE \A k \in Jobs : Tended(k)'
  BY <1>0, <1>1, <1>11 DEF Verify, Works, On, SetJob, Step, disk, others, world, Requests, NoRun, NoCall,
     JobsTyped, RunsTyped, Going, AsksTyped, AskOf, Waiting, Terminal, Tended
<1>12. ASSUME NEW j \in Jobs, Verified(j) PROVE \A k \in Jobs : Tended(k)'
  BY <1>0, <1>1, <1>12 DEF Verified, Works, On, Step, disk, others, world, Requests, NoRun, NoCall, JobsTyped,
     RunsTyped, Going, AsksTyped, AskOf, Waiting, Terminal, Tended
<1>13. ASSUME NEW j \in Jobs, Complete(j) PROVE \A k \in Jobs : Tended(k)'
  BY <1>0, <1>1, <1>13 DEF Complete, Works, On, Step, disk, others, world, Requests, NoRun, NoCall, JobsTyped,
     RunsTyped, Going, AsksTyped, AskOf, Waiting, Terminal, Tended
<1>14. ASSUME NEW j \in Jobs, Fail(j) PROVE \A k \in Jobs : Tended(k)'
  BY <1>0, <1>1, <1>14 DEF Fail, On, SetJob, Step, disk, others, world, Requests, NoRun, NoCall, JobsTyped,
     RunsTyped, Going, AsksTyped, AskOf, Waiting, Terminal, Tended
<1>15. ASSUME NEW j \in Jobs, Cancelled(j) PROVE \A k \in Jobs : Tended(k)'
  BY <1>0, <1>1, <1>15 DEF Cancelled, Step, disk, others, world, Requests, NoRun, NoCall, JobsTyped, RunsTyped,
     Going, AsksTyped, AskOf, Waiting, Terminal, Tended
<1>16. ASSUME NEW j \in Jobs, Unregister(j) PROVE \A k \in Jobs : Tended(k)'
  BY <1>0, <1>1, <1>16 DEF Unregister, On, disk, others, world, Requests, NoRun, NoCall, JobsTyped, RunsTyped,
     Going, AsksTyped, AskOf, Waiting, Terminal, Tended
<1>17. ASSUME NEW j \in Jobs, NEW r \in Makers, Create(r, j) PROVE \A k \in Jobs : Tended(k)'
  BY <1>0, <1>1, <1>17 DEF Create, Asking, AskAt, disk, others, world, Requests, NoRun, NoCall, JobsTyped,
     RunsTyped, Going, AsksTyped, AskOf, Waiting, Terminal, Tended
<1>18. ASSUME NEW j \in Jobs, NEW r \in Makers, Retry(r, j) PROVE \A k \in Jobs : Tended(k)'
  BY <1>0, <1>1, <1>18 DEF Retry, Asking, AskAt, disk, others, world, Requests, NoRun, NoCall, JobsTyped,
     RunsTyped, Going, AsksTyped, AskOf, Waiting, Terminal, Tended
<1>19. ASSUME NEW j \in Jobs, NEW r \in Breakers, Cancel(r, j) PROVE \A k \in Jobs : Tended(k)'
  BY <1>0, <1>1, <1>19 DEF Cancel, Asking, AskAt, disk, others, world, Requests, NoRun, NoCall, JobsTyped,
     RunsTyped, Going, AsksTyped, AskOf, Waiting, Terminal, Tended
<1>20. ASSUME NEW j \in Jobs, NEW r \in Breakers, Remove(r, j) PROVE \A k \in Jobs : Tended(k)'
  BY <1>0, <1>1, <1>20 DEF Remove, Asking, AskAt, Stop, disk, others, world, Requests, NoRun, NoCall, JobsTyped,
     RunsTyped, Going, AsksTyped, AskOf, Waiting, Terminal, Tended
<1>21. ASSUME NEW r \in Requests, LaunchJob(r) PROVE \A k \in Jobs : Tended(k)'
  BY <1>0, <1>1, <1>21 DEF LaunchJob, Asking, Answers, Launched, disk, others, world, Requests, NoRun, NoCall,
     JobsTyped, RunsTyped, Going, AsksTyped, AskOf, Waiting, Terminal, Tended
<1>22. ASSUME NEW r \in Requests, CancelRun(r) PROVE \A k \in Jobs : Tended(k)'
  BY <1>0, <1>1, <1>22 DEF CancelRun, Asking, Answers, Stop, disk, others, world, Requests, NoRun, NoCall,
     JobsTyped, RunsTyped, Going, AsksTyped, AskOf, Waiting, Terminal, Tended
<1>23. ASSUME NEW r \in Requests, WaitSlot(r) PROVE \A k \in Jobs : Tended(k)'
  BY <1>0, <1>1, <1>23 DEF WaitSlot, Asking, AskAt, disk, others, world, Requests, NoRun, NoCall, JobsTyped,
     RunsTyped, Going, AsksTyped, AskOf, Waiting, Terminal, Tended
<1>24. ASSUME NEW r \in Requests, Requeue(r) PROVE \A k \in Jobs : Tended(k)'
  BY <1>0, <1>1, <1>24 DEF Requeue, Asking, Answers, AskAt, disk, others, world, Requests, NoRun, NoCall,
     JobsTyped, RunsTyped, Going, AsksTyped, AskOf, Waiting, Terminal, Tended
<1>25. ASSUME NEW r \in Requests, RemoveParts(r) PROVE \A k \in Jobs : Tended(k)'
  BY <1>0, <1>1, <1>25 DEF RemoveParts, Asking, AskAt, disk, others, world, Requests, NoRun, NoCall, JobsTyped,
     RunsTyped, Going, AsksTyped, AskOf, Waiting, Terminal, Tended
<1>26. ASSUME NEW r \in Requests, RemoveRow(r) PROVE \A k \in Jobs : Tended(k)'
  BY <1>0, <1>1, <1>26 DEF RemoveRow, Asking, Answers, disk, others, world, Requests, NoRun, NoCall, JobsTyped,
     RunsTyped, Going, AsksTyped, AskOf, Waiting, Terminal, Tended
<1>27. CASE Shutdown
  BY <1>0, <1>1, <1>27 DEF Shutdown, disk, others, world, Requests, NoRun, NoCall, JobsTyped, RunsTyped, Going,
     AsksTyped, AskOf, Waiting, Terminal, Tended
<1>28. CASE ResumePending
  BY <1>0, <1>1, <1>28 DEF ResumePending, disk, others, world, Requests, NoRun, NoCall, JobsTyped, RunsTyped,
     Going, AsksTyped, AskOf, Waiting, Terminal, Tended
<1>29. CASE Publish
  BY <1>0, <1>1, <1>29 DEF Publish, disk, others, world, Requests, NoRun, NoCall, JobsTyped, RunsTyped, Going,
     AsksTyped, AskOf, Waiting, Terminal, Tended
<1>30. CASE UNCHANGED dlVars
  BY <1>0, <1>1, <1>30 DEF dlVars, disk, others, world, Requests, NoRun, NoCall, JobsTyped, RunsTyped, Going,
     AsksTyped, AskOf, Waiting, Terminal, Tended
<1> QED
  BY Zenon, <1>2, <1>3, <1>4, <1>5, <1>6, <1>7, <1>8, <1>9, <1>10, <1>11, <1>12, <1>13, <1>14, <1>15, <1>16,
     <1>17, <1>18, <1>19, <1>20, <1>21, <1>22, <1>23, <1>24, <1>25, <1>26, <1>27, <1>28, <1>29, <1>30
     DEF DlNext, RunStep, Continue

\* The same two lemmas about the versions of what was read.
LEMMA UnitsElsewhere ==
    ASSUME NEW k \in Jobs, UnitsRight(k), run'[k] = run[k], part'[k] = part[k], remote' = remote,
           \A f \in Parts : row'[k][f].etag = row[k][f].etag, run[k].pc = "begin" \/ run[k].pc = "get" \/ run[k].pc = "read" => run[k].f \in Parts
    PROVE  UnitsRight(k)'
<1> PICK x : x = run[k]
  OBVIOUS
<1> PICK y : y = run'[k]
  OBVIOUS
<1>1. x = y
  OBVIOUS
<1> QED BY <1>1 DEF UnitsRight, Exists

LEMMA UnitsHere ==
    ASSUME NEW j \in Jobs, NEW x, run'[j] = x, x.pc \notin {"temp", "begin", "get"},
           \A f \in Parts : part'[j][f] # NoPart => OneVersion(part'[j][f], row'[j][f].etag),
           x.pc = "read" => row'[j][x.f].etag = x.etag /\ x.src = x.etag
    PROVE  UnitsRight(j)'
  BY DEF UnitsRight, Exists

\* No step mixes versions, if files do not change between HEAD and GET.
LEMMA UnitsKept ==
    ASSUME DownloadsAssumption, DlInv, ~MidChange, [DlNext]_dlVars PROVE  \A k \in Jobs : UnitsRight(k)'
<1>0. /\ JobsTyped /\ RowsTyped /\ PartsTyped /\ FinalTyped /\ RunsTyped /\ AsksTyped
  BY TypeParts DEF DlInv
<1>1. \A k \in Jobs : UnitsRight(k) /\ RunRight(k)
  BY DEF DlInv
<1>2. ASSUME NEW j \in Jobs, Begin(j) PROVE \A k \in Jobs : UnitsRight(k)'
  BY SMTT(60), <1>0, <1>1, <1>2 DEF Begin, Works, On, SetJob, Step, disk, others, world, RunRight, UnitsRight, RowsTyped,
     PartsTyped, RunsTyped, Going, Transfer, Exists, NoRun, OneVersion
<1>3. ASSUME NEW j \in Jobs, Look(j) PROVE \A k \in Jobs : UnitsRight(k)'
  BY SMTT(60), <1>0, <1>1, <1>3 DEF Look, Works, On, SetRow, NextFile, Step, disk, others, world, RunRight, UnitsRight,
     RowsTyped, PartsTyped, RunsTyped, Going, Transfer, Exists, NoRun, OneVersion
<1>4. ASSUME NEW j \in Jobs, Resolve(j) PROVE \A k \in Jobs : UnitsRight(k)'
  BY <1>0, <1>1, <1>4 DEF Resolve, Works, On, SetRow, disk, others, world, RunRight, UnitsRight, RowsTyped,
     PartsTyped, RunsTyped, Going, Transfer, Exists, NoRun, OneVersion
<1>5. ASSUME NEW j \in Jobs, Record(j) PROVE \A k \in Jobs : UnitsRight(k)'
  BY <1>0, <1>1, <1>5 DEF Record, Works, On, SetRow, SetJob, Step, disk, others, world, RunRight, UnitsRight,
     RowsTyped, PartsTyped, RunsTyped, Going, Transfer, Exists, NoRun, OneVersion
<1>6. ASSUME NEW j \in Jobs, Fetch(j) PROVE \A k \in Jobs : UnitsRight(k)'
  <2>1. \A k \in Jobs \ {j} : run'[k] = run[k] /\ row'[k] = row[k] /\ part'[k] = part[k] /\ remote' = remote
    BY <1>0, <1>1, <1>6 DEF Fetch, Works, On, Step, disk, others, RunsTyped, PartsTyped, RowsTyped
  <2>2. \A k \in Jobs \ {j} : UnitsRight(k)'
    BY <1>0, <1>1, <2>1, UnitsElsewhere DEF RunRight, Transfer
  <2>3. run[j] \in Going /\ run[j].f \in Parts
    BY <1>0, <1>6, GoingThen, Held DEF Fetch, Works, On, Transfer
  <2>8. \A f \in Parts : part[j][f] # NoPart => OneVersion(part[j][f], row[j][f].etag)
    BY <1>1 DEF UnitsRight, Exists
  <2>4. \/ run'[j] = [run[j] EXCEPT !.pc = "read", !.src = remote] /\ part' = part
        \/ run'[j] = [run[j] EXCEPT !.pc = "read", !.src = remote, !.at = 0] /\ part' = [part EXCEPT ![j][run[j].f] = <<>>]
        \/ run'[j] = [run[j] EXCEPT !.pc = "fail"] /\ part' = part
    BY <1>0, <1>6 DEF Fetch, Step, RunsTyped
  <2>5. run'[j].pc \in {"read", "fail"} /\ (run'[j].pc = "read" => run'[j].src = remote /\ run'[j].f = run[j].f /\ run'[j].etag = run[j].etag)
    BY <2>3, <2>4 DEF Going
  <2>6. \A f \in Parts : part'[j][f] # NoPart => part'[j][f] = <<>> \/ part'[j][f] = part[j][f]
    BY <1>0, <2>3, <2>4 DEF PartsTyped
  <2>7. row' = row /\ run[j].etag = remote /\ row[j][run[j].f].etag = run[j].etag
    BY <1>1, <1>6 DEF UnitsRight, Fetch, Works, On
  <2>10. \A f \in Parts : part'[j][f] # NoPart => OneVersion(part'[j][f], row'[j][f].etag)
    BY <2>6, <2>7, <2>8 DEF OneVersion
  <2>9. UnitsRight(j)'
    BY <2>5, <2>7, <2>10, UnitsHere
  <2> QED BY <2>2, <2>9
<1>7. ASSUME NEW j \in Jobs, ReadUnit(j) PROVE \A k \in Jobs : UnitsRight(k)'
  <2>1. \A k \in Jobs \ {j} : run'[k] = run[k] /\ row'[k] = row[k] /\ part'[k] = part[k] /\ remote' = remote
    BY <1>0, <1>1, <1>7 DEF ReadUnit, Works, On, Step, disk, others, RunsTyped, PartsTyped, RowsTyped
  <2>2. \A k \in Jobs \ {j} : UnitsRight(k)'
    BY <1>0, <1>1, <2>1, UnitsElsewhere DEF RunRight, Transfer
  <2>3. run[j] \in Going /\ run[j].f \in Parts
    BY <1>0, <1>7, GoingThen, Held DEF ReadUnit, Works, On, Transfer
  <2>8. \A f \in Parts : part[j][f] # NoPart => OneVersion(part[j][f], row[j][f].etag)
    BY <1>1 DEF UnitsRight, Exists
  <2>4. \/ run'[j] = [run[j] EXCEPT !.at = @ + 1]
        \/ run'[j] = [run[j] EXCEPT !.pc = "fail"]
    BY <1>0, <1>7 DEF ReadUnit, Step, RunsTyped
  <2>5. run'[j].pc \in {"read", "fail"} /\ run'[j].src = run[j].src /\ run'[j].f = run[j].f /\ run'[j].etag = run[j].etag
    BY <1>7, <2>3, <2>4 DEF Going, ReadUnit, Works, On
  <2>6. \A f \in Parts : row'[j][f].etag = row[j][f].etag
    <3>1. row' = row \/ row' = [row EXCEPT ![j][run[j].f].bytes = run[j].at + 1]
      BY <1>7 DEF ReadUnit
    <3>3. \A f \in Parts : row'[j][f] = row[j][f] \/ row'[j][f] = [row[j][f] EXCEPT !.bytes = run[j].at + 1]
      <4>1. CASE row' = row
        BY <4>1
      <4>2. CASE row' = [row EXCEPT ![j][run[j].f].bytes = run[j].at + 1]
        <5>1. row[j] \in [Parts -> RowOf] /\ row'[j] = [row[j] EXCEPT ![run[j].f] = [row[j][run[j].f] EXCEPT !.bytes = run[j].at + 1]]
          BY <1>0, <2>3, <4>2 DEF RowsTyped
        <5> QED BY <2>3, <5>1
      <4> QED BY <3>1, <4>1, <4>2
    <3> TAKE f \in Parts
    <3>4. row[j][f] \in RowOf
      BY Held
    <3> QED BY <3>3, <3>4 DEF RowOf
  <2>7. run[j].src = run[j].etag /\ row[j][run[j].f].etag = run[j].etag /\ run[j].src \in 1..Versions
    BY <1>1, <1>7 DEF UnitsRight, RunRight, ReadUnit, Works, On
  <2>10. \A f \in Parts : \/ part'[j][f] = part[j][f]
                          \/ f = run[j].f /\ part[j][f] # NoPart /\ part'[j][f] = Append(part[j][f], run[j].src)
    <3> TAKE f \in Parts
    <3>1. CASE part' = part
      BY <3>1
    <3>2. CASE part' = [part EXCEPT ![j][run[j].f] = IF Exists(@) THEN Append(@, run[j].src) ELSE @]
      <4>1. part[j] \in [Parts -> Content \cup {NoPart}]
        BY <1>0 DEF PartsTyped
      <4>2. part'[j] = [part[j] EXCEPT ![run[j].f] = IF Exists(@) THEN Append(@, run[j].src) ELSE @]
        BY <1>0, <3>2 DEF PartsTyped
      <4> QED BY <2>3, <4>1, <4>2 DEF Exists
    <3> QED BY <1>7, <3>1, <3>2 DEF ReadUnit
  <2>11. \A s \in Seq(1..Versions), v \in 1..Versions : OneVersion(s, v) => OneVersion(Append(s, v), v)
    BY DEF OneVersion
  <2>12. \A f \in Parts : part'[j][f] # NoPart => OneVersion(part'[j][f], row'[j][f].etag)
    <3> TAKE f \in Parts
    <3>1. CASE part'[j][f] = part[j][f]
      BY SMTT(60), <2>6, <2>8, <3>1
    <3>2. CASE f = run[j].f /\ part[j][f] # NoPart /\ part'[j][f] = Append(part[j][f], run[j].src)
      <4>1. part[j][f] \in Seq(1..Versions) /\ OneVersion(part[j][f], run[j].src)
        BY SMTT(60), <2>7, <2>8, <3>2, Held DEF Exists
      <4>2. row'[j][f].etag = run[j].src
        BY <2>6, <2>7, <3>2
      <4> QED BY SMTT(60), <2>7, <2>11, <3>2, <4>1, <4>2
    <3> QED BY <2>10, <3>1, <3>2
  <2>9. UnitsRight(j)'
    BY <2>3, <2>5, <2>6, <2>7, <2>12, UnitsHere
  <2> QED BY <2>2, <2>9
<1>8. ASSUME NEW j \in Jobs, ReadEnd(j) PROVE \A k \in Jobs : UnitsRight(k)'
  <2>1. \A k \in Jobs \ {j} : run'[k] = run[k] /\ row'[k] = row[k] /\ part'[k] = part[k] /\ remote' = remote
    BY <1>0, <1>1, <1>8 DEF ReadEnd, Works, On, Step, disk, others, RunsTyped, PartsTyped, RowsTyped
  <2>2. \A k \in Jobs \ {j} : UnitsRight(k)'
    BY <1>0, <1>1, <2>1, UnitsElsewhere DEF RunRight, Transfer
  <2>3. run[j] \in Going /\ run[j].f \in Parts
    BY <1>0, <1>8, GoingThen, Held DEF ReadEnd, Works, On, Transfer
  <2>8. \A f \in Parts : part[j][f] # NoPart => OneVersion(part[j][f], row[j][f].etag)
    BY <1>1 DEF UnitsRight, Exists
  <2>4. run'[j] = [run[j] EXCEPT !.pc = "rename"] \/ run'[j] = [run[j] EXCEPT !.pc = "fail"]
    BY <1>0, <1>8 DEF ReadEnd, Step, RunsTyped
  <2>5. run'[j].pc \in {"rename", "fail"} /\ row' = row /\ part' = part
    BY <1>8, <2>3, <2>4 DEF Going, ReadEnd, disk
  <2>9. UnitsRight(j)'
    BY <2>5, <2>8, UnitsHere
  <2> QED BY <2>2, <2>9
<1>9. ASSUME NEW j \in Jobs, Promote(j) PROVE \A k \in Jobs : UnitsRight(k)'
  <2>1. \A k \in Jobs \ {j} : run'[k] = run[k] /\ row'[k] = row[k] /\ part'[k] = part[k] /\ remote' = remote
    BY <1>0, <1>1, <1>9 DEF Promote, On, Step, disk, others, RunsTyped, PartsTyped, RowsTyped
  <2>2. \A k \in Jobs \ {j} : UnitsRight(k)'
    BY <1>0, <1>1, <2>1, UnitsElsewhere DEF RunRight, Transfer
  <2>3. run[j] \in Going /\ run[j].f \in Parts
    BY <1>0, <1>9, GoingThen, Held DEF Promote, Works, On, Transfer
  <2>8. \A f \in Parts : part[j][f] # NoPart => OneVersion(part[j][f], row[j][f].etag)
    BY <1>1 DEF UnitsRight, Exists
  <2>4. run'[j] = [run[j] EXCEPT !.pc = "record"] \/ run'[j] = [run[j] EXCEPT !.pc = "fail"]
    BY <1>0, <1>9 DEF Promote, Step, RunsTyped
  <2>5. run'[j].pc \in {"record", "fail"} /\ row' = row
    BY <1>9, <2>3, <2>4 DEF Going, Promote
  <2>6. \A f \in Parts : part'[j][f] = NoPart \/ part'[j][f] = part[j][f]
    BY <1>0, <1>9, <2>3 DEF Promote, disk, PartsTyped
  <2>10. \A f \in Parts : part'[j][f] # NoPart => OneVersion(part'[j][f], row'[j][f].etag)
    BY <2>5, <2>6, <2>8
  <2>9. UnitsRight(j)'
    BY <2>5, <2>10, UnitsHere
  <2> QED BY <2>2, <2>9
<1>10. ASSUME NEW j \in Jobs, Promoted(j) PROVE \A k \in Jobs : UnitsRight(k)'
  BY SMTT(60), <1>0, <1>1, <1>10 DEF Promoted, Works, On, SetRow, NextFile, disk, others, world, RunRight, UnitsRight,
     RowsTyped, PartsTyped, RunsTyped, Going, Transfer, Exists, NoRun, OneVersion
<1>11. ASSUME NEW j \in Jobs, Verify(j) PROVE \A k \in Jobs : UnitsRight(k)'
  BY <1>0, <1>1, <1>11 DEF Verify, Works, On, SetJob, Step, disk, others, world, RunRight, UnitsRight,
     RowsTyped, PartsTyped, RunsTyped, Going, Transfer, Exists, NoRun, OneVersion
<1>12. ASSUME NEW j \in Jobs, Verified(j) PROVE \A k \in Jobs : UnitsRight(k)'
  BY <1>0, <1>1, <1>12 DEF Verified, Works, On, Step, disk, others, world, RunRight, UnitsRight, RowsTyped,
     PartsTyped, RunsTyped, Going, Transfer, Exists, NoRun, OneVersion
<1>13. ASSUME NEW j \in Jobs, Complete(j) PROVE \A k \in Jobs : UnitsRight(k)'
  BY <1>0, <1>1, <1>13 DEF Complete, Works, On, Step, disk, others, world, RunRight, UnitsRight, RowsTyped,
     PartsTyped, RunsTyped, Going, Transfer, Exists, NoRun, OneVersion
<1>14. ASSUME NEW j \in Jobs, Fail(j) PROVE \A k \in Jobs : UnitsRight(k)'
  BY <1>0, <1>1, <1>14 DEF Fail, On, SetJob, Step, disk, others, world, RunRight, UnitsRight, RowsTyped,
     PartsTyped, RunsTyped, Going, Transfer, Exists, NoRun, OneVersion
<1>15. ASSUME NEW j \in Jobs, Cancelled(j) PROVE \A k \in Jobs : UnitsRight(k)'
  BY <1>0, <1>1, <1>15 DEF Cancelled, Step, disk, others, world, RunRight, UnitsRight, RowsTyped, PartsTyped,
     RunsTyped, Going, Transfer, Exists, NoRun, OneVersion
<1>16. ASSUME NEW j \in Jobs, Unregister(j) PROVE \A k \in Jobs : UnitsRight(k)'
  BY <1>0, <1>1, <1>16 DEF Unregister, On, disk, others, world, RunRight, UnitsRight, RowsTyped, PartsTyped,
     RunsTyped, Going, Transfer, Exists, NoRun, OneVersion
<1>17. ASSUME NEW j \in Jobs, NEW r \in Makers, Create(r, j) PROVE \A k \in Jobs : UnitsRight(k)'
  BY <1>0, <1>1, <1>17 DEF Create, Asking, AskAt, disk, others, world, RunRight, UnitsRight, RowsTyped,
     PartsTyped, RunsTyped, Going, Transfer, Exists, NoRun, OneVersion
<1>18. ASSUME NEW j \in Jobs, NEW r \in Makers, Retry(r, j) PROVE \A k \in Jobs : UnitsRight(k)'
  BY <1>0, <1>1, <1>18 DEF Retry, Asking, AskAt, disk, others, world, RunRight, UnitsRight, RowsTyped,
     PartsTyped, RunsTyped, Going, Transfer, Exists, NoRun, OneVersion
<1>19. ASSUME NEW j \in Jobs, NEW r \in Breakers, Cancel(r, j) PROVE \A k \in Jobs : UnitsRight(k)'
  BY <1>0, <1>1, <1>19 DEF Cancel, Asking, AskAt, disk, others, world, RunRight, UnitsRight, RowsTyped,
     PartsTyped, RunsTyped, Going, Transfer, Exists, NoRun, OneVersion
<1>20. ASSUME NEW j \in Jobs, NEW r \in Breakers, Remove(r, j) PROVE \A k \in Jobs : UnitsRight(k)'
  BY <1>0, <1>1, <1>20 DEF Remove, Asking, AskAt, Stop, disk, others, world, RunRight, UnitsRight, RowsTyped,
     PartsTyped, RunsTyped, Going, Transfer, Exists, NoRun, OneVersion
<1>21. ASSUME NEW r \in Requests, LaunchJob(r) PROVE \A k \in Jobs : UnitsRight(k)'
  BY SMTT(60), <1>0, <1>1, <1>21 DEF LaunchJob, Asking, Answers, Launched, disk, others, world, RunRight, UnitsRight,
     RowsTyped, PartsTyped, RunsTyped, Going, Transfer, Exists, NoRun, OneVersion
<1>22. ASSUME NEW r \in Requests, CancelRun(r) PROVE \A k \in Jobs : UnitsRight(k)'
  BY <1>0, <1>1, <1>22 DEF CancelRun, Asking, Answers, Stop, disk, others, world, RunRight, UnitsRight,
     RowsTyped, PartsTyped, RunsTyped, Going, Transfer, Exists, NoRun, OneVersion
<1>23. ASSUME NEW r \in Requests, WaitSlot(r) PROVE \A k \in Jobs : UnitsRight(k)'
  BY <1>0, <1>1, <1>23 DEF WaitSlot, Asking, AskAt, disk, others, world, RunRight, UnitsRight, RowsTyped,
     PartsTyped, RunsTyped, Going, Transfer, Exists, NoRun, OneVersion
<1>24. ASSUME NEW r \in Requests, Requeue(r) PROVE \A k \in Jobs : UnitsRight(k)'
  <2>1. run' = run /\ part' = part /\ remote' = remote
    BY <1>24 DEF Requeue, disk, world
  <2>2. \A k \in Jobs, f \in Parts : row'[k][f] = row[k][f] \/ row'[k][f] = [row[k][f] EXCEPT !.state = "QUEUED"]
    BY SMTT(60), <1>0, <1>24 DEF Requeue, RowsTyped
  <2>3. \A x \in RowOf : [x EXCEPT !.state = "QUEUED"].etag = x.etag
    BY DEF RowOf
  <2>4. \A k \in Jobs, f \in Parts : row'[k][f].etag = row[k][f].etag
    BY <2>2, <2>3, Held
  <2> QED BY <1>1, <2>1, <2>4, UnitsElsewhere DEF RunRight, Transfer
<1>25. ASSUME NEW r \in Requests, RemoveParts(r) PROVE \A k \in Jobs : UnitsRight(k)'
  BY <1>0, <1>1, <1>25 DEF RemoveParts, Asking, AskAt, disk, others, world, RunRight, UnitsRight, RowsTyped,
     PartsTyped, RunsTyped, Going, Transfer, Exists, NoRun, OneVersion
<1>26. ASSUME NEW r \in Requests, RemoveRow(r) PROVE \A k \in Jobs : UnitsRight(k)'
  BY <1>0, <1>1, <1>26 DEF RemoveRow, Asking, Answers, disk, others, world, RunRight, UnitsRight, RowsTyped,
     PartsTyped, RunsTyped, Going, Transfer, Exists, NoRun, OneVersion
<1>27. CASE Shutdown
  BY <1>0, <1>1, <1>27 DEF Shutdown, disk, others, world, RunRight, UnitsRight, RowsTyped, PartsTyped,
     RunsTyped, Going, Transfer, Exists, NoRun, OneVersion
<1>28. CASE ResumePending
  BY <1>0, <1>1, <1>28 DEF ResumePending, disk, others, world, RunRight, UnitsRight, RowsTyped, PartsTyped,
     RunsTyped, Going, Transfer, Exists, NoRun, OneVersion
<1>29. CASE Publish
  BY <1>0, <1>1, <1>29 DEF Publish, disk, others, world, RunRight, UnitsRight, RowsTyped, PartsTyped, RunsTyped,
     Going, Transfer, Exists, NoRun, OneVersion
<1>30. CASE UNCHANGED dlVars
  BY <1>0, <1>1, <1>30 DEF dlVars, disk, others, world, RunRight, UnitsRight, RowsTyped, PartsTyped, RunsTyped,
     Going, Transfer, Exists, NoRun, OneVersion
<1> QED
  BY Zenon, <1>2, <1>3, <1>4, <1>5, <1>6, <1>7, <1>8, <1>9, <1>10, <1>11, <1>12, <1>13, <1>14, <1>15, <1>16,
     <1>17, <1>18, <1>19, <1>20, <1>21, <1>22, <1>23, <1>24, <1>25, <1>26, <1>27, <1>28, <1>29, <1>30
     DEF DlNext, RunStep, Continue

\* One job alone takes its files in order.
LEMMA OrderKept ==
    ASSUME DownloadsAssumption, DlInv, OneJob, \A j \in Jobs : InOrder(j), [DlNext]_dlVars PROVE  \A k \in Jobs : InOrder(k)'
<1>0. /\ JobsTyped /\ RowsTyped /\ PartsTyped /\ FinalTyped /\ RunsTyped /\ AsksTyped
  BY TypeParts DEF DlInv
<1>1. \A k \in Jobs : RunRight(k) /\ InOrder(k)
  BY DEF DlInv
<1>2. ASSUME NEW j \in Jobs, Begin(j) PROVE \A k \in Jobs : InOrder(k)'
  BY <1>0, <1>1, <1>2 DEF Begin, Works, On, SetJob, Step, disk, others, world, InOrder, OneJob, RowsTyped,
     PartsTyped, RunsTyped, FinalTyped, Going, Transfer, Exists, NoRun, Parts
<1>3. ASSUME NEW j \in Jobs, Look(j) PROVE \A k \in Jobs : InOrder(k)'
  <2>1. run[j] \in Going /\ run[j].pc = "file" /\ run[j].f \in Parts /\ part' = part /\ final' = final
    BY <1>0, <1>3, GoingThen DEF Look, Works, On, disk
  <2>2. \A g \in 1..(run[j].f - 1) : Exists(final[g]) /\ row[j][g].bytes = Len(final[g])
    BY <1>1, <2>1 DEF InOrder, Transfer
  <2>3. ASSUME Whole(run[j].f), SetRow(j, run[j].f, [row[j][run[j].f] EXCEPT !.state = "COMPLETED", !.bytes = Len(final[run[j].f]), !.temp = FALSE]),
               NextFile(j)
        PROVE  InOrder(j)'
    <3>1. run'[j] = [run[j] EXCEPT !.pc = "file", !.f = @ + 1]
      BY <1>0, <2>3 DEF NextFile, RunsTyped
    <3>2. run'[j].pc = "file" /\ run'[j].f = run[j].f + 1
      BY <2>1, <3>1 DEF Going
    <3>3. /\ row'[j][run[j].f] = [row[j][run[j].f] EXCEPT !.state = "COMPLETED", !.bytes = Len(final[run[j].f]), !.temp = FALSE]
          /\ \A g \in Parts : g # run[j].f => row'[j][g] = row[j][g]
      BY <1>0, <2>1, <2>3 DEF SetRow, RowsTyped
    <3>4. row[j][run[j].f] \in RowOf
      BY <2>1, Held
    <3>5. row'[j][run[j].f].bytes = Len(final[run[j].f]) /\ Exists(final[run[j].f])
      BY <2>3, <3>3, <3>4 DEF RowOf, Whole
    <3>6. \A g \in 1..(run'[j].f - 1) : Exists(final'[g]) /\ row'[j][g].bytes = Len(final'[g])
      <4> TAKE g \in 1..(run'[j].f - 1)
      <4>1. g = run[j].f \/ (g \in 1..(run[j].f - 1) /\ g # run[j].f)
        BY <2>1, <3>2 DEF Parts, DownloadsAssumption
      <4>2. g \in Parts
        BY <2>1, <3>2 DEF Parts, DownloadsAssumption
      <4> QED BY <2>1, <2>2, <3>3, <3>5, <4>1, <4>2
    <3> QED BY <1>1, <2>1, <3>2, <3>6 DEF InOrder, Transfer, Exists
  <2>4. ASSUME ~Whole(run[j].f), run' = [run EXCEPT ![j].pc = "temp", ![j].etag = remote] \/ Step(j, "fail"), row' = row
        PROVE  InOrder(j)'
    <3>1. run'[j] = [run[j] EXCEPT !.pc = "temp", !.etag = remote] \/ run'[j] = [run[j] EXCEPT !.pc = "fail"]
      BY <1>0, <2>4 DEF Step, RunsTyped
    <3>2. run'[j].pc \in {"temp", "fail"} /\ run'[j].f = run[j].f
      BY <2>1, <3>1 DEF Going
    <3>3. ~Exists(final[run[j].f])
      BY <2>1, <2>4 DEF DlInv, FinalRight, Whole
    <3> QED BY <1>1, <2>1, <2>2, <2>4, <3>2, <3>3 DEF InOrder, Transfer, Exists
  <2>5. InOrder(j)'
    BY SMTT(60), <1>3, <2>3, <2>4 DEF Look
  <2> QED BY <2>5 DEF OneJob
<1>4. ASSUME NEW j \in Jobs, Resolve(j) PROVE \A k \in Jobs : InOrder(k)'
  BY <1>0, <1>1, <1>4 DEF Resolve, Works, On, SetRow, disk, others, world, InOrder, OneJob, RowsTyped,
     PartsTyped, RunsTyped, FinalTyped, Going, Transfer, Exists, NoRun, Parts
<1>5. ASSUME NEW j \in Jobs, Record(j) PROVE \A k \in Jobs : InOrder(k)'
  BY <1>0, <1>1, <1>5 DEF Record, Works, On, SetRow, SetJob, Step, disk, others, world, InOrder, OneJob,
     RowsTyped, PartsTyped, RunsTyped, FinalTyped, Going, Transfer, Exists, NoRun, Parts
<1>6. ASSUME NEW j \in Jobs, Fetch(j) PROVE \A k \in Jobs : InOrder(k)'
  BY SMTT(60), <1>0, <1>1, <1>6 DEF Fetch, Works, On, Step, disk, others, world, InOrder, OneJob, RowsTyped, PartsTyped,
     RunsTyped, FinalTyped, Going, Transfer, Exists, NoRun, Parts
<1>7. ASSUME NEW j \in Jobs, ReadUnit(j) PROVE \A k \in Jobs : InOrder(k)'
  <2>1. run[j] \in Going /\ run[j].pc = "read" /\ run[j].f \in Parts /\ final' = final
    BY <1>0, <1>1, <1>7, GoingThen DEF ReadUnit, Works, On, RunRight, Transfer
  <2>2. run'[j] = [run[j] EXCEPT !.at = @ + 1] \/ run'[j] = [run[j] EXCEPT !.pc = "fail"]
    BY <1>0, <1>7 DEF ReadUnit, Step, RunsTyped
  <2>3. run'[j].pc \in {"read", "fail"} /\ run'[j].f = run[j].f
    BY <2>1, <2>2 DEF Going
  <2>4. \A f \in Parts : part'[j][f] # NoPart => part[j][f] # NoPart
    BY <1>0, <1>7, <2>1 DEF ReadUnit, PartsTyped, Exists
  <2>5. \A f \in Parts : f # run[j].f => row'[j][f] = row[j][f]
    BY <1>0, <1>7, <2>1 DEF ReadUnit, RowsTyped
  <2>6. \A g \in 1..(run[j].f - 1) : g \in Parts /\ g # run[j].f
    BY <2>1 DEF Parts, DownloadsAssumption
  <2>7. InOrder(j)'
    BY <1>1, <2>1, <2>3, <2>4, <2>5, <2>6 DEF InOrder, Transfer, Exists
  <2> QED BY <2>7 DEF OneJob
<1>8. ASSUME NEW j \in Jobs, ReadEnd(j) PROVE \A k \in Jobs : InOrder(k)'
  BY SMTT(60), <1>0, <1>1, <1>8 DEF ReadEnd, Works, On, Step, disk, others, world, InOrder, OneJob, RowsTyped, PartsTyped,
     RunsTyped, FinalTyped, Going, Transfer, Exists, NoRun, Parts
<1>9. ASSUME NEW j \in Jobs, Promote(j) PROVE \A k \in Jobs : InOrder(k)'
  <2>1. run[j] \in Going /\ run[j].pc = "rename" /\ run[j].f \in Parts /\ row' = row
    BY <1>0, <1>1, <1>9, GoingThen DEF Promote, On, RunRight, Transfer
  <2>2. ASSUME Step(j, "fail"), UNCHANGED disk PROVE InOrder(j)'
    <3>1. run'[j] = [run[j] EXCEPT !.pc = "fail"]
      BY <1>0, <2>2 DEF Step, RunsTyped
    <3>2. run'[j].pc = "fail"
      BY SMTT(60), <2>1, <3>1 DEF Going
    <3> QED BY <1>1, <2>1, <2>2, <3>2 DEF InOrder, Transfer, Exists, disk
  <2>3. ASSUME Step(j, "record"), final' = [final EXCEPT ![run[j].f] = part[j][run[j].f]], part' = [part EXCEPT ![j][run[j].f] = NoPart],
               Exists(part[j][run[j].f])
        PROVE  InOrder(j)'
    <3>1. run'[j] = [run[j] EXCEPT !.pc = "record"]
      BY <1>0, <2>3 DEF Step, RunsTyped
    <3>2. run'[j].pc = "record" /\ run'[j].f = run[j].f /\ run'[j].at = run[j].at
      BY <2>1, <3>1 DEF Going
    <3>3. final'[run[j].f] = part[j][run[j].f] /\ \A f \in Parts : f # run[j].f => final'[f] = final[f]
      BY <1>0, <2>1, <2>3 DEF FinalTyped
    <3>4. part'[j][run[j].f] = NoPart /\ \A f \in Parts : f # run[j].f => part'[j][f] = part[j][f]
      BY <1>0, <2>1, <2>3 DEF PartsTyped
    <3>5. Len(part[j][run[j].f]) = run[j].at
      BY <1>1, <2>1, <2>3 DEF RunRight, Transfer
    <3>6. \A f \in Parts : \A g \in 1..(f - 1) : g \in Parts
      BY DEF Parts, DownloadsAssumption
    <3>7. \A f \in Parts : final[f] # NoPart => final'[f] # NoPart
      BY <2>3, <3>3 DEF Exists
    <3>8. \A g \in 1..(run[j].f - 1) : g # run[j].f
      BY <2>1 DEF Parts, DownloadsAssumption
    <3>9. \A g \in 1..(run[j].f - 1) : final'[g] # NoPart /\ row'[j][g].bytes = Len(final'[g])
      BY <1>1, <2>1, <3>3, <3>6, <3>8 DEF InOrder, Transfer, Exists
    <3>10. \A f \in Parts : part'[j][f] # NoPart => final'[f] = NoPart
      BY <1>1, <3>3, <3>4 DEF InOrder, Exists
    <3>11. \A f \in Parts : part'[j][f] # NoPart \/ final'[f] # NoPart => \A g \in 1..(f - 1) : final'[g] # NoPart
      BY <1>1, <2>1, <2>3, <3>3, <3>4, <3>6, <3>7 DEF InOrder, Exists
    <3> QED BY <2>3, <3>2, <3>3, <3>5, <3>9, <3>10, <3>11 DEF InOrder, Transfer, Exists
  <2>4. InOrder(j)'
    BY <1>9, <2>2, <2>3 DEF Promote
  <2> QED BY <2>4 DEF OneJob
<1>10. ASSUME NEW j \in Jobs, Promoted(j) PROVE \A k \in Jobs : InOrder(k)'
  BY SMTT(60), <1>0, <1>1, <1>10 DEF Promoted, Works, On, SetRow, NextFile, disk, others, world, InOrder, OneJob,
     RowsTyped, PartsTyped, RunsTyped, FinalTyped, Going, Transfer, Exists, NoRun, Parts
<1>11. ASSUME NEW j \in Jobs, Verify(j) PROVE \A k \in Jobs : InOrder(k)'
  BY <1>0, <1>1, <1>11 DEF Verify, Works, On, SetJob, Step, disk, others, world, InOrder, OneJob, RowsTyped,
     PartsTyped, RunsTyped, FinalTyped, Going, Transfer, Exists, NoRun, Parts
<1>12. ASSUME NEW j \in Jobs, Verified(j) PROVE \A k \in Jobs : InOrder(k)'
  BY <1>0, <1>1, <1>12 DEF Verified, Works, On, Step, disk, others, world, InOrder, OneJob, RowsTyped,
     PartsTyped, RunsTyped, FinalTyped, Going, Transfer, Exists, NoRun, Parts
<1>13. ASSUME NEW j \in Jobs, Complete(j) PROVE \A k \in Jobs : InOrder(k)'
  BY <1>0, <1>1, <1>13 DEF Complete, Works, On, Step, disk, others, world, InOrder, OneJob, RowsTyped,
     PartsTyped, RunsTyped, FinalTyped, Going, Transfer, Exists, NoRun, Parts
<1>14. ASSUME NEW j \in Jobs, Fail(j) PROVE \A k \in Jobs : InOrder(k)'
  BY <1>0, <1>1, <1>14 DEF Fail, On, SetJob, Step, disk, others, world, InOrder, OneJob, RowsTyped, PartsTyped,
     RunsTyped, FinalTyped, Going, Transfer, Exists, NoRun, Parts
<1>15. ASSUME NEW j \in Jobs, Cancelled(j) PROVE \A k \in Jobs : InOrder(k)'
  BY <1>0, <1>1, <1>15 DEF Cancelled, Step, disk, others, world, InOrder, OneJob, RowsTyped, PartsTyped,
     RunsTyped, FinalTyped, Going, Transfer, Exists, NoRun, Parts
<1>16. ASSUME NEW j \in Jobs, Unregister(j) PROVE \A k \in Jobs : InOrder(k)'
  BY <1>0, <1>1, <1>16 DEF Unregister, On, disk, others, world, InOrder, OneJob, RowsTyped, PartsTyped,
     RunsTyped, FinalTyped, Going, Transfer, Exists, NoRun, Parts
<1>17. ASSUME NEW j \in Jobs, NEW r \in Makers, Create(r, j) PROVE \A k \in Jobs : InOrder(k)'
  BY <1>0, <1>1, <1>17 DEF Create, Asking, AskAt, disk, others, world, InOrder, OneJob, RowsTyped, PartsTyped,
     RunsTyped, FinalTyped, Going, Transfer, Exists, NoRun, Parts
<1>18. ASSUME NEW j \in Jobs, NEW r \in Makers, Retry(r, j) PROVE \A k \in Jobs : InOrder(k)'
  BY <1>0, <1>1, <1>18 DEF Retry, Asking, AskAt, disk, others, world, InOrder, OneJob, RowsTyped, PartsTyped,
     RunsTyped, FinalTyped, Going, Transfer, Exists, NoRun, Parts
<1>19. ASSUME NEW j \in Jobs, NEW r \in Breakers, Cancel(r, j) PROVE \A k \in Jobs : InOrder(k)'
  BY <1>0, <1>1, <1>19 DEF Cancel, Asking, AskAt, disk, others, world, InOrder, OneJob, RowsTyped, PartsTyped,
     RunsTyped, FinalTyped, Going, Transfer, Exists, NoRun, Parts
<1>20. ASSUME NEW j \in Jobs, NEW r \in Breakers, Remove(r, j) PROVE \A k \in Jobs : InOrder(k)'
  BY <1>0, <1>1, <1>20 DEF Remove, Asking, AskAt, Stop, disk, others, world, InOrder, OneJob, RowsTyped,
     PartsTyped, RunsTyped, FinalTyped, Going, Transfer, Exists, NoRun, Parts
<1>21. ASSUME NEW r \in Requests, LaunchJob(r) PROVE \A k \in Jobs : InOrder(k)'
  BY SMTT(60), <1>0, <1>1, <1>21 DEF LaunchJob, Asking, Answers, Launched, disk, others, world, InOrder, OneJob,
     RowsTyped, PartsTyped, RunsTyped, FinalTyped, Going, Transfer, Exists, NoRun, Parts
<1>22. ASSUME NEW r \in Requests, CancelRun(r) PROVE \A k \in Jobs : InOrder(k)'
  BY <1>0, <1>1, <1>22 DEF CancelRun, Asking, Answers, Stop, disk, others, world, InOrder, OneJob, RowsTyped,
     PartsTyped, RunsTyped, FinalTyped, Going, Transfer, Exists, NoRun, Parts
<1>23. ASSUME NEW r \in Requests, WaitSlot(r) PROVE \A k \in Jobs : InOrder(k)'
  BY <1>0, <1>1, <1>23 DEF WaitSlot, Asking, AskAt, disk, others, world, InOrder, OneJob, RowsTyped, PartsTyped,
     RunsTyped, FinalTyped, Going, Transfer, Exists, NoRun, Parts
<1>24. ASSUME NEW r \in Requests, Requeue(r) PROVE \A k \in Jobs : InOrder(k)'
  <2>1. run' = run /\ part' = part /\ final' = final
    BY <1>24 DEF Requeue, disk, world
  <2>2. \A k \in Jobs, f \in Parts : row'[k][f] = row[k][f] \/ row'[k][f] = [row[k][f] EXCEPT !.state = "QUEUED"]
    BY SMTT(60), <1>0, <1>24 DEF Requeue, RowsTyped
  <2>3. \A x \in RowOf : [x EXCEPT !.state = "QUEUED"].bytes = x.bytes
    BY DEF RowOf
  <2>4. \A k \in Jobs, f \in Parts : row'[k][f].bytes = row[k][f].bytes
    BY <2>2, <2>3, Held
  <2>5. \A k \in Jobs : run[k].pc \in Transfer \cup {"file", "record"} => \A g \in 1..(run[k].f - 1) : g \in Parts
    <3> TAKE k \in Jobs
    <3> SUFFICES ASSUME run[k].pc \in Transfer \cup {"file", "record"} PROVE \A g \in 1..(run[k].f - 1) : g \in Parts
      OBVIOUS
    <3>1. run[k] \in Going
      BY <1>0, GoingThen DEF Transfer
    <3> QED BY <3>1 DEF Going, Parts, DownloadsAssumption
  <2> QED BY <1>1, <2>1, <2>4, <2>5 DEF InOrder, Exists
<1>25. ASSUME NEW r \in Requests, RemoveParts(r) PROVE \A k \in Jobs : InOrder(k)'
  BY <1>0, <1>1, <1>25 DEF RemoveParts, Asking, AskAt, disk, others, world, InOrder, OneJob, RowsTyped,
     PartsTyped, RunsTyped, FinalTyped, Going, Transfer, Exists, NoRun, Parts
<1>26. ASSUME NEW r \in Requests, RemoveRow(r) PROVE \A k \in Jobs : InOrder(k)'
  BY SMTT(60), <1>0, <1>1, <1>26 DEF RemoveRow, Asking, Answers, disk, others, world, InOrder, OneJob, RowsTyped,
     PartsTyped, RunsTyped, FinalTyped, Going, Transfer, Exists, NoRun, Parts
<1>27. CASE Shutdown
  BY <1>0, <1>1, <1>27 DEF Shutdown, disk, others, world, InOrder, OneJob, RowsTyped, PartsTyped, RunsTyped,
     FinalTyped, Going, Transfer, Exists, NoRun, Parts
<1>28. CASE ResumePending
  BY <1>0, <1>1, <1>28 DEF ResumePending, disk, others, world, InOrder, OneJob, RowsTyped, PartsTyped,
     RunsTyped, FinalTyped, Going, Transfer, Exists, NoRun, Parts
<1>29. CASE Publish
  BY <1>0, <1>1, <1>29 DEF Publish, disk, others, world, InOrder, OneJob, RowsTyped, PartsTyped, RunsTyped,
     FinalTyped, Going, Transfer, Exists, NoRun, Parts
<1>30. CASE UNCHANGED dlVars
  BY <1>0, <1>1, <1>30 DEF dlVars, disk, others, world, InOrder, OneJob, RowsTyped, PartsTyped, RunsTyped,
     FinalTyped, Going, Transfer, Exists, NoRun, Parts
<1> QED
  BY Zenon, <1>2, <1>3, <1>4, <1>5, <1>6, <1>7, <1>8, <1>9, <1>10, <1>11, <1>12, <1>13, <1>14, <1>15, <1>16,
     <1>17, <1>18, <1>19, <1>20, <1>21, <1>22, <1>23, <1>24, <1>25, <1>26, <1>27, <1>28, <1>29, <1>30
     DEF DlNext, RunStep, Continue

-----------------------------------------------------------------------------
(* Downloads: the ceiling.                                                 *)

\* What a job keeps of each file, and the sums the ceiling is about.
KeptOf(j) == [f \in Parts |-> Kept(part[j][f]) + Kept(final[f])]
BytesOf(j) == [g \in Parts |-> row[j][g].bytes]

\* Both are sums over sets.
LEMMA KeptSum == \A j \in Jobs : SumFunction(KeptOf(j)) = TotalOf(KeptOf(j), Parts)
<1> TAKE j \in Jobs
<1>1. DOMAIN KeptOf(j) = Parts
  BY DEF KeptOf
<1> QED BY <1>1 DEF SumFunction, SumFunctionOnSet, FoldFunctionOnSet, MapThenFoldSet, TotalOf, Fold, Folds, Pick

LEMMA SiblingSum == \A j \in Jobs, f \in Parts : Siblings(j, f) = TotalOf(BytesOf(j), Parts \ {f})
BY DEF Siblings, BytesOf, SumFunctionOnSet, FoldFunctionOnSet, MapThenFoldSet, TotalOf, Fold, Folds, Pick

LEMMA PartsFinite == ASSUME DownloadsAssumption PROVE IsFiniteSet(Parts)
BY FS_Interval DEF DownloadsAssumption, Parts

LEMMA KeptTyped ==
    ASSUME DownloadsAssumption, DlTypeOK
    PROVE  /\ \A j \in Jobs : KeptOf(j) \in [Parts -> Nat] /\ BytesOf(j) \in [Parts -> Nat]
           /\ \A j \in Jobs, f \in Parts : Kept(part[j][f]) \in Nat /\ Kept(final[f]) \in Nat
<1>1. RowsTyped /\ PartsTyped /\ FinalTyped
  BY TypeParts
<1>2. \A c \in Content \cup {NoPart} : Kept(c) \in Nat
  BY ContentIs DEF Kept, Exists, Offset, DownloadsAssumption
<1>3. \A j \in Jobs, f \in Parts : Kept(part[j][f]) \in Nat /\ Kept(final[f]) \in Nat /\ row[j][f].bytes \in Nat
  BY <1>1, <1>2 DEF PartsTyped, FinalTyped, RowsTyped, RowOf, Offset, DownloadsAssumption
<1> QED BY <1>3 DEF KeptOf, BytesOf

LEMMA KeptNext ==
    ASSUME DownloadsAssumption, DlTypeOK'
    PROVE  \A j \in Jobs, f \in Parts : Kept(part'[j][f]) \in Nat /\ Kept(final'[f]) \in Nat
<1>1. (\A j \in Jobs, f \in Parts : Kept(part[j][f]) \in Nat /\ Kept(final[f]) \in Nat)'
  BY KeptTyped, PTL
<1> QED BY <1>1 DEF Kept, Exists

\* The ceiling for one job, told with the laws of sums.
LEMMA LimitIs == WithinLimit <=> \A j \in Jobs : TotalOf(KeptOf(j), Parts) =< offer.limit
BY KeptSum DEF WithinLimit, KeptOf

\* What takes nothing keeps to the ceiling.
LEMMA LessKept ==
    ASSUME DownloadsAssumption, DlTypeOK, DlTypeOK', NEW k \in Jobs, TotalOf(KeptOf(k), Parts) =< offer.limit, offer' = offer,
           \A f \in Parts : Kept(part'[k][f]) + Kept(final'[f]) =< Kept(part[k][f]) + Kept(final[f])
    PROVE  (TotalOf(KeptOf(k), Parts) =< offer.limit)'
<1> DEFINE old == KeptOf(k)
           new == [f \in Parts |-> Kept(part'[k][f]) + Kept(final'[f])]
<1>1. old \in [Parts -> Nat]
  BY KeptTyped
<1>2. new \in [Parts -> Nat]
  <2>1. \A f \in Parts : Kept(part'[k][f]) \in Nat /\ Kept(final'[f]) \in Nat
    BY KeptNext
  <2> QED BY <2>1
<1>3. \A f \in Parts : new[f] =< old[f]
  BY DEF KeptOf
<1>4. KeptOf(k)' = new
  BY DEF KeptOf, Kept, Exists
<1> HIDE DEF old, new
<1>5. TotalOf(new, Parts) =< TotalOf(old, Parts)
  BY <1>1, <1>2, <1>3, PartsFinite, SumOrder
<1>6. TotalOf(new, Parts) \in Nat /\ TotalOf(old, Parts) \in Nat /\ offer.limit \in Nat
  <2>1. offer.limit \in Nat
    BY DEF DlTypeOK, DownloadsAssumption
  <2> QED BY <2>1, <1>1, <1>2, PartsFinite, SumParts
<1>7. TotalOf(KeptOf(k), Parts)' = TotalOf(new, Parts)
  BY <1>4 DEF TotalOf, Fold, Folds
<1> QED BY <1>5, <1>6, <1>7 DEF old

\* One job alone keeps to the ceiling: a read is checked against what the rows
\* say of the other files, and the files before have that length and the files
\* after are not there.
LEMMA LimitKept ==
    ASSUME DownloadsAssumption, DlInv, OneJob, \A j \in Jobs : InOrder(j), WithinLimit, [DlNext]_dlVars
    PROVE  WithinLimit'
<1>0. /\ JobsTyped /\ RowsTyped /\ PartsTyped /\ FinalTyped /\ RunsTyped /\ AsksTyped
      /\ DlTypeOK /\ DlTypeOK'
  BY TypeParts, DlTyped DEF DlInv
<1>1. /\ \A k \in Jobs : TotalOf(KeptOf(k), Parts) =< offer.limit
      /\ \A k \in Jobs : RunRight(k) /\ InOrder(k)
  BY SMTT(60), LimitIs DEF DlInv
<1>2. offer' = offer
  BY ZenonT(60) DEF DlNext, dlVars, RunStep, Begin, Look, Resolve, Record, Fetch, ReadUnit, ReadEnd, Promote, Promoted,
     Verify, Verified, Complete,
     Fail, Cancelled, Unregister, Create, Retry, Cancel, Remove, Continue, LaunchJob, CancelRun, WaitSlot, Requeue, RemoveParts, RemoveRow,
     Shutdown, ResumePending, Publish, others, world
<1> SUFFICES ASSUME NEW k \in Jobs PROVE (TotalOf(KeptOf(k), Parts) =< offer.limit)'
  <2>1. ASSUME \A k \in Jobs : (TotalOf(KeptOf(k), Parts) =< offer.limit)' PROVE WithinLimit'
    <3>1. (WithinLimit <=> \A j \in Jobs : TotalOf(KeptOf(j), Parts) =< offer.limit)'
      BY LimitIs, PTL
    <3>2. \A j \in Jobs : TotalOf(KeptOf(j), Parts)' =< offer'.limit
      BY <2>1
    <3> QED BY <3>1, <3>2
  <2> QED BY <2>1
<1> DEFINE Less == \A f \in Parts : Kept(part'[k][f]) + Kept(final'[f]) =< Kept(part[k][f]) + Kept(final[f])
<1>3. ASSUME Less PROVE (TotalOf(KeptOf(k), Parts) =< offer.limit)'
  BY <1>0, <1>1, <1>2, <1>3, LessKept
<1>4. \A f \in Parts : Kept(part[k][f]) \in Nat /\ Kept(final[f]) \in Nat
  BY <1>0, KeptTyped
<1>5. ASSUME UNCHANGED disk PROVE Less
  BY <1>4, <1>5 DEF disk
<1>6. Kept(<<>>) = 0 /\ Kept(NoPart) = 0
  BY DEF Kept, Exists, NoPart
<1>7. ASSUME NEW j \in Jobs, Resolve(j) PROVE Less
  <2>1. j = k /\ final' = final /\ run[j].f \in Parts
    BY <1>1, <1>7 DEF OneJob, Resolve, Works, On, RunRight, Transfer
  <2>2. \A f \in Parts : part'[k][f] = part[k][f] \/ part'[k][f] = <<>>
    BY <1>0, <1>7, <2>1 DEF Resolve, PartsTyped
  <2> QED BY <1>4, <1>6, <2>1, <2>2
<1>8. ASSUME NEW j \in Jobs, Fetch(j) PROVE Less
  <2>1. j = k /\ final' = final /\ run[j].f \in Parts
    BY <1>1, <1>8 DEF OneJob, Fetch, Works, On, RunRight, Transfer
  <2>2. \A f \in Parts : part'[k][f] = part[k][f] \/ part'[k][f] = <<>>
    BY <1>0, <1>8, <2>1 DEF Fetch, PartsTyped
  <2> QED BY <1>4, <1>6, <2>1, <2>2
<1>9. ASSUME NEW j \in Jobs, Promote(j) PROVE Less
  <2>1. j = k /\ run[j].f \in Parts /\ ~Exists(final[run[j].f])
    BY <1>1, <1>9 DEF OneJob, Promote, On, RunRight, InOrder, Transfer
  <2>2. CASE UNCHANGED disk
    BY <1>5, <2>2
  <2>3. CASE /\ final' = [final EXCEPT ![run[j].f] = part[j][run[j].f]]
             /\ part' = [part EXCEPT ![j][run[j].f] = NoPart]
    <3>1. \A f \in Parts : f # run[j].f => part'[k][f] = part[k][f] /\ final'[f] = final[f]
      BY <1>0, <2>1, <2>3 DEF PartsTyped, FinalTyped
    <3>2. part'[k][run[j].f] = NoPart /\ final'[run[j].f] = part[k][run[j].f]
      BY <1>0, <2>1, <2>3 DEF PartsTyped, FinalTyped
    <3>3. Kept(final[run[j].f]) = 0
      BY <2>1 DEF Kept
    <3> QED BY <1>4, <1>6, <2>1, <3>1, <3>2, <3>3
  <2> QED BY <1>9, <2>2, <2>3 DEF Promote
<1>10. ASSUME NEW r \in Requests, RemoveParts(r) PROVE Less
  <2>1. final' = final
    BY <1>10 DEF RemoveParts
  <2>2. \A f \in Parts : part'[k][f] = part[k][f] \/ part'[k][f] = NoPart
    BY <1>0, <1>10 DEF RemoveParts, PartsTyped
  <2> QED BY <1>4, <1>6, <2>1, <2>2
<1>11. ASSUME NEW j \in Jobs, ReadUnit(j) PROVE (TotalOf(KeptOf(k), Parts) =< offer.limit)'
  <2>1. /\ j = k /\ run[j].f \in Parts /\ final' = final /\ ~Exists(final[run[j].f])
        /\ run[j] \in Going /\ run[j].at \in Nat
        /\ \A g \in 1..(run[j].f - 1) : Exists(final[g]) /\ row[j][g].bytes = Len(final[g])
        /\ Exists(part[j][run[j].f]) => Len(part[j][run[j].f]) = run[j].at
    <3>1. j = k /\ run[j].f \in Parts /\ final' = final /\ run[j].pc = "read"
      BY <1>1, <1>11 DEF OneJob, ReadUnit, Works, On, RunRight, Transfer
    <3>2. run[j] \in Going
      BY <1>0, <3>1, GoingThen
    <3> QED BY SMTT(60), <1>1, <3>1, <3>2 DEF InOrder, RunRight, Transfer, Going, Offset, DownloadsAssumption
  <2> DEFINE f == run[j].f
  <2>2. CASE UNCHANGED part
    BY <1>3, <1>5, <2>1, <2>2 DEF disk
  <2>3. CASE /\ Siblings(j, f) + run[j].at + 1 =< offer.limit
             /\ part' = [part EXCEPT ![j][f] = IF Exists(@) THEN Append(@, run[j].src) ELSE @]
    <3> DEFINE new == [g \in Parts |-> Kept(part'[k][g]) + Kept(final'[g])]
               bytes == BytesOf(j)
    <3>1. new \in [Parts -> Nat]
      <4>2. \A g \in Parts : Kept(part'[k][g]) \in Nat /\ Kept(final'[g]) \in Nat
        BY <1>0, KeptNext
      <4> QED BY <4>2
    <3>2. bytes \in [Parts -> Nat]
      BY <1>0, KeptTyped
    <3>3. KeptOf(k)' = new
      BY DEF KeptOf, Kept, Exists
    <3>4. new[f] =< run[j].at + 1
      <4>1. part'[k][f] = IF Exists(part[j][f]) THEN Append(part[j][f], run[j].src) ELSE part[j][f]
        BY <1>0, <2>1, <2>3 DEF PartsTyped
      <4>2. Exists(part[j][f]) => part[j][f] \in Seq(1..Versions)
        BY <2>1, Held
      <4>3. Kept(part'[k][f]) =< run[j].at + 1
        BY <2>1, <4>1, <4>2 DEF Kept
      <4>4. Kept(final'[f]) = 0
        BY <2>1 DEF Kept
      <4>5. Kept(part'[k][f]) \in Nat
        BY <4>1, <4>2, <1>6 DEF Kept
      <4> QED BY <2>1, <4>3, <4>4, <4>5
    <3>5. ASSUME NEW g \in Parts, g # f PROVE new[g] =< bytes[g]
      <4>1. part'[k][g] = part[k][g] /\ final'[g] = final[g]
        BY <1>0, <2>1, <2>3, <3>5 DEF PartsTyped
      <4>2. Kept(part[k][g]) + Kept(final[g]) =< row[k][g].bytes
        <5>1. row[k][g].bytes \in Nat
          BY <3>2, <2>1 DEF BytesOf
        <5>2. CASE g \in 1..(f - 1)
          <6>1. Exists(final[g]) /\ row[k][g].bytes = Len(final[g]) /\ ~Exists(part[k][g])
            BY <1>1, <2>1, <5>2 DEF InOrder
          <6> QED BY <5>1, <6>1 DEF Kept
        <5>3. CASE g \notin 1..(f - 1)
          <6>1. f \in 1..(g - 1)
            BY <2>1, <3>5, <5>3 DEF Parts, DownloadsAssumption
          <6>2. ~Exists(part[k][g]) /\ ~Exists(final[g])
            BY <1>1, <2>1, <6>1 DEF InOrder
          <6> QED BY <5>1, <6>2 DEF Kept
        <5> QED BY <5>2, <5>3
      <4> QED BY <2>1, <4>1, <4>2 DEF BytesOf
    <3>6. KeptOf(k)' = new /\ TotalOf(KeptOf(k), Parts)' = TotalOf(new, Parts)
      BY <3>3 DEF TotalOf, Fold, Folds
    <3>7. Siblings(j, f) = TotalOf(bytes, Parts \ {f})
      BY <2>1, SiblingSum
    <3> HIDE DEF new, bytes
    <3> DEFINE siblings == Parts \ {f}
               lower == [g \in Parts |-> IF g = f THEN bytes[g] ELSE new[g]]
    <3>8. lower \in [Parts -> Nat] /\ \A g \in Parts : lower[g] =< bytes[g]
      BY <3>1, <3>2, <3>5
    <3>9. siblings \in SUBSET Parts /\ \A g \in siblings : lower[g] = new[g]
      OBVIOUS
    <3> HIDE DEF lower
    <3>10. TotalOf(lower, siblings) =< TotalOf(bytes, siblings)
      BY <3>2, <3>8, <3>9, PartsFinite, SumOrder
    <3>11. TotalOf(lower, siblings) = TotalOf(new, siblings)
      BY <3>9, SumAgree
    <3>12. TotalOf(new, Parts) = new[f] + TotalOf(new, siblings)
      <4>1. Parts \in SUBSET Parts
        OBVIOUS
      <4> QED BY <2>1, <3>1, <4>1, PartsFinite, SumParts
    <3>13. TotalOf(new, siblings) \in Nat /\ TotalOf(bytes, siblings) \in Nat /\ new[f] \in Nat
      BY <2>1, <3>1, <3>2, <3>9, PartsFinite, SumParts
    <3>14. offer.limit \in Nat
      BY <1>0 DEF DlTypeOK, DownloadsAssumption
    <3>15. TotalOf(new, Parts) =< offer.limit
      BY SMTT(60), <2>1, <2>3, <3>4, <3>7, <3>10, <3>11, <3>12, <3>13, <3>14
    <3> QED BY <1>2, <3>6, <3>15
  <2> QED BY <1>11, <2>2, <2>3 DEF ReadUnit
<1>12. [DlNext]_dlVars => \/ UNCHANGED disk
                          \/ \E j \in Jobs : Resolve(j) \/ Fetch(j) \/ ReadUnit(j) \/ Promote(j)
                          \/ \E r \in Requests : RemoveParts(r)
  BY ZenonT(60) DEF DlNext, dlVars, RunStep, Begin, Look, Record, ReadEnd, Promoted, Verify, Verified, Complete,
     Fail, Cancelled, Unregister, Create, Retry, Cancel, Remove, Continue, LaunchJob, CancelRun, WaitSlot, Requeue, RemoveRow,
     Shutdown, ResumePending, Publish, others, world, disk
<1> QED BY <1>3, <1>5, <1>7, <1>8, <1>9, <1>10, <1>11, <1>12

-----------------------------------------------------------------------------
(* Downloads: what the invariants say.                                     *)

\* Nothing is asked for at first.
LEMMA DlBegins ==
    ASSUME DownloadsAssumption, DlInit PROVE DlInv /\ LimitInv
<1>1. DlTypeOK
  BY DEF DownloadsAssumption, DlInit, DlTypeOK, NewRow, NoRun, NoCall, Offset, Waiting, Terminal
<1>2. /\ \A j \in Jobs : job[j] = "absent" /\ run[j].pc = "none"
      /\ \A j \in Jobs, f \in Parts : part[j][f] = NoPart
      /\ \A f \in Parts : final[f] = NoPart
  BY DEF DlInit, NoRun
<1>3. DlInv
  BY <1>1, <1>2 DEF DlInv, FinalRight, Exists, RunRight, Tended, UnitsRight, Transfer, Waiting, OneVersion
<1>4. \A j \in Jobs : InOrder(j)
  BY <1>2 DEF InOrder, Exists, Transfer
<1>5. ASSUME NEW j \in Jobs PROVE TotalOf(KeptOf(j), Parts) =< offer.limit
  <2> DEFINE kept == KeptOf(j)
  <2>1. kept \in [Parts -> Nat] /\ \A f \in Parts : kept[f] = 0
    <3>1. \A f \in Parts : Kept(part[j][f]) = 0 /\ Kept(final[f]) = 0
      BY <1>2 DEF Kept, Exists
    <3> QED BY <3>1 DEF KeptOf
  <2> HIDE DEF kept
  <2>2. TotalOf(kept, Parts) = 0
    BY <2>1, PartsFinite, SumZero
  <2>3. offer.limit \in Nat
    BY <1>1 DEF DlTypeOK, DownloadsAssumption
  <2> QED BY <2>2, <2>3 DEF kept
<1> QED BY <1>3, <1>4, <1>5, LimitIs DEF LimitInv

\* Every step keeps the invariants.
LEMMA DlStays ==
    ASSUME DownloadsAssumption, DlInv, [DlNext]_dlVars PROVE DlInv'
<1>1. DlTypeOK' /\ (\A f \in Parts : FinalRight(f)') /\ \A j \in Jobs : RunRight(j)' /\ Tended(j)'
  BY DlTyped, FinalsStay, RunsRight, TendedKept
<1>2. ~MidChange => \A j \in Jobs : UnitsRight(j)'
  BY UnitsKept
<1> QED BY <1>1, <1>2 DEF DlInv

LEMMA LimitStays ==
    ASSUME DownloadsAssumption, DlInv, LimitInv, [DlNext]_dlVars PROVE LimitInv'
<1>1. ASSUME OneJob PROVE (\A j \in Jobs : InOrder(j)') /\ WithinLimit'
  BY <1>1, OrderKept, LimitKept DEF LimitInv
<1> QED BY <1>1 DEF LimitInv, OneJob

\* What the properties take from the invariants.
LEMMA DlSays ==
    ASSUME DlInv
    PROVE  /\ CompletedHasFiles /\ ActiveRuns
           /\ ~MidChange => FinalIntact
           /\ OneJob /\ LimitInv => WithinLimit
BY DEF DlInv, CompletedHasFiles, ActiveRuns, FinalIntact, FinalRight, Full, Exists, RunRight, Tended, LimitInv

\* A cancellation is undone by a retry, or by a run that has all its files.
LEMMA CancelStands ==
    ASSUME DownloadsAssumption, DlInv, [DlNext]_dlVars PROVE CancelHolds
<1>0. JobsTyped /\ (\A j \in Jobs : RunRight(j))
  BY TypeParts DEF DlInv
<1> SUFFICES ASSUME NEW k \in Jobs, job[k] = "CANCELLED", job'[k] # "CANCELLED"
             PROVE  \/ job'[k] \in {"QUEUED", "removed"}
                    \/ job'[k] = "COMPLETED" /\ \A f \in Parts : Whole(f)
  BY DEF CancelHolds
<1>1. ASSUME NEW j \in Jobs, NEW state, SetJob(j, state) PROVE FALSE
  BY <1>0, <1>1 DEF SetJob, JobsTyped
<1>2. ASSUME NEW j \in Jobs, RunStep(j) PROVE job'[k] = "COMPLETED" /\ \A f \in Parts : Whole(f)
  <2>1. Complete(j)
    BY <1>1, <1>2 DEF RunStep, Begin, Look, Resolve, Record, Fetch, ReadUnit, ReadEnd, Promote, Promoted,
       Verify, Verified, Fail,
       Cancelled, Unregister, others
  <2>2. run[j].pc = "complete" /\ job' = [job EXCEPT ![j] = IF @ = "removed" THEN @ ELSE "COMPLETED"]
    BY <2>1 DEF Complete, Works, On
  <2> QED BY <1>0, <2>2 DEF RunRight, JobsTyped
<1>3. ASSUME NEW j \in Jobs, NEW r \in Makers, Create(r, j) \/ Retry(r, j) PROVE FALSE
  BY <1>0, <1>3 DEF Create, Retry, JobsTyped
<1>4. ASSUME NEW j \in Jobs, NEW r \in Breakers, Cancel(r, j) \/ Remove(r, j) PROVE FALSE
  BY <1>0, <1>4 DEF Cancel, Remove, JobsTyped
<1>5. ASSUME NEW r \in Requests, Continue(r) PROVE job'[k] \in {"QUEUED", "removed"}
  BY <1>0, <1>5 DEF Continue, LaunchJob, CancelRun, WaitSlot, Requeue, RemoveParts, RemoveRow, JobsTyped
<1>6. ASSUME Shutdown \/ ResumePending \/ Publish \/ UNCHANGED dlVars PROVE FALSE
  BY <1>0, <1>6 DEF Shutdown, ResumePending, Publish, dlVars, Waiting, JobsTyped
<1> QED BY <1>2, <1>3, <1>4, <1>5, <1>6 DEF DlNext

-----------------------------------------------------------------------------
(* Downloads: the theorems.                                                *)

\* For any number of jobs, files, requests and stops: a job that shows as
\* completed has its files and one that shows as active is tended; final files
\* are whole and of one version if no remote file changes between its HEAD and
\* its GET; one job alone keeps to the ceiling (downloads/manager.go, run,
\* downloadFile, resolveTempFile).
THEOREM DownloadsRight ==
    ASSUME DownloadsAssumption
    PROVE  DlSpec => [](/\ CompletedHasFiles /\ ActiveRuns
                        /\ ~MidChange => FinalIntact
                        /\ OneJob => WithinLimit)
<1>1. DlInit => DlInv /\ LimitInv
  BY DlBegins
<1>2. DlInv /\ LimitInv /\ [DlNext]_dlVars => (DlInv /\ LimitInv)'
  BY DlStays, LimitStays
<1>3. DlInv /\ LimitInv => /\ CompletedHasFiles /\ ActiveRuns
                           /\ ~MidChange => FinalIntact
                           /\ OneJob => WithinLimit
  BY DlSays
<1> QED BY <1>1, <1>2, <1>3, PTL DEF DlSpec

\* A cancelled job starts again only by a retry; its run may still complete it,
\* when all its files are there (downloads/manager.go, setJobState).
THEOREM CancelsHold == ASSUME DownloadsAssumption PROVE DlSpec => [][CancelHolds]_dlVars
<1>1. DlInit => DlInv
  BY DlBegins
<1>2. DlInv /\ [DlNext]_dlVars => DlInv'
  BY DlStays
<1>3. DlInv /\ [DlNext]_dlVars => CancelHolds
  BY CancelStands
<1> QED BY <1>1, <1>2, <1>3, PTL DEF DlSpec
=============================================================================
