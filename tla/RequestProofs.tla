---------------------------- MODULE RequestProofs ----------------------------
(***************************************************************************)
(* What the lifecycle service promises its requests, for any number of     *)
(* them and of workers (backend/internal/lifecycle), and first what the    *)
(* supervisor shows of its workers, for any number of callers              *)
(* (backend/internal/supervisor/control.go).                               *)
(*                                                                         *)
(* Types are not inductive alone: a caller that is past its first step     *)
(* signals the worker it holds, so it must hold one.                       *)
(***************************************************************************)
EXTENDS MCRequests, FiniteSetTheorems, TLAPS

-----------------------------------------------------------------------------
(* The supervisor and its workers.                                         *)

\* The steps at which a caller is still working on a worker of its own.
Engaged == Steps \ {"idle", "ok", "err", "killed"}

\* A caller at work holds a worker, whatever became of the entry in the map.
HoldsWorker == \A t \in Callers : call[t].pc \in Engaged => call[t].w \in Workers

SupInv ==
    /\ SupTypeOK
    /\ HoldsWorker
    /\ ExitsShow

Struct == [state : States, pid : BOOLEAN, killed : BOOLEAN, done : BOOLEAN, cancelled : BOOLEAN]
Call   == [pc : Steps, w : Workers \cup {None}]

\* Nothing is shown of a worker that has not exited, or is neither active nor has a PID.
Shown(w) == w.done => ~Active(w.state) /\ ~w.pid

-----------------------------------------------------------------------------
(* The pieces a step is made of.                                           *)

\* No worker is numbered None.
LEMMA NoneIsNoWorker == None \notin Workers
BY SupervisorAssumption DEF None, Workers

\* Changing one worker to another that hides no exit keeps all typed and shown.
LEMMA WorkerChange ==
    ASSUME SupInv, NEW w, NEW s \in Struct, w \in Workers => Shown(s),
           worker' = [worker EXCEPT ![w] = s]
    PROVE  /\ worker' \in [Workers -> Struct]
           /\ ExitsShow'
BY DEF SupInv, SupTypeOK, ExitsShow, Shown, Struct

LEMMA WorkerKept ==
    ASSUME SupInv, UNCHANGED worker
    PROVE  worker' \in [Workers -> Struct] /\ ExitsShow'
BY DEF SupInv, SupTypeOK, ExitsShow, Struct

\* A caller that goes to another step with the worker it has.
LEMMA Going ==
    ASSUME SupInv, NEW t \in Callers, NEW pc \in Steps, Goto(t, pc),
           At(t, "idle") \/ At(t, "ok") \/ At(t, "err") \/ At(t, "killed") => pc \notin Engaged
    PROVE  call' \in [Callers -> Call] /\ HoldsWorker'
BY DEF SupInv, SupTypeOK, HoldsWorker, Engaged, Goto, At, Call, Steps

\* A caller that takes up a worker, or reports one.
LEMMA TakingUp ==
    ASSUME SupInv, NEW t \in Callers, NEW c \in Call, c.pc \in Engaged => c.w \in Workers,
           call' = [call EXCEPT ![t] = c]
    PROVE  call' \in [Callers -> Call] /\ HoldsWorker'
BY DEF SupInv, SupTypeOK, HoldsWorker, Engaged, Call

LEMMA CallKept ==
    ASSUME SupInv, UNCHANGED call
    PROVE  call' \in [Callers -> Call] /\ HoldsWorker'
BY DEF SupInv, SupTypeOK, HoldsWorker, Call

\* Kill signals the worker in the map and hides nothing.
LEMMA KillKeeps ==
    ASSUME SupInv, Kill
    PROVE  worker' \in [Workers -> Struct] /\ ExitsShow' /\ sigkill' \in SUBSET Workers
<1>1. CASE current = None
  BY <1>1, WorkerKept DEF Kill, SupInv, SupTypeOK
<1>2. CASE current # None
  <2>1. current \in Workers /\ worker[current] \in Struct
    BY <1>2 DEF SupInv, SupTypeOK, Struct
  <2>2. sigkill' \in SUBSET Workers
    BY <1>2, <2>1 DEF Kill, SupInv, SupTypeOK
  <2> DEFINE s == [worker[current] EXCEPT !.killed = TRUE, !.cancelled = TRUE]
  <2>3. worker' = [worker EXCEPT ![current] = s]
    BY <1>2, <2>1 DEF Kill, SupInv, SupTypeOK
  <2>4. s \in Struct /\ Shown(s)
    BY <2>1 DEF Struct, SupInv, ExitsShow, Shown
  <2> QED BY <2>2, <2>3, <2>4, WorkerChange
<1> QED BY <1>1, <1>2

\* What a step of the map's entry leaves in place.
Rest == <<current, proc, sigkill, reaper, record, ctxDone>>

LEMMA RestKept ==
    ASSUME SupInv, UNCHANGED Rest, worker' \in [Workers -> Struct], ExitsShow',
           call' \in [Callers -> Call], HoldsWorker'
    PROVE  SupInv'
BY DEF SupInv, SupTypeOK, Rest, Struct, Call

-----------------------------------------------------------------------------
(* Start, one step at a time.                                              *)

LEMMA FreshWorker ==
    ASSUME NEW w \in Unused
    PROVE  w \in Workers /\ reaper[w] = "none" /\ w # current
BY DEF Unused

LEMMA StartKeeps ==
    ASSUME SupInv, NEW t \in Callers,
           StartActive(t) \/ StartRefused(t) \/ StartUnlaunched(t) \/ Spawn(t)
    PROVE  SupInv'
<1> USE DEF Rest
<1>1. CASE StartActive(t)
  <2> DEFINE c == [pc |-> IF ShuttingDown(Status) THEN "err" ELSE "ok", w |-> current]
  <2>1. c \in Call /\ c.pc \notin Engaged
    BY DEF SupInv, SupTypeOK, Call, Steps, Engaged
  <2> QED BY <1>1, <2>1, TakingUp, WorkerKept, RestKept DEF StartActive
<1>2. CASE StartRefused(t)
  BY <1>2, Going, WorkerKept, RestKept DEF StartRefused, Engaged, Steps
<1>3. CASE StartUnlaunched(t)
  <2> DEFINE s == [Absent EXCEPT !.state = "failed"]
  <2>1. PICK w \in Unused : current' = w /\ worker' = [worker EXCEPT ![w] = s]
    BY <1>3 DEF StartUnlaunched
  <2>2. s \in Struct /\ Shown(s)
    BY DEF Struct, Shown, Absent, States, Active
  <2>3. worker' \in [Workers -> Struct] /\ ExitsShow'
    BY <2>1, <2>2, WorkerChange
  <2>4. call' \in [Callers -> Call] /\ HoldsWorker'
    BY <1>3, Going DEF StartUnlaunched, Engaged, Steps
  <2>5. current' \in Workers
    BY <2>1, FreshWorker
  <2> QED BY <1>3, <2>3, <2>4, <2>5 DEF StartUnlaunched, SupInv, SupTypeOK, Struct, Call
<1>4. CASE Spawn(t)
  <2> DEFINE s == [Absent EXCEPT !.state = "loading", !.pid = TRUE]
  <2>1. PICK w \in Unused : /\ current' = w /\ worker' = [worker EXCEPT ![w] = s]
                            /\ proc' = [proc EXCEPT ![w] = "booting"]
                            /\ reaper' = [reaper EXCEPT ![w] = "wait"]
                            /\ call' = [call EXCEPT ![t] = [pc |-> "persist", w |-> w]]
    BY <1>4 DEF Spawn
  <2>2. s \in Struct /\ Shown(s)
    BY DEF Struct, Shown, Absent, States
  <2>3. worker' \in [Workers -> Struct] /\ ExitsShow'
    BY <2>1, <2>2, WorkerChange
  <2>4. w \in Workers
    BY FreshWorker
  <2>5. call' \in [Callers -> Call] /\ HoldsWorker'
    BY <2>1, <2>4, TakingUp DEF Call, Steps
  <2>6. /\ proc' \in [Workers -> {"none", "booting", "serving", "exited"}]
        /\ reaper' \in [Workers -> {"none", "wait", "get", "delete", "notify", "gone"}]
    BY <2>1, <2>4 DEF SupInv, SupTypeOK
  <2> QED BY <1>4, <2>1, <2>3, <2>4, <2>5, <2>6 DEF Spawn, SupInv, SupTypeOK, Struct, Call
<1> QED BY <1>1, <1>2, <1>3, <1>4

\* A start under way: persisting, waiting for readiness, marking.
LEMMA AwaitKeeps ==
    ASSUME SupInv, NEW t \in Callers,
           Persist(t) \/ AbortWait(t) \/ AwaitReady(t) \/ MarkReady(t)
    PROVE  SupInv'
<1> USE DEF Rest
<1>w. call[t].pc \in Engaged => call[t].w \in Workers
  BY DEF SupInv, HoldsWorker
<1>1. CASE Persist(t)
  <2>1. call[t].w \in Workers
    BY <1>1, <1>w DEF Persist, At, Engaged, Steps
  <2>2. call' \in [Callers -> Call] /\ HoldsWorker'
    BY <1>1, Going DEF Persist, At, Engaged, Steps
  <2>3. worker' \in [Workers -> Struct] /\ ExitsShow'
    BY <1>1, WorkerKept DEF Persist
  <2>4. record' \in Workers \cup {None}
    BY <1>1, <2>1 DEF Persist, SupInv, SupTypeOK
  <2> QED BY <1>1, <2>2, <2>3, <2>4 DEF Persist, SupInv, SupTypeOK, Struct, Call
<1>2. CASE AbortWait(t)
  BY <1>2, Going, WorkerKept, RestKept DEF AbortWait, At, Engaged, Steps
<1>3. CASE AwaitReady(t)
  <2>1. \E pc \in {"mark", "failKill", "failStop"} : Goto(t, pc)
    BY <1>3 DEF AwaitReady
  <2>2. call' \in [Callers -> Call] /\ HoldsWorker'
    BY <1>3, <2>1, Going DEF AwaitReady, At, Engaged, Steps
  <2> QED BY <1>3, <2>2, WorkerKept, RestKept DEF AwaitReady
<1>4. CASE MarkReady(t)
  <2> DEFINE w == call[t].w
  <2>0. w \in Workers /\ worker[w] \in Struct
    BY <1>4, <1>w DEF MarkReady, At, Engaged, Steps, SupInv, SupTypeOK, Struct
  <2>1. \E pc \in {"ok", "markKill", "err"} : Goto(t, pc)
    BY SMTT(60), <1>4 DEF MarkReady
  <2>2. call' \in [Callers -> Call] /\ HoldsWorker'
    BY <1>4, <2>1, Going DEF MarkReady, At, Engaged, Steps
  <2>3. worker' \in [Workers -> Struct] /\ ExitsShow'
    <3>1. CASE UNCHANGED worker
      BY <3>1, WorkerKept
    <3>2. CASE ~UNCHANGED worker
      <4> DEFINE s == [worker[w] EXCEPT !.state = "ready"]
      <4>1. worker' = [worker EXCEPT ![w] = s] /\ worker[w].pid
        BY <1>4, <2>0, <3>2 DEF MarkReady
      <4>2. s \in Struct /\ Shown(s)
        BY <2>0, <4>1 DEF SupInv, ExitsShow, Struct, Shown, States
      <4> QED BY <4>1, <4>2, WorkerChange
    <3> QED BY <3>1, <3>2
  <2> QED BY <1>4, <2>2, <2>3, RestKept DEF MarkReady
<1> QED BY <1>1, <1>2, <1>3, <1>4

\* A start that kills by instance ID, whatever worker the map holds by now.
LEMMA KillingKeeps ==
    ASSUME SupInv, NEW t \in Callers, AbortKill(t) \/ FailKill(t) \/ MarkKill(t)
    PROVE  SupInv'
<1>1. Kill /\ UNCHANGED <<current, proc, reaper, record, ctxDone>>
  BY DEF AbortKill, FailKill, MarkKill
<1>2. \/ At(t, "abort") /\ Goto(t, "abortWait")
      \/ At(t, "failKill") /\ Goto(t, "setKilled")
      \/ At(t, "markKill") /\ Goto(t, "killed")
  BY DEF AbortKill, FailKill, MarkKill
<1>3. call' \in [Callers -> Call] /\ HoldsWorker'
  BY <1>2, Going DEF At, Engaged, Steps
<1> QED BY <1>1, <1>3, KillKeeps DEF SupInv, SupTypeOK, Struct, Call

\* setState(id, Failed) fails whatever worker the map holds by now.
LEMMA FailingKeeps ==
    ASSUME SupInv, NEW t \in Callers,
           SetFailed(t, "setFailed", "err") \/ SetFailed(t, "setKilled", "killed")
    PROVE  SupInv'
<1>1. call' \in [Callers -> Call] /\ HoldsWorker'
  BY Going DEF SetFailed, At, Engaged, Steps
<1>2. worker' \in [Workers -> Struct] /\ ExitsShow'
  <2>1. CASE current = None
    BY <2>1, WorkerKept DEF SetFailed
  <2>2. CASE current # None
    <3> DEFINE s == [worker[current] EXCEPT !.state = "failed"]
    <3>1. current \in Workers /\ worker[current] \in Struct
      BY <2>2 DEF SupInv, SupTypeOK, Struct
    <3>2. worker' = [worker EXCEPT ![current] = s]
      BY <2>2, <3>1 DEF SetFailed
    <3>3. s \in Struct /\ Shown(s)
      BY <3>1 DEF SupInv, ExitsShow, Struct, Shown, States, Active
    <3> QED BY <3>2, <3>3, WorkerChange
  <2> QED BY <2>1, <2>2
<1> QED BY <1>1, <1>2, RestKept DEF SetFailed, Rest

-----------------------------------------------------------------------------
(* Stop, draining, and the context of a caller.                            *)

LEMMA StopBeginKeeps ==
    ASSUME SupInv, NEW t \in Callers,
           \/ StopBegin(t, "idle", "stopWait", "ok")
           \/ StopBegin(t, "failStop", "failWait", "setFailed")
    PROVE  SupInv'
<1> USE DEF Rest
<1>1. CASE ~(HasProcess /\ ~worker[current].done)
  <2>1. call' \in [Callers -> Call] /\ HoldsWorker'
    BY <1>1, Going DEF StopBegin, At, Engaged, Steps
  <2> QED BY <1>1, <2>1, WorkerKept, RestKept DEF StopBegin
<1>2. CASE HasProcess /\ ~worker[current].done
  <2> DEFINE s == [worker[current] EXCEPT !.state = "stopping"]
  <2>1. current \in Workers /\ worker[current] \in Struct
    BY <1>2 DEF HasProcess, SupInv, SupTypeOK, Struct
  <2>2. worker' = [worker EXCEPT ![current] = s] /\ s \in Struct /\ Shown(s)
    BY <1>2, <2>1 DEF StopBegin, Struct, Shown, States
  <2>3. \E pc \in {"stopWait", "failWait"} : call' = [call EXCEPT ![t] = [pc |-> pc, w |-> current]]
    BY <1>2 DEF StopBegin
  <2>4. call' \in [Callers -> Call] /\ HoldsWorker'
    BY <2>1, <2>3, TakingUp DEF Call, Steps
  <2> QED BY <2>2, <2>4, WorkerChange, RestKept DEF StopBegin
<1> QED BY <1>1, <1>2

LEMMA StoppingKeeps ==
    ASSUME SupInv, NEW t \in Callers,
           \/ StopStep(t)
           \/ StopDone(t, "failWait", "setFailed") \/ StopDone(t, "failReap", "setFailed")
           \/ StopEscalate(t, "failWait", "failReap")
    PROVE  SupInv'
<1>1. PICK pc \in {"ok", "err", "setFailed", "stopReap", "failReap"} : Goto(t, pc)
  BY SMTT(60) DEF StopStep, StopDone, StopCancelled, StopEscalate
<1>2. call' \in [Callers -> Call] /\ HoldsWorker'
  BY <1>1, Going DEF StopStep, StopDone, StopCancelled, StopEscalate, At, Engaged, Steps
<1>3. call[t].w \in Workers
  BY DEF SupInv, HoldsWorker, StopStep, StopDone, StopCancelled, StopEscalate, At, Engaged, Steps
<1>4. sigkill' \in SUBSET Workers /\ UNCHANGED <<current, worker, proc, reaper, record, ctxDone>>
  BY <1>3 DEF SupInv, SupTypeOK, StopStep, StopDone, StopCancelled, StopEscalate
<1> QED BY <1>2, <1>4, WorkerKept DEF SupInv, SupTypeOK, Struct, Call

LEMMA ContextKeeps ==
    ASSUME SupInv, NEW t \in Callers, Return(t) \/ Cancel(t)
    PROVE  SupInv'
<1>1. CASE Return(t)
  <2>1. Idle \in Call /\ Idle.pc \notin Engaged
    BY DEF Idle, Call, Steps, Engaged
  <2>2. call' \in [Callers -> Call] /\ HoldsWorker'
    BY <1>1, <2>1, TakingUp DEF Return
  <2> QED BY <1>1, <2>2, WorkerKept DEF Return, SupInv, SupTypeOK, Struct, Call
<1>2. CASE Cancel(t)
  BY <1>2, WorkerKept, CallKept DEF Cancel, SupInv, SupTypeOK, Struct, Call
<1> QED BY <1>1, <1>2

LEMMA DrainKeeps ==
    ASSUME SupInv, DrainOrKill
    PROVE  SupInv'
<1> DEFINE Fixed == UNCHANGED <<current, proc, reaper, record, call, ctxDone>>
<1>1. worker' \in [Workers -> Struct] /\ ExitsShow' /\ sigkill' \in SUBSET Workers
  <2>1. CASE Kill
    BY <2>1, KillKeeps
  <2>2. CASE (BeginDrain \/ AbortDrain) /\ UNCHANGED <<worker, sigkill>>
    BY <2>2, WorkerKept DEF SupInv, SupTypeOK
  <2>3. CASE (BeginDrain \/ AbortDrain) /\ ~UNCHANGED worker /\ UNCHANGED sigkill
    <3>1. current # None /\ (Status = "ready" \/ ~worker[current].done)
      BY <2>3 DEF BeginDrain, AbortDrain, Status
    <3>2. current \in Workers /\ worker[current] \in Struct
      BY <3>1 DEF SupInv, SupTypeOK, Struct
    <3>3. ~worker[current].done
      BY <3>1, <3>2 DEF SupInv, ExitsShow, Status, Active
    <3>4. PICK d \in {"draining", "ready"} : worker' = [worker EXCEPT ![current].state = d]
      BY <2>3 DEF BeginDrain, AbortDrain
    <3> DEFINE s == [worker[current] EXCEPT !.state = d]
    <3>5. worker' = [worker EXCEPT ![current] = s] /\ s \in Struct /\ Shown(s)
      BY <3>2, <3>3, <3>4 DEF Struct, Shown, States
    <3>6. worker' \in [Workers -> Struct] /\ ExitsShow'
      BY <3>5, WorkerChange
    <3> QED BY <2>3, <3>6 DEF SupInv, SupTypeOK
  <2> QED BY <2>1, <2>2, <2>3 DEF DrainOrKill
<1> QED BY <1>1, CallKept DEF DrainOrKill, SupInv, SupTypeOK, Struct, Call

-----------------------------------------------------------------------------
(* Processes and reapers.                                                  *)

\* Only the reaper shows an exit, and it takes the state and the PID with it.
LEMMA ReapKeeps ==
    ASSUME SupInv, NEW w \in Workers, Reap(w)
    PROVE  SupInv'
<1>1. worker' \in [Workers -> Struct] /\ ExitsShow'
  <2>1. CASE UNCHANGED worker
    BY <2>1, WorkerKept
  <2>2. CASE ~UNCHANGED worker
    <3> DEFINE s == [worker[w] EXCEPT !.state = IF @ = "stopping" THEN "unloaded" ELSE "failed",
                                      !.pid = FALSE, !.done = TRUE]
    <3>1. worker[w] \in Struct
      BY DEF SupInv, SupTypeOK, Struct
    <3>2. worker' = [worker EXCEPT ![w] = s]
      BY <2>2, <3>1 DEF Reap, SupInv, SupTypeOK
    <3>3. s \in Struct /\ Shown(s)
      BY <3>1 DEF Struct, Shown, States, Active
    <3> QED BY <3>2, <3>3, WorkerChange
  <2> QED BY <2>1, <2>2
<1>2. reaper' \in [Workers -> {"none", "wait", "get", "delete", "notify", "gone"}]
  BY DEF Reap, SupInv, SupTypeOK
<1> QED BY <1>1, <1>2, CallKept DEF Reap, SupInv, SupTypeOK, Struct, Call

LEMMA ProcessKeeps ==
    ASSUME SupInv, NEW w \in Workers, ProcessStep(w) \/ Notify(w)
    PROVE  SupInv'
<1>1. CASE Reap(w)
  BY <1>1, ReapKeeps
<1>2. CASE Serve(w) \/ Exit(w)
  BY <1>2, WorkerKept, CallKept DEF Serve, Exit, SupInv, SupTypeOK, Struct, Call
<1>3. CASE ClearGet(w) \/ ClearDelete(w) \/ Notify(w)
  <2>1. record' \in Workers \cup {None}
    BY <1>3 DEF ClearGet, ClearDelete, Notify, SupInv, SupTypeOK
  <2>2. reaper' \in [Workers -> {"none", "wait", "get", "delete", "notify", "gone"}]
    BY <1>3 DEF ClearGet, ClearDelete, Notify, Notified, SupInv, SupTypeOK
  <2> QED BY <1>3, <2>1, <2>2, WorkerKept, CallKept
          DEF ClearGet, ClearDelete, Notify, SupInv, SupTypeOK, Struct, Call
<1> QED BY <1>1, <1>2, <1>3 DEF ProcessStep

-----------------------------------------------------------------------------
(* The theorems.                                                           *)

LEMMA InitHolds == SupInit => SupInv
BY SupervisorAssumption
   DEF SupInit, SupInv, SupTypeOK, HoldsWorker, ExitsShow, Absent, Idle, Engaged, States, Steps

LEMMA NextHolds == SupInv /\ [Next]_supVars => SupInv'
<1> SUFFICES ASSUME SupInv, [Next]_supVars PROVE SupInv'
  OBVIOUS
<1>1. CASE UNCHANGED supVars
  BY <1>1 DEF supVars, SupInv, SupTypeOK, HoldsWorker, ExitsShow
<1>2. ASSUME NEW t \in Callers, Start(t) PROVE SupInv'
  BY <1>2, StartKeeps, AwaitKeeps, KillingKeeps, FailingKeeps, StopBeginKeeps, StoppingKeeps DEF Start
<1>3. ASSUME NEW t \in Callers, Stop(t) \/ StopStep(t) PROVE SupInv'
  BY <1>3, StopBeginKeeps, StoppingKeeps DEF Stop
<1> QED BY <1>1, <1>2, <1>3, ContextKeeps, ProcessKeeps, DrainKeeps DEF Next

\* The invariant all of this rests on (supervisor/control.go, start.go).
THEOREM SupervisorInductive == Spec => []SupInv
BY InitHolds, NextHolds, PTL DEF Spec

\* An exit that was reaped is never hidden: no caller that reads the map, then
\* locks again, shows a reaped worker as active or with a PID
\* (supervisor/control.go:27-56, 135-178).
THEOREM ExitsAlwaysShow == Spec => []ExitsShow
BY SupervisorInductive, PTL DEF SupInv

\* The state of the supervisor stays typed.
THEOREM SupervisorTyped == Spec => []SupTypeOK
BY SupervisorInductive, PTL DEF SupInv

-----------------------------------------------------------------------------
(* Readiness.                                                              *)

\* Worker w comes into service in this step.
Readied(w) == worker'[w].state = "ready" /\ worker[w].state # "ready"

\* A step that changes the worker in the map, or one it does not make ready,
\* brings none of the others into service.
LEMMA OthersUnready ==
    ASSUME SupInv, NEW x, NEW s, worker' = [worker EXCEPT ![x] = s],
           x = current \/ s.state # "ready",
           NEW w \in Workers, w # current
    PROVE  ~Readied(w)
BY DEF SupInv, SupTypeOK, Readied

LEMMA KillUnready ==
    ASSUME SupInv, Kill, NEW w \in Workers, w # current
    PROVE  ~Readied(w)
BY DEF Kill, SupInv, SupTypeOK, Readied

\* No step readies a worker that is not in the map.
LEMMA OnlyCurrentReadied ==
    ASSUME SupInv, Next, NEW w \in Workers, w # current, reaper[w] # "none"
    PROVE  ~Readied(w)
<1>0. CASE UNCHANGED worker
  BY <1>0 DEF Readied
<1>1. ASSUME NEW t \in Callers, StartUnlaunched(t) \/ Spawn(t) PROVE ~Readied(w)
  <2>1. PICK v \in Unused, s \in Struct :
           worker' = [worker EXCEPT ![v] = s] /\ s.state # "ready"
    <3>1. \A st \in {"failed", "loading"}, p \in BOOLEAN :
             [Absent EXCEPT !.state = st, !.pid = p] \in Struct /\ [Absent EXCEPT !.state = st] \in Struct
      BY DEF Absent, Struct, States
    <3>2. CASE StartUnlaunched(t)
      BY <3>1, <3>2 DEF StartUnlaunched, Absent
    <3>3. CASE Spawn(t)
      BY ZenonT(60), <3>1, <3>3 DEF Spawn, Absent
    <3> QED BY <1>1, <3>2, <3>3
  <2> QED BY <2>1, OthersUnready
<1>2. ASSUME NEW t \in Callers, MarkReady(t) PROVE ~Readied(w)
  BY <1>2 DEF MarkReady, SupInv, SupTypeOK, Readied
<1>3. ASSUME NEW t \in Callers, AbortKill(t) \/ FailKill(t) \/ MarkKill(t) PROVE ~Readied(w)
  BY <1>3, KillUnready DEF AbortKill, FailKill, MarkKill
<1>4. ASSUME NEW t \in Callers, NEW from, NEW result, SetFailed(t, from, result) PROVE ~Readied(w)
  BY <1>4 DEF SetFailed, SupInv, SupTypeOK, Readied
<1>5. ASSUME NEW t \in Callers, NEW from, NEW wait, NEW finished, StopBegin(t, from, wait, finished)
      PROVE  ~Readied(w)
  BY <1>5 DEF StopBegin, SupInv, SupTypeOK, Readied
<1>6. ASSUME NEW v \in Workers, Reap(v) PROVE ~Readied(w)
  BY <1>6 DEF Reap, SupInv, SupTypeOK, Readied
<1>7. CASE DrainOrKill
  <2>1. CASE BeginDrain \/ AbortDrain
    BY <2>1 DEF BeginDrain, AbortDrain, SupInv, SupTypeOK, Readied
  <2> QED BY <1>7, <2>1, KillUnready DEF DrainOrKill
<1>8. ASSUME NEW t \in Callers, ~UNCHANGED worker, Start(t) \/ Stop(t) \/ StopStep(t) \/ Return(t) \/ Cancel(t)
      PROVE  ~Readied(w)
  BY <1>1, <1>2, <1>3, <1>4, <1>5, <1>8
     DEF Start, Stop, StopStep, Return, Cancel, StartActive, StartRefused, Persist, AbortWait,
         AwaitReady, StopDone, StopCancelled, StopEscalate
<1>9. ASSUME NEW v \in Workers, ~UNCHANGED worker, ProcessStep(v) \/ Notify(v) PROVE ~Readied(w)
  BY <1>6, <1>9 DEF ProcessStep, Notify, Serve, Exit, ClearGet, ClearDelete
<1> QED BY <1>0, <1>7, <1>8, <1>9 DEF Next

\* A worker that gave way to another in the map never comes into service,
\* whoever still holds it (supervisor/start.go, control.go:27-56).
THEOREM ReplacedStaysOut == Spec => ReplacedNeverReady
<1>1. SupInv /\ [Next]_supVars =>
        [\A w \in Workers : w # current /\ reaper[w] # "none" =>
            ~(worker'[w].state = "ready" /\ worker[w].state # "ready")]_supVars
  BY OnlyCurrentReadied DEF Readied, supVars
<1> QED BY <1>1, SupervisorInductive, PTL DEF Spec, ReplacedNeverReady


-----------------------------------------------------------------------------
(* The supervisor's invariant under the lifecycle's steps.                 *)

\* What a step may do to the workers besides the supervisor's own operations.
WorkerStep ==
    \/ UNCHANGED <<worker, sigkill>>
    \/ Kill
    \/ (BeginDrain \/ AbortDrain) /\ UNCHANGED sigkill

\* What it may do to its place in the supervisor.
CallStep(t) ==
    \/ UNCHANGED call
    \/ Reset(t)
    \/ current # None /\ WaitFor(t)
    \/ Goto(t, "idle")

LEMMA DrainIsSafe ==
    ASSUME SupInv, BeginDrain \/ AbortDrain
    PROVE  worker' \in [Workers -> Struct] /\ ExitsShow'
<1>1. CASE UNCHANGED worker
  BY <1>1, WorkerKept
<1>2. CASE ~UNCHANGED worker
  <2>1. current # None /\ (Status = "ready" \/ ~worker[current].done)
    BY <1>2 DEF BeginDrain, AbortDrain, Status
  <2>2. current \in Workers /\ worker[current] \in Struct
    BY <2>1 DEF SupInv, SupTypeOK, Struct
  <2>3. ~worker[current].done
    BY <2>1, <2>2 DEF SupInv, ExitsShow, Status, Active
  <2>4. PICK d \in {"draining", "ready"} : worker' = [worker EXCEPT ![current].state = d]
    BY <1>2 DEF BeginDrain, AbortDrain
  <2> DEFINE s == [worker[current] EXCEPT !.state = d]
  <2>5. worker' = [worker EXCEPT ![current] = s] /\ s \in Struct /\ Shown(s)
    BY <2>2, <2>3, <2>4 DEF Struct, Shown, States
  <2> QED BY <2>5, WorkerChange
<1> QED BY <1>1, <1>2

LEMMA WorkerStepSafe ==
    ASSUME SupInv, WorkerStep
    PROVE  worker' \in [Workers -> Struct] /\ ExitsShow' /\ sigkill' \in SUBSET Workers
<1>1. CASE UNCHANGED <<worker, sigkill>>
  BY <1>1, WorkerKept DEF SupInv, SupTypeOK
<1>2. CASE (BeginDrain \/ AbortDrain) /\ UNCHANGED sigkill
  BY <1>2, DrainIsSafe DEF SupInv, SupTypeOK
<1> QED BY <1>1, <1>2, KillKeeps DEF WorkerStep

LEMMA CallStepSafe ==
    ASSUME SupInv, NEW t \in Callers, CallStep(t)
    PROVE  call' \in [Callers -> Call] /\ HoldsWorker'
<1>1. CASE UNCHANGED call
  BY <1>1, CallKept
<1>2. CASE Reset(t)
  <2>1. Idle \in Call /\ Idle.pc \notin Engaged
    BY DEF Idle, Call, Steps, Engaged
  <2> QED BY <1>2, <2>1, TakingUp DEF Reset
<1>3. CASE current # None /\ WaitFor(t)
  <2> DEFINE c == [call[t] EXCEPT !.w = current]
  <2>1. c \in Call /\ c.w \in Workers /\ call' = [call EXCEPT ![t] = c]
    BY <1>3 DEF WaitFor, SupInv, SupTypeOK, Call
  <2> QED BY <2>1, TakingUp
<1>4. CASE Goto(t, "idle")
  BY <1>4, Going DEF Engaged, Steps
<1> QED BY <1>1, <1>2, <1>3, <1>4 DEF CallStep

\* A step made of these pieces keeps the supervisor's invariant.
LEMMA PiecesSafe ==
    ASSUME SupInv, UNCHANGED procVars, WorkerStep, NEW t \in Callers, CallStep(t),
           ctxDone' \in SUBSET Callers
    PROVE  SupInv'
BY WorkerStepSafe, CallStepSafe DEF procVars, SupInv, SupTypeOK, Struct, Call

LEMMA SupKept ==
    ASSUME SupInv, UNCHANGED supVars
    PROVE  SupInv'
BY DEF supVars, SupInv, SupTypeOK, HoldsWorker, ExitsShow

\* The supervisor's own operations leave the service alone.
LEMMA SupervisorSteps ==
    ASSUME SupInv, NEW t \in Callers, StartWorker(t) \/ StopWorker(t)
    PROVE  SupInv' /\ UNCHANGED lifeVars
BY NextHolds DEF StartWorker, StopWorker, Next, Stop

-----------------------------------------------------------------------------
(* Types.                                                                  *)

LifeTyped ==
    /\ at \in [Callers -> Places]
    /\ drain \in BOOLEAN /\ loading \in BOOLEAN
    /\ gate \in Callers \cup {Nobody} /\ startup \in Callers \cup {Nobody}
    /\ manual \in BOOLEAN /\ blocked \in BOOLEAN /\ backoff \in BOOLEAN
    /\ demand \in [pending : Nat, active : Nat]
    /\ lease \in [id : 0..3, state : {"none", "pending", "committed"}]
    /\ tracked \in [w : Workers \cup {None}, lease : 0..3]

Typed == SupInv /\ LifeTyped

\* The threads that LifecycleAssumption tells apart.
LEMMA Threads ==
    /\ Clients \subseteq Callers /\ Operators \subseteq Callers /\ Tasks \subseteq Callers
    /\ Load \in Callers /\ Load \notin Clients /\ Load \notin Operators
    /\ Clients \cap Operators = {} /\ Clients \cap Tasks = {} /\ Operators \cap Tasks = {}
    /\ Cancellable \subseteq Operators \cup Tasks
BY LifecycleAssumption

LEMMA LifeKept ==
    ASSUME LifeTyped, UNCHANGED lifeVars
    PROVE  LifeTyped'
BY DEF LifeTyped, lifeVars, control, flags, books

\* A thread that moves to another place.
LEMMA Moves ==
    ASSUME LifeTyped, NEW t \in Callers, NEW pc \in Places, Move(t, pc)
    PROVE  at' \in [Callers -> Places]
BY DEF LifeTyped, Move

LEMMA CompletesTyped ==
    ASSUME LifeTyped, NEW ok \in BOOLEAN, CompleteLoad(ok)
    PROVE  at' \in [Callers -> Places] /\ loading' \in BOOLEAN
BY DEF LifeTyped, CompleteLoad, Places

LEMMA JoinsTyped ==
    ASSUME LifeTyped, NEW t \in Callers, NEW pc \in Places, Join(t, pc)
    PROVE  at' \in [Callers -> Places] /\ loading' \in BOOLEAN
BY Threads DEF LifeTyped, Join, Places

LEMMA StartupTyped ==
    ASSUME SupInv, LifeTyped, NEW t \in Callers,
           CancelStartup \/ BeginStartup(t)
    PROVE  startup' \in Callers \cup {Nobody} /\ ctxDone' \in SUBSET Callers
BY DEF SupInv, SupTypeOK, LifeTyped, CancelStartup, BeginStartup, Interrupted

\* The ID of a new lease is none that is in use.
LEMMA NewLeaseTyped ==
    ASSUME LifeTyped, NewLease
    PROVE  /\ lease' \in [id : 0..3, state : {"none", "pending", "committed"}]
           /\ lease'.id \in 1..3 \ {lease.id, tracked.lease} /\ lease'.state = "pending"
<1>1. \E n \in 1..3 : n \notin {lease.id, tracked.lease}
  BY DEF LifeTyped
<1> DEFINE n == CHOOSE m \in 1..3 : m \notin {lease.id, tracked.lease}
<1>2. n \in 1..3 /\ n \notin {lease.id, tracked.lease}
  BY <1>1
<1>3. lease' = [id |-> n, state |-> "pending"]
  BY DEF NewLease
<1> QED BY <1>2, <1>3

LEMMA ExitTyped ==
    ASSUME LifeTyped, NEW w, WorkerExited(w)
    PROVE  /\ lease' \in [id : 0..3, state : {"none", "pending", "committed"}]
           /\ tracked' \in [w : Workers \cup {None}, lease : 0..3]
BY DEF LifeTyped, WorkerExited, NoLease, Untracked, books

\* Requests.
LEMMA RequestTyped ==
    ASSUME Typed, NEW c \in Clients, Request(c) \/ Serving(c) \/ GiveUp(c)
    PROVE  Typed'
<1> USE Threads DEF Typed, control, flags, books, lifeVars
<1>1. CASE ReservePending(c)
  BY <1>1, SupKept, Moves DEF ReservePending, LifeTyped, Places
<1>2. CASE Admit(c) \/ Readmit(c) \/ WaitDrain(c) \/ GiveUp(c)
  <2>1. CallStep(c) /\ UNCHANGED procVars /\ WorkerStep /\ ctxDone' \in SUBSET Callers
    BY <1>2 DEF Admit, Readmit, WaitDrain, GiveUp, CallStep, WorkerStep, ShuttingDown, Status,
                SupInv, SupTypeOK
  <2>2. SupInv'
    BY <2>1, PiecesSafe
  <2>3. PICK pc \in Places : Move(c, pc)
    BY <1>2 DEF Admit, Readmit, WaitDrain, GiveUp, Places
  <2> QED BY <1>2, <2>2, <2>3, Moves DEF Admit, Readmit, WaitDrain, GiveUp, LifeTyped
<1>3. CASE Resolve(c)
  <2>1. at' \in [Callers -> Places] /\ loading' \in BOOLEAN
    BY <1>3, Moves, JoinsTyped DEF Resolve, Places, LifeTyped
  <2> QED BY <1>3, <2>1, SupKept DEF Resolve, LifeTyped
<1>4. CASE ReleasePending(c) \/ Activate(c) \/ FinishActive(c)
  <2>1. PICK pc \in Places : Move(c, pc)
    BY <1>4 DEF ReleasePending, Activate, FinishActive, Places
  <2>2. demand' \in [pending : Nat, active : Nat]
    BY <1>4 DEF ReleasePending, Activate, FinishActive, Less, LifeTyped
  <2> QED BY <1>4, <2>1, <2>2, SupKept, Moves DEF ReleasePending, Activate, FinishActive, LifeTyped
<1> QED BY <1>1, <1>2, <1>3, <1>4 DEF Request, Serving

\* startOneWithEviction, whoever runs it.
LEMMA StartOneTyped ==
    ASSUME Typed, NEW t \in Callers, StartOne(t)
    PROVE  Typed'
<1> USE DEF Typed, control, flags, books, lifeVars
<1>1. CASE Plan(t)
  <2>1. lease' \in [id : 0..3, state : {"none", "pending", "committed"}]
    BY <1>1, NewLeaseTyped DEF Plan, NoLease, LifeTyped
  <2>2. PICK pc \in Places : Move(t, pc)
    BY <1>1 DEF Plan, Places, Starting
  <2> QED BY <1>1, <2>1, <2>2, SupKept, Moves DEF Plan, LifeTyped
<1>2. CASE Launch(t) \/ CheckEndpoint(t)
  <2>1. PICK pc \in Places : Move(t, pc)
    BY <1>2 DEF Launch, CheckEndpoint, Places, Starting
  <2> QED BY <1>2, <2>1, SupKept, Moves DEF Launch, CheckEndpoint, LifeTyped
<1>3. CASE StartWorker(t)
  BY <1>3, SupervisorSteps, LifeKept
<1>4. CASE StartReturned(t)
  <2>1. PICK pc \in Places : Move(t, pc)
    BY <1>4 DEF StartReturned, At, Places, Starting
  <2>2. CallStep(t) /\ WorkerStep /\ ctxDone' \in SUBSET Callers
    BY <1>4 DEF StartReturned, CallStep, WorkerStep, SupInv, SupTypeOK
  <2>3. SupInv'
    BY <1>4, <2>2, PiecesSafe DEF StartReturned
  <2> QED BY <1>4, <2>1, <2>3, Moves DEF StartReturned, LifeTyped
<1>5. CASE CheckLive(t)
  <2>1. PICK pc \in Places : Move(t, pc)
    BY <1>5 DEF CheckLive, Places, Starting
  <2>2. CallStep(t) /\ WorkerStep /\ ctxDone' \in SUBSET Callers
    BY <1>5 DEF CheckLive, CallStep, WorkerStep, SupInv, SupTypeOK
  <2>3. SupInv'
    BY <1>5, <2>2, PiecesSafe DEF CheckLive
  <2> QED BY <1>5, <2>1, <2>3, Moves DEF CheckLive, LifeTyped
<1>6. CASE Commit(t)
  <2>1. lease' \in [id : 0..3, state : {"none", "pending", "committed"}]
    BY <1>6 DEF Commit, NoLease, LifeTyped
  <2>2. PICK pc \in Places : Move(t, pc)
    BY <1>6 DEF Commit, Places, Starting
  <2> QED BY <1>6, <2>1, <2>2, SupKept, Moves DEF Commit, LifeTyped
<1>7. CASE Track(t)
  <2>1. tracked' \in [w : Workers \cup {None}, lease : 0..3]
    BY <1>7 DEF Track, LifeTyped, SupInv, SupTypeOK
  <2>2. PICK pc \in Places : Move(t, pc)
    BY <1>7 DEF Track, Places, Starting
  <2> QED BY <1>7, <2>1, <2>2, SupKept, Moves DEF Track, LifeTyped
<1>8. CASE Verify(t)
  <2>1. /\ lease' \in [id : 0..3, state : {"none", "pending", "committed"}]
        /\ tracked' \in [w : Workers \cup {None}, lease : 0..3]
    BY <1>8, ExitTyped DEF Verify, LifeTyped
  <2>2. PICK pc \in Places : Move(t, pc)
    BY <1>8 DEF Verify, Places, Starting
  <2> QED BY <1>8, <2>1, <2>2, SupKept, Moves DEF Verify, LifeTyped
<1>9. CASE Succeed(t) \/ Fail(t)
  <2>1. PICK pc \in Places : Move(t, pc)
    BY <1>9 DEF Succeed, Fail, Places, Starting
  <2>2. lease' \in [id : 0..3, state : {"none", "pending", "committed"}]
    BY <1>9 DEF Succeed, Fail, ReleaseReservation, NoLease, LifeTyped
  <2>3. backoff' \in BOOLEAN
    BY <1>9 DEF Succeed, Fail, RecordFailure, ResetFailures, LifeTyped
  <2> QED BY <1>9, <2>1, <2>2, <2>3, SupKept, Moves DEF Succeed, Fail, LifeTyped
<1> QED BY <1>1, <1>2, <1>3, <1>4, <1>5, <1>6, <1>7, <1>8, <1>9 DEF StartOne

\* runLoad.
LEMMA LoadTyped ==
    ASSUME Typed, RunLoad
    PROVE  Typed'
<1> USE Threads DEF Typed, control, flags, books, lifeVars
<1>1. CASE WaitDrain(Load)
  <2>1. CallStep(Load) /\ WorkerStep /\ ctxDone' \in SUBSET Callers
    BY <1>1 DEF WaitDrain, CallStep, WorkerStep, ShuttingDown, Status, SupInv, SupTypeOK
  <2>2. SupInv'
    BY <1>1, <2>1, PiecesSafe DEF WaitDrain
  <2>3. PICK pc \in Places : Move(Load, pc)
    BY <1>1 DEF WaitDrain, Places
  <2> QED BY <1>1, <2>2, <2>3, Moves DEF WaitDrain, LifeTyped
<1>2. CASE LoadBegin
  <2>1. startup' \in Callers \cup {Nobody} /\ ctxDone' \in SUBSET Callers
    BY <1>2, StartupTyped DEF LoadBegin, SupInv, SupTypeOK, LifeTyped
  <2>2. at' \in [Callers -> Places] /\ loading' \in BOOLEAN
    BY <1>2, CompletesTyped, Moves DEF LoadBegin, LifeTyped, Places, Starting
  <2>3. SupInv'
    BY <1>2, <2>1, PiecesSafe DEF LoadBegin, CallStep, WorkerStep
  <2> QED BY <1>2, <2>1, <2>2, <2>3 DEF LoadBegin, LifeTyped
<1>3. CASE StartOne(Load)
  BY <1>3, StartOneTyped
<1>4. CASE LoadEnd \/ LoadStale
  <2>1. startup' \in Callers \cup {Nobody} /\ ctxDone' \in SUBSET Callers
    BY <1>4 DEF LoadEnd, LoadStale, FinishStartup, SupInv, SupTypeOK, LifeTyped
  <2>2. at' \in [Callers -> Places] /\ loading' \in BOOLEAN
    BY <1>4, CompletesTyped, Moves DEF LoadEnd, LoadStale, LifeTyped, Places, Starting, In
  <2>3. SupInv'
    BY <1>4, <2>1, PiecesSafe DEF LoadEnd, LoadStale, CallStep, WorkerStep
  <2> QED BY <1>4, <2>1, <2>2, <2>3 DEF LoadEnd, LoadStale, LifeTyped
<1>5. CASE LoadStray
  <2>1. at' \in [Callers -> Places] /\ loading' \in BOOLEAN
    BY <1>5, CompletesTyped DEF LoadStray
  <2>2. SupInv'
    BY <1>5, PiecesSafe DEF LoadStray, CallStep, WorkerStep, SupInv, SupTypeOK
  <2> QED BY <1>5, <2>1, <2>2 DEF LoadStray, LifeTyped
<1> QED BY <1>1, <1>2, <1>3, <1>4, <1>5 DEF RunLoad

\* Asking for an operation.
LEMMA AskTyped ==
    ASSUME Typed, NEW o \in Operators, Ask(o)
    PROVE  Typed'
<1> USE Threads DEF Typed, control, flags, books, lifeVars
<1>1. CASE AskStart(o)
  BY ZenonT(60), <1>1, SupKept, Moves DEF AskStart, OverrideBackoff, LifeTyped, Places
<1>2. CASE AskStop(o) \/ AskOther(o)
  <2>1. PICK pc \in Places : Move(o, pc)
    BY <1>2 DEF AskStop, AskOther, Places, Gates
  <2>2. WorkerStep /\ drain' \in BOOLEAN
    BY <1>2 DEF AskStop, AskOther, ClaimDrain, WorkerStep, LifeTyped
  <2>3. SupInv'
    BY <1>2, <2>2, PiecesSafe DEF AskStop, AskOther, CallStep, SupInv, SupTypeOK
  <2>4. manual' \in BOOLEAN /\ blocked' \in BOOLEAN
    BY <1>2, LifecycleAssumption DEF AskStop, AskOther, LifeTyped
  <2> QED BY <1>2, <2>1, <2>2, <2>3, <2>4, Moves DEF AskStop, AskOther, LifeTyped
<1> QED BY <1>1, <1>2 DEF Ask

\* A stop, from the gate to its end.
LEMMA StoppingTyped ==
    ASSUME Typed, NEW t \in Callers, Stopping(t)
    PROVE  Typed'
<1> USE DEF Typed, control, flags, books, lifeVars
<1>1. CASE StopGate(t)
  <2>1. startup' \in Callers \cup {Nobody} /\ ctxDone' \in SUBSET Callers
    BY <1>1, StartupTyped DEF StopGate
  <2>2. SupInv'
    BY <1>1, <2>1, PiecesSafe DEF StopGate, CallStep, WorkerStep
  <2> QED BY <1>1, <2>1, <2>2, Moves DEF StopGate, LifeTyped, Places
<1>2. CASE StopWorker(t)
  BY <1>2, SupervisorSteps, LifeKept
<1>3. CASE Stopped(t)
  <2>1. SupInv'
    BY <1>3, PiecesSafe DEF Stopped, CallStep, WorkerStep, SupInv, SupTypeOK
  <2>2. at' \in [Callers -> Places]
    BY <1>3, Moves DEF Stopped, Places
  <2>3. lease' \in [id : 0..3, state : {"none", "pending", "committed"}]
    BY <1>3 DEF Stopped, ReleaseReservation, NoLease
  <2> QED BY <1>3, <2>1, <2>2, <2>3 DEF Stopped, LifeTyped
<1>4. CASE StopFailed(t) \/ GateDenied(t)
  <2>1. WorkerStep /\ CallStep(t)
    BY <1>4 DEF StopFailed, GateDenied, AbortClaim, WorkerStep, CallStep
  <2>2. SupInv'
    BY <1>4, <2>1, PiecesSafe DEF StopFailed, GateDenied, SupInv, SupTypeOK
  <2>3. manual' \in BOOLEAN /\ blocked' \in BOOLEAN /\ drain' \in BOOLEAN /\ gate' \in Callers \cup {Nobody}
    BY <1>4 DEF StopFailed, GateDenied, Undo, AbortClaim, LifeTyped
  <2> QED BY <1>4, <2>2, <2>3, Moves DEF StopFailed, GateDenied, LifeTyped, Places
<1> QED BY <1>1, <1>2, <1>3, <1>4 DEF Stopping

\* The user's operations.
LEMMA OperateTyped ==
    ASSUME Typed, NEW o \in Operators, Operate(o)
    PROVE  Typed'
<1> USE Threads DEF Typed, control, flags, books, lifeVars
<1>1. CASE WaitDrain(o) \/ KillWait(o)
  <2>1. CallStep(o) /\ WorkerStep /\ ctxDone' \in SUBSET Callers
    BY <1>1 DEF WaitDrain, KillWait, CallStep, WorkerStep, ShuttingDown, Status, SupInv, SupTypeOK
  <2>2. SupInv'
    BY <1>1, <2>1, PiecesSafe DEF WaitDrain, KillWait
  <2>3. PICK pc \in Places : Move(o, pc)
    BY <1>1 DEF WaitDrain, KillWait, Places
  <2> QED BY <1>1, <2>2, <2>3, Moves DEF WaitDrain, KillWait, LifeTyped
<1>2. CASE StartResolve(o)
  <2>1. at' \in [Callers -> Places] /\ loading' \in BOOLEAN
    BY <1>2, Moves, JoinsTyped DEF StartResolve, Places, LifeTyped
  <2> QED BY <1>2, <2>1, SupKept DEF StartResolve, LifeTyped
<1>3. CASE RestartGate(o) \/ KillGate(o)
  <2>1. startup' \in Callers \cup {Nobody} /\ ctxDone' \in SUBSET Callers
    BY <1>3, StartupTyped DEF RestartGate, KillGate
  <2>2. SupInv'
    BY <1>3, <2>1, PiecesSafe DEF RestartGate, KillGate, CallStep, WorkerStep
  <2>3. PICK pc \in Places : Move(o, pc)
    BY <1>3 DEF RestartGate, KillGate, Places
  <2> QED BY <1>3, <2>1, <2>2, <2>3, Moves DEF RestartGate, KillGate, OverrideBackoff, LifeTyped
<1>4. CASE Restarting(o)
  <2>1. startup' \in Callers \cup {Nobody} /\ ctxDone' \in SUBSET Callers
    BY <1>4, StartupTyped DEF Restarting
  <2>2. SupInv'
    BY <1>4, <2>1, PiecesSafe DEF Restarting, CallStep, WorkerStep
  <2>3. at' \in [Callers -> Places]
    BY <1>4, Moves DEF Restarting, Places, Starting
  <2>4. lease' \in [id : 0..3, state : {"none", "pending", "committed"}]
    BY <1>4 DEF Restarting, ReleaseReservation, NoLease
  <2> QED BY <1>4, <2>1, <2>2, <2>3, <2>4 DEF Restarting, LifeTyped
<1>5. CASE RestartEnd(o) \/ RestartStray(o) \/ KillWorker(o)
  <2>1. WorkerStep /\ CallStep(o)
    BY <1>5 DEF RestartEnd, RestartStray, KillWorker, WorkerStep, CallStep
  <2>2. SupInv'
    BY <1>5, <2>1, PiecesSafe DEF RestartEnd, RestartStray, KillWorker, SupInv, SupTypeOK
  <2>3. PICK pc \in Places : Move(o, pc)
    BY <1>5 DEF RestartEnd, RestartStray, KillWorker, Places, Starting
  <2>4. startup' \in Callers \cup {Nobody} /\ gate' \in Callers \cup {Nobody}
    BY <1>5 DEF RestartEnd, RestartStray, KillWorker, FinishStartup, LifeTyped
  <2> QED BY <1>5, <2>2, <2>3, <2>4, Moves DEF RestartEnd, RestartStray, KillWorker, LifeTyped
<1>6. CASE KillEnd(o)
  <2>1. lease' \in [id : 0..3, state : {"none", "pending", "committed"}]
    BY <1>6 DEF KillEnd, ReleaseReservation, NoLease
  <2> QED BY ZenonT(60), <1>6, <2>1, SupKept, Moves DEF KillEnd, LifeTyped, Places
<1> QED BY <1>1, <1>2, <1>3, <1>4, <1>5, <1>6, StoppingTyped, StartOneTyped DEF Operate

\* The manager's own tasks.
LEMMA ClaimTyped ==
    ASSUME Typed, ("idler" \in Tasks /\ IdleClaim) \/ ("evictor" \in Tasks /\ EvictClaim)
    PROVE  Typed'
<1> USE Threads DEF Typed, control, flags, books, lifeVars
<1>1. PICK t \in Callers : Move(t, "idleStop") \/ Move(t, "evictMark")
  BY DEF IdleClaim, EvictClaim
<1>2. WorkerStep /\ drain' \in BOOLEAN
  BY DEF IdleClaim, EvictClaim, ClaimDrain, WorkerStep, LifeTyped
<1>3. SupInv'
  BY <1>1, <1>2, PiecesSafe DEF IdleClaim, EvictClaim, CallStep, SupInv, SupTypeOK
<1> QED BY <1>1, <1>2, <1>3, Moves DEF IdleClaim, EvictClaim, LifeTyped, Places

LEMMA AttendTyped ==
    ASSUME Typed, NEW t \in Tasks, Attend(t)
    PROVE  Typed'
<1> USE Threads DEF Typed, control, flags, books, lifeVars
<1>1. CASE t = "idler" /\ IdleStop
  <2>1. WorkerStep /\ drain' \in BOOLEAN
    BY <1>1 DEF IdleStop, ClaimDrain, WorkerStep, LifeTyped
  <2>2. SupInv'
    BY <1>1, <2>1, PiecesSafe DEF IdleStop, CallStep, SupInv, SupTypeOK
  <2> QED BY <1>1, <2>1, <2>2, Moves DEF IdleStop, LifeTyped, Places, Gates
<1>2. CASE t = "evictor" /\ EvictMark
  BY <1>2, SupKept, Moves DEF EvictMark, LifeTyped, Places, Gates
<1>3. CASE Stopping(t)
  BY <1>3, StoppingTyped
<1>4. CASE t = "keeper" /\ KeeperPass
  <2>1. at' \in [Callers -> Places]
    BY <1>4, Moves DEF KeeperPass, LifeTyped, Places
  <2> QED BY ZenonT(60), <1>4, <2>1, SupKept DEF KeeperPass, LifeTyped
<1>5. CASE t = "keeper" /\ Keep
  BY <1>5, SupKept, Moves DEF Keep, LifeTyped, Places
<1>6. CASE WaitDrain(t)
  <2>1. CallStep(t) /\ WorkerStep /\ ctxDone' \in SUBSET Callers
    BY <1>6 DEF WaitDrain, CallStep, WorkerStep, ShuttingDown, Status, SupInv, SupTypeOK
  <2>2. SupInv'
    BY <1>6, <2>1, PiecesSafe DEF WaitDrain
  <2>3. PICK pc \in Places : Move(t, pc)
    BY <1>6 DEF WaitDrain, Places
  <2> QED BY <1>6, <2>2, <2>3, Moves DEF WaitDrain, LifeTyped
<1>7. CASE t = "keeper" /\ KeepResolve
  <2>1. at' \in [Callers -> Places] /\ loading' \in BOOLEAN
    BY <1>7, Moves, JoinsTyped DEF KeepResolve, LifeTyped, Places
  <2> QED BY <1>7, <2>1, SupKept DEF KeepResolve, LifeTyped
<1>8. CASE UnblockBegin(t)
  <2>1. startup' \in Callers \cup {Nobody} /\ ctxDone' \in SUBSET Callers
    BY <1>8, StartupTyped DEF UnblockBegin, SupInv, SupTypeOK, LifeTyped
  <2>2. SupInv'
    BY <1>8, <2>1, PiecesSafe DEF UnblockBegin, CallStep, WorkerStep
  <2>3. PICK pc \in Places : Move(t, pc)
    BY <1>8 DEF UnblockBegin, Places, Starting
  <2>4. blocked' \in BOOLEAN
    BY <1>8 DEF UnblockBegin, LifeTyped
  <2> QED BY <1>8, <2>1, <2>2, <2>3, <2>4, Moves DEF UnblockBegin, LifeTyped
<1>9. CASE UnblockEnd(t)
  <2>1. startup' \in Callers \cup {Nobody} /\ ctxDone' \in SUBSET Callers
    BY <1>9 DEF UnblockEnd, FinishStartup, SupInv, SupTypeOK, LifeTyped
  <2>2. SupInv'
    BY <1>9, <2>1, PiecesSafe DEF UnblockEnd, CallStep, WorkerStep
  <2>3. at' \in [Callers -> Places] /\ blocked' \in BOOLEAN
    BY <1>9, Moves DEF UnblockEnd, Places
  <2> QED BY <1>9, <2>1, <2>2, <2>3 DEF UnblockEnd, LifeTyped
<1> QED BY <1>1, <1>2, <1>3, <1>4, <1>5, <1>6, <1>7, <1>8, <1>9, StartOneTyped DEF Attend

\* Contexts that end, processes, exits, delays and the ledger's sweep.
LEMMA OthersTyped ==
    ASSUME Typed,
           \/ \E t \in Cancellable : CancelContext(t)
           \/ \E w \in Workers : Process(w) \/ NotifyExit(w)
           \/ BackoffEnds \/ LeaseSwept
    PROVE  Typed'
<1> USE Threads DEF Typed, control, flags, books, lifeVars
<1>1. ASSUME NEW t \in Cancellable, CancelContext(t) PROVE Typed'
  <2>1. ctxDone' \in SUBSET Callers
    BY <1>1 DEF CancelContext, SupInv, SupTypeOK
  <2>2. SupInv'
    BY <1>1, <2>1, PiecesSafe DEF CancelContext, CallStep, WorkerStep
  <2> QED BY <1>1, <2>2, LifeKept DEF CancelContext
<1>2. ASSUME NEW w \in Workers, Process(w) PROVE Typed'
  BY <1>2, ProcessKeeps, LifeKept DEF Process
<1>3. ASSUME NEW w \in Workers, NotifyExit(w) PROVE Typed'
  <2>1. SupInv'
    BY <1>3, ProcessKeeps DEF NotifyExit, Notify
  <2> QED BY <1>3, <2>1, ExitTyped DEF NotifyExit, LifeTyped
<1>4. CASE BackoffEnds
  BY <1>4, SupKept DEF BackoffEnds, LifeTyped
<1>5. CASE LeaseSwept
  <2>1. lease' \in [id : 0..3, state : {"none", "pending", "committed"}]
    BY <1>5 DEF LeaseSwept, NoLease
  <2> QED BY <1>5, <2>1, SupKept DEF LeaseSwept, LifeTyped
<1> QED BY <1>1, <1>2, <1>3, <1>4, <1>5

LEMMA StartsTyped == LifeInit => Typed
<1> SUFFICES ASSUME LifeInit PROVE Typed
  OBVIOUS
<1>1. SupInv
  BY InitHolds DEF LifeInit
<1>2. at \in [Callers -> Places]
  BY DEF LifeInit, Places
<1>3. /\ lease \in [id : 0..3, state : {"none", "pending", "committed"}]
      /\ tracked \in [w : Workers \cup {None}, lease : 0..3]
  BY DEF LifeInit, NoLease, Untracked
<1> QED BY <1>1, <1>2, <1>3 DEF LifeInit, Typed, LifeTyped

LEMMA StepsTyped == Typed /\ [LifeNext]_vars => Typed'
<1> SUFFICES ASSUME Typed, [LifeNext]_vars PROVE Typed'
  OBVIOUS
<1>1. CASE UNCHANGED vars
  BY <1>1, SupKept, LifeKept DEF vars, Typed
<1>2. CASE \E c \in Clients : Request(c) \/ Serving(c) \/ GiveUp(c)
  BY <1>2, RequestTyped
<1>3. CASE \E o \in Operators : Ask(o) \/ Operate(o)
  BY <1>3, AskTyped, OperateTyped
<1>4. CASE \E t \in Tasks : Attend(t)
  BY <1>4, AttendTyped
<1>5. CASE ("idler" \in Tasks /\ IdleClaim) \/ ("evictor" \in Tasks /\ EvictClaim)
  BY <1>5, ClaimTyped
<1>6. CASE RunLoad
  BY <1>6, LoadTyped
<1>7. CASE \/ \E t \in Cancellable : CancelContext(t)
           \/ \E w \in Workers : Process(w) \/ NotifyExit(w)
           \/ BackoffEnds \/ LeaseSwept
  BY <1>7, OthersTyped
<1>8. LifeNext \/ UNCHANGED vars
  OBVIOUS
<1> QED BY <1>1, <1>2, <1>3, <1>4, <1>5, <1>6, <1>7, <1>8, Zenon DEF LifeNext

-----------------------------------------------------------------------------
(* Requests are counted exactly.                                           *)

Served == {c \in Clients : In(c, "active")}

\* Everybody else's steps leave the requests where they count: at most, the
\* load that some of them wait for is over.
Elsewhere == demand' = demand /\ Waiting' = Waiting /\ Served' = Served

LEMMA StillElsewhere ==
    ASSUME UNCHANGED <<at, demand>>
    PROVE  Elsewhere
BY DEF Elsewhere, Waiting, Served, In

LEMMA MoveElsewhere ==
    ASSUME LifeTyped, NEW t \in Callers, t \notin Clients, NEW pc, Move(t, pc), UNCHANGED demand
    PROVE  Elsewhere
<1>1. \A c \in Clients : at'[c] = at[c]
  BY Threads DEF LifeTyped, Move
<1> QED BY <1>1 DEF Elsewhere, Waiting, Served, In

LEMMA JoinElsewhere ==
    ASSUME LifeTyped, NEW t \in Callers, t \notin Clients, NEW pc, Join(t, pc), UNCHANGED demand
    PROVE  Elsewhere
<1>1. \A c \in Clients : at'[c] = at[c]
  BY Threads DEF LifeTyped, Join
<1> QED BY <1>1 DEF Elsewhere, Waiting, Served, In

LEMMA CompleteElsewhere ==
    ASSUME LifeTyped, NEW ok, CompleteLoad(ok), UNCHANGED demand
    PROVE  Elsewhere
<1>1. \A c \in Clients : c \in Callers /\ c # Load
  BY Threads
<1>2. \A c \in Clients :
        \/ at'[c] = at[c]
        \/ at[c] = "joined" /\ at'[c] \in {"granted", "fail"}
        \/ at[c] = "killLoad" /\ at'[c] = "killDown"
  BY <1>1 DEF CompleteLoad
<1> QED BY <1>2 DEF Elsewhere, Waiting, Served, In

LEMMA StartOneElsewhere ==
    ASSUME LifeTyped, NEW t \in Callers, t \notin Clients, StartOne(t)
    PROVE  Elsewhere
<1>1. CASE StartWorker(t)
  BY <1>1, StillElsewhere DEF StartWorker, lifeVars
<1>2. CASE ~StartWorker(t)
  <2>1. PICK pc \in Places : Move(t, pc)
    BY <1>2 DEF StartOne, Plan, Launch, StartReturned, CheckLive, CheckEndpoint, Commit, Track,
                Verify, Succeed, Fail, At, Places, Starting
  <2>2. UNCHANGED demand
    BY <1>2 DEF StartOne, Plan, Launch, StartReturned, CheckLive, CheckEndpoint, Commit, Track,
                Verify, Succeed, Fail
  <2> QED BY <2>1, <2>2, MoveElsewhere
<1> QED BY <1>1, <1>2

LEMMA RunLoadElsewhere ==
    ASSUME LifeTyped, RunLoad
    PROVE  Elsewhere
<1> USE Threads
<1>1. CASE WaitDrain(Load)
  BY <1>1, MoveElsewhere DEF WaitDrain
<1>2. CASE LoadBegin
  BY <1>2, MoveElsewhere, CompleteElsewhere DEF LoadBegin
<1>3. CASE LoadEnd \/ LoadStale \/ LoadStray
  BY <1>3, MoveElsewhere, CompleteElsewhere DEF LoadEnd, LoadStale, LoadStray
<1> QED BY <1>1, <1>2, <1>3, StartOneElsewhere DEF RunLoad

LEMMA StoppingElsewhere ==
    ASSUME LifeTyped, NEW t \in Callers, t \notin Clients, Stopping(t)
    PROVE  Elsewhere
<1>1. CASE StopWorker(t)
  BY <1>1, StillElsewhere DEF StopWorker, lifeVars
<1> QED BY <1>1, MoveElsewhere DEF Stopping, StopGate, Stopped, StopFailed, GateDenied

LEMMA OperateElsewhere ==
    ASSUME LifeTyped, NEW o \in Operators, Ask(o) \/ Operate(o)
    PROVE  Elsewhere
<1>0. o \in Callers /\ o \notin Clients
  BY Threads
<1>1. CASE StartResolve(o)
  BY <1>0, <1>1, MoveElsewhere, JoinElsewhere DEF StartResolve
<1>2. CASE Ask(o)
  BY <1>0, <1>2, MoveElsewhere DEF Ask, AskStart, AskStop, AskOther
<1>3. CASE WaitDrain(o) \/ KillWait(o)
  BY <1>0, <1>3, MoveElsewhere DEF WaitDrain, KillWait
<1>4. CASE RestartGate(o) \/ Restarting(o) \/ RestartEnd(o) \/ RestartStray(o)
  BY <1>0, <1>4, MoveElsewhere DEF RestartGate, Restarting, RestartEnd, RestartStray
<1>5. CASE KillGate(o) \/ KillWorker(o) \/ KillEnd(o)
  BY <1>0, <1>5, MoveElsewhere DEF KillGate, KillWorker, KillEnd
<1> QED BY <1>0, <1>1, <1>2, <1>3, <1>4, <1>5, StoppingElsewhere, StartOneElsewhere DEF Operate

LEMMA AttendElsewhere ==
    ASSUME LifeTyped, NEW t \in Tasks, Attend(t)
    PROVE  Elsewhere
<1>0. t \in Callers /\ t \notin Clients /\ \A u \in Tasks : u \in Callers /\ u \notin Clients
  BY Threads
<1>1. CASE t = "keeper" /\ KeeperPass
  BY <1>0, <1>1, MoveElsewhere, StillElsewhere DEF KeeperPass
<1>2. CASE t = "keeper" /\ (Keep \/ KeepResolve \/ WaitDrain(t))
  BY <1>0, <1>2, MoveElsewhere, JoinElsewhere DEF Keep, KeepResolve, WaitDrain
<1>3. CASE (t = "idler" /\ IdleStop) \/ (t = "evictor" /\ EvictMark)
  BY <1>0, <1>3, MoveElsewhere DEF IdleStop, EvictMark
<1>4. CASE UnblockBegin(t) \/ UnblockEnd(t)
  BY <1>0, <1>4, MoveElsewhere DEF UnblockBegin, UnblockEnd
<1> QED BY <1>0, <1>1, <1>2, <1>3, <1>4, StoppingElsewhere, StartOneElsewhere DEF Attend

LEMMA OthersElsewhere ==
    ASSUME LifeTyped,
           \/ \E t \in Cancellable : CancelContext(t)
           \/ "idler" \in Tasks /\ IdleClaim
           \/ "evictor" \in Tasks /\ EvictClaim
           \/ \E w \in Workers : Process(w) \/ NotifyExit(w)
           \/ BackoffEnds \/ LeaseSwept
    PROVE  Elsewhere
<1>1. ASSUME NEW t \in Cancellable, CancelContext(t) PROVE Elsewhere
  BY <1>1, StillElsewhere DEF CancelContext, lifeVars
<1>2. CASE ("idler" \in Tasks /\ IdleClaim) \/ ("evictor" \in Tasks /\ EvictClaim)
  BY <1>2, Threads, MoveElsewhere DEF IdleClaim, EvictClaim
<1>3. ASSUME NEW w \in Workers, Process(w) \/ NotifyExit(w) PROVE Elsewhere
  BY <1>3, StillElsewhere DEF Process, NotifyExit, lifeVars
<1>4. CASE BackoffEnds \/ LeaseSwept
  BY <1>4, StillElsewhere DEF BackoffEnds, LeaseSwept
<1> QED BY <1>1, <1>2, <1>3, <1>4

Pending == {"admit", "admitWait", "arrive", "settle", "resolve", "joined", "granted", "fail"}

LEMMA Counts ==
    ASSUME NEW c \in Clients, NEW S, S \subseteq Clients
    PROVE  /\ Cardinality(S) \in Nat
           /\ c \notin S => Cardinality(S \cup {c}) = Cardinality(S) + 1
           /\ c \in S => Cardinality(S \ {c}) = Cardinality(S) - 1 /\ Cardinality(S) > 0
<1>1. IsFiniteSet(S)
  BY LifecycleAssumption, FS_Subset
<1>2. Cardinality(S) \in Nat
  BY <1>1, FS_CardinalityType
<1>3. IF c \in S THEN Cardinality(S \cup {c}) = Cardinality(S)
                 ELSE Cardinality(S \cup {c}) = Cardinality(S) + 1
  BY <1>1, FS_AddElement, Zenon
<1>4. Cardinality(S \ {c}) = IF c \in S THEN Cardinality(S) - 1 ELSE Cardinality(S)
  BY <1>1, FS_RemoveElement, Zenon
<1>5. c \in S => Cardinality(S) > 0
  <2>1. c \in S => S # {}
    OBVIOUS
  <2> QED BY <1>1, <1>2, <2>1, FS_EmptySet
<1> QED BY <1>2, <1>3, <1>4, <1>5

\* Adding c to a set of requests, or taking it out, changes its size by as much.
LEMMA Recount ==
    ASSUME NEW c \in Clients, NEW S, S \subseteq Clients, NEW T, T \subseteq Clients,
           \A d \in Clients : d # c => (d \in T <=> d \in S)
    PROVE  /\ Cardinality(S) \in Nat /\ Cardinality(T) \in Nat
           /\ c \in S /\ c \in T => Cardinality(T) = Cardinality(S)
           /\ c \notin S /\ c \notin T => Cardinality(T) = Cardinality(S)
           /\ c \in S /\ c \notin T => Cardinality(T) = Cardinality(S) - 1 /\ Cardinality(S) > 0
           /\ c \notin S /\ c \in T => Cardinality(T) = Cardinality(S) + 1
<1>1. (c \in S <=> c \in T) => S = T
  OBVIOUS
<1>2. c \in S /\ c \notin T => T = S \ {c}
  OBVIOUS
<1>3. c \notin S /\ c \in T => T = S \cup {c}
  OBVIOUS
<1>4. Cardinality(S) \in Nat /\ Cardinality(T) \in Nat
  BY Counts
<1> QED BY <1>1, <1>2, <1>3, <1>4, Counts

LEMMA RequestMoves ==
    ASSUME LifeTyped, NEW c \in Clients, NEW pc, Move(c, pc) \/ Join(c, pc)
    PROVE  /\ Cardinality(Waiting) \in Nat /\ Cardinality(Served) \in Nat
           /\ at[c] \in Pending /\ pc \in Pending => Cardinality(Waiting') = Cardinality(Waiting)
           /\ at[c] \notin Pending /\ pc \notin Pending => Cardinality(Waiting') = Cardinality(Waiting)
           /\ at[c] \in Pending /\ pc \notin Pending =>
                Cardinality(Waiting') = Cardinality(Waiting) - 1 /\ Cardinality(Waiting) > 0
           /\ at[c] \notin Pending /\ pc \in Pending =>
                Cardinality(Waiting') = Cardinality(Waiting) + 1
           /\ at[c] # "active" /\ pc # "active" => Cardinality(Served') = Cardinality(Served)
           /\ at[c] # "active" /\ pc = "active" => Cardinality(Served') = Cardinality(Served) + 1
           /\ at[c] = "active" /\ pc # "active" =>
                Cardinality(Served') = Cardinality(Served) - 1 /\ Cardinality(Served) > 0
<1>1. \A d \in Clients : at'[d] = IF d = c THEN pc ELSE at[d]
  BY Threads DEF LifeTyped, Move, Join
<1>2. /\ Waiting \subseteq Clients /\ Waiting' \subseteq Clients
      /\ Served \subseteq Clients /\ Served' \subseteq Clients
  BY DEF Waiting, Served
<1>3. /\ \A d \in Clients : d # c => (d \in Waiting' <=> d \in Waiting)
      /\ \A d \in Clients : d # c => (d \in Served' <=> d \in Served)
  BY <1>1 DEF Waiting, Served, In
<1>4. /\ c \in Waiting <=> at[c] \in Pending
      /\ c \in Waiting' <=> pc \in Pending
      /\ c \in Served <=> at[c] = "active"
      /\ c \in Served' <=> pc = "active"
  BY <1>1 DEF Waiting, Served, In, Pending
<1>5. Cardinality(Waiting) \in Nat /\ Cardinality(Served) \in Nat
  BY <1>2, Counts
<1>6. /\ c \in Waiting /\ c \in Waiting' => Cardinality(Waiting') = Cardinality(Waiting)
      /\ c \notin Waiting /\ c \notin Waiting' => Cardinality(Waiting') = Cardinality(Waiting)
      /\ c \in Waiting /\ c \notin Waiting' =>
           Cardinality(Waiting') = Cardinality(Waiting) - 1 /\ Cardinality(Waiting) > 0
      /\ c \notin Waiting /\ c \in Waiting' => Cardinality(Waiting') = Cardinality(Waiting) + 1
  BY <1>2, <1>3, Recount
<1>7. /\ c \in Served /\ c \in Served' => Cardinality(Served') = Cardinality(Served)
      /\ c \notin Served /\ c \notin Served' => Cardinality(Served') = Cardinality(Served)
      /\ c \in Served /\ c \notin Served' =>
           Cardinality(Served') = Cardinality(Served) - 1 /\ Cardinality(Served) > 0
      /\ c \notin Served /\ c \in Served' => Cardinality(Served') = Cardinality(Served) + 1
  BY <1>2, <1>3, Recount
<1> QED BY <1>4, <1>5, <1>6, <1>7

LEMMA RequestCounted ==
    ASSUME LifeTyped, Accounted, NEW c \in Clients, Request(c) \/ Serving(c) \/ GiveUp(c)
    PROVE  Accounted'
<1>1. /\ demand.pending = Cardinality(Waiting) /\ demand.active = Cardinality(Served)
      /\ MaxPending > 0 => demand.pending <= MaxPending
      /\ MaxPending \in Nat
  BY LifecycleAssumption DEF Accounted, Served
<1>2. SUFFICES /\ demand'.pending = Cardinality(Waiting') /\ demand'.active = Cardinality(Served')
               /\ MaxPending > 0 => demand'.pending <= MaxPending
  BY DEF Accounted, Served
<1>3. CASE ReservePending(c)
  <2>1. at[c] \notin Pending /\ at[c] # "active"
    BY <1>3 DEF ReservePending, In, Pending
  <2>2. CASE Move(c, "done") /\ UNCHANGED demand
    BY <1>1, <2>1, <2>2, RequestMoves DEF Pending
  <2>3. CASE /\ ~(MaxPending > 0 /\ demand.pending >= MaxPending)
             /\ Move(c, "admit") /\ demand' = [demand EXCEPT !.pending = @ + 1]
    <3>1. demand'.pending = demand.pending + 1 /\ demand'.active = demand.active
      BY <2>3 DEF LifeTyped
    <3> QED BY <1>1, <2>1, <2>3, <3>1, RequestMoves DEF Pending
  <2> QED BY <1>3, <2>2, <2>3 DEF ReservePending
<1>4. CASE Admit(c) \/ Readmit(c) \/ WaitDrain(c) \/ Resolve(c) \/ GiveUp(c)
  <2>1. at[c] \in Pending /\ at[c] # "active" /\ UNCHANGED demand
    BY <1>4 DEF Admit, Readmit, WaitDrain, Resolve, GiveUp, In, Pending
  <2>2. PICK pc \in Pending : Move(c, pc) \/ Join(c, pc)
    BY <1>4 DEF Admit, Readmit, WaitDrain, Resolve, GiveUp, Pending
  <2>3. pc # "active"
    BY DEF Pending
  <2> QED BY <1>1, <2>1, <2>2, <2>3, RequestMoves
<1>5. CASE ReleasePending(c)
  <2>1. at[c] \in Pending /\ at[c] # "active" /\ Move(c, "done")
    BY <1>5 DEF ReleasePending, In, Pending
  <2>2. demand'.pending = Less(demand.pending) /\ demand'.active = demand.active
    BY <1>5 DEF ReleasePending, LifeTyped
  <2> QED BY <1>1, <2>1, <2>2, RequestMoves DEF Less, Pending
<1>6. CASE Activate(c)
  <2>1. at[c] \in Pending /\ at[c] # "active" /\ Move(c, "active")
    BY <1>6 DEF Activate, In, Pending
  <2>2. demand'.pending = Less(demand.pending) /\ demand'.active = demand.active + 1
    BY <1>6 DEF Activate, LifeTyped
  <2> QED BY <1>1, <2>1, <2>2, RequestMoves DEF Less, Pending
<1>7. CASE FinishActive(c)
  <2>1. at[c] \notin Pending /\ at[c] = "active" /\ Move(c, "done")
    BY <1>7 DEF FinishActive, In, Pending
  <2>2. demand'.pending = demand.pending /\ demand'.active = Less(demand.active)
    BY <1>7 DEF FinishActive, LifeTyped
  <2> QED BY <1>1, <2>1, <2>2, RequestMoves DEF Less, Pending
<1> QED BY <1>3, <1>4, <1>5, <1>6, <1>7 DEF Request, Serving

LEMMA ElsewhereCounted ==
    ASSUME Accounted, Elsewhere
    PROVE  Accounted'
BY DEF Accounted, Elsewhere, Served

LEMMA StepsCounted == LifeTyped /\ Accounted /\ [LifeNext]_vars => Accounted'
<1> SUFFICES ASSUME LifeTyped, Accounted, [LifeNext]_vars PROVE Accounted'
  OBVIOUS
<1>1. CASE UNCHANGED vars
  BY <1>1, StillElsewhere, ElsewhereCounted DEF vars, lifeVars
<1>2. CASE \E c \in Clients : Request(c) \/ Serving(c) \/ GiveUp(c)
  BY <1>2, RequestCounted
<1>3. CASE ~\E c \in Clients : Request(c) \/ Serving(c) \/ GiveUp(c)
  <2>1. LifeNext => Elsewhere
    BY <1>3, OperateElsewhere, AttendElsewhere, RunLoadElsewhere, OthersElsewhere DEF LifeNext
  <2> QED BY <1>1, <2>1, ElsewhereCounted
<1> QED BY <1>2, <1>3

LEMMA StartsCounted == LifeInit => Accounted
<1> SUFFICES ASSUME LifeInit PROVE Accounted
  OBVIOUS
<1>1. Waiting = {} /\ Served = {}
  BY Threads DEF LifeInit, Waiting, Served, In
<1> QED BY <1>1, FS_EmptySet, LifecycleAssumption DEF LifeInit, Accounted, Served

\* Whatever users, tasks and processes do, requests are counted exactly: pending
\* from admission until they are served or turned away, active while they are
\* served, and never more pending ones than the limit (lifecycle/pending.go).
THEOREM RequestsCounted == LifeSpec => []Accounted
<1>1. LifeInit => Typed /\ Accounted
  BY StartsTyped, StartsCounted
<1>2. Typed /\ Accounted /\ [LifeNext]_vars => (Typed /\ Accounted)'
  BY StepsTyped, StepsCounted DEF Typed
<1> QED BY <1>1, <1>2, PTL DEF LifeSpec

-----------------------------------------------------------------------------
(* No worker that serves a request is stopped to free its memory.          *)

\* Only requests ask for the instance, and only idle unloading and evictions
\* stop it; the eviction's context may end.
OnDemand == Operators = {} /\ Tasks \subseteq {"idler", "evictor"}

Stage     == {"idleStop", "evictMark", "stopGate", "stop"}
Inside    == {"arrive", "settle", "resolve", "joined", "granted", "active"}
Claims    == {t \in Tasks : at[t] \in Stage}
InService == Status \in {"ready", "draining"}

\* The load under way, if any, will not start a worker any more.
LoadPast ==
    /\ at[Load] \notin {"arrive", "settle", "resolve", "plan", "replan", "launch"}
    /\ at[Load] = "start" => call[Load].pc = "ok"

OneClaim  == \A t, u \in Claims : t = u
DrainHeld == drain <=> Claims # {}

\* While a claim is held the worker takes no requests and none is inside.
KeptOut == Claims # {} =>
    /\ Status # "ready"
    /\ \A c \in Clients : at[c] \notin Inside
    /\ demand.active = 0

NoNewLoad == InService \/ Claims # {} => LoadPast
Drained   == Status = "draining" => Claims # {}
HasPid    == \A w \in Workers : Active(worker[w].state) => proc[w] # "none"
Stops     == \A t \in Tasks : at[t] = "stop" /\ ~At(t, "idle") => ~InService
Idling    == \A t \in Tasks : at[t] \in Stage \cup {"idle", "done"} /\ (at[t] # "stop" => At(t, "idle"))

BusyInv ==
    /\ OneClaim /\ DrainHeld /\ KeptOut
    /\ NoNewLoad /\ Drained /\ HasPid
    /\ Stops /\ Idling

\* What the steps of the supervisor do to the worker in the map.
LEMMA KillStatus ==
    ASSUME SupInv, Kill, UNCHANGED current
    PROVE  Status' = Status
BY DEF Kill, Status, SupInv, SupTypeOK

LEMMA KillPids ==
    ASSUME SupInv, HasPid, Kill, UNCHANGED proc
    PROVE  HasPid'
BY DEF Kill, HasPid, Active, SupInv, SupTypeOK

LEMMA BeginStatus ==
    ASSUME SupInv, HasPid, BeginDrain, UNCHANGED <<current, proc>>
    PROVE  /\ HasPid'
           /\ Status = "ready" => Status' = "draining"
           /\ Status # "ready" => Status' = Status
BY DEF BeginDrain, Status, HasPid, Active, SupInv, SupTypeOK

LEMMA AbortStatus ==
    ASSUME SupInv, HasPid, AbortDrain, UNCHANGED <<current, proc>>
    PROVE  /\ HasPid'
           /\ Status = "draining" => Status' = "ready"
           /\ Status # "draining" => Status' = Status
<1>1. CASE Status = "draining"
  <2>1. current \in Workers /\ worker[current].state = "draining"
    BY <1>1 DEF Status, SupInv, SupTypeOK
  <2>2. HasProcess /\ ~worker[current].done
    BY <2>1 DEF HasPid, HasProcess, Active, SupInv, ExitsShow, Workers, None
  <2>3. worker' = [worker EXCEPT ![current].state = "ready"]
    BY <1>1, <2>2 DEF AbortDrain
  <2> QED BY <1>1, <2>1, <2>2, <2>3 DEF Status, HasPid, HasProcess, Active, SupInv, SupTypeOK
<1>2. CASE Status # "draining"
  BY <1>2 DEF AbortDrain, Status, HasPid
<1> QED BY <1>1, <1>2

\* A start brings only its own worker into service, and only at its end.
LEMMA StartStatus ==
    ASSUME SupInv, HasPid, NEW t \in Callers, Start(t)
    PROVE  /\ HasPid'
           /\ Status' \in {"ready", "draining"} =>
                 \/ Status' = Status
                 \/ Status' = "ready" /\ At(t, "ok")'
           /\ \A u \in Callers : u # t => call'[u] = call[u]
           /\ call[t].pc \notin {"ok", "err", "killed"}
<1>0. current \in Workers \cup {None} /\ worker \in [Workers -> Struct] /\ call \in [Callers -> Call]
  BY DEF SupInv, SupTypeOK, Struct, Call
<1>1. CASE StartActive(t) \/ StartRefused(t) \/ Persist(t) \/ AbortWait(t) \/ AwaitReady(t)
  <2>1. UNCHANGED <<current, worker, proc>>
    BY <1>1 DEF StartActive, StartRefused, Persist, AbortWait, AwaitReady
  <2>2. \A u \in Callers : u # t => call'[u] = call[u]
    BY <1>0, <1>1 DEF StartActive, StartRefused, Persist, AbortWait, AwaitReady, Goto
  <2>3. call[t].pc \notin {"ok", "err", "killed"}
    BY <1>1 DEF StartActive, StartRefused, Persist, AbortWait, AwaitReady, At
  <2> QED BY <2>1, <2>2, <2>3 DEF HasPid, Status
<1>2. CASE StartUnlaunched(t) \/ Spawn(t)
  <2>1. PICK w \in Workers :
           /\ current' = w
           /\ \/ worker' = [worker EXCEPT ![w] = [Absent EXCEPT !.state = "failed"]] /\ proc' = proc
              \/ /\ worker' = [worker EXCEPT ![w] = [Absent EXCEPT !.state = "loading", !.pid = TRUE]]
                 /\ proc' = [proc EXCEPT ![w] = "booting"]
    BY <1>2 DEF StartUnlaunched, Spawn, Unused
  <2>2. Status' \in {"failed", "loading"}
    BY <1>0, <2>1, NoneIsNoWorker DEF Status, Absent
  <2>3. HasPid'
    BY <1>0, <2>1 DEF HasPid, Absent, Active, SupInv, SupTypeOK
  <2>4. At(t, "idle") /\ \A u \in Callers : u # t => call'[u] = call[u]
    BY <1>0, <1>2 DEF StartUnlaunched, Spawn, Goto
  <2> QED BY <2>2, <2>3, <2>4 DEF At
<1>3. CASE AbortKill(t) \/ FailKill(t) \/ MarkKill(t)
  <2>1. Kill /\ UNCHANGED <<current, proc>> /\ call[t].pc \in {"abort", "failKill", "markKill"}
    BY <1>3 DEF AbortKill, FailKill, MarkKill, At
  <2>2. \A u \in Callers : u # t => call'[u] = call[u]
    BY <1>0, <1>3 DEF AbortKill, FailKill, MarkKill, Goto
  <2> QED BY <2>1, <2>2, KillStatus, KillPids
<1>4. CASE StopBegin(t, "failStop", "failWait", "setFailed")
  <2>1. CASE UNCHANGED worker
    BY <1>0, <1>4, <2>1 DEF StopBegin, HasPid, Status, Goto, At
  <2>2. CASE ~UNCHANGED worker
    <3>1. /\ worker' = [worker EXCEPT ![current].state = "stopping"] /\ HasProcess
          /\ UNCHANGED <<current, proc>> /\ current \in Workers
      BY <1>0, <1>4, <2>2 DEF StopBegin, HasProcess
    <3>2. HasPid' /\ Status' = "stopping"
      BY <1>0, <3>1 DEF HasPid, HasProcess, Active, Status, Struct
    <3> QED BY <1>0, <1>4, <3>2 DEF StopBegin, At, Goto
  <2> QED BY <2>1, <2>2
<1>5. CASE \/ StopDone(t, "failWait", "setFailed") \/ StopDone(t, "failReap", "setFailed")
           \/ StopEscalate(t, "failWait", "failReap")
  BY <1>0, <1>5 DEF StopDone, StopEscalate, HasPid, Status, Goto, At
<1>6. CASE SetFailed(t, "setFailed", "err") \/ SetFailed(t, "setKilled", "killed")
  <2>1. HasPid' /\ Status' \in {"failed", "unloaded"}
    BY <1>0, <1>6 DEF SetFailed, HasPid, Status, Active, Struct
  <2> QED BY <1>0, <1>6, <2>1 DEF SetFailed, Goto, At
<1>7. CASE MarkReady(t)
  <2>1. CASE UNCHANGED worker
    BY <1>0, <1>7, <2>1 DEF MarkReady, HasPid, Status, Goto, At
  <2>2. CASE ~UNCHANGED worker
    <3>1. /\ current = call[t].w /\ worker[current].state = "loading" /\ Goto(t, "ok")
          /\ worker' = [worker EXCEPT ![current].state = "ready"]
          /\ UNCHANGED <<current, proc>> /\ At(t, "mark")
      BY <1>7, <2>2 DEF MarkReady
    <3>2. current \in Workers
      BY <3>1 DEF SupInv, HoldsWorker, Engaged, Steps, At
    <3>3. HasPid' /\ Status' = "ready"
      BY <1>0, <3>1, <3>2, NoneIsNoWorker DEF HasPid, Active, Status, Struct
    <3> QED BY <1>0, <3>1, <3>3 DEF Goto, At, Call
  <2> QED BY <2>1, <2>2
<1> QED BY <1>1, <1>2, <1>3, <1>4, <1>5, <1>6, <1>7 DEF Start

\* The tasks of others stay where they are.
TasksKept == \A t \in Tasks : at'[t] = at[t] /\ call'[t] = call[t]

\* Two kinds of steps of the load: while it may still start a worker, there is
\* neither a claim nor a worker in service; afterwards it changes nothing that
\* the claims rest on.
LEMMA BusyBefore ==
    ASSUME BusyInv, TasksKept, UNCHANGED drain, HasPid',
           ~LoadPast, Status' # "draining", Status' = "ready" => LoadPast'
    PROVE  BusyInv'
<1>1. Claims = {} /\ Claims' = {}
  BY DEF BusyInv, NoNewLoad, TasksKept, Claims
<1>2. InService' => LoadPast'
  BY DEF InService
<1>3. DrainHeld' /\ OneClaim' /\ KeptOut'
  BY <1>1 DEF BusyInv, DrainHeld, OneClaim, KeptOut
<1>4. Stops' /\ Idling'
  BY <1>1 DEF BusyInv, Stops, Idling, TasksKept, Claims, Stage, At
<1> QED BY <1>1, <1>2, <1>3, <1>4 DEF BusyInv, NoNewLoad, Drained

LEMMA BusyAfter ==
    ASSUME BusyInv, TasksKept, UNCHANGED <<drain, demand>>, HasPid', LoadPast', Status' = Status,
           \A c \in Clients : at'[c] = at[c] \/ at[c] = "joined" \/ at'[c] \notin Inside
    PROVE  BusyInv'
<1>1. Claims' = Claims /\ InService' = InService
  BY DEF TasksKept, Claims, InService
<1>2. DrainHeld' /\ OneClaim' /\ Drained' /\ NoNewLoad'
  BY <1>1 DEF BusyInv, DrainHeld, OneClaim, Drained, NoNewLoad
<1>3. KeptOut'
  BY <1>1 DEF BusyInv, KeptOut, Inside
<1>4. Stops' /\ Idling'
  BY <1>1 DEF BusyInv, Stops, Idling, TasksKept, At
<1> QED BY <1>2, <1>3, <1>4 DEF BusyInv

\* The load's own moves leave the tasks alone.
LEMMA LoadMoves ==
    ASSUME Typed, NEW pc, Move(Load, pc)
    PROVE  /\ at'[Load] = pc
           /\ \A t \in Tasks : at'[t] = at[t]
           /\ \A c \in Clients : at'[c] = at[c]
<1>1. Load \in Callers /\ Load \notin Tasks /\ Load \notin Clients
  BY Threads, LifecycleAssumption DEF Load, Unblockers
<1> QED BY <1>1, Threads DEF Typed, LifeTyped, Move

LEMMA LoadCompletes ==
    ASSUME Typed, Idling, NEW ok, CompleteLoad(ok)
    PROVE  /\ at'[Load] = "idle"
           /\ \A t \in Tasks : at'[t] = at[t]
           /\ \A c \in Clients : at'[c] = at[c] \/ at[c] = "joined" \/ at'[c] = "killDown"
<1>1. Tasks \subseteq Callers /\ Load \notin Tasks /\ Clients \subseteq Callers /\ Load \notin Clients
      /\ Load \in Callers
  BY Threads, LifecycleAssumption DEF Load, Unblockers
<1>2. \A t \in Tasks : at[t] # "joined" /\ at[t] # "killLoad"
  BY DEF Idling, Stage
<1>3. at' = [t \in Callers |->
                CASE t = Load                      -> "idle"
                  [] t # Load /\ at[t] = "joined"   -> IF ok THEN "granted" ELSE "fail"
                  [] t # Load /\ at[t] = "killLoad" -> "killDown"
                  [] OTHER                         -> at[t]]
  BY DEF CompleteLoad
<1>4. at'[Load] = "idle"
  BY <1>1, <1>3
<1>5. \A t \in Tasks : at'[t] = at[t]
  BY <1>1, <1>2, <1>3
<1>6. ASSUME NEW c \in Clients, at[c] # "joined" PROVE at'[c] = at[c] \/ at'[c] = "killDown"
  <2>1. c \in Callers /\ c # Load
    BY <1>1
  <2>2. CASE at[c] = "killLoad"
    BY <1>3, <2>1, <2>2
  <2>3. CASE at[c] # "killLoad"
    BY <1>3, <1>6, <2>1, <2>3
  <2> QED BY <2>2, <2>3
<1> QED BY <1>4, <1>5, <1>6

LEMMA LoadBusy ==
    ASSUME Typed, OnDemand, BusyInv, RunLoad
    PROVE  BusyInv'
<1>0. /\ SupInv /\ HasPid /\ Idling /\ Load \notin Tasks /\ Load \in Callers /\ Tasks \subseteq Callers
      /\ call \in [Callers -> Call]
  BY Threads, LifecycleAssumption DEF Typed, BusyInv, SupInv, SupTypeOK, Call, Load, Unblockers
<1>1. ~LoadPast => Status \notin {"ready", "draining"}
  BY DEF BusyInv, NoNewLoad, InService
<1>s. UNCHANGED <<worker, current>> => Status' = Status
  BY DEF Status
<1>p. UNCHANGED <<worker, proc>> => HasPid'
  BY <1>0 DEF HasPid
<1>2. CASE WaitDrain(Load)
  <2>1. ~LoadPast
    BY <1>2 DEF WaitDrain, LoadPast, In
  <2>2. /\ UNCHANGED <<worker, current, proc, drain>>
        /\ \E pc \in Places : Move(Load, pc)
        /\ \A t \in Tasks : call'[t] = call[t]
    BY <1>0, <1>2 DEF WaitDrain, WaitFor, Reset, procVars, control, Places
  <2>3. TasksKept
    BY <2>2, LoadMoves DEF TasksKept
  <2> QED BY <1>1, <1>s, <1>p, <2>1, <2>2, <2>3, BusyBefore
<1>3. CASE LoadBegin
  <2>1. ~LoadPast
    BY <1>3 DEF LoadBegin, LoadPast, In
  <2>2. /\ UNCHANGED <<worker, current, proc, drain, call>>
        /\ Move(Load, "plan") \/ CompleteLoad(TRUE) \/ CompleteLoad(FALSE)
    BY <1>3 DEF LoadBegin, procVars
  <2>3. TasksKept
    BY <1>0, <2>2, LoadMoves, LoadCompletes DEF TasksKept
  <2> QED BY <1>1, <1>s, <1>p, <2>1, <2>2, <2>3, BusyBefore
<1>4. CASE Plan(Load) \/ Launch(Load)
  <2>1. ~LoadPast
    BY <1>4 DEF Plan, Launch, LoadPast, In
  <2>2. /\ UNCHANGED <<worker, current, proc, drain, call>>
        /\ \E pc \in Places : Move(Load, pc)
    BY <1>4 DEF Plan, Launch, supVars, control, Places, Starting
  <2>3. TasksKept
    BY <2>2, LoadMoves DEF TasksKept
  <2> QED BY <1>1, <1>s, <1>p, <2>1, <2>2, <2>3, BusyBefore
<1>5. CASE StartWorker(Load)
  <2>1. Start(Load) /\ UNCHANGED <<at, drain>> /\ at[Load] = "start"
    BY <1>5 DEF StartWorker, lifeVars, control, In
  <2>2. ~LoadPast
    BY <1>0, <2>1, StartStatus DEF LoadPast
  <2>3. TasksKept
    BY <1>0, <2>1, StartStatus DEF TasksKept
  <2>4. HasPid' /\ Status' # "draining" /\ (Status' = "ready" => At(Load, "ok")')
    BY <1>0, <1>1, <2>1, <2>2, StartStatus
  <2>5. Status' = "ready" => LoadPast'
    BY <2>1, <2>4 DEF LoadPast, At
  <2> QED BY <2>1, <2>2, <2>3, <2>4, <2>5, BusyBefore
<1>6. CASE StartReturned(Load)
  <2>1. /\ UNCHANGED <<worker, current, proc, drain, demand>>
        /\ \A t \in Tasks : call'[t] = call[t]
        /\ at[Load] = "start"
        /\ \/ At(Load, "ok") /\ Move(Load, "check")
           \/ ~At(Load, "ok") /\ \E pc \in Places : Move(Load, pc)
    BY <1>0, <1>6 DEF StartReturned, Goto, procVars, control, In, At, Places, Starting
  <2>2. TasksKept /\ \A c \in Clients : at'[c] = at[c]
    BY <2>1, LoadMoves DEF TasksKept
  <2>3. CASE At(Load, "ok")
    <3>1. LoadPast'
      BY <2>1, <2>3, LoadMoves DEF LoadPast
    <3> QED BY <1>s, <1>p, <2>1, <2>2, <3>1, BusyAfter
  <2>4. CASE ~At(Load, "ok")
    <3>1. ~LoadPast
      BY <2>1, <2>4 DEF LoadPast, At
    <3> QED BY <1>1, <1>s, <1>p, <2>1, <2>2, <3>1, BusyBefore
  <2> QED BY <2>3, <2>4
<1>7. CASE CheckLive(Load)
  <2>1. /\ Kill \/ UNCHANGED <<worker, sigkill>>
        /\ UNCHANGED <<current, proc, drain, demand, call>>
        /\ Move(Load, "failKilled") \/ Move(Load, "endpoint")
    BY <1>7 DEF CheckLive, procVars, control
  <2>2. TasksKept /\ LoadPast' /\ \A c \in Clients : at'[c] = at[c]
    BY <2>1, LoadMoves DEF TasksKept, LoadPast
  <2>3. HasPid' /\ Status' = Status
    BY <1>0, <1>s, <1>p, <2>1, KillStatus, KillPids
  <2> QED BY <2>1, <2>2, <2>3, BusyAfter
<1>8. CASE \/ CheckEndpoint(Load) \/ Commit(Load) \/ Track(Load) \/ Verify(Load)
           \/ Succeed(Load) \/ Fail(Load)
  <2>1. /\ UNCHANGED <<worker, current, proc, drain, demand, call>>
        /\ \E pc \in {"commit", "failError", "track", "succeed", "verify", "started", "pressed",
                      "failed"} : Move(Load, pc)
    BY <1>8 DEF CheckEndpoint, Commit, Track, Verify, Succeed, Fail, supVars, control
  <2>2. TasksKept /\ LoadPast' /\ \A c \in Clients : at'[c] = at[c]
    BY <2>1, LoadMoves DEF TasksKept, LoadPast
  <2> QED BY <1>s, <1>p, <2>1, <2>2, BusyAfter
<1>9. CASE LoadEnd \/ LoadStale \/ LoadStray
  <2>1. /\ Kill \/ UNCHANGED worker
        /\ UNCHANGED <<current, proc, drain, demand>>
        /\ \A t \in Tasks : call'[t] = call[t]
        /\ Move(Load, "stray") \/ CompleteLoad(TRUE) \/ CompleteLoad(FALSE)
    BY <1>0, <1>9 DEF LoadEnd, LoadStale, LoadStray, Reset, procVars, In
  <2>2. TasksKept /\ LoadPast'
    <3>1. at'[Load] \in {"idle", "stray"} /\ \A t \in Tasks : at'[t] = at[t]
      BY <1>0, <2>1, LoadMoves, LoadCompletes
    <3> QED BY <2>1, <3>1 DEF TasksKept, LoadPast
  <2>3. \A c \in Clients : at'[c] = at[c] \/ at[c] = "joined" \/ at'[c] \notin Inside
    <3>1. \A c \in Clients : at'[c] = at[c] \/ at[c] = "joined" \/ at'[c] = "killDown"
      BY <1>0, <2>1, LoadMoves, LoadCompletes
    <3> QED BY <3>1 DEF Inside
  <2>4. HasPid' /\ Status' = Status
    BY <1>0, <1>s, <1>p, <2>1, KillStatus, KillPids
  <2> QED BY <2>1, <2>2, <2>3, <2>4, BusyAfter
<1> QED BY <1>2, <1>3, <1>4, <1>5, <1>6, <1>7, <1>8, <1>9 DEF RunLoad, StartOne

\* A request comes in only while nothing claims the worker, and joins a load
\* only while no worker is in service.
LEMMA RequestBusy ==
    ASSUME Typed, BusyInv, NEW c \in Clients, Request(c) \/ Serving(c) \/ GiveUp(c)
    PROVE  BusyInv'
<1>0. /\ c \in Callers /\ c # Load /\ c \notin Tasks /\ Load \notin Tasks /\ Load \in Callers
      /\ Tasks \subseteq Callers /\ call \in [Callers -> Call] /\ at \in [Callers -> Places]
      /\ Clients \subseteq Callers /\ demand \in [pending : Nat, active : Nat]
  BY Threads, LifecycleAssumption DEF Typed, LifeTyped, SupInv, SupTypeOK, Call, Load, Unblockers
<1>1. UNCHANGED <<worker, current, proc, drain>>
  BY DEF Request, Serving, ReservePending, Admit, Readmit, WaitDrain, Resolve, ReleasePending,
         Activate, FinishActive, GiveUp, supVars, procVars, control
<1>2. \A t \in Callers : t # c => call'[t] = call[t]
  BY <1>0 DEF Request, Serving, ReservePending, Admit, Readmit, WaitDrain, Resolve, ReleasePending,
         Activate, FinishActive, GiveUp, supVars, WaitFor, Reset
<1>3. PICK pc \in Places : Move(c, pc) \/ (Join(c, pc) /\ Resolve(c) /\ ~EndpointOK)
  BY DEF Request, Serving, ReservePending, Admit, Readmit, WaitDrain, Resolve, ReleasePending,
         Activate, FinishActive, GiveUp, Places
<1>4. /\ at'[c] = pc
      /\ \A t \in Callers : t # c /\ t # Load => at'[t] = at[t]
      /\ at'[Load] # at[Load] => Resolve(c) /\ ~EndpointOK
  BY <1>0, <1>3 DEF Move, Join
<1>5. /\ Status' = Status /\ (InService' <=> InService) /\ HasPid'
      /\ Claims' = Claims
  BY <1>0, <1>1, <1>4 DEF Status, InService, HasPid, BusyInv, Claims
<1>6. OneClaim' /\ DrainHeld' /\ Drained' /\ Stops' /\ Idling'
  BY <1>0, <1>1, <1>2, <1>4, <1>5 DEF BusyInv, OneClaim, DrainHeld, Drained, Stops, Idling, At
<1>7. KeptOut'
  <2>1. SUFFICES ASSUME Claims # {} PROVE KeptOut'
    BY <1>5 DEF KeptOut
  <2>2. /\ Status # "ready" /\ demand.active = 0 /\ drain
        /\ \A d \in Clients : at[d] \notin Inside
    BY <2>1 DEF BusyInv, KeptOut, DrainHeld
  <2>3. ReservePending(c) \/ Readmit(c) \/ ReleasePending(c) \/ GiveUp(c)
    BY <2>2 DEF Request, Serving, Admit, WaitDrain, Resolve, Activate, FinishActive, In, Inside
  <2>4. at'[c] \notin Inside
    BY <1>0, <2>3 DEF ReservePending, Readmit, ReleasePending, GiveUp, Move, Inside
  <2>5. demand'.active = 0
    BY <1>0, <2>2, <2>3 DEF ReservePending, Readmit, ReleasePending, GiveUp
  <2> QED BY <1>0, <1>4, <1>5, <2>2, <2>4, <2>5, Threads DEF KeptOut
<1>8. NoNewLoad'
  <2>1. CASE at'[Load] = at[Load]
    BY <1>0, <1>2, <1>5, <2>1 DEF BusyInv, NoNewLoad, LoadPast
  <2>2. CASE at'[Load] # at[Load]
    <3>1. at[c] = "resolve" /\ Status # "ready"
      BY <1>4, <2>2 DEF Resolve, In, EndpointOK
    <3>2. Claims = {}
      BY <3>1 DEF BusyInv, KeptOut, Inside
    <3>3. Status # "draining"
      BY <3>2 DEF BusyInv, Drained
    <3> QED BY <1>5, <3>1, <3>2, <3>3 DEF NoNewLoad, InService
  <2> QED BY <2>1, <2>2
<1> QED BY <1>5, <1>6, <1>7, <1>8 DEF BusyInv

\* Idle unloading and evictions claim an instance that nobody asks for.
LEMMA ClaimBusy ==
    ASSUME Typed, Accounted, BusyInv, NEW t \in Tasks,
           (t = "idler" /\ IdleClaim) \/ (t = "evictor" /\ EvictClaim)
    PROVE  BusyInv'
<1>0. /\ t \in Callers /\ t # Load /\ t \notin Clients /\ Load \in Callers /\ Load \notin Tasks
      /\ Tasks \subseteq Callers /\ at \in [Callers -> Places] /\ Clients \subseteq Callers
      /\ demand \in [pending : Nat, active : Nat] /\ SupInv /\ HasPid
  BY Threads, LifecycleAssumption DEF Typed, LifeTyped, BusyInv, Load, Unblockers
<1>1. Status = "ready" /\ at[t] = "idle" /\ Demand = 0
  BY DEF IdleClaim, EvictClaim, In, EndpointOK
<1>2. Claims = {} /\ ~drain /\ LoadPast
  BY <1>1 DEF BusyInv, KeptOut, DrainHeld, NoNewLoad, InService
<1>3. BeginDrain /\ drain' = TRUE /\ UNCHANGED <<current, proc, call, demand>>
  BY <1>1, <1>2 DEF IdleClaim, EvictClaim, ClaimDrain, procVars
<1>4. /\ at'[t] \in {"idleStop", "evictMark"}
      /\ \A u \in Callers : u # t => at'[u] = at[u]
  BY <1>0 DEF IdleClaim, EvictClaim, Move
<1>5. Claims' = {t}
  BY <1>0, <1>2, <1>4 DEF Claims, Stage
<1>6. Status' = "draining" /\ HasPid'
  BY <1>0, <1>1, <1>3, BeginStatus
<1>7. \A c \in Clients : at'[c] \notin Inside
  <2>1. demand.pending = 0 /\ demand.active = 0
    BY <1>0, <1>1 DEF Demand
  <2>2. Waiting = {} /\ Served = {}
    <3>1. IsFiniteSet(Waiting) /\ IsFiniteSet(Served)
      BY LifecycleAssumption, FS_Subset DEF Waiting, Served
    <3>2. Cardinality(Waiting) = 0 /\ Cardinality(Served) = 0
      BY <2>1 DEF Accounted, Served
    <3> QED BY <3>1, <3>2, FS_EmptySet
  <2>3. \A c \in Clients : at[c] \notin Inside
    BY <2>2 DEF Waiting, Served, In, Inside
  <2> QED BY <1>0, <1>4, <2>3
<1>8. OneClaim' /\ DrainHeld' /\ KeptOut' /\ Drained'
  <2>1. demand'.active = 0
    BY <1>0, <1>1, <1>3 DEF Demand
  <2> QED BY <1>3, <1>5, <1>6, <1>7, <2>1 DEF OneClaim, DrainHeld, KeptOut, Drained
<1>9. NoNewLoad'
  BY <1>0, <1>2, <1>3, <1>4 DEF NoNewLoad, LoadPast
<1>10. Stops'
  BY <1>0, <1>2, <1>3, <1>4 DEF Stops, Claims, Stage, At
<1>11. Idling'
  BY <1>0, <1>1, <1>3, <1>4 DEF BusyInv, Idling, Stage, At
<1> QED BY <1>6, <1>8, <1>9, <1>10, <1>11 DEF BusyInv

\* A claim is carried through, or given up with nobody inside.
LEMMA StoppingBusy ==
    ASSUME Typed, BusyInv, NEW t \in Tasks, Stopping(t)
    PROVE  BusyInv'
<1>0. /\ t \in Callers /\ t # Load /\ t \notin Clients /\ Load \in Callers /\ Load \notin Tasks
      /\ Tasks \subseteq Callers /\ Clients \subseteq Callers
      /\ at \in [Callers -> Places] /\ call \in [Callers -> Call] /\ worker \in [Workers -> Struct]
      /\ SupInv /\ HasPid
  BY Threads, LifecycleAssumption
     DEF Typed, LifeTyped, SupInv, SupTypeOK, Call, Struct, BusyInv, Load, Unblockers
<1>1. /\ t \in Claims /\ at[t] \in {"stopGate", "stop"}
      /\ at[t] = "stopGate" => At(t, "idle")
  BY DEF Stopping, StopGate, StopWorker, Stopped, StopFailed, GateDenied, BusyInv, Idling, In,
         Claims, Stage, Gates
<1>2. /\ Status # "ready" /\ demand.active = 0 /\ drain /\ LoadPast /\ Claims = {t}
      /\ \A c \in Clients : at[c] \notin Inside
  BY <1>1 DEF BusyInv, OneClaim, DrainHeld, KeptOut, NoNewLoad
<1>3. /\ UNCHANGED <<current, proc, demand>>
      /\ \A u \in Callers : u # t => at'[u] = at[u] /\ call'[u] = call[u]
  BY <1>0 DEF Stopping, StopGate, StopWorker, StopBegin, StopStep, StopDone, StopCancelled,
              StopEscalate, Stopped, StopFailed, GateDenied, Move, Reset, Goto, procVars, lifeVars
<1>4. LoadPast' /\ \A c \in Clients : at'[c] \notin Inside
  BY <1>0, <1>2, <1>3 DEF LoadPast
\* What is left to see of a step: the claim that goes on, or is given up.
<1>5. ASSUME at'[t] \in {"stopGate", "stop"}, drain', HasPid', Status' # "ready",
             At(t, "idle")' \/ (at'[t] = "stop" /\ ~InService')
      PROVE  BusyInv'
  <2>1. Claims' = {t}
    BY <1>0, <1>2, <1>3, <1>5 DEF Claims, Stage
  <2>2. Stops'
    BY <1>0, <1>2, <1>3, <1>5 DEF Stops, Claims, Stage
  <2>3. Idling'
    BY <1>0, <1>3, <1>5 DEF BusyInv, Idling, Stage, At
  <2> QED BY <1>2, <1>3, <1>4, <1>5, <2>1, <2>2, <2>3
          DEF BusyInv, OneClaim, DrainHeld, KeptOut, NoNewLoad, Drained
<1>6. ASSUME at'[t] = "done", ~drain', HasPid', Status' # "draining", At(t, "idle")'
      PROVE  BusyInv'
  <2>1. Claims' = {}
    BY <1>0, <1>2, <1>3, <1>6 DEF Claims, Stage
  <2>2. Stops' /\ Idling'
    BY <1>0, <1>2, <1>3, <1>6 DEF BusyInv, Stops, Idling, Stage, Claims, At
  <2> QED BY <1>4, <1>6, <2>1, <2>2 DEF BusyInv, OneClaim, DrainHeld, KeptOut, NoNewLoad, Drained
<1>7. CASE StopGate(t)
  <2>1. at'[t] = "stop" /\ UNCHANGED <<worker, drain, call>> /\ at[t] = "stopGate"
    BY <1>0, <1>7 DEF StopGate, Move, In
  <2> QED BY <1>0, <1>1, <1>2, <1>3, <1>5, <2>1 DEF Status, HasPid, At
<1>8. CASE StopWorker(t)
  <2>1. UNCHANGED <<at, drain>> /\ at[t] = "stop"
    BY <1>1, <1>8 DEF StopWorker, lifeVars, control
  <2>2. CASE StopBegin(t, "idle", "stopWait", "ok")
    <3>1. CASE HasProcess /\ ~worker[current].done
      <4>1. worker' = [worker EXCEPT ![current].state = "stopping"] /\ current \in Workers
        BY <1>0, <2>2, <3>1 DEF StopBegin, HasProcess, SupInv, SupTypeOK
      <4>2. HasPid' /\ Status' = "stopping"
        BY <1>0, <1>3, <3>1, <4>1, NoneIsNoWorker DEF HasPid, HasProcess, Active, Status, Struct
      <4> QED BY <1>2, <1>5, <2>1, <4>2 DEF InService
    <3>2. CASE ~(HasProcess /\ ~worker[current].done)
      <4>1. UNCHANGED worker
        BY <2>2, <3>2 DEF StopBegin
      <4>2. ~Active(Status)
        BY <1>0, <3>2 DEF HasProcess, HasPid, Status, Active, SupInv, SupTypeOK, ExitsShow
      <4>3. Status' = Status /\ HasPid'
        BY <1>0, <1>3, <4>1 DEF Status, HasPid
      <4> QED BY <1>2, <1>5, <2>1, <4>2, <4>3 DEF InService, Active
    <3> QED BY <3>1, <3>2
  <2>3. CASE StopStep(t)
    <3>1. UNCHANGED worker /\ ~At(t, "idle")
      BY <2>3 DEF StopStep, StopDone, StopCancelled, StopEscalate, At
    <3>2. ~InService
      BY <2>1, <3>1 DEF BusyInv, Stops
    <3>3. Status' = Status /\ HasPid'
      BY <1>0, <1>3, <3>1 DEF Status, HasPid
    <3> QED BY <1>2, <1>5, <2>1, <3>2, <3>3 DEF InService
  <2> QED BY <1>8, <2>2, <2>3 DEF StopWorker
<1>9. CASE Stopped(t)
  <2>1. /\ at'[t] = "done" /\ ~drain' /\ UNCHANGED worker /\ At(t, "idle")'
        /\ at[t] = "stop" /\ ~At(t, "idle")
    BY <1>0, <1>9 DEF Stopped, Move, Reset, Idle, At, In
  <2>2. ~InService
    BY <2>1 DEF BusyInv, Stops
  <2>3. Status' = Status /\ HasPid'
    BY <1>0, <1>3, <2>1 DEF Status, HasPid
  <2> QED BY <1>6, <2>1, <2>2, <2>3 DEF InService
<1>10. CASE StopFailed(t) \/ GateDenied(t)
  <2>1. at'[t] = "done" /\ ~drain' /\ AbortDrain
    BY <1>0, <1>10 DEF StopFailed, GateDenied, AbortClaim, Move
  <2>2. At(t, "idle")'
    BY <1>0, <1>1, <1>10 DEF StopFailed, GateDenied, Reset, Idle, At, Gates
  <2>3. HasPid' /\ Status' # "draining"
    BY <1>0, <1>3, <2>1, AbortStatus
  <2> QED BY <1>6, <2>1, <2>2, <2>3
<1> QED BY <1>7, <1>8, <1>9, <1>10 DEF Stopping

LEMMA AttendBusy ==
    ASSUME Typed, OnDemand, BusyInv, NEW t \in Tasks, Attend(t)
    PROVE  BusyInv'
<1>0. /\ t \in Callers /\ Load \in Callers /\ Load \notin Tasks /\ t \notin Clients
      /\ Tasks \subseteq Callers /\ Clients \subseteq Callers /\ at \in [Callers -> Places]
  BY Threads, LifecycleAssumption DEF Typed, LifeTyped, Load, Unblockers
<1>1. Stopping(t) \/ (t = "idler" /\ IdleStop) \/ (t = "evictor" /\ EvictMark)
  BY DEF Attend, OnDemand, Unblockers
<1>2. CASE (t = "idler" /\ IdleStop) \/ (t = "evictor" /\ EvictMark)
  <2>1. t \in Claims
    BY <1>2 DEF IdleStop, EvictMark, In, Claims, Stage
  <2>2. drain
    BY <2>1 DEF BusyInv, DrainHeld
  <2>3. UNCHANGED <<drain, worker, current, proc, call, demand>>
    BY <1>2, <2>2 DEF IdleStop, EvictMark, ClaimDrain, supVars, procVars, control
  <2>4. /\ at'[t] = "stopGate" /\ at[t] \in {"idleStop", "evictMark"}
        /\ \A u \in Callers : u # t => at'[u] = at[u]
    BY <1>0, <1>2 DEF IdleStop, EvictMark, Move, In
  <2>5. Claims' = Claims /\ Status' = Status /\ (InService' <=> InService) /\ HasPid'
    BY <1>0, <2>1, <2>3, <2>4 DEF Claims, Stage, Status, InService, HasPid, BusyInv
  <2>6. LoadPast' <=> LoadPast
    BY <1>0, <2>3, <2>4 DEF LoadPast
  <2>7. KeptOut'
    BY <1>0, <2>3, <2>4, <2>5 DEF BusyInv, KeptOut
  <2>8. Stops' /\ Idling'
    BY <1>0, <2>3, <2>4, <2>5 DEF BusyInv, Stops, Idling, Stage, At
  <2> QED BY <2>3, <2>5, <2>6, <2>7, <2>8 DEF BusyInv, OneClaim, DrainHeld, NoNewLoad, Drained
<1> QED BY <1>1, <1>2, StoppingBusy

\* Contexts, processes, exits, delays and the ledger claim nothing.
LEMMA OthersBusy ==
    ASSUME Typed, BusyInv,
           \/ \E t \in Cancellable : CancelContext(t)
           \/ \E w \in Workers : Process(w) \/ NotifyExit(w)
           \/ BackoffEnds \/ LeaseSwept \/ UNCHANGED vars
    PROVE  BusyInv'
<1>0. UNCHANGED <<current, at, call, drain, demand>>
  BY DEF CancelContext, Process, ProcessStep, Serve, Exit, Reap, ClearGet, ClearDelete, NotifyExit,
         BackoffEnds, LeaseSwept, procVars, lifeVars, control, vars, supVars
<1>1. HasPid' /\ (Status' = Status \/ ~Active(Status'))
  <2>1. CASE \E w \in Workers : Process(w)
    <3>1. PICK w \in Workers : ProcessStep(w)
      BY <2>1 DEF Process
    <3>2. /\ \A v \in Workers : proc[v] # "none" => proc'[v] # "none"
          /\ \A v \in Workers : worker'[v].state = worker[v].state
                                \/ worker'[v].state \in {"unloaded", "failed"}
      BY <3>1 DEF ProcessStep, Serve, Exit, Reap, ClearGet, ClearDelete, Typed, SupInv, SupTypeOK
    <3> QED BY <1>0, <3>2 DEF BusyInv, HasPid, Status, Active, Typed, SupInv, SupTypeOK
  <2>2. CASE ~\E w \in Workers : Process(w)
    <3>1. UNCHANGED <<worker, proc>>
      BY <2>2 DEF CancelContext, NotifyExit, BackoffEnds, LeaseSwept, procVars, vars, supVars
    <3> QED BY <1>0, <3>1 DEF BusyInv, HasPid, Status
  <2> QED BY <2>1, <2>2
<1>2. /\ Claims' = Claims /\ (LoadPast' <=> LoadPast) /\ (InService' => InService)
      /\ Status' = "ready" => Status = "ready"
      /\ Status' = "draining" => Status = "draining"
  BY <1>0, <1>1 DEF Claims, LoadPast, InService, Active
<1> QED BY SMTT(60), <1>0, <1>1, <1>2
        DEF BusyInv, OneClaim, DrainHeld, KeptOut, NoNewLoad, Drained, Stops, Idling, At

LEMMA StartsBusy == LifeInit => BusyInv
<1> SUFFICES ASSUME LifeInit PROVE BusyInv
  OBVIOUS
<1>1. Claims = {} /\ Status = "unloaded"
  BY Threads DEF LifeInit, SupInit, Claims, Stage, Status
<1>2. HasPid
  BY DEF LifeInit, SupInit, HasPid, Absent, Active
<1>3. Stops /\ Idling
  BY Threads DEF LifeInit, SupInit, Stops, Idling, Idle, At, Stage
<1> QED BY <1>1, <1>2, <1>3
        DEF LifeInit, BusyInv, OneClaim, DrainHeld, KeptOut, NoNewLoad, Drained, InService

LEMMA StepsBusy ==
    ASSUME OnDemand
    PROVE  Typed /\ Accounted /\ BusyInv /\ [LifeNext]_vars => BusyInv'
<1> SUFFICES ASSUME Typed, Accounted, BusyInv, [LifeNext]_vars PROVE BusyInv'
  OBVIOUS
<1>1. CASE \E c \in Clients : Request(c) \/ Serving(c) \/ GiveUp(c)
  BY <1>1, RequestBusy
<1>2. CASE \E t \in Tasks : Attend(t)
  BY <1>2, AttendBusy
<1>3. CASE ("idler" \in Tasks /\ IdleClaim) \/ ("evictor" \in Tasks /\ EvictClaim)
  BY <1>3, ClaimBusy
<1>4. CASE RunLoad
  BY <1>4, LoadBusy
<1>5. CASE \/ \E t \in Cancellable : CancelContext(t)
           \/ \E w \in Workers : Process(w) \/ NotifyExit(w)
           \/ BackoffEnds \/ LeaseSwept \/ UNCHANGED vars
  BY <1>5, OthersBusy
<1>6. CASE \E o \in Operators : Ask(o) \/ Operate(o)
  BY <1>6 DEF OnDemand
<1>7. LifeNext \/ UNCHANGED vars
  OBVIOUS
<1> QED BY <1>1, <1>2, <1>3, <1>4, <1>5, <1>6, <1>7, Zenon DEF LifeNext

-----------------------------------------------------------------------------
(* A worker in service holds a committed lease, and the start on its way to *)
(* one a pending lease.                                                     *)

\* Leases are taken and none is swept; no context ends.
Undisturbed == OnDemand /\ Cancellable = {} /\ Managed /\ ~LeaseExpires

Signalled == \A w \in Workers : reaper[w] \in {"get", "delete", "notify"} => worker[w].done
Startups ==
    /\ startup \in {Nobody, Load} /\ ctxDone \subseteq {Load}
    /\ Load \in ctxDone => startup # Load
Gated == \A t \in Tasks : at[t] = "stop" => startup = Nobody /\ gate = t

\* A start that was cancelled had started its worker before, and it will not
\* serve again.
Lost == at[Load] \in Starting /\ ~Live(Load) => LoadPast /\ Status # "ready"

Rested ==
    /\ at[Load] # "start" => At(Load, "idle")
    /\ at[Load] # "idle" => loading

\* The load that has its worker holds the one in the map.
Owns ==
    \/ at[Load] \in {"check", "endpoint", "commit", "track", "verify"}
    \/ at[Load] = "start" /\ At(Load, "ok")
    => call[Load].w = current

Reserved ==
    Live(Load) /\ at[Load] \in {"launch", "start", "check", "endpoint", "commit"} =>
        lease.state = "pending" /\ lease.id # 0 /\ lease.id # tracked.lease

\* How the lease of a ready worker is kept, from its commitment on.
Serves == Status = "ready" =>
    /\ at[Load] = "track" =>
          lease.state = "committed" /\ lease.id # 0 /\ lease.id # tracked.lease
    /\ at[Load] \in {"verify", "succeed", "started"} \/ at[Load] \notin Starting =>
          lease.state = "committed" /\ tracked = [w |-> current, lease |-> lease.id]
    /\ at[Load] \notin {"failKilled", "failPressure", "failError", "failed", "pressed", "stray"}

LeaseInv == Signalled /\ Startups /\ Gated /\ Lost /\ Rested /\ Owns /\ Reserved /\ Serves

\* A step that moves neither the load nor a lease, cancels nothing and brings
\* no worker into service.
LEMMA LeaseKept ==
    ASSUME LeaseInv, UNCHANGED <<startup, ctxDone, gate, books, current>>, Signalled',
           at'[Load] = at[Load], call'[Load] = call[Load],
           \A t \in Tasks : at'[t] = "stop" => at[t] = "stop",
           Status' = "ready" => Status = "ready", loading => loading'
    PROVE  LeaseInv'
<1>1. Startups' /\ Gated'
  BY DEF LeaseInv, Startups, Gated
<1>2. Lost' /\ Rested' /\ Owns'
  BY DEF LeaseInv, Lost, Rested, Owns, LoadPast, Live, At
<1>3. Reserved' /\ Serves'
  BY DEF LeaseInv, Reserved, Serves, Live, books
<1> QED BY <1>1, <1>2, <1>3 DEF LeaseInv

\* A step of the load while no worker serves: what is left to show.
LEMMA LeaseIdle ==
    ASSUME Signalled', Startups', Gated', Lost', Rested', Owns', Reserved', Status' # "ready"
    PROVE  LeaseInv'
BY DEF LeaseInv, Serves

\* A start moves the current worker only at its beginning and ends with it.
LEMMA StartOwns ==
    ASSUME SupInv, Signalled, NEW t \in Callers, Start(t)
    PROVE  Signalled' /\ (At(t, "ok")' => call'[t].w = current') /\ UNCHANGED ctxDone
<1>0. current \in Workers \cup {None} /\ worker \in [Workers -> Struct] /\ call \in [Callers -> Call]
      /\ reaper \in [Workers -> {"none", "wait", "get", "delete", "notify", "gone"}]
  BY DEF SupInv, SupTypeOK, Struct, Call
<1>1. CASE StartActive(t) \/ StartRefused(t) \/ Persist(t) \/ AbortWait(t) \/ AwaitReady(t)
  <2>1. UNCHANGED <<current, worker, reaper, ctxDone>>
    BY <1>1 DEF StartActive, StartRefused, Persist, AbortWait, AwaitReady
  <2>2. At(t, "ok")' => call'[t].w = current
    BY <1>0, <1>1 DEF StartActive, StartRefused, Persist, AbortWait, AwaitReady, Goto, At, Call
  <2> QED BY <2>1, <2>2 DEF Signalled
<1>2. CASE StartUnlaunched(t) \/ Spawn(t)
  <2>1. PICK w \in Workers :
           /\ reaper[w] = "none"
           /\ \E s \in Struct : worker' = [worker EXCEPT ![w] = s]
           /\ reaper' = reaper \/ reaper' = [reaper EXCEPT ![w] = "wait"]
    BY <1>2 DEF StartUnlaunched, Spawn, Unused, Absent, Struct, States
  <2>2. Signalled'
    BY <1>0, <2>1 DEF Signalled
  <2>3. ~At(t, "ok")' /\ UNCHANGED ctxDone
    BY <1>0, <1>2 DEF StartUnlaunched, Spawn, Goto, At, Call
  <2> QED BY <2>2, <2>3
<1>3. CASE AbortKill(t) \/ FailKill(t) \/ MarkKill(t)
  <2>1. Kill /\ UNCHANGED <<current, reaper, ctxDone>>
    BY <1>3 DEF AbortKill, FailKill, MarkKill
  <2>2. ~At(t, "ok")'
    BY <1>0, <1>3 DEF AbortKill, FailKill, MarkKill, Goto, At, Call
  <2>3. \A w \in Workers : worker'[w].done = worker[w].done
    BY <1>0, <2>1 DEF Kill, Struct
  <2> QED BY <2>1, <2>2, <2>3 DEF Signalled
<1>4. CASE \/ StopBegin(t, "failStop", "failWait", "setFailed")
           \/ SetFailed(t, "setFailed", "err") \/ SetFailed(t, "setKilled", "killed")
  <2>1. \A w \in Workers : worker'[w].done = worker[w].done
    BY <1>0, <1>4 DEF StopBegin, SetFailed, Struct
  <2>2. UNCHANGED <<reaper, ctxDone>> /\ ~At(t, "ok")'
    BY <1>0, <1>4 DEF StopBegin, SetFailed, Goto, At, Call
  <2> QED BY <2>1, <2>2 DEF Signalled
<1>5. CASE \/ StopDone(t, "failWait", "setFailed") \/ StopDone(t, "failReap", "setFailed")
           \/ StopEscalate(t, "failWait", "failReap")
  BY <1>0, <1>5 DEF StopDone, StopEscalate, Signalled, Goto, At, Call
<1>6. CASE MarkReady(t)
  <2>1. \A w \in Workers : worker'[w].done = worker[w].done
    BY <1>0, <1>6 DEF MarkReady, Struct
  <2>2. UNCHANGED <<current, reaper, ctxDone>> /\ (At(t, "ok")' => call'[t].w = current)
    BY <1>0, <1>6 DEF MarkReady, Goto, At, Call
  <2> QED BY <2>1, <2>2 DEF Signalled
<1> QED BY <1>1, <1>2, <1>3, <1>4, <1>5, <1>6 DEF Start

LEMMA RequestLeased ==
    ASSUME Typed, BusyInv, LeaseInv, NEW c \in Clients, Request(c) \/ Serving(c) \/ GiveUp(c)
    PROVE  LeaseInv'
<1>0. /\ c \in Callers /\ c # Load /\ c \notin Tasks /\ Load \notin Tasks /\ Load \in Callers
      /\ Tasks \subseteq Callers /\ call \in [Callers -> Call] /\ at \in [Callers -> Places]
  BY Threads, LifecycleAssumption DEF Typed, LifeTyped, SupInv, SupTypeOK, Call, Load, Unblockers
<1>1. UNCHANGED <<worker, current, reaper, startup, ctxDone, gate, books>>
  BY DEF Request, Serving, ReservePending, Admit, Readmit, WaitDrain, Resolve, ReleasePending,
         Activate, FinishActive, GiveUp, supVars, procVars, control, books
<1>2. call'[Load] = call[Load]
  BY <1>0 DEF Request, Serving, ReservePending, Admit, Readmit, WaitDrain, Resolve, ReleasePending,
         Activate, FinishActive, GiveUp, supVars, WaitFor, Reset
<1>3. PICK pc \in Places : Move(c, pc) \/ (Join(c, pc) /\ Resolve(c) /\ ~EndpointOK)
  BY DEF Request, Serving, ReservePending, Admit, Readmit, WaitDrain, Resolve, ReleasePending,
         Activate, FinishActive, GiveUp, Places
<1>4. /\ \A t \in Tasks : at'[t] = at[t]
      /\ at'[Load] = at[Load] \/ (at'[Load] = "arrive" /\ ~loading /\ loading' /\ ~EndpointOK)
      /\ loading => loading'
  <2>1. CASE Move(c, pc) /\ ~Resolve(c)
    <3>1. loading' = loading
      BY <2>1 DEF Request, Serving, ReservePending, Admit, Readmit, WaitDrain, ReleasePending,
                  Activate, FinishActive, GiveUp, control
    <3> QED BY <1>0, <2>1, <3>1 DEF Move
  <2>2. CASE Move(c, pc) /\ Resolve(c)
    BY <1>0, <2>2 DEF Move, Join, Resolve
  <2>3. CASE Join(c, pc) /\ Resolve(c) /\ ~EndpointOK
    BY <1>0, <2>3 DEF Join
  <2> QED BY <1>3, <2>1, <2>2, <2>3
<1>5. Status' = Status /\ Signalled'
  BY <1>1 DEF Status, LeaseInv, Signalled
<1>6. CASE at'[Load] = at[Load]
  BY <1>1, <1>2, <1>4, <1>5, <1>6, LeaseKept
<1>7. CASE at'[Load] # at[Load]
  <2>1. at'[Load] = "arrive" /\ Status' # "ready"
    BY <1>4, <1>5, <1>7 DEF EndpointOK
  <2>2. Lost' /\ Owns' /\ Reserved'
    BY <2>1 DEF Lost, Owns, Reserved, Starting
  <2>3. Rested'
    BY <1>2, <1>4, <1>7, <2>1 DEF LeaseInv, Rested, At
  <2>4. Startups' /\ Gated'
    BY <1>1, <1>4 DEF LeaseInv, Startups, Gated
  <2> QED BY <1>5, <2>1, <2>2, <2>3, <2>4, LeaseIdle
<1> QED BY <1>6, <1>7

\* The tasks end leases only when no start is on its way.
LEMMA AttendLeased ==
    ASSUME Typed, Undisturbed, BusyInv, LeaseInv, NEW t \in Tasks, Attend(t)
    PROVE  LeaseInv'
<1>0. /\ t \in Callers /\ t # Load /\ Load \notin Tasks /\ Load \in Callers /\ Load # Nobody
      /\ Tasks \subseteq Callers /\ call \in [Callers -> Call] /\ at \in [Callers -> Places]
      /\ SupInv /\ HasPid /\ t # Nobody
  BY Threads, LifecycleAssumption
     DEF Typed, LifeTyped, SupInv, SupTypeOK, Call, BusyInv, Load, Unblockers, Nobody
<1>1. (t = "idler" /\ IdleStop) \/ (t = "evictor" /\ EvictMark) \/ Stopping(t)
  BY DEF Attend, Undisturbed, OnDemand, Unblockers
<1>2. t \in Claims /\ Claims = {t} /\ Status # "ready" /\ LoadPast /\ drain
  <2>1. t \in Claims
    BY <1>1 DEF IdleStop, EvictMark, Stopping, StopGate, StopWorker, Stopped, StopFailed, GateDenied,
                In, Claims, Stage, Gates, BusyInv, Idling
  <2> QED BY <2>1 DEF BusyInv, OneClaim, KeptOut, NoNewLoad, DrainHeld
<1>3. \A u \in Tasks : u # t => at[u] # "stop"
  BY <1>2 DEF Claims, Stage
<1>4. /\ \A u \in Callers : u # t => at'[u] = at[u] /\ call'[u] = call[u]
      /\ UNCHANGED <<current, reaper, loading>>
  BY <1>0, <1>1, <1>2 DEF IdleStop, EvictMark, Stopping, StopGate, StopWorker, StopBegin, StopStep,
              StopDone, StopCancelled, StopEscalate, Stopped, StopFailed, GateDenied, Move, Reset,
              Goto, procVars, supVars, lifeVars, control
<1>5. CASE (t = "idler" /\ IdleStop) \/ (t = "evictor" /\ EvictMark)
  <2>1. UNCHANGED <<worker, startup, ctxDone, gate, books>>
    BY <1>2, <1>5 DEF IdleStop, EvictMark, ClaimDrain, supVars, control
  <2>2. at'[t] # "stop"
    BY <1>0, <1>5 DEF IdleStop, EvictMark, Move
  <2>3. Signalled' /\ Status' = Status
    BY <1>4, <2>1 DEF LeaseInv, Signalled, Status
  <2> QED BY <1>0, <1>4, <2>1, <2>2, <2>3, LeaseKept
<1>6. CASE StopWorker(t)
  <2>1. UNCHANGED <<at, startup, ctxDone, gate, books>>
    BY <1>6 DEF StopWorker, StopBegin, StopStep, StopDone, StopCancelled, StopEscalate, lifeVars, control
  <2>2. Signalled' /\ Status' # "ready"
    <3>1. CASE UNCHANGED worker
      BY <1>2, <1>4, <3>1 DEF LeaseInv, Signalled, Status
    <3>2. CASE ~UNCHANGED worker
      <4>1. worker' = [worker EXCEPT ![current].state = "stopping"] /\ current \in Workers
        BY <1>0, <1>6, <3>2 DEF StopWorker, StopBegin, StopStep, StopDone, StopCancelled,
                                StopEscalate, HasProcess, SupInv, SupTypeOK
      <4>2. worker \in [Workers -> Struct]
        BY <1>0 DEF SupInv, SupTypeOK, Struct
      <4> QED BY <1>4, <4>1, <4>2, NoneIsNoWorker DEF LeaseInv, Signalled, Status, Struct
    <3> QED BY <3>1, <3>2
  <2> QED BY <1>0, <1>4, <2>1, <2>2, LeaseKept
<1>7. CASE StopGate(t)
  <2>1. /\ startup' = Nobody /\ ctxDone' = ctxDone \cup Interrupted /\ gate' = t /\ at'[t] = "stop"
        /\ UNCHANGED <<worker, books>>
    BY <1>0, <1>7 DEF StopGate, CancelStartup, Move
  <2>2. Startups'
    BY <2>1, <1>0 DEF LeaseInv, Startups, Interrupted
  <2>3. Gated'
    BY <1>0, <1>3, <1>4, <2>1 DEF Gated
  <2>4. Signalled' /\ Status' # "ready"
    BY <1>2, <1>4, <2>1 DEF LeaseInv, Signalled, Status
  <2>5. Lost' /\ Rested' /\ Owns'
    BY <1>0, <1>2, <1>4, <2>4 DEF LeaseInv, Lost, LoadPast, Rested, Owns, At
  <2>6. Reserved'
    BY <1>0, <2>1 DEF Reserved, Live
  <2> QED BY <2>2, <2>3, <2>4, <2>5, <2>6, LeaseIdle
<1>8. CASE Stopped(t) \/ StopFailed(t) \/ GateDenied(t)
  <2>1. t \notin ctxDone
    BY <1>0 DEF LeaseInv, Startups
  <2>2. Stopped(t) \/ StopFailed(t)
    BY <1>8, <2>1 DEF GateDenied
  <2>3. at[t] = "stop" /\ ~At(t, "idle") /\ at'[t] = "done"
    BY <1>0, <2>2, <1>2 DEF Stopped, StopFailed, At, In, Move, Claims, Stage
  <2>4. startup = Nobody /\ startup' = Nobody /\ UNCHANGED ctxDone
    BY <2>2, <2>3 DEF Stopped, StopFailed, LeaseInv, Gated
  <2>5. Status \notin {"ready", "draining"}
    BY <2>3 DEF BusyInv, Stops, InService
  <2>6. Status' = Status /\ UNCHANGED worker
    BY <1>4, <2>2, <2>5 DEF Stopped, StopFailed, AbortClaim, AbortDrain, Status
  <2>7. Startups' /\ Gated'
    BY <1>0, <1>3, <1>4, <2>3, <2>4 DEF LeaseInv, Startups, Gated
  <2>8. Signalled' /\ Status' # "ready"
    BY <1>4, <2>5, <2>6 DEF LeaseInv, Signalled
  <2>9. Lost' /\ Rested' /\ Owns'
    BY <1>0, <1>2, <1>4, <2>8 DEF LeaseInv, Lost, LoadPast, Rested, Owns, At
  <2>10. Reserved'
    BY <1>0, <2>4 DEF Reserved, Live
  <2> QED BY <2>7, <2>8, <2>9, <2>10, LeaseIdle
<1> QED BY <1>1, <1>5, <1>6, <1>7, <1>8 DEF Stopping

LEMMA ClaimLeased ==
    ASSUME Typed, BusyInv, LeaseInv, NEW t \in Tasks,
           (t = "idler" /\ IdleClaim) \/ (t = "evictor" /\ EvictClaim)
    PROVE  LeaseInv'
<1>0. /\ t \in Callers /\ t # Load /\ Load \notin Tasks /\ Load \in Callers
      /\ Tasks \subseteq Callers /\ at \in [Callers -> Places] /\ SupInv /\ HasPid
      /\ worker \in [Workers -> Struct]
  BY Threads, LifecycleAssumption
     DEF Typed, LifeTyped, SupInv, SupTypeOK, Struct, BusyInv, Load, Unblockers
<1>1. UNCHANGED <<startup, ctxDone, gate, loading, books, current, proc, reaper, call>>
  BY DEF IdleClaim, EvictClaim, procVars
<1>2. at'[t] # "stop" /\ \A u \in Callers : u # t => at'[u] = at[u]
  BY <1>0 DEF IdleClaim, EvictClaim, Move
<1>3. BeginDrain \/ UNCHANGED worker
  BY DEF IdleClaim, EvictClaim, ClaimDrain
<1>4. Status' = "ready" => Status = "ready"
  BY <1>0, <1>1, <1>3, BeginStatus DEF Status
<1>5. \A w \in Workers : worker'[w].done = worker[w].done
  BY <1>0, <1>3 DEF BeginDrain, Struct
<1>6. Signalled'
  BY <1>1, <1>5 DEF LeaseInv, Signalled
<1> QED BY <1>0, <1>1, <1>2, <1>4, <1>6, LeaseKept

LEMMA OthersLeased ==
    ASSUME Typed, Undisturbed, BusyInv, LeaseInv,
           \/ \E t \in Cancellable : CancelContext(t)
           \/ \E w \in Workers : Process(w) \/ NotifyExit(w)
           \/ BackoffEnds \/ LeaseSwept \/ UNCHANGED vars
    PROVE  LeaseInv'
<1>0. worker \in [Workers -> Struct] /\ current \in Workers \cup {None}
      /\ reaper \in [Workers -> {"none", "wait", "get", "delete", "notify", "gone"}] /\ SupInv
  BY DEF Typed, SupInv, SupTypeOK, Struct
<1>1. /\ UNCHANGED <<current, at, call, ctxDone, startup, gate, loading>>
      /\ (\E w \in Workers : Process(w) \/ NotifyExit(w)) \/ UNCHANGED <<worker, reaper, books>>
  <2>1. CASE \E w \in Workers : Process(w)
    BY ZenonT(60), <2>1 DEF Process, ProcessStep, Serve, Exit, Reap, ClearGet, ClearDelete, lifeVars, control
  <2>2. CASE \E w \in Workers : NotifyExit(w)
    BY <2>2 DEF NotifyExit, Notified, control
  <2>3. CASE BackoffEnds \/ LeaseSwept \/ UNCHANGED vars
    BY <2>3 DEF Undisturbed, BackoffEnds, LeaseSwept, lifeVars, control, vars, supVars, books
  <2> QED BY SMTT(60), <2>1, <2>2, <2>3 DEF Undisturbed
<1>2. CASE UNCHANGED <<worker, reaper, books>>
  BY <1>1, <1>2, LeaseKept DEF LeaseInv, Signalled, Status
<1>3. ASSUME NEW w \in Workers, Process(w) PROVE LeaseInv'
  <2>1. ProcessStep(w) /\ UNCHANGED books
    BY <1>3 DEF Process, lifeVars, books
  <2>2. Signalled' /\ (Status' = "ready" => Status = "ready")
    <3>1. CASE Reap(w)
      BY <1>0, <3>1 DEF Reap, LeaseInv, Signalled, Status, Struct
    <3>2. CASE Serve(w) \/ Exit(w) \/ ClearGet(w) \/ ClearDelete(w)
      BY <1>0, <3>2 DEF Serve, Exit, ClearGet, ClearDelete, LeaseInv, Signalled, Status
    <3> QED BY <2>1, <3>1, <3>2 DEF ProcessStep
  <2> QED BY <1>1, <2>1, <2>2, LeaseKept
<1>4. ASSUME NEW w \in Workers, NotifyExit(w) PROVE LeaseInv'
  <2>1. /\ UNCHANGED <<current, worker, at, call, ctxDone, startup, gate, loading>>
        /\ reaper[w] = "notify" /\ reaper' = [reaper EXCEPT ![w] = "gone"] /\ WorkerExited(w)
    BY <1>4 DEF NotifyExit, Notified, control
  <2>2. Signalled' /\ Status' = Status
    BY <1>0, <2>1 DEF LeaseInv, Signalled, Status
  <2>3. Status = "ready" => current # w
    BY <1>0, <2>1 DEF LeaseInv, Signalled, Status, SupInv, ExitsShow, Active
  <2>4. Startups' /\ Gated' /\ Lost' /\ Rested' /\ Owns'
    BY <2>1, <2>2 DEF LeaseInv, Startups, Gated, Lost, LoadPast, Live, Rested, Owns, At
  <2>5. CASE tracked.w # w
    BY <2>1, <2>2, <2>4, <2>5 DEF WorkerExited, books, LeaseInv, Reserved, Serves, Live
  <2>6. CASE tracked.w = w
    <3>1. tracked' = Untracked /\ lease' = IF lease.id = tracked.lease THEN NoLease ELSE lease
      BY <2>1, <2>6 DEF WorkerExited
    <3>2. Reserved'
      BY <2>1, <3>1 DEF LeaseInv, Reserved, Live, Untracked
    <3>3. Serves'
      BY <2>1, <2>2, <2>3, <2>6, <3>1 DEF LeaseInv, Serves, Untracked
    <3> QED BY <2>2, <2>4, <3>2, <3>3 DEF LeaseInv
  <2> QED BY <2>5, <2>6
<1> QED BY <1>1, <1>2, <1>3, <1>4

LEMMA LoadLeased ==
    ASSUME Typed, Undisturbed, BusyInv, LeaseInv, RunLoad
    PROVE  LeaseInv'
<1>0. /\ Load \notin Tasks /\ Load \in Callers /\ Tasks \subseteq Callers /\ Load # Nobody
      /\ Nobody \notin Tasks
      /\ call \in [Callers -> Call] /\ at \in [Callers -> Places] /\ SupInv /\ HasPid /\ OnDemand
      /\ worker \in [Workers -> Struct]
  BY Threads, LifecycleAssumption
     DEF Typed, LifeTyped, SupInv, SupTypeOK, Call, Struct, BusyInv, Load, Nobody, Unblockers, Undisturbed
<1>1. ~LoadPast => Status \notin {"ready", "draining"} /\ (at[Load] \in Starting => Live(Load))
  BY DEF BusyInv, NoNewLoad, InService, LeaseInv, Lost
<1>s. UNCHANGED <<worker, current, reaper>> => Status' = Status /\ Signalled'
  BY DEF Status, LeaseInv, Signalled
<1>l. Live(Load) => Load \notin ctxDone
  BY DEF Live, LeaseInv, Startups
<1>t. /\ Typed /\ Idling
  BY DEF BusyInv
<1>2. CASE WaitDrain(Load)
  <2>1. ~LoadPast
    BY <1>2 DEF WaitDrain, LoadPast, In
  <2>2. /\ UNCHANGED <<worker, current, reaper, startup, gate, loading, ctxDone>>
        /\ \E pc \in {"settle", "resolve"} : Move(Load, pc)
        /\ call'[Load].pc = call[Load].pc \/ call'[Load] = Idle
    BY <1>0, <1>2 DEF WaitDrain, WaitFor, Reset, procVars, control, Call
  <2>3. at'[Load] \in {"settle", "resolve"} /\ \A t \in Tasks : at'[t] = at[t]
    BY <2>2, LoadMoves
  <2>4. Lost' /\ Owns' /\ Reserved'
    BY <2>3 DEF Lost, Owns, Reserved, Starting
  <2>5. Startups' /\ Gated'
    BY <2>2, <2>3 DEF LeaseInv, Startups, Gated
  <2>6. Rested'
    BY <1>2, <2>2, <2>3 DEF LeaseInv, Rested, At, Idle, WaitDrain, In
  <2> QED BY <1>1, <1>s, <2>1, <2>2, <2>4, <2>5, <2>6, LeaseIdle
<1>3. CASE LoadBegin
  <2>1. ~LoadPast /\ at[Load] = "resolve" /\ gate = Nobody
    BY <1>3 DEF LoadBegin, LoadPast, In
  <2>2. /\ UNCHANGED <<worker, current, reaper, gate, call>>
        /\ \/ Move(Load, "plan") /\ BeginStartup(Load) /\ UNCHANGED loading
           \/ (CompleteLoad(TRUE) \/ CompleteLoad(FALSE)) /\ UNCHANGED <<startup, ctxDone>>
    BY <1>3 DEF LoadBegin, procVars
  <2>3. \A t \in Tasks : at'[t] = at[t] /\ at[t] # "stop"
    BY <1>0, <1>t, <2>1, <2>2, LoadMoves, LoadCompletes DEF LeaseInv, Gated
  <2>4. \/ at'[Load] = "plan" /\ startup' = Load /\ loading' = loading
        \/ at'[Load] = "idle" /\ startup' = startup
    BY <1>t, <2>2, LoadMoves, LoadCompletes DEF BeginStartup
  <2>5. Startups'
    BY <2>2 DEF LeaseInv, Startups, BeginStartup, Interrupted
  <2>6. Gated'
    BY <2>3 DEF Gated
  <2>7. Lost' /\ Owns' /\ Reserved' /\ Rested'
    BY <2>1, <2>2, <2>4 DEF Lost, Live, Owns, Reserved, LeaseInv, Rested, At, Starting
  <2> QED BY <1>1, <1>s, <2>1, <2>2, <2>5, <2>6, <2>7, LeaseIdle
<1>4. CASE Plan(Load) \/ Launch(Load)
  <2>1. ~LoadPast /\ Live(Load) /\ Load \notin ctxDone
    BY <1>1, <1>l, <1>4 DEF Plan, Launch, LoadPast, In, Starting
  <2>2. UNCHANGED <<worker, current, reaper, gate, call, startup, ctxDone, loading, tracked>>
    BY <1>4 DEF Plan, Launch, supVars, control, books
  <2>3. PICK pc \in {"launch", "replan", "failPressure", "failError", "start"} :
          /\ Move(Load, pc)
          /\ pc = "launch" => NewLease
          /\ pc = "start" => In(Load, "launch") /\ UNCHANGED lease
    BY <1>4, <2>1 DEF Plan, Launch, Undisturbed, books
  <2>4. at'[Load] = pc /\ \A t \in Tasks : at'[t] = at[t]
    BY <2>3, LoadMoves
  <2>5. Startups' /\ Gated' /\ Lost'
    BY <2>1, <2>2, <2>4 DEF LeaseInv, Startups, Gated, Lost, Live
  <2>6. Rested' /\ Owns'
    BY <1>4, <2>2, <2>3, <2>4 DEF LeaseInv, Rested, Owns, At, Plan, Launch, In
  <2>7. Reserved'
    BY <1>t, <2>1, <2>2, <2>3, <2>4, NewLeaseTyped DEF LeaseInv, Reserved, Live, In, Typed
  <2> QED BY <1>1, <1>s, <2>1, <2>2, <2>5, <2>6, <2>7, LeaseIdle
<1>5. CASE StartWorker(Load)
  <2>1. Start(Load) /\ UNCHANGED <<at, startup, gate, loading, books>> /\ at[Load] = "start"
    BY <1>5 DEF StartWorker, lifeVars, control, In, books
  <2>2. ~LoadPast
    BY <1>0, <2>1, StartStatus DEF LoadPast
  <2>3. Live(Load)
    BY <1>1, <2>1, <2>2 DEF Starting
  <2>4. Signalled' /\ (At(Load, "ok")' => call'[Load].w = current') /\ UNCHANGED ctxDone
    BY <1>0, <2>1, StartOwns DEF LeaseInv
  <2>5. Startups' /\ Gated' /\ Lost' /\ Rested' /\ Owns' /\ Reserved'
    BY <2>1, <2>3, <2>4 DEF LeaseInv, Startups, Gated, Lost, Live, Rested, Owns, Reserved, At, books
  <2>6. Serves'
    BY <2>1 DEF Serves, Starting
  <2> QED BY <2>4, <2>5, <2>6 DEF LeaseInv
<1>6. CASE StartReturned(Load)
  <2>1. /\ UNCHANGED <<worker, current, reaper, startup, gate, loading, ctxDone, books>>
        /\ at[Load] = "start" /\ call'[Load] = [call[Load] EXCEPT !.pc = "idle"]
        /\ \/ At(Load, "ok") /\ Move(Load, "check")
           \/ ~At(Load, "ok") /\ (Move(Load, "failError") \/ Move(Load, "failKilled"))
    BY <1>0, <1>6 DEF StartReturned, Goto, procVars, control, In, At, books
  <2>2. /\ at'[Load] = IF At(Load, "ok") THEN "check" ELSE at'[Load]
        /\ ~At(Load, "ok") => at'[Load] \in {"failError", "failKilled"}
        /\ \A t \in Tasks : at'[t] = at[t]
    BY <2>1, LoadMoves
  <2>3. Startups' /\ Gated'
    BY <2>1, <2>2 DEF LeaseInv, Startups, Gated
  <2>4. call'[Load].pc = "idle" /\ call'[Load].w = call[Load].w
    BY <1>0, <2>1 DEF Call
  <2>5. Rested' /\ Owns'
    BY <2>1, <2>2, <2>4 DEF LeaseInv, Rested, Owns, At
  <2>6. CASE At(Load, "ok")
    <3>1. at'[Load] = "check"
      BY <2>2, <2>6
    <3>2. Lost' /\ Reserved' /\ Serves'
      BY <1>s, <2>1, <3>1 DEF LeaseInv, Lost, LoadPast, Live, Reserved, Serves, Starting, books
    <3> QED BY <1>s, <2>1, <2>3, <2>5, <3>2 DEF LeaseInv
  <2>7. CASE ~At(Load, "ok")
    <3>1. ~LoadPast
      BY <2>1, <2>7 DEF LoadPast, At
    <3>2. Live(Load)
      BY <1>1, <2>1, <3>1 DEF Starting
    <3>3. Lost' /\ Reserved'
      BY <2>1, <2>2, <2>7, <3>2 DEF Lost, Reserved, Live
    <3> QED BY <1>1, <1>s, <2>1, <2>3, <2>5, <3>1, <3>3, LeaseIdle
  <2> QED BY <2>6, <2>7
<1>7. CASE CheckLive(Load)
  <2>1. /\ Kill \/ UNCHANGED worker
        /\ UNCHANGED <<current, reaper, startup, gate, loading, ctxDone, books, call>>
        /\ at[Load] = "check"
        /\ \/ Live(Load) /\ Move(Load, "endpoint")
           \/ ~Live(Load) /\ Move(Load, "failKilled")
    BY <1>7, <1>l DEF CheckLive, procVars, control, In, books
  <2>2. /\ \A t \in Tasks : at'[t] = at[t]
        /\ at'[Load] = IF Live(Load) THEN "endpoint" ELSE "failKilled"
    BY <2>1, LoadMoves
  <2>3. Status' = Status
    BY <1>0, <2>1, KillStatus DEF Status
  <2>4. Signalled'
    BY <1>0, <2>1 DEF LeaseInv, Signalled, Kill, Struct
  <2>5. Startups' /\ Gated' /\ Rested' /\ Owns'
    BY <2>1, <2>2 DEF LeaseInv, Startups, Gated, Rested, Owns, At
  <2>6. Lost' /\ Reserved' /\ Serves'
    BY <2>1, <2>2, <2>3 DEF LeaseInv, Lost, LoadPast, Live, Reserved, Serves, Starting, books
  <2> QED BY <2>4, <2>5, <2>6 DEF LeaseInv
<1>8. CASE CheckEndpoint(Load) \/ Commit(Load)
  <2>1. /\ UNCHANGED <<worker, current, reaper, startup, gate, loading, ctxDone, tracked, call>>
        /\ at[Load] \in {"endpoint", "commit"}
        /\ \/ at[Load] = "endpoint" /\ EndpointOK /\ Move(Load, "commit") /\ UNCHANGED lease
           \/ at[Load] = "endpoint" /\ ~EndpointOK /\ Move(Load, "failError") /\ UNCHANGED lease
           \/ at[Load] = "commit" /\ lease.state = "committed" /\ Move(Load, "failError")
           \/ at[Load] = "commit" /\ Move(Load, "track") /\
                lease' = IF lease = NoLease THEN NoLease ELSE [lease EXCEPT !.state = "committed"]
    BY <1>8 DEF CheckEndpoint, Commit, supVars, control, In, books
  <2>2. \A t \in Tasks : at'[t] = at[t]
    BY <2>1, LoadMoves
  <2>3. /\ at'[Load] \in {"commit", "failError", "track"}
        /\ at'[Load] = "commit" => at[Load] = "endpoint" /\ UNCHANGED lease
        /\ at'[Load] = "failError" =>
             Status # "ready" \/ (at[Load] = "commit" /\ lease.state = "committed")
        /\ at'[Load] = "track" => at[Load] = "commit" /\
             lease' = IF lease = NoLease THEN NoLease ELSE [lease EXCEPT !.state = "committed"]
    BY <2>1, LoadMoves DEF EndpointOK
  <2>4. Startups' /\ Gated' /\ Rested' /\ Owns'
    BY <2>1, <2>2, <2>3 DEF LeaseInv, Startups, Gated, Rested, Owns, At
  <2>5. Lost' /\ Reserved'
    BY <1>s, <2>1, <2>3 DEF LeaseInv, Lost, LoadPast, Live, Reserved, Starting
  <2>6. Serves'
    <3>1. SUFFICES ASSUME Status = "ready" PROVE Serves'
      BY <1>s, <2>1 DEF Serves
    <3>2. lease.state = "pending" /\ lease.id # 0 /\ lease.id # tracked.lease
      BY <2>1, <3>1 DEF LeaseInv, Lost, Reserved, Starting
    <3>3. at'[Load] # "failError"
      BY <2>3, <3>1, <3>2
    <3>4. at'[Load] = "track" =>
             lease'.state = "committed" /\ lease'.id = lease.id
      <4>1. lease # NoLease /\ lease \in [id : 0..3, state : {"none", "pending", "committed"}]
        BY <3>2 DEF NoLease, Typed, LifeTyped
      <4> QED BY <2>3, <4>1
    <3> QED BY <2>1, <2>3, <3>2, <3>3, <3>4 DEF Serves, Starting
  <2> QED BY <1>s, <2>1, <2>4, <2>5, <2>6 DEF LeaseInv
<1>9. CASE Track(Load) \/ Verify(Load)
  <2>1. /\ UNCHANGED <<worker, current, reaper, startup, gate, loading, ctxDone, call>>
        /\ \/ at[Load] = "track" /\ lease = NoLease /\ Move(Load, "succeed")
           \/ /\ at[Load] = "track" /\ Move(Load, "verify")
              /\ tracked' = [w |-> call[Load].w, lease |-> lease.id] /\ UNCHANGED lease
           \/ /\ at[Load] = "verify" /\ Move(Load, "succeed")
              /\ EndpointOK /\ current = call[Load].w => UNCHANGED books
    BY <1>9 DEF Track, Verify, supVars, control, In, books
  <2>2. /\ \A t \in Tasks : at'[t] = at[t]
        /\ at'[Load] \in {"succeed", "verify"} /\ at[Load] \in {"track", "verify"}
        /\ at'[Load] = "verify" => at[Load] = "track" /\
              tracked' = [w |-> call[Load].w, lease |-> lease.id] /\ UNCHANGED lease
        /\ at'[Load] = "succeed" =>
              \/ at[Load] = "track" /\ lease = NoLease
              \/ at[Load] = "verify" /\ (EndpointOK /\ current = call[Load].w => UNCHANGED books)
    BY <2>1, LoadMoves
  <2>3. Startups' /\ Gated' /\ Rested' /\ Owns'
    BY <2>1, <2>2 DEF LeaseInv, Startups, Gated, Rested, Owns, At
  <2>4. Lost' /\ Reserved'
    BY <1>s, <2>1, <2>2 DEF LeaseInv, Lost, LoadPast, Live, Reserved, Starting
  <2>5. Serves'
    <3>1. SUFFICES ASSUME Status = "ready" PROVE Serves'
      BY <1>s, <2>1 DEF Serves
    <3>2. call[Load].w = current
      BY <2>2 DEF LeaseInv, Owns
    <3>3. at[Load] = "track" => lease.state = "committed" /\ at'[Load] = "verify"
      BY <2>2, <3>1 DEF LeaseInv, Serves, NoLease
    <3>4. at[Load] = "verify" =>
            /\ at'[Load] = "succeed" /\ UNCHANGED books
            /\ lease.state = "committed" /\ tracked = [w |-> current, lease |-> lease.id]
      BY <2>2, <3>1, <3>2 DEF LeaseInv, Serves, EndpointOK
    <3>5. lease'.state = "committed" /\ tracked' = [w |-> current', lease |-> lease'.id]
      BY <2>1, <2>2, <3>2, <3>3, <3>4 DEF books
    <3> QED BY <2>2, <3>5 DEF Serves, Starting
  <2> QED BY <1>s, <2>1, <2>3, <2>4, <2>5 DEF LeaseInv
<1>10. CASE Succeed(Load) \/ Fail(Load)
  <2>1. /\ UNCHANGED <<worker, current, reaper, startup, gate, loading, ctxDone, call>>
        /\ \/ at[Load] = "succeed" /\ Move(Load, "started") /\ UNCHANGED books
           \/ /\ at[Load] \in {"failKilled", "failPressure", "failError"}
              /\ Move(Load, "pressed") \/ Move(Load, "failed")
    BY <1>10 DEF Succeed, Fail, supVars, control, In, books
  <2>2. /\ \A t \in Tasks : at'[t] = at[t]
        /\ \/ at[Load] = "succeed" /\ at'[Load] = "started" /\ UNCHANGED books
           \/ at[Load] \in {"failKilled", "failPressure", "failError"}
              /\ at'[Load] \in {"pressed", "failed"}
    BY <2>1, LoadMoves
  <2>3. Startups' /\ Gated' /\ Rested' /\ Owns'
    BY <2>1, <2>2 DEF LeaseInv, Startups, Gated, Rested, Owns, At
  <2>4. Lost' /\ Reserved'
    BY <1>s, <2>1, <2>2 DEF LeaseInv, Lost, LoadPast, Live, Reserved, Starting
  <2>5. Serves'
    BY <1>s, <2>1, <2>2 DEF LeaseInv, Serves, Starting, books
  <2> QED BY <1>s, <2>1, <2>3, <2>4, <2>5 DEF LeaseInv
<1>11. CASE LoadEnd \/ LoadStale \/ LoadStray
  <2>1. /\ Kill \/ UNCHANGED worker
        /\ UNCHANGED <<current, reaper, gate, books>>
        /\ startup' \in {startup, Nobody} /\ ctxDone' \subseteq ctxDone
        /\ UNCHANGED call \/ call' = [call EXCEPT ![Load] = Idle]
        /\ at[Load] \in {"started", "failed", "pressed", "stray"}
        /\ (at[Load] = "started" /\ Live(Load)) \/ Status # "ready"
    BY <1>0, <1>11 DEF LoadEnd, LoadStale, LoadStray, Ended, Reset, procVars, In, FinishStartup,
       Live, LeaseInv, Lost, Serves, Starting
  <2>2. CompleteLoad(TRUE) \/ CompleteLoad(FALSE)
    BY <1>11, <2>1 DEF LoadEnd, LoadStale, LoadStray, EndpointOK, In
  <2>3. at'[Load] = "idle" /\ \A t \in Tasks : at'[t] = at[t]
    BY <1>t, <2>2, LoadCompletes
  <2>4. Status' = Status
    BY <1>0, <2>1, KillStatus DEF Status
  <2>5. Signalled'
    BY <1>0, <2>1 DEF LeaseInv, Signalled, Kill, Struct
  <2>6. Startups' /\ Gated'
    BY <2>1, <2>3, <1>11 DEF LeaseInv, Startups, Gated
  <2>7. Rested'
    BY <1>0, <2>1, <2>3 DEF LeaseInv, Rested, At, Idle
  <2>8. Lost' /\ Owns' /\ Reserved'
    BY <2>3 DEF Lost, Owns, Reserved, Starting
  <2>9. Serves'
    BY <2>1, <2>3, <2>4 DEF LeaseInv, Serves, Starting, books
  <2> QED BY <2>5, <2>6, <2>7, <2>8, <2>9 DEF LeaseInv
<1> QED BY <1>2, <1>3, <1>4, <1>5, <1>6, <1>7, <1>8, <1>9, <1>10, <1>11 DEF RunLoad, StartOne

LEMMA StartsLeased == LifeInit => LeaseInv
<1> SUFFICES ASSUME LifeInit PROVE LeaseInv
  OBVIOUS
<1>1. /\ at[Load] = "idle" /\ Status = "unloaded" /\ At(Load, "idle")
      /\ \A t \in Tasks : at[t] = "idle"
  BY Threads DEF LifeInit, SupInit, Status, At, Idle
<1> QED BY <1>1, LifecycleAssumption
     DEF LifeInit, SupInit, LeaseInv, Signalled, Startups, Gated, Lost, Rested, Owns, Reserved, Serves,
         Starting, Live

LEMMA StepsLeased ==
    ASSUME Undisturbed
    PROVE  Typed /\ Accounted /\ BusyInv /\ LeaseInv /\ [LifeNext]_vars => LeaseInv'
<1> SUFFICES ASSUME Typed, Accounted, BusyInv, LeaseInv, [LifeNext]_vars PROVE LeaseInv'
  OBVIOUS
<1>1. CASE \E c \in Clients : Request(c) \/ Serving(c) \/ GiveUp(c)
  BY <1>1, RequestLeased
<1>2. CASE \E t \in Tasks : Attend(t)
  BY <1>2, AttendLeased
<1>3. CASE ("idler" \in Tasks /\ IdleClaim) \/ ("evictor" \in Tasks /\ EvictClaim)
  BY <1>3, ClaimLeased
<1>4. CASE RunLoad
  BY <1>4, LoadLeased
<1>5. CASE \/ \E t \in Cancellable : CancelContext(t)
           \/ \E w \in Workers : Process(w) \/ NotifyExit(w)
           \/ BackoffEnds \/ LeaseSwept \/ UNCHANGED vars
  BY <1>5, OthersLeased
<1>6. CASE \E o \in Operators : Ask(o) \/ Operate(o)
  BY <1>6 DEF Undisturbed, OnDemand
<1>7. LifeNext \/ UNCHANGED vars
  OBVIOUS
<1> QED BY <1>1, <1>2, <1>3, <1>4, <1>5, <1>6, <1>7, Zenon DEF LifeNext

LEMMA LeaseHolds == Typed /\ LeaseInv => ReadyIsLeased /\ StartIsLeased
BY Threads, LifecycleAssumption
   DEF LeaseInv, Startups, Serves, Reserved, Live, ReadyIsLeased, StartIsLeased, Load

-----------------------------------------------------------------------------
(* The casts of MCRequests: what is proved holds of the one on demand, whose *)
(* constants are the module's own.                                          *)

LEMMA DemandBounded ==
    ASSUME LifeTyped, Accounted
    PROVE  demand \in [pending : 0..Cardinality(Clients), active : 0..Cardinality(Clients)]
<1>1. /\ Cardinality(Waiting) <= Cardinality(Clients) /\ Cardinality(Served) <= Cardinality(Clients)
      /\ Cardinality(Clients) \in Nat
  BY LifecycleAssumption, FS_Subset, FS_CardinalityType DEF Waiting, Served
<1> QED BY <1>1 DEF LifeTyped, Accounted, Served

\* Every variable of the service keeps its type, and the demand never exceeds
\* the number of clients (lifecycle/service.go:81-157).
THEOREM ServiceTyped == LifeSpec => []LifeTypeOK
<1>1. LifeInit => Typed /\ Accounted
  BY StartsTyped, StartsCounted
<1>2. Typed /\ Accounted /\ [LifeNext]_vars => (Typed /\ Accounted)'
  BY StepsTyped, StepsCounted DEF Typed
<1>3. Typed /\ Accounted => LifeTypeOK
  BY DemandBounded DEF Typed, LifeTyped, SupInv, LifeTypeOK
<1> QED BY <1>1, <1>2, <1>3, PTL DEF LifeSpec

\* Requests are counted exactly, whoever acts on the instance
\* (lifecycle/pending.go:13-91).
THEOREM CountedHolds == MCSpec => []Counted
<1> DEFINE Inv == cast = "on_demand" => Typed /\ Accounted
<1>1. Init => Inv
  BY StartsTyped, StartsCounted DEF Init
<1>2. Inv /\ [MCNext]_<<cast, vars>> => Inv'
  <2> SUFFICES ASSUME cast = "on_demand", Typed, Accounted, [LifeNext]_vars
               PROVE  Typed' /\ Accounted'
    BY DEF MCNext
  <2> QED BY StepsTyped, StepsCounted DEF Typed
<1>3. Inv => Counted
  BY DEF Counted
<1> QED BY <1>1, <1>2, <1>3, PTL DEF MCSpec

\* Neither idle unloading nor an eviction stops a worker that serves a request
\* (lifecycle/service.go:1240-1317).
THEOREM BusyWorkersSpared ==
    ASSUME OnDemand
    PROVE  MCSpec => BusySpared
<1> DEFINE Inv == cast = "on_demand" => Typed /\ Accounted /\ BusyInv
<1>1. Init => Inv
  BY StartsTyped, StartsCounted, StartsBusy DEF Init
<1>2. Inv /\ [MCNext]_<<cast, vars>> => Inv'
  <2> SUFFICES ASSUME cast = "on_demand", Typed, Accounted, BusyInv, [LifeNext]_vars
               PROVE  Typed' /\ Accounted' /\ BusyInv'
    BY DEF MCNext
  <2> QED BY StepsTyped, StepsCounted, StepsBusy DEF Typed
<1>3. Inv => [cast = "on_demand" => SparesBusy]_<<cast, vars>>
  <2> SUFFICES ASSUME BusyInv, NEW t \in Tasks, In(t, "stop") PROVE demand.active = 0
    BY DEF SparesBusy
  <2>1. t \in Claims
    BY DEF In, Claims, Stage
  <2> QED BY <2>1 DEF BusyInv, KeptOut
<1> QED BY <1>1, <1>2, <1>3, PTL DEF MCSpec, BusySpared

\* A worker in service holds a committed lease and a start on its way to one a
\* pending lease, as long as no context ends and no lease is swept
\* (lifecycle/service.go:917-1046).
THEOREM ReadyLeased ==
    ASSUME Undisturbed
    PROVE  MCSpec => []Leased
<1> DEFINE Inv == cast = "on_demand" => Typed /\ Accounted /\ BusyInv /\ LeaseInv
<1>0. OnDemand
  BY DEF Undisturbed
<1>1. Init => Inv
  BY StartsTyped, StartsCounted, StartsBusy, StartsLeased DEF Init
<1>2. Inv /\ [MCNext]_<<cast, vars>> => Inv'
  <2> SUFFICES ASSUME cast = "on_demand", Typed, Accounted, BusyInv, LeaseInv, [LifeNext]_vars
               PROVE  Typed' /\ Accounted' /\ BusyInv' /\ LeaseInv'
    BY DEF MCNext
  <2> QED BY <1>0, StepsTyped, StepsCounted, StepsBusy, StepsLeased DEF Typed
<1>3. Inv => Leased
  BY LeaseHolds DEF Leased
<1> QED BY <1>1, <1>2, <1>3, PTL DEF MCSpec
=============================================================================
