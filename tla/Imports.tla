------------------------------- MODULE Imports -------------------------------
(***************************************************************************)
(* Importing a model from a provider (modelimports/service.go,             *)
(* integration.go): a request makes a download job, a pending model, its   *)
(* first instance and an import row, one statement after the other, and    *)
(* when one fails tries to undo them in turn: with the request's own       *)
(* context, so that the undo of a request whose client has left fails too. *)
(* A reconciler enables instances when their file is there and registers   *)
(* plain downloads; the last step of a request runs the reconciler too.    *)
(* All jobs are for one artifact: its path has at most one model.          *)
(***************************************************************************)
EXTENDS Integers, FiniteSets

CONSTANTS
    Requests,   \* import requests; each names the rows it makes
    Plain,      \* downloads without an import
    SlugOf,     \* the slug each request asks for its instance
    Starters,   \* requests that ask for a start when ready
    None,       \* no row
    Elsewhere,  \* a model at another path
    EditLimit   \* bound on what users ask for and on passes broken off

Jobs   == Requests \cup Plain
Passes == Requests \cup {"loop"}
\* A model is named for the request or the job it was made for, or for the user.
Own(r) == <<"import", r>>
Reg(j) == <<"register", j>>
Users  == <<"user", 0>>
Models == {Own(r) : r \in Requests} \cup {Reg(j) : j \in Jobs} \cup {Users}
States == {"DOWNLOADING", "COMPLETED", "FAILED", "CANCELLED"}

\* asked: the last request of a user that wrote the row left it enabled (history).
InstRow == [model : Models \cup {Elsewhere}, enabled : BOOLEAN, asked : BOOLEAN]

ImportsAssumption ==
    /\ Requests \cap Plain = {} /\ EditLimit \in Nat /\ Starters \subseteq Requests
    /\ None \notin Jobs \cup Models \cup {Elsewhere} \cup InstRow /\ Elsewhere \notin Models

VARIABLES
    job,     \* state of each download job; "absent" before, "removed" after
    file,    \* is the artifact's file there?
    model,   \* the model registered for its path
    inst,    \* instance rows
    imp,     \* rows of provider_imports
    call,    \* where each import request stands
    pass,    \* where each reconciler pass stands
    clean,   \* the request that removes a job
    made,    \* the job each model was made for (history)
    told,    \* instances the lifecycle was told of when they were enabled (history)
    smooth,  \* no job is retried, no file lost, no instance moved to another model
    edits

impVars == <<job, file, model, inst, imp, call, pass, clean, made, told, smooth, edits>>
rows    == <<job, model, inst, imp>>

NoPass  == [pc |-> "idle", todo |-> {}, item |-> None]
NoClean == [pc |-> "idle", job |-> None, rows |-> {}]
NoCall  == [pc |-> "idle", job |-> None, done |-> FALSE, model |-> None, owns |-> FALSE]
Ended(pc) == [NoCall EXCEPT !.pc = pc]

Exists(j)  == job[j] \in States
HasInst(i) == inst[i] # None
Imported(j) == \E k \in Jobs : imp[k] # None /\ imp[k].job = j

ImpInit ==
    /\ job = [j \in Jobs |-> "absent"] /\ file = FALSE /\ model = None
    /\ inst = [i \in Requests |-> None] /\ imp = [k \in Jobs |-> None]
    /\ call = [r \in Requests |-> NoCall] /\ pass = [p \in Passes |-> NoPass] /\ clean = NoClean
    /\ made = [m \in Models |-> None] /\ told = {} /\ edits = 0 /\ smooth \in BOOLEAN

-----------------------------------------------------------------------------
\* The foreign keys: instances go with their model; an import row stays with
\* what is left, and goes with its job.
DropInst(i) ==
    /\ inst' = [inst EXCEPT ![i] = None]
    /\ imp' = [k \in Jobs |-> IF imp[k] # None /\ imp[k].inst = i THEN [imp[k] EXCEPT !.inst = None] ELSE imp[k]]

DropModel(m) ==
    LET lost == {i \in Requests : HasInst(i) /\ inst[i].model = m}
        left(k) == [k EXCEPT !.model = IF @ = m THEN None ELSE @, !.inst = IF @ \in lost THEN None ELSE @]
    IN IF m = None THEN UNCHANGED <<model, inst, imp>>
       ELSE /\ model' = IF model = m THEN None ELSE model
            /\ inst' = [i \in Requests |-> IF i \in lost THEN None ELSE inst[i]]
            /\ imp' = [k \in Jobs |-> IF imp[k] = None THEN None ELSE left(imp[k])]

-----------------------------------------------------------------------------
(* The import request (Prepare).                                           *)

\* The job: one that has completed serves again.
NewJob(j) == \E k \in {k \in Jobs : job[k] = "COMPLETED"} \cup {j} :
    /\ (\E d \in Jobs : job[d] = "COMPLETED") => job[k] = "COMPLETED"
    /\ job' = IF job[k] = "COMPLETED" THEN job ELSE [job EXCEPT ![j] = "DOWNLOADING"]
    /\ j \in Requests => call' = [call EXCEPT ![j] = [@ EXCEPT !.pc = "look", !.job = k, !.done = job[k] = "COMPLETED"]]

Prepare(r) ==
    /\ call[r].pc = "idle" /\ edits < EditLimit /\ edits' = edits + 1 /\ NewJob(r)
    /\ UNCHANGED <<file, model, inst, imp, pass, clean, made, told, smooth>>

\* modelByPath: until the model is made, an error leaves nothing to undo.
LookModel(r) ==
    /\ call[r].pc = "look"
    /\ \/ call' = [call EXCEPT ![r].pc = IF model = None THEN "model" ELSE "inst", ![r].model = model]
       \/ call' = [call EXCEPT ![r] = Ended("failed")]
    /\ UNCHANGED <<rows, file, pass, clean, made, told, smooth, edits>>

\* createPendingModel: one transaction, and two models cannot have one path.
MakeModel(r) ==
    /\ call[r].pc = "model"
    /\ \/ /\ model = None
          /\ model' = Own(r) /\ made' = [made EXCEPT ![Own(r)] = call[r].job]
          /\ call' = [call EXCEPT ![r].pc = "inst", ![r].model = Own(r), ![r].owns = TRUE]
       \/ call' = [call EXCEPT ![r] = Ended("failed")] /\ UNCHANGED <<model, made>>
    /\ UNCHANGED <<job, inst, imp, file, pass, clean, told, smooth, edits>>

\* The instance is enabled at once when there is nothing to wait for.  Besides
\* a model that is gone or a slug that is taken, any error ends the step.
MakeInst(r) ==
    /\ call[r].pc = "inst"
    /\ \/ /\ model = call[r].model /\ \A i \in Requests : HasInst(i) => SlugOf[i] # SlugOf[r]
          /\ inst' = [inst EXCEPT ![r] = [model |-> model, enabled |-> call[r].done, asked |-> FALSE]]
          /\ told' = IF call[r].done THEN told \cup {r} ELSE told
          /\ call' = [call EXCEPT ![r].pc = "import"]
       \/ call' = [call EXCEPT ![r].pc = "undo_model"] /\ UNCHANGED <<inst, told>>
    /\ UNCHANGED <<job, model, imp, file, pass, clean, made, smooth, edits>>

\* Faulty import: nothing is undone when the last row cannot be written.
MakeImportNoUndo(r) ==
    /\ call[r].pc = "import"
    /\ call' = [call EXCEPT ![r] = Ended("failed")] /\ UNCHANGED <<rows, file, pass, clean, made, told, smooth, edits>>

MakeImport(r) ==
    /\ call[r].pc = "import"
    /\ \/ /\ Exists(call[r].job) /\ HasInst(r) /\ model = call[r].model
          /\ imp' = [imp EXCEPT ![r] = [job |-> call[r].job, model |-> call[r].model, inst |-> r, owns |-> call[r].owns,
                        state |-> IF call[r].done THEN "COMPLETED" ELSE "DOWNLOADING", tried |-> FALSE]]
          /\ call' = [call EXCEPT ![r] = Ended(IF call[r].done THEN "reconcile" ELSE "done")]
       \/ call' = [call EXCEPT ![r].pc = "undo_inst"] /\ UNCHANGED imp
    /\ UNCHANGED <<job, model, inst, file, pass, clean, made, told, smooth, edits>>

\* The undo goes on past an error of its own, and discards it: the request
\* ends "failed" when all was undone and "left" when something was not.
UndoInst(r) ==
    /\ call[r].pc = "undo_inst"
    /\ \/ DropInst(r) /\ call' = [call EXCEPT ![r].pc = "undo_model"]
       \/ call' = [call EXCEPT ![r].pc = "undo_rest"] /\ UNCHANGED <<inst, imp>>
    /\ UNCHANGED <<job, model, file, pass, clean, made, told, smooth, edits>>

UndoModel(r) ==
    /\ call[r].pc \in {"undo_model", "undo_rest"}
    /\ \/ /\ DropModel(IF call[r].owns THEN call[r].model ELSE None)
          /\ call' = [call EXCEPT ![r] = Ended(IF call[r].pc = "undo_model" THEN "failed" ELSE "left")]
       \/ /\ call[r].owns /\ call' = [call EXCEPT ![r] = Ended("left")]
          /\ UNCHANGED <<model, inst, imp>>
    /\ UNCHANGED <<job, file, pass, clean, made, told, smooth, edits>>

-----------------------------------------------------------------------------
(* The reconciler (Run, Reconcile): the loop at any time, a request's own  *)
(* pass once.                                                              *)

Turn(p) == pass[p].pc = "idle" /\ (p \in Requests => call[p].pc = "reconcile")
Over(p) == call' = IF p \in Requests THEN [call EXCEPT ![p] = Ended("done")] ELSE call
Leave(p) == pass' = [pass EXCEPT ![p] = NoPass] /\ Over(p)
Goes(p, pc) == pass' = [pass EXCEPT ![p].pc = pc] /\ UNCHANGED call
Waiting == {k \in Jobs : imp[k] # None /\ imp[k].inst # None}

\* reconcilePrepared reads its rows; a row with an instance and no model cannot
\* be read, and ends the pass.
ReadRows(p) ==
    /\ Turn(p)
    /\ IF \E k \in Waiting : imp[k].model = None THEN Leave(p)
       ELSE /\ pass' = [pass EXCEPT ![p] = [pc |-> "items", item |-> None, todo |->
                  {[key |-> k, inst |-> imp[k].inst, model |-> imp[k].model, to |-> job[imp[k].job], tried |-> imp[k].tried] : k \in Waiting}]]
            /\ UNCHANGED call
    /\ UNCHANGED <<rows, file, clean, made, told, smooth, edits>>

SetState(k, s) == imp' = IF imp[k] = None THEN imp ELSE [imp EXCEPT ![k].state = s]

TakeItem(p) ==
    /\ pass[p].pc = "items"
    /\ \E it \in pass[p].todo :
          IF it.to # "COMPLETED"
          THEN SetState(it.key, it.to) /\ pass' = [pass EXCEPT ![p].todo = @ \ {it}]
          ELSE UNCHANGED imp /\ pass' = [pass EXCEPT ![p] = [pc |-> "file", item |-> it, todo |-> @.todo \ {it}]]
    /\ UNCHANGED <<job, model, inst, file, call, clean, made, told, smooth, edits>>

\* ensureModelFile
CheckFile(p) ==
    /\ pass[p].pc = "file"
    /\ IF file /\ model = pass[p].item.model THEN Goes(p, "enable") /\ UNCHANGED imp
       ELSE Goes(p, "items") /\ SetState(pass[p].item.key, "FAILED")
    /\ UNCHANGED <<job, model, inst, file, clean, made, told, smooth, edits>>

Enable(p) ==
    /\ pass[p].pc = "enable" /\ Goes(p, "claim")
    /\ LET i == pass[p].item.inst IN inst' = IF HasInst(i) THEN [inst EXCEPT ![i].enabled = TRUE] ELSE inst
    /\ UNCHANGED <<job, model, imp, file, clean, made, told, smooth, edits>>

\* One pass claims the completion, and tells.
Claim(p) ==
    /\ pass[p].pc = "claim" /\ Goes(p, "start")
    /\ LET it == pass[p].item IN
       IF imp[it.key] # None /\ imp[it.key].state = "DOWNLOADING"
       THEN SetState(it.key, "COMPLETED") /\ told' = told \cup {it.inst}
       ELSE UNCHANGED <<imp, told>>
    /\ UNCHANGED <<job, model, inst, file, clean, made, smooth, edits>>

StartOnce(p) ==
    /\ pass[p].pc = "start" /\ Goes(p, "items")
    /\ LET it == pass[p].item IN
       imp' = IF it.key \in Starters /\ ~it.tried /\ imp[it.key] # None THEN [imp EXCEPT ![it.key].tried = TRUE] ELSE imp
    /\ UNCHANGED <<job, model, inst, file, clean, made, told, smooth, edits>>

\* registerUnclaimedCompleted: plain downloads become models.
ReadUnclaimed(p) ==
    /\ pass[p].pc = "items" /\ pass[p].todo = {}
    /\ pass' = [pass EXCEPT ![p] = [pc |-> "jobs", item |-> None, todo |-> {j \in Jobs : job[j] = "COMPLETED" /\ ~Imported(j)}]]
    /\ UNCHANGED <<rows, file, call, clean, made, told, smooth, edits>>

TakeJob(p) ==
    /\ pass[p].pc = "jobs"
    /\ IF pass[p].todo = {} THEN Leave(p)
       ELSE \E j \in pass[p].todo :
              /\ pass' = [pass EXCEPT ![p] = [pc |-> IF model = None THEN "create" ELSE "link", todo |-> @.todo \ {j},
                                             item |-> [job |-> j, model |-> model, owns |-> FALSE]]]
              /\ UNCHANGED call
    /\ UNCHANGED <<rows, file, clean, made, told, smooth, edits>>

\* Another path may have registered the model since the lookup.
CreateModel(p) ==
    /\ pass[p].pc = "create"
    /\ LET j == pass[p].item.job IN
       IF model = None /\ file
       THEN /\ model' = Reg(j) /\ made' = [made EXCEPT ![Reg(j)] = j]
            /\ pass' = [pass EXCEPT ![p].pc = "link", ![p].item = [job |-> j, model |-> Reg(j), owns |-> TRUE]]
       ELSE /\ pass' = [pass EXCEPT ![p].pc = IF model = None THEN "jobs" ELSE "link", ![p].item.model = model]
            /\ UNCHANGED <<model, made>>
    /\ UNCHANGED <<job, inst, imp, file, call, clean, told, smooth, edits>>

\* A second row for one job would change nothing more, and is not kept.
LinkJob(p) ==
    /\ pass[p].pc = "link"
    /\ LET it == pass[p].item  j == it.job IN
       IF Exists(j) /\ model = it.model
       THEN /\ Goes(p, "jobs")
            /\ imp' = IF imp[j] # None THEN imp ELSE [imp EXCEPT ![j] =
                  [job |-> j, model |-> it.model, inst |-> None, owns |-> it.owns, state |-> "COMPLETED", tried |-> TRUE]]
       ELSE Leave(p) /\ UNCHANGED imp
    /\ UNCHANGED <<job, model, inst, file, clean, made, told, smooth, edits>>

PassStep(p) ==
    \/ ReadRows(p) \/ TakeItem(p) \/ CheckFile(p) \/ Enable(p) \/ Claim(p) \/ StartOnce(p)
    \/ ReadUnclaimed(p) \/ TakeJob(p) \/ CreateModel(p) \/ LinkJob(p)

\* A statement of the pass fails, or its request's client has left.
BreakOff(p) ==
    /\ p \in Requests => call[p].pc = "reconcile"
    /\ edits < EditLimit /\ edits' = edits + 1 /\ Leave(p)
    /\ UNCHANGED <<rows, file, clean, made, told, smooth>>

-----------------------------------------------------------------------------
(* Removing a job: CleanupJobSafe for a cancelled one, then the job.       *)

CleanBegin(j) ==
    /\ clean.pc = "idle" /\ Exists(j) /\ edits < EditLimit /\ edits' = edits + 1
    /\ clean' = [NoClean EXCEPT !.pc = IF job[j] = "CANCELLED" THEN "read" ELSE "remove", !.job = j]
    /\ UNCHANGED <<rows, file, call, pass, made, told, smooth>>

CleanRead ==
    /\ clean.pc = "read"
    /\ clean' = [clean EXCEPT !.pc = "insts", !.rows = {imp[k] : k \in {k \in Jobs : imp[k] # None /\ imp[k].job = clean.job}}]
    /\ UNCHANGED <<rows, file, call, pass, made, told, smooth, edits>>

CleanInst ==
    /\ clean.pc = "insts"
    /\ LET due == {r \in clean.rows : r.inst # None /\ HasInst(r.inst)} IN
       \/ due # {} /\ \E r \in due : DropInst(r.inst) /\ UNCHANGED clean
       \/ due = {} /\ clean' = [clean EXCEPT !.pc = "imports"] /\ UNCHANGED <<inst, imp>>
    /\ UNCHANGED <<job, model, file, call, pass, made, told, smooth, edits>>

CleanImports ==
    /\ clean.pc = "imports" /\ clean' = [clean EXCEPT !.pc = "models"]
    /\ imp' = [k \in Jobs |-> IF imp[k] # None /\ imp[k].job = clean.job THEN None ELSE imp[k]]
    /\ UNCHANGED <<job, model, inst, file, call, pass, made, told, smooth, edits>>

\* Only what the import itself made.
CleanModel ==
    /\ clean.pc = "models"
    /\ LET due == {r \in clean.rows : r.owns /\ r.model # None} IN
       \/ due # {} /\ \E r \in due : DropModel(r.model) /\ clean' = [clean EXCEPT !.rows = @ \ {r}]
       \/ due = {} /\ clean' = [clean EXCEPT !.pc = "remove"] /\ UNCHANGED <<model, inst, imp>>
    /\ UNCHANGED <<job, file, call, pass, made, told, smooth, edits>>

CleanRemove ==
    /\ clean.pc = "remove" /\ clean' = NoClean
    /\ IF job[clean.job] \in {"COMPLETED", "FAILED", "CANCELLED"}
       THEN /\ job' = [job EXCEPT ![clean.job] = "removed"]
            /\ imp' = [k \in Jobs |-> IF imp[k] # None /\ imp[k].job = clean.job THEN None ELSE imp[k]]
       ELSE UNCHANGED <<job, imp>>
    /\ UNCHANGED <<model, inst, file, call, pass, made, told, smooth, edits>>

\* A statement of the removal fails: what is done stays done.
CleanFails ==
    /\ clean.pc # "idle" /\ clean' = NoClean
    /\ UNCHANGED <<rows, file, call, pass, made, told, smooth, edits>>

-----------------------------------------------------------------------------
(* The download manager and the users.                                     *)

Download(p) == job[p] = "absent" /\ NewJob(p) /\ UNCHANGED <<call, file, model, inst, imp, pass, clean, made, told, smooth, edits>>

\* A cancelled job may still complete, if the cancel came late.
JobEnds(j) ==
    /\ \/ job[j] = "DOWNLOADING" /\ \E s \in States \ {"DOWNLOADING"} :
              job' = [job EXCEPT ![j] = s] /\ file' = (file \/ s = "COMPLETED")
       \/ job[j] = "CANCELLED" /\ ~smooth /\ job' = [job EXCEPT ![j] = "COMPLETED"] /\ file' = TRUE
    /\ UNCHANGED <<model, inst, imp, call, pass, clean, made, told, smooth, edits>>

JobRetried(j) ==
    /\ job[j] \in {"FAILED", "CANCELLED"} /\ ~smooth /\ edits < EditLimit /\ edits' = edits + 1
    /\ job' = [job EXCEPT ![j] = "DOWNLOADING"]
    /\ UNCHANGED <<file, model, inst, imp, call, pass, clean, made, told, smooth>>

\* A PUT writes the whole row: enabled is what it asks for, TRUE when it does
\* not say, whether or not the import is still loading (instances.Update).
PutInst(i) ==
    /\ HasInst(i)
    /\ \E e \in BOOLEAN, m \in {inst[i].model, Elsewhere} :
          /\ smooth => m = inst[i].model
          /\ inst' = [inst EXCEPT ![i] = [model |-> m, enabled |-> e, asked |-> e]]
          /\ told' = IF e THEN told \cup {i} ELSE told

UserChanges ==
    \/ \E i \in Requests : HasInst(i) /\ DropInst(i) /\ UNCHANGED <<model, file>>
    \/ model # None /\ DropModel(model) /\ UNCHANGED file
    \/ model = None /\ file /\ model' = Users /\ UNCHANGED <<inst, imp, file>>
    \/ file /\ ~smooth /\ file' = FALSE /\ UNCHANGED <<model, inst, imp>>

UserEdit ==
    /\ edits < EditLimit /\ edits' = edits + 1
    /\ \/ \E i \in Requests : PutInst(i) /\ UNCHANGED <<model, imp, file>>
       \/ UNCHANGED told /\ UserChanges
    /\ UNCHANGED <<job, call, pass, clean, made, smooth>>

ImpNext ==
    \/ \E r \in Requests : Prepare(r) \/ LookModel(r) \/ MakeModel(r) \/ MakeInst(r) \/ MakeImport(r) \/ UndoInst(r) \/ UndoModel(r)
    \/ \E p \in Passes : PassStep(p) \/ BreakOff(p)
    \/ \E j \in Jobs : CleanBegin(j) \/ JobEnds(j) \/ JobRetried(j)
    \/ CleanRead \/ CleanInst \/ CleanImports \/ CleanModel \/ CleanRemove \/ CleanFails
    \/ \E p \in Plain : Download(p)
    \/ UserEdit

ImpSpec == ImpInit /\ [][ImpNext]_impVars /\ WF_impVars(PassStep("loop"))

-----------------------------------------------------------------------------
(* Properties.                                                             *)

ImpTypeOK ==
    /\ job \in [Jobs -> States \cup {"absent", "removed"}] /\ file \in BOOLEAN /\ smooth \in BOOLEAN
    /\ model \in Models \cup {None} /\ told \subseteq Requests /\ edits \in 0..EditLimit
    /\ \A i \in Requests : HasInst(i) => inst[i] \in InstRow
    /\ \A k \in Jobs : imp[k] # None => imp[k] \in
          [job : Jobs, model : Models \cup {None}, inst : Requests \cup {None}, owns : BOOLEAN, state : States, tried : BOOLEAN]

\* The rows refer to rows that are there, whatever was undone or removed between
\* two statements (the foreign keys of provider_imports and instances).
RowsLinked ==
    /\ \A i \in Requests : HasInst(i) => inst[i].model \in {model, Elsewhere}
    /\ \A k \in Jobs : imp[k] # None =>
          Exists(imp[k].job) /\ imp[k].model \in {model, None} /\ (imp[k].inst # None => HasInst(imp[k].inst))

\* An import's instance is enabled only when its download has completed or a
\* user asked for it, however old the rows a pass has read (service.go:273-311).
EnabledWhenDone ==
    \A k \in Jobs : imp[k] # None /\ imp[k].inst # None =>
        LET i == inst[imp[k].inst] IN i.enabled /\ ~i.asked => job[imp[k].job] = "COMPLETED"

\* An import that failed and whose undo went through leaves neither its instance
\* nor its model, at whatever step it failed and whatever the other requests had
\* done.  One whose undo failed too, its context having ended, may leave both
\* (service.go:131-158).
FailedLeavesNothing ==
    \A r \in Requests : call[r].pc = "failed" => ~HasInst(r) /\ model # Own(r)

\* An instance that is enabled has been announced as such at least once, or its
\* row still waits for the pass that will, also when a pass broke off between
\* the two (service_test.go:110-113 "expected completion notify").
CompletionTold ==
    \A k \in Jobs : imp[k] # None /\ imp[k].inst # None =>
        LET i == imp[k].inst IN inst[i].enabled => i \in told \/ imp[k].state = "DOWNLOADING"
ToldIfSmooth == smooth => CompletionTold

\* Removing a cancelled job deletes no model made for something else
\* (integration.go:150-153).
CleanupOwnModel ==
    clean.pc = "models" /\ clean' # clean /\ model # None /\ model' # model => made[model] = clean.job

\* A download that completed becomes a model, unless it is removed first.
Registered ==
    \A j \in Jobs : (smooth /\ job[j] = "COMPLETED" /\ ~Imported(j)) ~> (Imported(j) \/ ~Exists(j))

\* Why: a request whose row has its instance is past its last step, so what a
\* pass has read of that row can only have lost its model or its instance; and
\* a model that rows own was made for their job, once.
Settled == {"reconcile", "done"}
Held    == {"inst", "import", "undo_inst", "undo_model", "undo_rest"}
Lost    == {"FAILED", "CANCELLED"}

ImpRow  == [job : Jobs, model : Models \cup {None}, inst : Requests \cup {None}, owns : BOOLEAN, state : States, tried : BOOLEAN]
Call    == [pc : {"idle", "look", "model", "failed", "left"} \cup Held \cup Settled, job : Jobs \cup {None}, done : BOOLEAN,
            model : Models \cup {None}, owns : BOOLEAN]
Item    == [key : Requests, inst : Requests, model : Models, to : States, tried : BOOLEAN]
JobItem == [job : Jobs, model : Models \cup {None}, owns : BOOLEAN]
Pass    == [pc : {"idle"}, todo : {{}}, item : {None}] \cup [pc : {"items"}, todo : SUBSET Item, item : {None} \cup Item]
           \cup [pc : {"file", "enable", "claim", "start"}, todo : SUBSET Item, item : Item]
           \cup [pc : {"jobs"}, todo : SUBSET Jobs, item : {None} \cup JobItem]
           \cup [pc : {"create", "link"}, todo : SUBSET Jobs, item : JobItem]
Clean   == [pc : {"idle"}, job : {None}, rows : {{}}]
           \cup [pc : {"read", "insts", "imports", "models", "remove"}, job : Jobs, rows : SUBSET ImpRow]

ImpTyped ==
    /\ job \in [Jobs -> States \cup {"absent", "removed"}] /\ file \in BOOLEAN /\ smooth \in BOOLEAN
    /\ model \in Models \cup {None} /\ told \in SUBSET Requests /\ edits \in 0..EditLimit
    /\ inst \in [Requests -> InstRow \cup {None}] /\ imp \in [Jobs -> ImpRow \cup {None}]
    /\ call \in [Requests -> Call] /\ pass \in [Passes -> Pass] /\ clean \in Clean /\ made \in [Models -> Jobs \cup {None}]

\* A row whose instance is there.
Joined(k)  == imp[k] # None /\ imp[k].inst # None
Rightly(r) == r.owns /\ r.model # None => made[r.model] = r.job

RowRight(k) ==
    /\ imp[k] # None => Exists(imp[k].job) /\ imp[k].model \in {model, None} /\ Rightly(imp[k])
    /\ Joined(k) =>
         /\ imp[k].inst = k /\ k \in Requests /\ HasInst(k) /\ call[k].pc \in Settled
         /\ imp[k].state = "COMPLETED" => k \in told
         /\ smooth => imp[k].model # None /\ (imp[k].state \in Lost => job[imp[k].job] \in Lost)
         /\ inst[k].enabled /\ ~inst[k].asked => job[imp[k].job] = "COMPLETED"

InstRight(i) ==
    HasInst(i) =>
         /\ inst[i].model \in {model, Elsewhere} /\ (smooth => inst[i].model # Elsewhere)
         /\ call[i].pc \in {"import", "undo_inst", "undo_rest", "left"} \cup Settled
         /\ inst[i].asked => inst[i].enabled /\ i \in told
         /\ call[i].pc = "import" => (inst[i].enabled => call[i].done \/ inst[i].asked) /\ (call[i].done => i \in told)

CallRight(r) ==
    LET c == call[r] IN
    /\ c.pc = "idle" => job[r] = "absent" /\ ~c.owns
    /\ c.pc \in {"idle", "look", "model"} => made[Own(r)] = None
    /\ c.pc \in {"look", "model"} \cup Held => c.job # None
    /\ c.pc \in Held => c.model # None
    /\ c.done => c.job # None /\ job[c.job] \in {"COMPLETED", "removed"}
    /\ c.owns => c.model = Own(r) /\ made[Own(r)] = c.job
    /\ model = Own(r) => c.pc \in Held \cup Settled \cup {"left"} /\ (c.pc \in Held => c.owns)

ItemRight(it) ==
    /\ it.inst = it.key /\ call[it.key].pc \in Settled
    /\ it.to = "COMPLETED" /\ smooth => file
    /\ Joined(it.key) =>
         /\ imp[it.key].model \in {it.model, None}
         /\ it.to = "COMPLETED" => job[imp[it.key].job] = "COMPLETED"
         /\ smooth /\ it.to \in Lost => job[imp[it.key].job] \in Lost

PassRight(p) ==
    LET x == pass[p] IN
    /\ x.pc \in {"items", "file", "enable", "claim", "start"} => \A it \in x.todo : ItemRight(it)
    /\ x.pc \in {"file", "enable", "claim", "start"} => ItemRight(x.item) /\ x.item.to = "COMPLETED"
    /\ x.pc \in {"create", "link"} /\ x.item.owns => x.item.model = Reg(x.item.job) /\ made[Reg(x.item.job)] = x.item.job
    /\ x.pc = "create" => ~x.item.owns

ImpInv ==
    /\ ImpTyped
    /\ \A k \in Jobs : RowRight(k) /\ made[Reg(k)] \in {None, k} /\ (smooth /\ job[k] = "COMPLETED" => file)
    /\ \A r \in Requests : InstRight(r) /\ CallRight(r)
    /\ \A p \in Passes : PassRight(p)
    /\ \A r \in clean.rows : r.job = clean.job /\ Rightly(r)
=============================================================================
