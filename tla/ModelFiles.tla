----------------------------- MODULE ModelFiles -----------------------------
(***************************************************************************)
(* Deleting a model with its files (api/model_delete.go,                   *)
(* models/delete_files.go): the targets are worked out before the model's  *)
(* instances are stopped and once more after, the files go one by one, then*)
(* directories left empty, then the row.  Meanwhile models are created,    *)
(* options name files as companions, and downloads complete.               *)
(***************************************************************************)
EXTENDS Integers, FiniteSets

CONSTANTS
    Models, Paths,      \* model ids; stored paths
    Files, Canon,       \* files, and the file each path leads to
    Linked,             \* paths through a symbolic link
    Dirs, DirOf, Up,    \* directories below the root, each file's, each one's parent
    Root,               \* the models directory
    Deleters, Nothing, StepLimit

ModelFilesAssumption ==
    /\ Canon \in [Paths -> Files] /\ Linked \subseteq Paths /\ DirOf \in [Files -> Dirs \cup {Root}]
    /\ Up \in [Dirs -> Dirs \cup {Root}] /\ StepLimit \in Nat /\ Nothing \notin Models

VARIABLES
    model,      \* models: the gguf_path of each row; Nothing without
    owned,      \* completed download_files of the imports linked to each model
    companion,  \* mmproj and draft options of each model and its instances
    disk,       \* the files there are
    dirs,       \* the directories there are
    making,     \* a path that a create has looked at and not yet inserted
    job,        \* deletions
    late,       \* files newly referenced after a deletion had checked them (history)
    redone,     \* files downloaded while a deletion was past its check (history)
    steps

fileVars == <<model, owned, companion, disk, dirs, making, job, late, redone, steps>>

Free == [pc |-> "idle", id |-> Nothing, files |-> FALSE, plan |-> {}, left |-> {}, parents |-> {}]
Exists(m) == model[m] # Nothing

\* A directory and those above it: what every set with it has that has the
\* parent of each of its members.
Closed(S) == \A e \in S : Up[e] \in S \cup {Root}
Above(d)  == {e \in Dirs : \A S \in SUBSET Dirs : Closed(S) /\ d \in S \cup {Root} => e \in S}
Empty(d) == (\A f \in disk : DirOf[f] # d) /\ (\A e \in dirs : Up[e] # d)

\* The files that paths lead to, through links too.
Reached(ps) == {Canon[p] : p \in ps}

\* ownedArtifactReferences, artifactReferences
OwnedPaths(m) == {model[m]} \cup owned[m]
References(m) == OwnedPaths(m) \cup companion[m]
Targets(m)    == Reached(OwnedPaths(m))

\* ensureArtifactNotShared, ensureInstanceCompanionNotShared: a reference
\* counts wherever its links lead.
Shared(m) == \E n \in Models \ {m} : Exists(n) /\ Reached(References(n)) \cap Targets(m) # {}

\* resolveArtifactFile: a target through a link is refused.
Deletable(m) == Exists(m) /\ OwnedPaths(m) \cap Linked = {} /\ ~Shared(m)

Step == steps < StepLimit /\ steps' = steps + 1

\* Models whose deletion has checked f and not ended.
Past(f) == {d \in Deleters : job[d].pc = "unlink" /\ f \in job[d].left}
Referenced(ps) == late' = late \cup {f \in Reached(ps) : Past(f) # {}}

FilesInit ==
    /\ model = [m \in Models |-> Nothing] /\ owned = [m \in Models |-> {}] /\ companion = [m \in Models |-> {}]
    /\ disk = Files /\ dirs = Dirs /\ making = Nothing /\ job = [d \in Deleters |-> Free]
    /\ late = {} /\ redone = {} /\ steps = 0

-----------------------------------------------------------------------------
(* Models come, and refer to files.                                        *)

\* Create: resolveGGUF finds the file; a path may be added once.
LookAt(p) ==
    /\ Step /\ making = Nothing /\ Canon[p] \in disk /\ (\A m \in Models : model[m] # p) /\ making' = p
    /\ UNCHANGED <<model, owned, companion, disk, dirs, job, late, redone>>

Insert(m) ==
    /\ making # Nothing /\ making' = Nothing /\ ~Exists(m) /\ \A d \in Deleters : job[d].id # m
    /\ IF \A n \in Models : model[n] # making
       THEN model' = [model EXCEPT ![m] = making] /\ Referenced({making}) ELSE UNCHANGED <<model, late>>
    /\ UNCHANGED <<owned, companion, disk, dirs, job, redone, steps>>

\* Options name any path, of the model or of an instance of it.
SetCompanion(m, p) ==
    /\ Step /\ Exists(m) /\ p \notin companion[m]
    /\ companion' = [companion EXCEPT ![m] = @ \cup {p}] /\ Referenced({p})
    /\ UNCHANGED <<model, owned, disk, dirs, making, job, redone>>

\* A download of an import linked to the model completes a file.
Downloaded(m, p) ==
    /\ Step /\ Exists(m) /\ p \notin owned[m] \cup Linked
    /\ owned' = [owned EXCEPT ![m] = @ \cup {p}] /\ Referenced({p})
    /\ disk' = disk \cup {Canon[p]} /\ dirs' = dirs \cup Above(DirOf[Canon[p]])
    /\ redone' = IF \E d \in Deleters : job[d].pc \in {"unlink", "prune", "row"} THEN redone \cup {Canon[p]} ELSE redone
    /\ UNCHANGED <<model, companion, making, job>>

-----------------------------------------------------------------------------
(* Deletion.                                                               *)

Ends(d) == job' = [job EXCEPT ![d] = Free]

\* deleteModel: with files, PrepareFileDeletion comes first.
Ask(d, m, files) ==
    /\ job[d].pc = "idle" /\ Step /\ Exists(m) /\ (files => Deletable(m))
    /\ job' = [job EXCEPT ![d] = [Free EXCEPT !.pc = "stop", !.id = m, !.files = files, !.left = IF files THEN Targets(m) ELSE {}]]
    /\ UNCHANGED <<model, owned, companion, disk, dirs, making, late, redone>>

StopModel(d) ==
    /\ job[d].pc = "stop" /\ job' = [job EXCEPT ![d].pc = IF job[d].files THEN "check" ELSE "row"]
    /\ UNCHANGED <<model, owned, companion, disk, dirs, making, late, redone, steps>>

\* DeleteFilesAndModel works everything out again.
Recheck(d) ==
    /\ job[d].pc = "check"
    /\ IF Deletable(job[d].id)
       THEN job' = [job EXCEPT ![d].pc = "unlink", ![d].plan = Targets(job[d].id), ![d].left = Targets(job[d].id),
                       ![d].parents = {DirOf[f] : f \in Targets(job[d].id)}]
       ELSE Ends(d)
    /\ UNCHANGED <<model, owned, companion, disk, dirs, making, late, redone, steps>>

\* An error keeps the row; a file that is gone already is no error.
Unlink(d) ==
    /\ job[d].pc = "unlink"
    /\ \E f \in job[d].left :
         /\ \/ job' = [job EXCEPT ![d].left = @ \ {f}] /\ disk' = disk \ {f}
            \/ f \in disk /\ Ends(d) /\ UNCHANGED disk
         /\ late' = late \ (IF Past(f) = {d} THEN {f} ELSE {})
    /\ UNCHANGED <<model, owned, companion, dirs, making, redone, steps>>

Unlinked(d) ==
    /\ job[d].pc = "unlink" /\ job[d].left = {} /\ job' = [job EXCEPT ![d].pc = "prune"]
    /\ UNCHANGED <<model, owned, companion, disk, dirs, making, late, redone, steps>>

\* pruneEmptyAncestors, from each parent upwards: a directory with something
\* in it, or an error, ends it.
Prune(d) ==
    /\ job[d].pc = "prune"
    /\ \E p \in job[d].parents \ {Root} :
         \/ /\ p \notin dirs \/ Empty(p)
            /\ job' = [job EXCEPT ![d].parents = (@ \ {p}) \cup {Up[p]}] /\ dirs' = dirs \ {p}
         \/ job' = [job EXCEPT ![d].parents = IF p \in dirs /\ ~Empty(p) THEN @ \ {p} ELSE {}] /\ UNCHANGED dirs
    /\ UNCHANGED <<model, owned, companion, disk, making, late, redone, steps>>

Pruned(d) ==
    /\ job[d].pc = "prune" /\ job[d].parents \subseteq {Root} /\ job' = [job EXCEPT ![d].pc = "row"]
    /\ UNCHANGED <<model, owned, companion, disk, dirs, making, late, redone, steps>>

\* The row's instances and options go with it; the downloads' links do not lead anywhere.
DeleteRow(d) ==
    LET m == job[d].id IN
    /\ job[d].pc = "row" /\ Ends(d)
    /\ model' = [model EXCEPT ![m] = Nothing] /\ owned' = [owned EXCEPT ![m] = {}] /\ companion' = [companion EXCEPT ![m] = {}]
    /\ UNCHANGED <<disk, dirs, making, late, redone, steps>>

FilesNext ==
    \/ \E p \in Paths : LookAt(p)
    \/ \E m \in Models : Insert(m) \/ \E p \in Paths : SetCompanion(m, p) \/ Downloaded(m, p)
    \/ \E d \in Deleters : \/ \E m \in Models, files \in BOOLEAN : Ask(d, m, files)
                           \/ StopModel(d) \/ Recheck(d) \/ Unlink(d) \/ Unlinked(d) \/ Prune(d) \/ Pruned(d) \/ DeleteRow(d)
FilesSpec == FilesInit /\ [][FilesNext]_fileVars

-----------------------------------------------------------------------------
(* Properties.                                                             *)

FilesTypeOK ==
    /\ model \in [Models -> Paths \cup {Nothing}] /\ owned \in [Models -> SUBSET Paths] /\ companion \in [Models -> SUBSET Paths]
    /\ disk \subseteq Files /\ dirs \subseteq Dirs /\ late \subseteq Files
    /\ \A d \in Deleters : job[d].pc = "idle" <=> job[d].id = Nothing

\* A file goes only when no other model refers to it by any path, as a companion
\* included, except one whose reference came after the second check
\* (delete_files.go:52-76, 166-230).
OthersFilesKept ==
    \A f \in disk \ disk' : \A m \in Models :
          Exists(m) /\ f \in Reached(References(m)) /\ f \notin late => \E d \in Deleters : job[d].id = m /\ f \in job[d].left

\* With its files, a model's row goes only after they have all gone: what a
\* failed unlink leaves still has its row (delete_files.go:87-101).
RowLast ==
    \A d \in Deleters : job[d].pc = "row" /\ job'[d].pc = "idle" => job[d].plan \cap disk \subseteq redone

\* Whatever is pruned while files arrive, every file has its directories
\* (delete_files.go:256-330).
DirsKept == \A f \in disk : Above(DirOf[f]) \subseteq dirs

\* Why: a directory is there with its parent, and a file with its directory; a
\* model that is not there refers to nothing; whoever refers to a file that a
\* deletion is about to unlink is the model being deleted, or came late; and of
\* what was planned only what is left, or was downloaded again, is there.
Tree == Closed(dirs) /\ \A f \in disk : DirOf[f] \in dirs \cup {Root}
Bare == \A m \in Models : ~Exists(m) => owned[m] = {} /\ companion[m] = {}

OneOwner ==
    \A d \in Deleters, m \in Models :
        job[d].pc = "unlink" /\ Exists(m) /\ m # job[d].id => Reached(References(m)) \cap job[d].left \subseteq late

PlanGone ==
    \A d \in Deleters :
        /\ job[d].pc \in {"idle", "stop", "check"} => job[d].plan = {}
        /\ job[d].plan \cap disk \subseteq redone \cup (IF job[d].pc = "unlink" THEN job[d].left ELSE {})

Deletion == [pc : {"idle", "stop", "check", "unlink", "prune", "row"}, id : Models \cup {Nothing}, files : BOOLEAN,
             plan : SUBSET Files, left : SUBSET Files, parents : SUBSET (Dirs \cup {Root})]

FilesInv ==
    /\ FilesTypeOK /\ job \in [Deleters -> Deletion] /\ redone \subseteq Files /\ making \in Paths \cup {Nothing}
    /\ Tree /\ Bare /\ OneOwner /\ PlanGone
=============================================================================
