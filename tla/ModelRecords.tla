-------------------------- MODULE ModelRecords --------------------------
(* The records of models: instances, imports, files and their discovery,   *)
(* and what the LiteLLM proxy lists.                                       *)
EXTENDS RecordsBase

CONSTANTS
    ImpRequests, ImpPlain, ImpSlugs, ImpStarters, ImpEdits,             \* of Imports
    Masks, CatEdits, CatAsks, CatSecrets, CatAccounts,                  \* of Catalog
    Readers, Born, WriteLimit,                                          \* of Instances
    Paths, FileSet, Canon, Linked, Dirs, DirOf, Up, Root, StepLimit,    \* of ModelFiles
    GGUFs, Sets, Primary, ModelRows, Scanners, ChangeLimit              \* of Discovery

Imp == INSTANCE Imports WITH
    Requests <- ImpRequests, Plain <- ImpPlain, SlugOf <- ImpSlugs, Starters <- ImpStarters, Elsewhere <- n2, EditLimit <- ImpEdits,
    job <- s1, file <- s2, model <- s3, inst <- s4, imp <- s5, call <- s6, pass <- s7, clean <- s8, made <- s9,
    told <- s10, smooth <- s11, edits <- s12

Inst == INSTANCE Instances WITH
    Insts <- A, Slugs <- B, Values <- D, Writers <- C, Absent <- None,
    row <- s1, byID <- s2, slugTo <- s3, gen <- s4, work <- s5, dropped <- s6, clashed <- s7, writes <- s8, lapsed <- s9

Cat == INSTANCE Catalog WITH
    CatInsts <- A, Names <- B, Entries <- C \cup {p1}, Foreign <- {p1}, Callers <- D,
    EditLimit <- CatEdits, AskLimit <- CatAsks, SecretLimit <- CatSecrets, AccountLimit <- CatAccounts,
    inst <- s1, remote <- s2, accounts <- s3, stored <- s4, conf <- s5, sync <- s6, holder <- s7, due <- s8, call <- s9, secrets <- s10,
    mixed <- s11, edits <- s12, asks <- s13, slips <- s14

Files == INSTANCE ModelFiles WITH
    Models <- A, Deleters <- B, Files <- FileSet, Nothing <- None,
    model <- s1, owned <- s2, companion <- s3, disk <- s4, dirs <- s5, making <- s6, job <- s7, late <- s8,
    redone <- s9, steps <- s10

Disc == INSTANCE Discovery WITH
    Owners <- ModelRows, Missing <- None, gguf <- s1, index <- s2, owner <- s3, scan <- s4, refresh <- s5,
    changes <- s6

ASSUME ImportsAssumed == Imp!ImportsAssumption
ASSUME InstancesAssumed == Inst!InstancesAssumption
ASSUME CatalogAssumed == Cat!CatalogAssumption
ASSUME FilesAssumed == Files!ModelFilesAssumption
ASSUME DiscoveryAssumed == Disc!DiscoveryAssumption
=============================================================================
