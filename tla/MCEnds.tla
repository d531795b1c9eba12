------------------------------- MODULE MCEnds -------------------------------
(* What must come to an end: requests and operations of the lifecycle      *)
(* service, and beside it the jobs, transfers and requests of other        *)
(* components, each on the smallest instance in which it can be held up.   *)
(* A behaviour runs the component in focus.                                *)
EXTENDS MCLifecycle

CONSTANTS a1, a2, p1, p2, Missing

VARIABLES
    focus,
    rec_os, rec_started, rec_rows, rec_workers, rec_clearing, rec_boot, rec_scanned, rec_todo, rec_target,
    rec_blocked, rec_blind, rec_crashes,
    dl_job, dl_row, dl_part, dl_final, dl_remote, dl_offer, dl_run, dl_request, dl_missed, dl_up, dl_stops,
    bench_bench, bench_results, bench_hold, bench_making, bench_listedRun, bench_told, bench_stage,
    bench_proc, bench_outcome, bench_canceller, bench_deleter, bench_boss, bench_faulty, bench_starts,
    key_keyRow, key_ownerRow, key_day, key_cached, key_generation, key_caller, key_editor, key_minted,
    key_ver, key_settled,
    acc_users, acc_sessions, acc_flow, acc_conn, acc_admitted, acc_active, acc_chosen, acc_lastSet,
    acc_booted,
    prov_provider, prov_secret, prov_local, prov_policyMu, prov_admin, prov_spent, prov_passed,
    imp_job, imp_file, imp_model, imp_inst, imp_imp, imp_call, imp_pass, imp_clean, imp_made, imp_told,
    imp_smooth, imp_edits,
    disc_gguf, disc_index, disc_owner, disc_scan, disc_refresh, disc_changes

Rec == INSTANCE Recovery WITH
    Instances <- {a1}, Pids <- {1, 2}, MaxProcesses <- 2, MaxCrashes <- 1, Recycles <- FALSE, os <- rec_os,
    started <- rec_started, rows <- rec_rows, workers <- rec_workers, clearing <- rec_clearing,
    boot <- rec_boot, scanned <- rec_scanned, todo <- rec_todo, target <- rec_target,
    blocked <- rec_blocked, blind <- rec_blind, crashes <- rec_crashes

Dl == INSTANCE Downloads WITH
    Jobs <- {p1}, Files <- 1, Length <- 1, Offers <- {[sized |-> TRUE, limit |-> 2]}, Versions <- 1,
    Makers <- {a1}, Breakers <- {a2}, MidChange <- FALSE, MaxStops <- 1, job <- dl_job, row <- dl_row,
    part <- dl_part, final <- dl_final, remote <- dl_remote, offer <- dl_offer, run <- dl_run,
    request <- dl_request, missed <- dl_missed, up <- dl_up, stops <- dl_stops

Bench == INSTANCE Benchmarks WITH
    Runs <- {a1}, BenchFaults <- 1, BenchStarts <- 1, bench <- bench_bench, results <- bench_results,
    hold <- bench_hold, making <- bench_making, listedRun <- bench_listedRun, told <- bench_told,
    stage <- bench_stage, proc <- bench_proc, outcome <- bench_outcome, canceller <- bench_canceller,
    deleter <- bench_deleter, boss <- bench_boss, faulty <- bench_faulty, starts <- bench_starts

Key == INSTANCE KeyAccess WITH
    Keys <- {p2}, Owners <- {p1}, Hidden <- {}, Callers <- {a1}, Editors <- {a2}, SecretLimit <- 2,
    EditLimit <- 1, Never <- Missing, keyRow <- key_keyRow, ownerRow <- key_ownerRow, day <- key_day,
    cached <- key_cached, generation <- key_generation, caller <- key_caller, editor <- key_editor,
    minted <- key_minted, ver <- key_ver, settled <- key_settled

Acc == INSTANCE Accounts WITH
    Users <- {p1}, SessionIds <- {p2}, Flows <- {a1, a2}, PwLimit <- 1, MaxActive <- 1, MaxBacklog <- 1,
    users <- acc_users, sessions <- acc_sessions, flow <- acc_flow, conn <- acc_conn,
    admitted <- acc_admitted, active <- acc_active, chosen <- acc_chosen, lastSet <- acc_lastSet,
    booted <- acc_booted

Prov == INSTANCE Providers WITH
    Ids <- {p1}, Admins <- {a1, a2}, ConfigLimit <- 1, Patient <- TRUE, provider <- prov_provider,
    secret <- prov_secret, local <- prov_local, policyMu <- prov_policyMu, admin <- prov_admin,
    spent <- prov_spent, passed <- prov_passed

Imp == INSTANCE Imports WITH
    Requests <- {a1}, Plain <- {p1}, SlugOf <- [r \in {a1} |-> p2], Starters <- {a1}, Elsewhere <- p2,
    None <- Missing, EditLimit <- 1, job <- imp_job, file <- imp_file, model <- imp_model,
    inst <- imp_inst, imp <- imp_imp, call <- imp_call, pass <- imp_pass, clean <- imp_clean,
    made <- imp_made, told <- imp_told, smooth <- imp_smooth, edits <- imp_edits

Disc == INSTANCE Discovery WITH
    GGUFs <- {a1, a2}, Sets <- {{a1, a2}}, Primary <- ({a1, a2} :> a1), Owners <- {p1}, Scanners <- {},
    Missing <- Missing, ChangeLimit <- 3, gguf <- disc_gguf, index <- disc_index, owner <- disc_owner,
    scan <- disc_scan, refresh <- disc_refresh, changes <- disc_changes

-----------------------------------------------------------------------------

recVars == <<rec_os, rec_started, rec_rows, rec_workers, rec_clearing, rec_boot, rec_scanned, rec_todo,
    rec_target, rec_blocked, rec_blind, rec_crashes>>
dlVars == <<dl_job, dl_row, dl_part, dl_final, dl_remote, dl_offer, dl_run, dl_request, dl_missed, dl_up,
    dl_stops>>
benchVars == <<bench_bench, bench_results, bench_hold, bench_making, bench_listedRun, bench_told, bench_stage,
    bench_proc, bench_outcome, bench_canceller, bench_deleter, bench_boss, bench_faulty,
    bench_starts>>
keyVars == <<key_keyRow, key_ownerRow, key_day, key_cached, key_generation, key_caller, key_editor,
    key_minted, key_ver, key_settled>>
accVars == <<acc_users, acc_sessions, acc_flow, acc_conn, acc_admitted, acc_active, acc_chosen, acc_lastSet,
    acc_booted>>
provVars == <<prov_provider, prov_secret, prov_local, prov_policyMu, prov_admin, prov_spent, prov_passed>>
impVars == <<imp_job, imp_file, imp_model, imp_inst, imp_imp, imp_call, imp_pass, imp_clean, imp_made,
    imp_told, imp_smooth, imp_edits>>
discVars == <<disc_gguf, disc_index, disc_owner, disc_scan, disc_refresh, disc_changes>>
components == <<recVars, dlVars, benchVars, keyVars, accVars, provVars, impVars, discVars>>
allVars == <<focus, vars, components>>

\* The components out of focus stay as they start, in one of the ways they may
\* start in; an import's progress is promised on the smooth way only.
Init ==
    /\ focus \in {"lifecycle", "recovery", "downloads", "benchmarks", "keys", "accounts", "providers", "imports", "discovery"}
    /\ LifeInit
    /\ Rec!RecInit
    /\ Dl!DlInit
    /\ Bench!BenchInit
    /\ Key!KeyInit
    /\ Acc!AccInit
    /\ Prov!ProviderInit
    /\ Imp!ImpInit
    /\ Disc!DiscInit
    /\ focus # "accounts" => ~acc_booted
    /\ focus # "discovery" => disc_gguf[a1].kind = "main"
    /\ imp_smooth

Component ==
    \/ focus = "recovery" /\ Rec!RecNext /\ UNCHANGED <<dlVars, benchVars, keyVars, accVars, provVars, impVars, discVars>>
    \/ focus = "downloads" /\ Dl!DlNext /\ UNCHANGED <<recVars, benchVars, keyVars, accVars, provVars, impVars, discVars>>
    \/ focus = "benchmarks" /\ Bench!BenchNext /\ UNCHANGED <<recVars, dlVars, keyVars, accVars, provVars, impVars, discVars>>
    \/ focus = "keys" /\ Key!KeyNext /\ UNCHANGED <<recVars, dlVars, benchVars, accVars, provVars, impVars, discVars>>
    \/ focus = "accounts" /\ Acc!AccNext /\ UNCHANGED <<recVars, dlVars, benchVars, keyVars, provVars, impVars, discVars>>
    \/ focus = "providers" /\ Prov!ProviderNext /\ UNCHANGED <<recVars, dlVars, benchVars, keyVars, accVars, impVars, discVars>>
    \/ focus = "imports" /\ Imp!ImpNext /\ UNCHANGED <<recVars, dlVars, benchVars, keyVars, accVars, provVars, discVars>>
    \/ focus = "discovery" /\ Disc!DiscNext /\ UNCHANGED <<recVars, dlVars, benchVars, keyVars, accVars, provVars, impVars>>

MCNext ==
    /\ UNCHANGED focus
    /\ \/ focus = "lifecycle" /\ LifeNext /\ UNCHANGED components
       \/ focus # "lifecycle" /\ UNCHANGED vars /\ Component

Life(A) == focus = "lifecycle" /\ A

\* The fairness each component's own specification assumes, for the component
\* in focus.  The strong kind is that of the queues for the database connection
\* and for a mutex: who waits in them gets his turn.
MCFairness ==
    /\ \A c \in Clients   : WF_vars(Life(Serving(c)))
    /\ \A o \in Operators : WF_vars(Life(Operate(o)))
    /\ \A t \in Tasks     : WF_vars(Life(Attend(t)))
    /\ WF_vars(Life(RunLoad))
    /\ \A w \in Workers   : /\ WF_vars(Life(KilledExits(w))) /\ WF_vars(Life(Reaping(w)))
                            /\ WF_vars(Life(NotifyExit(w)))
    /\ WF_recVars(focus = "recovery" /\ Rec!Reconcile)
    /\ WF_dlVars(focus = "downloads" /\ Dl!RunStep(p1))
    /\ \A a \in {a1, a2} : WF_dlVars(focus = "downloads" /\ Dl!Continue(a))
    /\ WF_benchVars(focus = "benchmarks" /\ Bench!RunJob(a1))
    /\ WF_keyVars(focus = "keys" /\ Key!Authenticate(a1))
    /\ \A a \in {a1, a2} : SF_accVars(focus = "accounts" /\ Acc!Step(a))
    /\ \A a \in {a1, a2} : SF_provVars(focus = "providers" /\ Prov!Proceed(a))
    /\ WF_impVars(focus = "imports" /\ Imp!PassStep("loop"))
    /\ WF_discVars(focus = "discovery" /\ Disc!RefreshStep)

MCSpec == Init /\ [][MCNext]_allVars /\ MCFairness

\* The startup barrier opens, a retry gets its turn, a benchmark
\* ends and gives back what they held, a request is let in or refused however
\* often the cache is cleared under it, nobody waits for ever between the
\* database and the gate for passwords or for the policy's mutex, a completed
\* download becomes a model, and a model's context and size are filled in.
ServicesEnd ==
    /\ focus = "recovery"   => Rec!BarrierOpens
    /\ focus = "downloads"  => Dl!RetryAnswered
    /\ focus = "benchmarks" => Bench!JobEnds
    /\ focus = "keys"       => Key!AuthEnds
    /\ focus = "accounts"   => Acc!FlowEnds
    /\ focus = "providers"  => Prov!PolicyEnds
    /\ focus = "imports"    => Imp!Registered
    /\ focus = "discovery"  => Disc!Filled
=============================================================================
