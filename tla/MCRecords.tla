----------------------------- MODULE MCRecords -----------------------------
(* The manager's records: accounts and what signs a caller in, settings,   *)
(* and the rows for instances, imports, model files and the LiteLLM proxy. *)
(* These components share no state, so one module checks them side by side:*)
(* a behaviour runs the component in focus, whose variables are s1, s2 and *)
(* so on, and API keys have variables of their own.                        *)
EXTENDS AccessRecords, ModelRecords, TLC

\* What TLC takes for those that are functions or sequences.
TwoInOrder   == <<p1, p2>>
TheirNames   == (p1 :> n1) @@ (p2 :> n2)
OneName      == (p3 :> n1)
AsksOne      == [r \in B |-> n1]
TwoAtOne     == (p1 :> n1) @@ (p2 :> n1) @@ (p3 :> n2)
TwoToOne     == (n1 :> p1) @@ (n2 :> p2) @@ (n3 :> p1)
InnerOuter   == (p1 :> p4) @@ (p2 :> p3)
Nested       == (p4 :> p3) @@ (p3 :> n4)
FirstOfTwo   == ({p1, p2} :> p1)

-----------------------------------------------------------------------------

\* The variables a component with fewer than fourteen leaves unused.
Blank14 == s14 = 0
Blank13 == s13 = 0 /\ Blank14
Blank11 == s11 = 0 /\ s12 = 0 /\ Blank13
Blank10 == s10 = 0 /\ Blank11
Blank8 == s8 = 0 /\ s9 = 0 /\ Blank10
Blank7 == s7 = 0 /\ Blank8
Blank5 == s5 = 0 /\ s6 = 0 /\ Blank7
Blank1 == s1 = 0 /\ s2 = 0 /\ s3 = 0 /\ s4 = 0 /\ Blank5
rest5 == <<s5, s6, s7, s8, s9, s10, s11, s12, s13, s14>>
rest7 == <<s7, s8, s9, s10, s11, s12, s13, s14>>
rest8 == <<s8, s9, s10, s11, s12, s13, s14>>
rest10 == <<s10, s11, s12, s13, s14>>
rest11 == <<s11, s12, s13, s14>>
rest13 == <<s13, s14>>
shared  == <<s1, s2, s3, s4, rest5>>
allVars == <<focus, keyVars, shared>>

Init ==
    /\ KeyInit
    /\ \/ focus = "keys" /\ Blank1
       \/ focus = "accounts" /\ Acc!AccInit /\ Blank10
       \/ focus = "tickets" /\ Tkt!TicketInit /\ Blank8
       \/ focus = "providers" /\ Prov!ProviderInit /\ Blank8
       \/ focus = "sso" /\ Sso!SsoInit /\ Blank13
       \/ focus = "limit" /\ Limit!LimitInit /\ Blank5
       \/ focus = "settings" /\ Set!SetInit /\ Blank7
       \/ focus = "imports" /\ Imp!ImpInit /\ Blank13
       \/ focus = "instances" /\ Inst!InstInit /\ Blank10
       \/ focus = "catalog" /\ Cat!CatInit
       \/ focus = "files" /\ Files!FilesInit /\ Blank11
       \/ focus = "discovery" /\ Disc!DiscInit /\ Blank7

Component ==
    \/ focus = "accounts" /\ Acc!AccNext /\ UNCHANGED rest10
    \/ focus = "tickets" /\ Tkt!TicketNext /\ UNCHANGED rest8
    \/ focus = "providers" /\ Prov!ProviderNext /\ UNCHANGED rest8
    \/ focus = "sso" /\ Sso!SsoNext /\ UNCHANGED rest13
    \/ focus = "limit" /\ Limit!LimitNext /\ UNCHANGED rest5
    \/ focus = "settings" /\ Set!SetNext /\ UNCHANGED rest7
    \/ focus = "imports" /\ Imp!ImpNext /\ UNCHANGED rest13
    \/ focus = "instances" /\ Inst!InstNext /\ UNCHANGED rest10
    \/ focus = "catalog" /\ Cat!CatNext
    \/ focus = "files" /\ Files!FilesNext /\ UNCHANGED rest11
    \/ focus = "discovery" /\ Disc!DiscNext /\ UNCHANGED rest7

MCNext ==
    /\ UNCHANGED focus
    /\ \/ focus = "keys" /\ KeyNext /\ UNCHANGED shared
       \/ focus # "keys" /\ UNCHANGED keyVars /\ Component

RecordsSpec == Init /\ [][MCNext]_allVars

Symmetry == Permutations(A) \cup Permutations(B) \cup Permutations(C) \cup Permutations(D)

TypesOK ==
    CASE focus = "keys" -> KeyTypeOK
      [] focus = "accounts" -> Acc!AccTypeOK
      [] focus = "tickets" -> Tkt!TicketTypeOK
      [] focus = "providers" -> Prov!ProviderTypeOK
      [] focus = "sso" -> Sso!SsoTypeOK
      [] focus = "limit" -> Limit!LimitTypeOK
      [] focus = "settings" -> Set!SetTypeOK
      [] focus = "imports" -> Imp!ImpTypeOK
      [] focus = "instances" -> Inst!InstTypeOK
      [] focus = "catalog" -> Cat!CatTypeOK
      [] focus = "files" -> Files!FilesTypeOK
      [] focus = "discovery" -> Disc!DiscTypeOK

\* Users, sessions and the work on passwords: some user stays enabled, the
\* first user is made alone, a password never goes back, a session is one of
\* an enabled user, the gate counts exactly; and the lockout's tables stay
\* within their bounds (auth/users.go, auth/password_work.go, security.go).
AccountsSafe ==
    CASE focus = "accounts" -> /\ Acc!SomeoneEnabled /\ Acc!BootstrapAlone /\ Acc!PasswordForward
                               /\ Acc!SessionsCurrent /\ Acc!GateExact
      [] focus = "limit" -> Limit!TablesBounded
      [] OTHER -> TRUE

\* A ticket opens one socket, and there are never too many of them
\* (auth/bearer.go).
TicketsSafe == focus = "tickets" => Tkt!TicketOnce /\ Tkt!TicketsBounded

\* Local sign-in is off only while a provider passed its test as configured
\* now, a state or a code signs in once, and no user is left over from a
\* sign-in that failed (auth/oidc.go, api/oidc.go).
SignOnSafe ==
    CASE focus = "providers" -> Prov!TestedCurrent
      [] focus = "sso" -> Sso!SignInOnce /\ Sso!NoStrayUser
      [] OTHER -> TRUE

\* Sessions get the lifetime that is stored, through failing writes and restarts,
\* unless a request stored one between another's store and its telling
\* (api/admin.go, settings/service.go).
SettingsRight == focus = "settings" => Set!LifetimeTold

\* An import leaves its rows linked, enables its instance only when it is done or
\* a user asked for it, leaves nothing when it fails and its undo goes through,
\* and the lifecycle hears of the instance (modelimports/service.go).
ImportsRight ==
    focus = "imports" => /\ Imp!RowsLinked /\ Imp!EnabledWhenDone
                         /\ Imp!FailedLeavesNothing /\ Imp!ToldIfSmooth

\* The cache of instances agrees with the table but for what the cache is not
\* told, the index of GGUFs with the files, and a directory is not pruned under a
\* file (instances/hot_cache.go, models/gguf_index.go, models/delete_files.go).
InstancesRight ==
    CASE focus = "instances" -> Inst!HotFresh /\ Inst!SlugLeads
      [] focus = "discovery" -> Disc!IndexRight /\ Disc!OfferRight
      [] focus = "files" -> Files!DirsKept
      [] OTHER -> TRUE

\* After a pass that went well and said so the proxy lists what is enabled, the
\* stored secret works unless a rotation broke off before its store, and a
\* disconnect that ran by itself to its end leaves no key (litellm/service.go).
CatalogSafe ==
    focus = "catalog" => Cat!CatalogRight /\ Cat!StoredWorks /\ Cat!NothingLeft /\ Cat!Republished

\* What a step may never do: a socket or a failed attempt pay for another, a
\* lockout end early, a setting change without a request vetted for it, a clean-up
\* or an update touch what is not its own, a row go before its files.
StepKept ==
    CASE focus = "tickets"   -> Tkt!PaysItself
      [] focus = "providers" -> Prov!OnlyTestsLockOut
      [] focus = "limit"     -> Limit!LockHolds /\ Limit!SlowHolds
      [] focus = "settings"  -> Set!VettedAsWhole
      [] focus = "imports"   -> Imp!CleanupOwnModel
      [] focus = "instances" -> Inst!LeftOutKept
      [] focus = "catalog"   -> Cat!OthersKept
      [] focus = "files"     -> Files!OthersFilesKept /\ Files!RowLast
      [] focus = "discovery" -> Disc!GivenKept
      [] OTHER -> TRUE

StepsKeep == [][StepKept]_allVars
=============================================================================
