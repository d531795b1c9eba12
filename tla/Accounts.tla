------------------------------- MODULE Accounts -------------------------------
(***************************************************************************)
(* Users and their sessions (auth/users.go, bearer.go, sessions.go,        *)
(* passwords.go, password_work.go): logins, password changes and resets    *)
(* and the first user's bootstrap run against administrators who disable,  *)
(* delete and revoke.  They share one database connection and the gate     *)
(* that bounds password hashing.                                           *)
(*                                                                         *)
(* A password is the number of the request that chose it.                  *)
(***************************************************************************)
EXTENDS Integers, Sequences, FiniteSets

CONSTANTS
    Users,       \* usernames
    SessionIds,  \* session IDs
    Flows,       \* requests that hash a password
    PwLimit,     \* bound on new passwords
    MaxActive,   \* passwordWorkMaxActive
    MaxBacklog   \* passwordWorkMaxBacklog

AccountAssumption ==
    /\ PwLimit \in Nat /\ MaxActive \in Nat \ {0} /\ MaxBacklog \in Nat
    /\ IsFiniteSet(Users) /\ IsFiniteSet(Flows) /\ "nobody" \notin Flows

VARIABLES
    users,       \* the users table
    sessions,    \* the sessions table
    flow,        \* where each request stands
    conn,        \* the flow whose transaction holds the database connection
    admitted,    \* reservations of the gate
    active,      \* passwords being hashed
    chosen,      \* new passwords so far
    lastSet,     \* the password each user was last given
    booted       \* somebody has been enabled

accVars == <<users, sessions, flow, conn, admitted, active, chosen, lastSet, booted>>
gate == <<admitted, active>>
ghosts == <<chosen, lastSet, booted>>

Present   == {u \in Users : users[u].st \in {"on", "off"}}
NoSession == [user |-> "none"]
AtEase    == [kind |-> "none"]
Nobody    == "nobody"

\* The steps of each request, in order.
Plan == [login     |-> <<"reserve", "read", "verify", "rehash", "stamp", "open">>,
         change    |-> <<"read", "reserve", "verify", "reserve", "hash", "write">>,
         reset     |-> <<"reserve", "hash", "write">>,
         create    |-> <<"reserve", "hash", "insert">>,
         bootstrap |-> <<"begin", "reserve", "hash", "insert">>]

Passwords == 0..PwLimit
UserRow   == [st : {"new", "on", "off", "gone"}, pw : Passwords, old : BOOLEAN]
Session   == [user : Users, pw : Passwords, late : BOOLEAN]
Flow      == [kind : DOMAIN Plan, at : 1..6, user : Users, typed : Passwords, new : Passwords,
              row : UserRow, keep : SessionIds \cup {Nobody}, holds : BOOLEAN, busy : BOOLEAN]

AccTypeOK ==
    /\ users \in [Users -> UserRow] /\ sessions \in [SessionIds -> Session \cup {NoSession}]
    /\ flow \in [Flows -> Flow \cup {AtEase}] /\ conn \in Flows \cup {Nobody}
    /\ admitted \in 0..(MaxActive + MaxBacklog) /\ active \in 0..MaxActive
    /\ chosen \in Passwords /\ lastSet \in [Users -> Passwords] /\ booted \in BOOLEAN

New  == [st |-> "new", pw |-> 0, old |-> FALSE]
Gone == [New EXCEPT !.st = "gone"]
Here(u) == u \in Present

\* A fresh database, or one with a user whose hash has old parameters.
AccInit ==
    /\ \/ users = [u \in Users |-> New]
       \/ \E v \in Users : users = [u \in Users |-> IF u = v THEN [New EXCEPT !.st = "on", !.old = TRUE] ELSE New]
    /\ sessions = [s \in SessionIds |-> NoSession]
    /\ flow = [f \in Flows |-> AtEase] /\ conn = Nobody /\ admitted = 0 /\ active = 0
    /\ chosen = 0 /\ lastSet = [u \in Users |-> 0] /\ booted = (\E u \in Users : users[u].st = "on")

-----------------------------------------------------------------------------
(* The requests that hash a password.                                      *)

At(f, step) == flow[f] # AtEase /\ Plan[flow[f].kind][flow[f].at] = step
Free(f)     == conn \in {f, Nobody}
Next1(f)    == IF flow[f].at = Len(Plan[flow[f].kind]) THEN AtEase ELSE [flow[f] EXCEPT !.at = @ + 1]
Advance(f)  == flow' = [flow EXCEPT ![f] = Next1(f)]

\* Session IDs are random and do not run out: a login needs one to be left.
Begin(f, k, u) ==
    /\ flow[f] = AtEase
    /\ k = "login" => Cardinality({s \in SessionIds : sessions[s] = NoSession}) > Cardinality({g \in Flows : flow[g].kind = "login"})
    /\ k \in {"change", "reset", "create", "bootstrap"} => chosen < PwLimit
    /\ chosen' = IF k = "login" THEN chosen ELSE chosen + 1
    /\ \E keep \in IF k = "change" THEN {s \in SessionIds : sessions[s].user = u} ELSE {Nobody} :
          flow' = [flow EXCEPT ![f] = [kind |-> k, at |-> 1, user |-> u, typed |-> users[u].pw, new |-> chosen',
                                       row |-> New, keep |-> keep, holds |-> FALSE, busy |-> FALSE]]
    /\ UNCHANGED <<users, sessions, conn, gate, lastSet, booted>>

\* A flow that ends gives back its reservation and its transaction.
Ends(f) ==
    /\ flow' = [flow EXCEPT ![f] = AtEase]
    /\ admitted' = IF flow[f].holds THEN admitted - 1 ELSE admitted
    /\ conn' = IF conn = f THEN Nobody ELSE conn

GivesUp(f) == Ends(f) /\ UNCHANGED <<users, sessions, active, ghosts>>

\* reserve never waits: a full gate is an error at once.
ReserveWork(f) ==
    /\ At(f, "reserve")
    /\ IF admitted < MaxActive + MaxBacklog
       THEN /\ admitted' = admitted + 1
            /\ flow' = [flow EXCEPT ![f] = [flow[f] EXCEPT !.at = @ + 1, !.holds = TRUE]]
            /\ UNCHANGED <<users, sessions, conn, active, ghosts>>
       ELSE GivesUp(f)

\* verifyLoginCredentials reads whatever is there; ChangePassword only an
\* enabled user.
ReadRow(f) ==
    /\ At(f, "read") /\ Free(f)
    /\ IF flow[f].kind = "change" /\ users[flow[f].user].st # "on" THEN GivesUp(f)
       ELSE /\ flow' = [flow EXCEPT ![f] = [Next1(f) EXCEPT !.row = users[flow[f].user]]]
            /\ UNCHANGED <<users, sessions, conn, gate, ghosts>>

Hashes(f) == At(f, "verify") \/ At(f, "rehash") \/ At(f, "hash")

\* run waits for a slot; the request's end is looked at before and after.
TakeSlot(f) ==
    /\ Hashes(f) /\ ~flow[f].busy /\ active < MaxActive
    /\ active' = active + 1 /\ flow' = [flow EXCEPT ![f].busy = TRUE]
    /\ UNCHANGED <<users, sessions, conn, admitted, ghosts>>

\* Faulty computation: a password that does not match keeps its slot.
ComputedLeaks(f) ==
    /\ Hashes(f) /\ flow[f].busy
    /\ IF At(f, "verify") /\ flow[f].row.pw # flow[f].typed
       THEN Ends(f) /\ UNCHANGED active
       ELSE /\ flow' = [flow EXCEPT ![f] = [flow[f] EXCEPT !.at = @ + 1, !.busy = FALSE, !.holds = FALSE]]
            /\ admitted' = admitted - 1 /\ active' = active - 1 /\ UNCHANGED conn
    /\ UNCHANGED <<users, sessions, ghosts>>

\* Only an enabled user's own hash can match; a login goes on under the same
\* reservation if the hash has old parameters.
Computed(f) ==
    /\ Hashes(f) /\ flow[f].busy /\ active' = active - 1
    /\ LET r == flow[f].row
           verifying == At(f, "verify")
           rehash == verifying /\ flow[f].kind = "login" /\ r.old
       IN IF verifying /\ (r.st # "on" \/ r.pw # flow[f].typed)
          THEN Ends(f)
          ELSE /\ flow' = [flow EXCEPT ![f] =
                     [flow[f] EXCEPT !.at = IF verifying /\ flow[f].kind = "login" /\ ~rehash THEN @ + 2 ELSE @ + 1,
                                     !.busy = FALSE, !.holds = rehash]]
               /\ admitted' = IF rehash THEN admitted ELSE admitted - 1
               /\ UNCHANGED conn
    /\ UNCHANGED <<users, sessions, ghosts>>

\* The request's context ends while it waits for a slot or the connection.
Cancelled(f) ==
    /\ flow[f] # AtEase /\ ~flow[f].busy /\ ~At(f, "reserve") /\ GivesUp(f)

\* persistPasswordRehash and last_login_at, in one transaction: the rehash
\* counts only while the hash is the one that was verified.
Stamp(f) ==
    /\ At(f, "stamp") /\ Free(f)
    /\ LET u == flow[f].user  r == flow[f].row IN
       IF r.old /\ ~(Here(u) /\ users[u].pw = r.pw /\ users[u].old)
       THEN GivesUp(f)
       ELSE /\ users' = IF r.old THEN [users EXCEPT ![u].old = FALSE] ELSE users
            /\ Advance(f) /\ UNCHANGED <<sessions, conn, gate, ghosts>>

\* CreateBearerSession looks at the user it was given; only the foreign key
\* sees the table.
Open(f) ==
    /\ At(f, "open") /\ Free(f)
    /\ LET u == flow[f].user IN
       IF ~Here(u) THEN GivesUp(f)
       ELSE /\ \E s \in SessionIds :
                  /\ sessions[s] = NoSession
                  /\ sessions' = [sessions EXCEPT ![s] =
                        [user |-> u, pw |-> flow[f].row.pw, late |-> users[u].st # "on" \/ users[u].pw # flow[f].row.pw]]
            /\ Advance(f) /\ UNCHANGED <<users, conn, gate, ghosts>>

SessionsOf(u)    == {s \in SessionIds : sessions[s] # NoSession /\ sessions[s].user = u}
Revoked(S)       == [s \in SessionIds |-> IF s \in S THEN NoSession ELSE sessions[s]]

\* ResetPassword and ChangePassword: the password and the sessions in one
\* transaction.  A change keeps the session it came by.
Write(f) ==
    /\ At(f, "write") /\ Free(f)
    /\ LET u == flow[f].user  kept == SessionsOf(u) \cap {flow[f].keep} IN
       IF ~Here(u) THEN GivesUp(f)
       ELSE /\ users' = [users EXCEPT ![u].pw = flow[f].new, ![u].old = FALSE]
            /\ sessions' = [s \in SessionIds |->
                  IF s \in kept THEN [sessions[s] EXCEPT !.pw = flow[f].new]
                  ELSE IF s \in SessionsOf(u) THEN NoSession ELSE sessions[s]]
            /\ lastSet' = [lastSet EXCEPT ![u] = flow[f].new]
            /\ Advance(f) /\ UNCHANGED <<conn, gate, chosen, booted>>

\* Bootstrap opens its transaction before it hashes and holds the connection.
BeginTx(f) ==
    /\ At(f, "begin") /\ conn = Nobody
    /\ IF Present # {} THEN GivesUp(f)
       ELSE conn' = f /\ Advance(f) /\ UNCHANGED <<users, sessions, gate, ghosts>>

\* Usernames are unique; here, no one comes back after a delete.
Insert(f) ==
    /\ At(f, "insert") /\ Free(f)
    /\ LET u == flow[f].user IN
       IF users[u].st # "new" THEN GivesUp(f)
       ELSE /\ users' = [users EXCEPT ![u] = [st |-> "on", pw |-> flow[f].new, old |-> FALSE]]
            /\ lastSet' = [lastSet EXCEPT ![u] = flow[f].new] /\ booted' = TRUE
            /\ conn' = Nobody /\ Advance(f) /\ UNCHANGED <<sessions, gate, chosen>>

-----------------------------------------------------------------------------
(* Administrators: one transaction each.                                   *)

Enabled == {u \in Users : users[u].st = "on"}

\* Faulty guard: disabled users are counted too.
SetUserEnabledCountsAll(u, on) ==
    /\ conn = Nobody /\ Here(u)
    /\ ~on /\ users[u].st = "on" => Cardinality(Present) > 1
    /\ users' = [users EXCEPT ![u].st = IF on THEN "on" ELSE "off"]
    /\ sessions' = IF on THEN sessions ELSE Revoked(SessionsOf(u))
    /\ UNCHANGED <<flow, conn, gate, ghosts>>

SetUserEnabled(u, on) ==
    /\ conn = Nobody /\ Here(u)
    /\ ~on /\ users[u].st = "on" => Cardinality(Enabled) > 1
    /\ users' = [users EXCEPT ![u].st = IF on THEN "on" ELSE "off"]
    /\ sessions' = IF on THEN sessions ELSE Revoked(SessionsOf(u))
    /\ UNCHANGED <<flow, conn, gate, ghosts>>

DeleteUser(u) ==
    /\ conn = Nobody /\ Here(u)
    /\ users[u].st = "on" => Cardinality(Enabled) > 1
    /\ users' = [users EXCEPT ![u] = Gone] /\ sessions' = Revoked(SessionsOf(u))
    /\ lastSet' = [lastSet EXCEPT ![u] = 0]
    /\ UNCHANGED <<flow, conn, gate, chosen, booted>>

\* RevokeSession, RevokeOwnSession, RevokeOtherSessions, RevokeAllSessions,
\* and the end of a session's lifetime.
Revoke ==
    /\ conn = Nobody
    /\ \E u \in Users : \E S \in {SessionsOf(u)} \cup {{s} : s \in SessionsOf(u)} \cup {SessionsOf(u) \ {s} : s \in SessionsOf(u)} :
          S # {} /\ sessions' = Revoked(S)
    /\ UNCHANGED <<users, flow, conn, gate, ghosts>>

-----------------------------------------------------------------------------
Step(f) ==
    \/ ReserveWork(f) \/ ReadRow(f) \/ TakeSlot(f) \/ Computed(f) \/ Stamp(f)
    \/ Open(f) \/ Write(f) \/ BeginTx(f) \/ Insert(f)

AccNext ==
    \/ \E f \in Flows : Step(f) \/ Cancelled(f) \/ \E u \in Users, k \in DOMAIN Plan : Begin(f, k, u)
    \/ \E u \in Users : DeleteUser(u) \/ \E on \in BOOLEAN : SetUserEnabled(u, on)
    \/ Revoke

\* Waiting for a slot or the connection is first come, first served.
AccSpec == AccInit /\ [][AccNext]_accVars /\ \A f \in Flows : SF_accVars(Step(f))

-----------------------------------------------------------------------------
(* Properties.                                                             *)

\* Once there has been an enabled user there always is one.
SomeoneEnabled == booted => Enabled # {}

\* A bootstrap that found no user still finds none when it inserts the first.
BootstrapAlone == \A f \in Flows : flow[f] # AtEase /\ flow[f].kind = "bootstrap" /\ flow[f].at > 1 => Present = {}

\* The password in force is the one last chosen: a login that renews an old
\* hash never brings back what was replaced while it computed.
PasswordForward == \A u \in Present : users[u].pw = lastSet[u]

\* A session outlives a change of its user's password, or his being disabled,
\* only if it was still being opened then, or is the one the change came by.
SessionsCurrent ==
    \A s \in SessionIds : sessions[s] # NoSession =>
        \/ sessions[s].late
        \/ users[sessions[s].user].st = "on" /\ users[sessions[s].user].pw = sessions[s].pw

\* The gate counts the requests inside it, those computing among them.
GateExact ==
    /\ admitted = Cardinality({f \in Flows : flow[f] # AtEase /\ flow[f].holds})
    /\ active = Cardinality({f \in Flows : flow[f] # AtEase /\ flow[f].holds /\ flow[f].busy})

\* No request waits for ever between the connection and the gate.
FlowEnds == \A f \in Flows : flow[f] # AtEase ~> flow[f] = AtEase

\* Why: a request is inside the gate exactly while it hashes, or reads the row of
\* a login before it does, and computes only then; the connection is a flow's
\* exactly while it is a bootstrap that has begun.
Computing == {"verify", "rehash", "hash"}
InGate(x) == x # AtEase /\ x.holds
AtWork(x) == x # AtEase /\ x.holds /\ x.busy
InTx(x)   == x # AtEase /\ x.kind = "bootstrap" /\ x.at > 1

Orderly(x) ==
    x # AtEase =>
        LET step == Plan[x.kind][x.at] IN
        /\ x.at <= Len(Plan[x.kind])
        /\ x.holds <=> step \in Computing \/ (x.kind = "login" /\ step = "read")
        /\ x.busy => step \in Computing

AccInv ==
    /\ AccTypeOK /\ SomeoneEnabled /\ BootstrapAlone /\ PasswordForward /\ SessionsCurrent /\ GateExact
    /\ \A f \in Flows : Orderly(flow[f]) /\ (conn = f <=> InTx(flow[f]))
=============================================================================
