--------------------------------- MODULE Sso ---------------------------------
(***************************************************************************)
(* A sign-in through a provider (auth/oidc.go): Start hands out a state,   *)
(* the callback takes it, asks the provider over the network, finds, links *)
(* or creates the user and leaves the session under an exchange code that  *)
(* the browser collects.  Users, links and providers change underneath.    *)
(***************************************************************************)
EXTENDS Integers, FiniteSets

CONSTANTS
    Subjects,    \* people, as the provider knows them
    People,      \* user rows; an ID is not given again
    NameOf,      \* the username each subject claims
    Native,      \* users with a password, and their usernames
    NativeName,
    States,      \* states handed out by Start
    Codes,       \* exchange codes
    Callbacks    \* requests to the callback

SsoAssumption == Native \subseteq People

VARIABLES
    person,      \* the users table: who is on, off, gone or not there yet
    named,       \* the username of each row
    links,       \* external_identities of the provider
    idp,         \* the provider: "on", "off" or "gone"
    waiting,     \* transactions
    unsent,      \* states not handed out yet
    callback,    \* where each callback stands
    shelf,       \* exchanges: code -> user
    unused,      \* codes not made yet
    spentOn,     \* for each state, the sessions it led to
    collected,   \* for each code, the browsers that collected it
    unlinked     \* users an administrator took a link from

ssoVars == <<person, named, links, idp, waiting, unsent, callback, shelf, unused,
             spentOn, collected, unlinked>>
directory == <<person, named, links, idp, unlinked>>
memory == <<waiting, unsent, shelf, unused>>
counts == <<spentOn, collected>>

Known   == {u \in People : person[u] \in {"on", "off"}}
Free    == [pc |-> "free"]
Nobody1 == "nobody"
Visit   == [pc : {"take", "ask", "find", "claim", "insert", "link", "session"},
            state : States, subject : Subjects, user : People \cup {Nobody1}]

SsoTypeOK ==
    /\ person \in [People -> {"new", "on", "off", "gone"}] /\ links \subseteq Subjects \X Known
    /\ DOMAIN named = People /\ (idp = "gone" => links = {})
    /\ idp \in {"on", "off", "gone"}
    /\ waiting \subseteq States /\ unsent \subseteq States /\ unused \subseteq Codes
    /\ callback \in [Callbacks -> Visit \cup {Free}] /\ shelf \in [Codes -> People \cup {Nobody1}]
    /\ spentOn \in [States -> Nat] /\ collected \in [Codes -> Nat] /\ unlinked \subseteq People

SsoInit ==
    /\ person = [u \in People |-> IF u \in Native THEN "on" ELSE "new"]
    /\ named = [u \in People |-> IF u \in Native THEN NativeName[u] ELSE Nobody1]
    /\ links = {} /\ idp = "on"
    /\ waiting = {} /\ unsent = States /\ unused = Codes
    /\ callback = [c \in Callbacks |-> Free] /\ shelf = [x \in Codes |-> Nobody1]
    /\ spentOn = [s \in States |-> 0] /\ collected = [x \in Codes |-> 0] /\ unlinked = {}

Goes(c, pc) == callback' = [callback EXCEPT ![c].pc = pc]
Fails(c)    == callback' = [callback EXCEPT ![c] = Free]
At(c, pc)   == callback[c].pc = pc

\* UNIQUE(provider, issuer, subject) and UNIQUE(provider, user).
Linkable(s, u) == idp # "gone" /\ person[u] \in {"on", "off"} /\ \A l \in links : l[1] # s /\ l[2] # u

-----------------------------------------------------------------------------
Start ==
    /\ idp = "on"
    /\ \E s \in unsent : waiting' = waiting \cup {s} /\ unsent' = unsent \ {s}
    /\ UNCHANGED <<directory, callback, shelf, unused, counts>>

\* The browser comes back with its state; a reload brings the same again.
Arrive(c) ==
    /\ callback[c] = Free
    /\ \E s \in States \ unsent, x \in Subjects :
          callback' = [callback EXCEPT ![c] = [pc |-> "take", state |-> s, subject |-> x, user |-> Nobody1]]
    /\ UNCHANGED <<directory, memory, counts>>

Take(c) ==
    /\ At(c, "take") /\ waiting' = waiting \ {callback[c].state}
    /\ IF callback[c].state \in waiting THEN Goes(c, "ask") ELSE Fails(c)
    /\ UNCHANGED <<directory, unsent, shelf, unused, counts>>

\* The provider's row is read, then the network asked: it may fail.
AskProvider(c) ==
    /\ At(c, "ask")
    /\ Fails(c) \/ (idp = "on" /\ Goes(c, "find"))
    /\ UNCHANGED <<directory, memory, counts>>

\* resolveIdentity: the link, if there is one, names the user.  Without one
\* it depends on OIDCJITProvisioningEnabled.
Find(c) ==
    /\ At(c, "find")
    /\ LET owners == {l[2] : l \in {l \in links : l[1] = callback[c].subject}} IN
       IF owners # {}
       THEN \E u \in owners : IF person[u] = "on" THEN callback' = [callback EXCEPT ![c].pc = "session", ![c].user = u]
                                                  ELSE Fails(c)
       ELSE Goes(c, "claim") \/ Fails(c)
    /\ UNCHANGED <<directory, memory, counts>>

\* A user with the claimed name is linked to if OIDCAutoLinkEnabled allows it.
Claim(c) ==
    /\ At(c, "claim")
    /\ LET owners == {u \in Known : named[u] = NameOf[callback[c].subject]} IN
       IF owners = {} THEN Goes(c, "insert")
       ELSE \/ Fails(c)
            \/ \E u \in owners : person[u] = "on" /\ callback' = [callback EXCEPT ![c].pc = "link", ![c].user = u]
    /\ UNCHANGED <<directory, memory, counts>>

Link(c) ==
    /\ At(c, "link")
    /\ IF Linkable(callback[c].subject, callback[c].user)
       THEN links' = links \cup {<<callback[c].subject, callback[c].user>>} /\ Goes(c, "session")
       ELSE Fails(c) /\ UNCHANGED links
    /\ UNCHANGED <<person, named, idp, unlinked, memory, counts>>

\* The user and the link in one transaction; the name, the subject and the
\* provider are looked at again by the constraints.
Insert1(c) ==
    /\ At(c, "insert")
    /\ LET s == callback[c].subject  name == NameOf[s] IN
       IF (\A u \in Known : named[u] # name) /\ idp # "gone" /\ \A l \in links : l[1] # s
       THEN \E u \in {u \in People : person[u] = "new"} :
              /\ person' = [person EXCEPT ![u] = "on"] /\ named' = [named EXCEPT ![u] = name]
              /\ links' = links \cup {<<s, u>>}
              /\ callback' = [callback EXCEPT ![c].pc = "session", ![c].user = u]
       ELSE Fails(c) /\ UNCHANGED <<person, named, links>>
    /\ UNCHANGED <<idp, unlinked, memory, counts>>

\* CreateBearerSession sees only whether the row is there; then the code.
OpenSession(c) ==
    /\ At(c, "session") /\ Fails(c)
    /\ IF callback[c].user \in Known
       THEN \E x \in unused :
              /\ shelf' = [shelf EXCEPT ![x] = callback[c].user] /\ unused' = unused \ {x}
              /\ spentOn' = [spentOn EXCEPT ![callback[c].state] = @ + 1]
       ELSE UNCHANGED <<shelf, unused, spentOn>>
    /\ UNCHANGED <<directory, waiting, unsent, collected>>

Exchange(x) ==
    /\ shelf[x] # Nobody1 /\ shelf' = [shelf EXCEPT ![x] = Nobody1] /\ collected' = [collected EXCEPT ![x] = @ + 1]
    /\ UNCHANGED <<directory, waiting, unsent, unused, callback, spentOn>>

\* cleanupLocked.
Expire ==
    /\ \/ \E s \in waiting : waiting' = waiting \ {s} /\ UNCHANGED shelf
       \/ \E x \in Codes : shelf[x] # Nobody1 /\ shelf' = [shelf EXCEPT ![x] = Nobody1] /\ UNCHANGED waiting
    /\ UNCHANGED <<directory, unsent, unused, callback, counts>>

-----------------------------------------------------------------------------
(* Administrators.                                                         *)

\* LinkIdentity looks the provider and the user up; linkIdentity inserts.
LinkIdentity ==
    /\ \E s \in Subjects, u \in People : Linkable(s, u) /\ links' = links \cup {<<s, u>>}
    /\ UNCHANGED <<person, named, idp, unlinked, memory, callback, counts>>

UnlinkIdentity ==
    /\ \E l \in links : links' = links \ {l} /\ unlinked' = unlinked \cup {l[2]}
    /\ UNCHANGED <<person, named, idp, memory, callback, counts>>

\* Users are switched and deleted, their links with them.
ChangeUser(u) ==
    /\ u \in Known
    /\ \E to \in {"on", "off", "gone"} :
          /\ to # person[u] /\ person' = [person EXCEPT ![u] = to]
          /\ links' = IF to = "gone" THEN {l \in links : l[2] # u} ELSE links
    /\ UNCHANGED <<named, idp, unlinked, memory, callback, counts>>

\* The provider is switched or deleted, its links with it.
ChangeProvider ==
    /\ idp # "gone"
    /\ \E to \in {"on", "off", "gone"} :
          /\ to # idp /\ idp' = to
          /\ links' = IF to = "gone" THEN {} ELSE links
          /\ unlinked' = IF to = "gone" THEN unlinked \cup {l[2] : l \in links} ELSE unlinked
    /\ UNCHANGED <<person, named, memory, callback, counts>>

Visits(c) ==
    Arrive(c) \/ Take(c) \/ AskProvider(c) \/ Find(c) \/ Claim(c) \/ Link(c) \/ Insert1(c) \/ OpenSession(c)

SsoNext ==
    \/ Start \/ Expire \/ \E c \in Callbacks : Visits(c)
    \/ \E x \in Codes : Exchange(x)
    \/ LinkIdentity \/ UnlinkIdentity \/ ChangeProvider
    \/ \E u \in People : ChangeUser(u)

SsoSpec == SsoInit /\ [][SsoNext]_ssoVars

-----------------------------------------------------------------------------
(* Properties.                                                             *)

\* A state leads to one session, and its code is collected once, however often
\* the browser repeats itself.
SignInOnce ==
    (\A s \in States : spentOn[s] <= 1) /\ (\A x \in Codes : collected[x] <= 1)

\* Somebody who arrives twice at once gets one account, and no account is left
\* without its link: a user the provider created is linked until an
\* administrator unlinks him or drops the provider.
NoStrayUser ==
    \A u \in Known \ Native : u \in unlinked \/ \E s \in Subjects : <<s, u>> \in links /\ named[u] = NameOf[s]

\* Why: a state is with the browser, among those that wait, or with one callback
\* that took it, and has led to no session while it is; a code is on the shelf
\* until it is collected.
Past(c) == callback[c].pc \notin {"free", "take"}

OneVisit ==
    /\ \A c \in Callbacks : callback[c].pc # "free" => callback[c].state \notin unsent
    /\ \A c \in Callbacks : Past(c) => callback[c].state \notin waiting /\ spentOn[callback[c].state] = 0
    /\ \A c, d \in Callbacks : Past(c) /\ Past(d) /\ callback[c].state = callback[d].state => c = d
    /\ \A s \in unsent \cup waiting : spentOn[s] = 0
    /\ \A c \in Callbacks : callback[c].pc \in {"link", "session"} => callback[c].user \in People

OneCode ==
    /\ \A x \in unused : shelf[x] = Nobody1 /\ collected[x] = 0
    /\ \A x \in Codes : shelf[x] # Nobody1 => collected[x] = 0

SsoInv == SsoTypeOK /\ SignInOnce /\ NoStrayUser /\ OneVisit /\ OneCode
=============================================================================
