------------------------------- MODULE Tickets -------------------------------
(***************************************************************************)
(* WebSocket tickets (auth/bearer.go): a session buys a ticket, which opens*)
(* one socket.  Tickets live in memory, with a limit per session and one   *)
(* for all.  A ticket is the number of its expiry: lifetimes are equal, so *)
(* expiries come in the order in which requests read the clock.            *)
(***************************************************************************)
EXTENDS Integers, FiniteSets

CONSTANTS
    Logins,          \* sessions of enabled users
    Sockets,         \* requests to open a socket
    Issuers,         \* requests for a ticket
    TicketLimit,     \* bound on tickets
    PerSession,      \* maxWebSocketTicketsPerSession
    Global           \* maxWebSocketTicketsGlobal

TicketAssumption ==
    TicketLimit \in Nat /\ PerSession \in Nat \ {0} /\ Global \in Nat \ {0}

VARIABLES
    live,       \* sessions in the table
    held,       \* wsTickets
    numbered,   \* tickets numbered so far
    now,        \* tickets up to here have expired
    issuer,     \* where each request for a ticket stands
    socket,     \* where each request to open a socket stands
    opened      \* for each ticket, the sockets it opened

ticketVars == <<live, held, numbered, now, issuer, socket, opened>>

Ticket  == [id : 1..TicketLimit, login : Logins]
Resting == [id |-> 0]
Shut    == [pc |-> "shut"]
Owned(S, x) == {t \in S : t.login = x}

TicketTypeOK ==
    /\ live \subseteq Logins /\ held \subseteq Ticket /\ numbered \in 0..TicketLimit /\ now \in 0..TicketLimit
    /\ issuer \in [Issuers -> Ticket \cup {Resting}]
    /\ socket \in [Sockets -> {Shut} \cup [pc : {"asks", "looks", "open"}, ticket : Ticket]]
    /\ opened \in [1..TicketLimit -> Nat]

TicketInit ==
    /\ live = Logins /\ held = {} /\ numbered = 0 /\ now = 0
    /\ issuer = [i \in Issuers |-> Resting] /\ socket = [k \in Sockets |-> Shut]
    /\ opened = [t \in 1..TicketLimit |-> 0]

-----------------------------------------------------------------------------
\* A session is revoked or ends; the tickets it bought stay behind.
EndLogin(x) ==
    /\ x \in live /\ live' = live \ {x}
    /\ UNCHANGED <<held, numbered, now, issuer, socket, opened>>

\* sessionByIdentity and the clock, before the lock.
Vouch(i, x) ==
    /\ issuer[i] = Resting /\ x \in live /\ numbered < TicketLimit
    /\ numbered' = numbered + 1 /\ issuer' = [issuer EXCEPT ![i] = [id |-> numbered + 1, login |-> x]]
    /\ UNCHANGED <<live, held, now, socket, opened>>

Oldest(S) == CHOOSE t \in S : \A u \in S : t.id <= u.id
Fits(S, T, limit) == IF Cardinality(T) < limit THEN S ELSE S \ {Oldest(T)}

\* What is left when there is room for one more ticket: expired ones go, then
\* the oldest of the session's own, then the oldest of all.
RoomFor(x) ==
    LET valid == {t \in held : t.id > now}
        own   == Fits(valid, Owned(valid, x), PerSession)
    IN Fits(own, own, Global)

Issue(i) ==
    /\ issuer[i] # Resting
    /\ held' = RoomFor(issuer[i].login) \cup {issuer[i]}
    /\ issuer' = [issuer EXCEPT ![i] = Resting]
    /\ UNCHANGED <<live, numbered, now, socket, opened>>

Later ==
    /\ now < numbered /\ now' = now + 1
    /\ UNCHANGED <<live, held, numbered, issuer, socket, opened>>

\* A client presents a ticket it was given; others may present the same.
Offer(k) ==
    /\ socket[k] = Shut
    /\ \E t \in held : socket' = [socket EXCEPT ![k] = [pc |-> "asks", ticket |-> t]]
    /\ UNCHANGED <<live, held, numbered, now, issuer, opened>>

Usable(t) == t \in held /\ t.id > now

\* Faulty consumption: only a ticket whose use has ended is removed.
ConsumeLate(k) ==
    /\ socket[k].pc = "asks"
    /\ socket' = [socket EXCEPT ![k] = IF Usable(socket[k].ticket) THEN [@ EXCEPT !.pc = "looks"] ELSE Shut]
    /\ held' = {t \in held : Usable(t) \/ t # socket[k].ticket}
    /\ UNCHANGED <<live, numbered, now, issuer, opened>>

\* The ticket is taken out under the lock, whether it is good or not.
Consume(k) ==
    /\ socket[k].pc = "asks"
    /\ socket' = [socket EXCEPT ![k] = IF Usable(socket[k].ticket) THEN [@ EXCEPT !.pc = "looks"] ELSE Shut]
    /\ held' = held \ {socket[k].ticket}
    /\ UNCHANGED <<live, numbered, now, issuer, opened>>

\* The session must still be there.
OpenSocket(k) ==
    /\ socket[k].pc = "looks"
    /\ IF socket[k].ticket.login \in live
       THEN /\ opened' = [opened EXCEPT ![socket[k].ticket.id] = @ + 1]
            /\ socket' = [socket EXCEPT ![k].pc = "open"]
       ELSE socket' = [socket EXCEPT ![k] = Shut] /\ UNCHANGED opened
    /\ UNCHANGED <<live, held, numbered, now, issuer>>

TicketNext ==
    \/ \E x \in Logins : EndLogin(x) \/ \E i \in Issuers : Vouch(i, x)
    \/ \E i \in Issuers : Issue(i)
    \/ \E k \in Sockets : Offer(k) \/ Consume(k) \/ OpenSocket(k)
    \/ Later

TicketSpec == TicketInit /\ [][TicketNext]_ticketVars

-----------------------------------------------------------------------------
(* Properties.                                                             *)

\* However many requests present it, a ticket opens one socket at most.
TicketOnce == \A t \in 1..TicketLimit : opened[t] <= 1

\* Neither limit is passed, though requests number their tickets in one order
\* and store them in another.
TicketsBounded ==
    Cardinality(held) <= Global /\ \A x \in Logins : Cardinality(Owned(held, x)) <= PerSession

\* A session at its own limit pays for a new ticket itself: no step takes a
\* valid ticket from another session unless the map is full of others.
PaysItself ==
    \A i \in Issuers : issuer[i] # Resting /\ issuer'[i] = Resting =>
          \/ Cardinality(Owned({t \in held : t.id > now}, issuer[i].login)) < PerSession
          \/ {t \in held : t.id > now /\ t.login # issuer[i].login} \subseteq held'

\* Why a ticket opens one socket: it is with one request for a ticket, in the
\* map, or with one request that found it good, and once it has opened a socket
\* it is in none of these.
Issuing(id) == \E i \in Issuers : issuer[i].id = id
Kept(id)    == \E t \in held : t.id = id
Looking(id) == \E k \in Sockets : socket[k].pc = "looks" /\ socket[k].ticket.id = id
Nowhere(id) == ~Issuing(id) /\ ~Kept(id) /\ ~Looking(id)

OneIssues == \A i, j \in Issuers : issuer[i] # Resting /\ issuer[i].id = issuer[j].id => i = j
OneKeeps  == \A t, u \in held : t.id = u.id => t = u
OneLooks  == \A k, l \in Sockets : /\ socket[k].pc = "looks" /\ socket[l].pc = "looks"
                                  /\ socket[k].ticket.id = socket[l].ticket.id => k = l
OnePlace ==
    \A id \in 1..TicketLimit :
          /\ ~(Issuing(id) /\ Kept(id)) /\ ~(Issuing(id) /\ Looking(id)) /\ ~(Kept(id) /\ Looking(id))
          /\ opened[id] # 0 => Nowhere(id)
          /\ id > numbered => Nowhere(id) /\ opened[id] = 0

TicketInv ==
    /\ TicketTypeOK /\ IsFiniteSet(held) /\ TicketOnce /\ TicketsBounded
    /\ OneIssues /\ OneKeeps /\ OneLooks /\ OnePlace
=============================================================================
