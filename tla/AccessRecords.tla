-------------------------- MODULE AccessRecords --------------------------
(* The records of access: keys, accounts, tickets, identity providers,     *)
(* sign-in, the login protector and the settings.                          *)
EXTENDS KeyAccess, RecordsBase

CONSTANTS
    Order, Sensitive, Named, Override, Life, Token, Good, Bad, Default, PutLimit,   \* of Settings
    PwLimit, MaxActive, MaxBacklog,                                     \* of Accounts
    Origins, Hosts, HostOf, MaxItems, MaxHosts, Threshold, LockTime,
    DelayAfter, HostTTL, Day, Horizon,                                  \* of LoginLimit
    TicketLimit, PerSession, Global,                                    \* of Tickets
    ConfigLimit,                                                        \* of Providers
    Subjects, People, Native, NameOf, NativeName                        \* of Sso

Acc == INSTANCE Accounts WITH
    Users <- A, SessionIds <- B, Flows <- C, users <- s1,
    sessions <- s2, flow <- s3, conn <- s4, admitted <- s5, active <- s6, chosen <- s7, lastSet <- s8,
    booted <- s9

Tkt == INSTANCE Tickets WITH
    Logins <- A, Sockets <- B, Issuers <- C, live <- s1,
    held <- s2, numbered <- s3, now <- s4, issuer <- s5, socket <- s6, opened <- s7

Prov == INSTANCE Providers WITH
    Ids <- A, Admins <- B, Patient <- TRUE, provider <- s1, secret <- s2, local <- s3,
    policyMu <- s4, admin <- s5, spent <- s6, passed <- s7

Sso == INSTANCE Sso WITH
    States <- A, Codes <- B, Callbacks <- C, person <- s1, named <- s2, links <- s3,
    idp <- s4, waiting <- s5, unsent <- s6, callback <- s7, shelf <- s8, unused <- s9, spentOn <- s10,
    collected <- s11, unlinked <- s12

Limit == INSTANCE LoginLimit WITH
    clock <- s1, attempts <- s2, hosts <- s3, trying <- s4

Set == INSTANCE Settings WITH
    Putters <- A, Absent <- None, env <- s1, table <- s2, lifetime <- s3, put <- s4, crossed <- s5, puts <- s6

ASSUME AccountAssumed == Acc!AccountAssumption
ASSUME TicketAssumed == Tkt!TicketAssumption
ASSUME ProviderAssumed == Prov!ProviderAssumption
ASSUME SsoAssumed == Sso!SsoAssumption
ASSUME LimitAssumed == Limit!LimitAssumption
ASSUME SettingsAssumed == Set!SettingsAssumption
=============================================================================
