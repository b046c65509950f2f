------------------------------ MODULE Accounts ------------------------------
(***************************************************************************)
(* The accounts of the web panel (auth.go, runtime_api.go): the users of   *)
(* config.json, the sessions in memory and the throttle of failed logins.  *)
(*                                                                         *)
(* A login reads the users under cfgMu.RLock from its check to its session *)
(* and a change of users holds cfgMu.Lock (ConfigTransactions), so changes *)
(* happen between logins, while logins overlap one another.                *)
(*                                                                         *)
(* Times are kept as what is left or has passed of them, in ticks: the     *)
(* code compares no others.                                                *)
(***************************************************************************)
EXTENDS Naturals, FiniteSets

CONSTANTS Names,       \* user names, no two alike but for case
          Passwords,
          Tokens,      \* the values of the cookie dnsleaf_session
          Clients,     \* the addresses logins come from
          Logins,      \* the goroutines that serve POST /api/login
          MaxSessions, \* maxSessions
          MaxEntries,  \* maxLoginEntries
          MaxFailures, \* loginMaxFailures
          Window,      \* loginWindow, in ticks
          Block,       \* loginBlock, in ticks
          Life,        \* the life of a session, in ticks
          Anonymous    \* whom the audit log names when it knows nobody

ASSUME LimitsOK == /\ MaxSessions \in Nat \ {0}
                   /\ MaxEntries \in Nat \ {0}
                   /\ MaxFailures \in Nat \ {0}
                   /\ Window \in Nat \ {0}
                   /\ Block \in Nat \ {0}
                   /\ Life \in Nat \ {0}

ASSUME AnonymousOK == Anonymous \notin Names

Roles == {"admin", "viewer"}
User == [name : Names, role : Roles, password : Passwords]

VARIABLES
  users,    \* d.cfg.Auth.Users
  sessions, \* d.sessions; user is the record the login found
  attempts, \* d.loginAttempts; no failures: no entry
  checking, \* the logins allowed whose password is being verified
  granted,  \* the logins verified whose session is not yet stored
  author    \* whom the last entry of d.audit on /api/users names

vars == <<users, sessions, attempts, checking, granted, author>>

Session == [token : Tokens, user : User, left : 0..Life]

NoAttempt == [failures |-> 0, age |-> 0, blocked |-> 0]

Entries == {c \in Clients : attempts[c].failures > 0}

TypeOK ==
  /\ users \subseteq User
  /\ sessions \subseteq Session
  /\ Cardinality(sessions) <= MaxSessions
  /\ attempts \in [Clients -> [failures : Nat, age : 0..Window, blocked : 0..Block]]
  /\ Cardinality(Entries) <= MaxEntries
  /\ checking \subseteq [login : Logins, client : Clients]
  /\ granted \subseteq [login : Logins, user : User]
  /\ author \in Names \cup {Anonymous}

(* ensureAuth: the generated administrator. *)
Init ==
  /\ \E n \in Names, p \in Passwords :
       users = {[name |-> n, role |-> "admin", password |-> p]}
  /\ sessions = {}
  /\ attempts = [c \in Clients |-> NoAttempt]
  /\ checking = {}
  /\ granted = {}
  /\ author = Anonymous

Live == {s \in sessions : s.left > 0}

-----------------------------------------------------------------------------
(* POST /api/login.                                                        *)

Idle(l) == \A x \in checking \cup granted : x.login # l

Stale(c) == attempts[c].failures > 0 /\ attempts[c].age >= Window

(* loginAllowed: a stale entry is deleted, a blocked client turned away. *)
LoginChecked(l, c) ==
  /\ Idle(l)
  /\ Stale(c) \/ attempts[c].blocked = 0
  /\ checking' = checking \cup {[login |-> l, client |-> c]}
  /\ attempts' = IF Stale(c) THEN [attempts EXCEPT ![c] = NoAttempt] ELSE attempts
  /\ UNCHANGED <<users, sessions, granted, author>>

(* A mutant: a full table grows. *)
MakeNoRoom(c) == {attempts}

(* A full table forgets a stale entry to take a new one, else any entry. *)
MakeRoom(c) ==
  LET stale == {k \in Entries : Stale(k)} IN
    IF c \in Entries \/ Cardinality(Entries) < MaxEntries
    THEN {attempts}
    ELSE {[attempts EXCEPT ![k] = NoAttempt] :
            k \in IF stale = {} THEN Entries ELSE stale}

(* A mutant: the client is blocked one failure too late. *)
BlocksLate(n) == n > MaxFailures

Blocks(n) == n >= MaxFailures

Failed(a) ==
  LET old == IF a.failures = 0 \/ a.age >= Window THEN NoAttempt ELSE a
      n   == old.failures + 1 IN
    [old EXCEPT !.failures = n, !.blocked = IF Blocks(n) THEN Block ELSE @]

(* noteLoginFailure, after a body that cannot be read, an unknown name or  *)
(* a wrong password.                                                       *)
LoginFails(x) ==
  /\ x \in checking
  /\ checking' = checking \ {x}
  /\ \E table \in MakeRoom(x.client) :
       attempts' = [table EXCEPT ![x.client] = Failed(@)]
  /\ UNCHANGED <<users, sessions, granted, author>>

(* The name and the password are those of u; clearLoginFailures. *)
LoginSucceeds(x, u) ==
  /\ x \in checking
  /\ u \in users
  /\ checking' = checking \ {x}
  /\ attempts' = [attempts EXCEPT ![x.client] = NoAttempt]
  /\ granted' = granted \cup {[login |-> x.login, user |-> u]}
  /\ UNCHANGED <<users, sessions, author>>

First(set) == {s \in set : \A o \in set : s.left <= o.left}

(* A mutant: expired sessions are counted, and only then removed. *)
EvictThenPurge ==
  IF Cardinality(sessions) < MaxSessions
  THEN {Live}
  ELSE {Live \ {s} : s \in First(Live)}

(* The expired sessions go, and if MaxSessions are live one that expires first. *)
Remaining ==
  IF Cardinality(Live) < MaxSessions
  THEN {Live}
  ELSE {Live \ {s} : s \in First(Live)}

(* The session gets a token never seen before. *)
LoginStores(g, t) ==
  /\ g \in granted
  /\ \A s \in sessions : s.token # t
  /\ granted' = granted \ {g}
  /\ \E kept \in Remaining :
       sessions' = kept \cup {[token |-> t, user |-> g.user, left |-> Life]}
  /\ UNCHANGED <<users, attempts, checking, author>>

(* DELETE /api/login. *)
Logout(s) ==
  /\ s \in sessions
  /\ sessions' = sessions \ {s}
  /\ UNCHANGED <<users, attempts, checking, granted, author>>

(* sessionFromRequest deletes the expired session it is shown. *)
Expires(s) ==
  /\ s \in sessions \ Live
  /\ sessions' = sessions \ {s}
  /\ UNCHANGED <<users, attempts, checking, granted, author>>

-----------------------------------------------------------------------------
(* POST, PATCH and DELETE /api/users.                                      *)

(* A mutant: any live session will do. *)
AnySession(s) == s \in Live

(* requireAuth for /api/users, by the role the session was given. *)
Authorized(s) == s \in Live /\ s.user.role = "admin"

(* revokeUserSessions. *)
Unrevoked(u) == {s \in sessions : s.user.name # u.name}

(* addAudit looks the session up again, after the handler has revoked some *)
(* and perhaps after this one has expired.                                 *)
Record(s, kept) ==
  \/ /\ s \in kept
     /\ author' = s.user.name
     /\ sessions' = kept
  \/ /\ s \in kept => s.left = 1
     /\ author' = Anonymous
     /\ sessions' = kept \ {s}

(* cfgMu.Lock is held: no login is in flight.  configGuard saves what the  *)
(* handler has made of the users and records it or, if the configuration   *)
(* is not valid or not saved, restores it; revoked sessions stay revoked.  *)
Change(s, edited, kept) ==
  /\ checking = {} /\ granted = {}
  /\ Authorized(s)
  /\ \/ /\ users' = edited
        /\ Record(s, kept)
     \/ /\ sessions' = kept
        /\ UNCHANGED <<users, author>>
  /\ UNCHANGED <<attempts, checking, granted>>

Named(n) == {u \in users : u.name = n}

OtherAdmin(u) == \E v \in users \ {u} : v.role = "admin"

AddUser(s, u) ==
  /\ Named(u.name) = {}
  /\ Change(s, users \cup {u}, sessions)

(* A mutant: the last administrator may be demoted. *)
ChangeAny(s, u, v) ==
  /\ u \in users
  /\ v.name = u.name \/ Named(v.name) = {}
  /\ Change(s, (users \ {u}) \cup {v}, Unrevoked(u))

(* A mutant: the sessions of the new name are revoked. *)
RevokeNewName(s, u, v) ==
  /\ u \in users
  /\ u.role = "admin" /\ v.role # "admin" => OtherAdmin(u)
  /\ v.name = u.name \/ Named(v.name) = {}
  /\ Change(s, (users \ {u}) \cup {v}, Unrevoked(v))

(* The name, the role, the password, or several at once. *)
ChangeUser(s, u, v) ==
  /\ u \in users
  /\ u.role = "admin" /\ v.role # "admin" => OtherAdmin(u)
  /\ v.name = u.name \/ Named(v.name) = {}
  /\ Change(s, (users \ {u}) \cup {v}, Unrevoked(u))

RemoveUser(s, u) ==
  /\ u \in users
  /\ users # {u}
  /\ u.role = "admin" => OtherAdmin(u)
  /\ Change(s, users \ {u}, Unrevoked(u))

-----------------------------------------------------------------------------
Tick ==
  /\ sessions' = {[s EXCEPT !.left = IF @ = 0 THEN 0 ELSE @ - 1] : s \in sessions}
  /\ attempts' = [c \in Clients |->
                    LET a == attempts[c] IN
                      [a EXCEPT !.age = IF a.failures = 0 \/ @ = Window THEN @ ELSE @ + 1,
                                !.blocked = IF @ = 0 THEN 0 ELSE @ - 1]]
  /\ UNCHANGED <<users, checking, granted, author>>

Login == \/ \E l \in Logins, c \in Clients : LoginChecked(l, c)
         \/ \E x \in checking : LoginFails(x) \/ \E u \in users : LoginSucceeds(x, u)
         \/ \E g \in granted, t \in Tokens : LoginStores(g, t)

Edit(s) == \/ \E u \in User : AddUser(s, u)
           \/ \E u \in users, v \in User : ChangeUser(s, u, v)
           \/ \E u \in users : RemoveUser(s, u)

Next == Login \/ (\E s \in sessions : Logout(s) \/ Expires(s) \/ Edit(s)) \/ Tick

Spec == Init /\ [][Next]_vars

-----------------------------------------------------------------------------
(* Properties.                                                             *)

(* A session never outlives the rights it was given: its user exists, with *)
(* the name, the role and the password the login found, whatever edits and *)
(* failed saves came between.                                              *)
SessionsAreCurrent == \A s \in sessions : s.user \in users

(* No sequence of edits, undone or not, leaves the panel without an        *)
(* administrator or with two users of one name.                            *)
AdminRemains ==
  /\ \E u \in users : u.role = "admin"
  /\ \A u, v \in users : u.name = v.name => u = v

(* The users change only on behalf of somebody logged in who is, by the    *)
(* users themselves and not by an old session, an administrator, and whom  *)
(* the audit log names, unless the edit, or time, has ended the session.   *)
OnlyAdminsEdit ==
  [][users' # users =>
       \E s \in sessions :
         /\ s.left > 0 /\ s.user \in users /\ s.user.role = "admin"
         /\ author' = s.user.name \/ (author' = Anonymous /\ s \notin sessions')]_vars

(* A login ends a session that has not expired only when MaxSessions have  *)
(* not, and then one that expires first.                                   *)
LiveSessionsKept ==
  [][\A g \in granted \ granted', s \in Live \ sessions' :
       Cardinality(Live) >= MaxSessions /\ \A o \in Live : s.left <= o.left]_vars

(* Logins that overlap may all pass the check before one of them fails,    *)
(* but once per block: a client that is not forgotten gets no more guesses *)
(* wrong than the limit and one round of overlapping logins for each.      *)
GuessesBounded ==
  \A c \in Clients :
    attempts[c].failures < MaxFailures
                             + Cardinality(Logins) * (1 + attempts[c].age \div Block)
=============================================================================
