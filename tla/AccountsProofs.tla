--------------------------- MODULE AccountsProofs ---------------------------
(***************************************************************************)
(* What Accounts promises of sessions and administrators, for any number   *)
(* of users, sessions, clients and logins that overlap.                    *)
(***************************************************************************)
EXTENDS Accounts, FiniteSetTheorems, TLAPS

(***************************************************************************)
(* Types.  The tables are finite, which the bounds on them need.           *)
(***************************************************************************)

SmallTable(set, max) == IsFiniteSet(set) /\ Cardinality(set) <= max

Attempt == [failures : Nat, age : 0..Window, blocked : 0..Block]

Typed ==
  /\ users \subseteq User
  /\ sessions \subseteq Session
  /\ attempts \in [Clients -> Attempt]
  /\ checking \subseteq [login : Logins, client : Clients]
  /\ granted \subseteq [login : Logins, user : User]
  /\ author \in Names \cup {Anonymous}

TInv == /\ Typed
        /\ SmallTable(sessions, MaxSessions)
        /\ SmallTable(Entries, MaxEntries)

LEMMA Smaller ==
  ASSUME NEW set, NEW max \in Nat, SmallTable(set, max), NEW part, part \subseteq set
  PROVE  SmallTable(part, max)
<1>1. /\ IsFiniteSet(part)
      /\ Cardinality(part) <= Cardinality(set)
  BY FS_Subset DEF SmallTable
<1>2. Cardinality(part) \in Nat /\ Cardinality(set) \in Nat
  BY <1>1, FS_CardinalityType DEF SmallTable
<1> QED
  BY <1>1, <1>2 DEF SmallTable

LEMMA OneMore ==
  ASSUME NEW set, NEW max \in Nat, IsFiniteSet(set), Cardinality(set) < max,
         NEW x, NEW more, more \subseteq set \cup {x}
  PROVE  SmallTable(more, max)
<1>1. /\ IsFiniteSet(set \cup {x})
      /\ Cardinality(set \cup {x}) = IF x \in set THEN Cardinality(set)
                                                  ELSE Cardinality(set) + 1
  BY FS_AddElement
<1>2. Cardinality(set) \in Nat /\ Cardinality(set \cup {x}) \in Nat
  BY <1>1, FS_CardinalityType
<1>3. SmallTable(set \cup {x}, max)
  BY <1>1, <1>2 DEF SmallTable
<1> QED
  BY <1>3, Smaller

(* A full table takes one in when it has let one out. *)
LEMMA Exchange ==
  ASSUME NEW set, NEW max \in Nat, SmallTable(set, max),
         NEW out \in set, NEW x, NEW next, next \subseteq (set \ {out}) \cup {x}
  PROVE  SmallTable(next, max)
<1>1. /\ IsFiniteSet(set \ {out})
      /\ Cardinality(set \ {out}) = Cardinality(set) - 1
      /\ Cardinality(set) \in Nat
      /\ Cardinality(set \ {out}) \in Nat
  BY FS_RemoveElement, FS_CardinalityType DEF SmallTable
<1>2. Cardinality(set \ {out}) < max
  BY <1>1 DEF SmallTable
<1> QED
  BY <1>1, <1>2, OneMore

LEMMA TypesStart == Init => TInv
<1> SUFFICES ASSUME Init PROVE TInv
  OBVIOUS
<1>1. Typed
  BY LimitsOK DEF LimitsOK, Init, Typed, User, Roles, Attempt, NoAttempt
<1>2. sessions = {} /\ Entries = {}
  BY DEF Init, Entries, NoAttempt
<1> QED
  BY <1>1, <1>2, FS_EmptySet, LimitsOK DEF LimitsOK, TInv, SmallTable

(* noteLoginFailure: the client has an entry, or gets one with or without  *)
(* an eviction.                                                            *)
LEMMA FailureKeepsTypes ==
  ASSUME TInv, NEW x \in checking, LoginFails(x) PROVE TInv'
<1> DEFINE c == x.client
<1>1. c \in Clients /\ attempts \in [Clients -> Attempt]
  BY DEF TInv, Typed
<1>2. PICK table \in MakeRoom(c) : attempts' = [table EXCEPT ![c] = Failed(@)]
  BY DEF LoginFails
<1>3. NoAttempt \in Attempt
  BY LimitsOK DEF LimitsOK, NoAttempt, Attempt
<1>4. table \in [Clients -> Attempt]
  BY <1>1, <1>2, <1>3 DEF MakeRoom
<1>5. ASSUME NEW a \in Attempt PROVE Failed(a) \in Attempt
  <2>1. PICK old \in Attempt :
          Failed(a) = [old EXCEPT !.failures = old.failures + 1,
                                  !.blocked = IF Blocks(old.failures + 1) THEN Block ELSE @]
    BY <1>3 DEF Failed
  <2>2. old.failures + 1 \in Nat /\ Block \in 0..Block /\ old.blocked \in 0..Block
    BY LimitsOK DEF LimitsOK, Attempt
  <2> QED
    BY <2>1, <2>2 DEF Attempt
<1>6. attempts' \in [Clients -> Attempt]
  BY <1>1, <1>2, <1>4, <1>5
<1>7. \A k \in Clients \ {c} : attempts'[k] = table[k]
  BY <1>2, <1>4
<1>8. SmallTable(Entries', MaxEntries)
  <2>1. CASE c \in Entries \/ Cardinality(Entries) < MaxEntries
    <3>1. Entries' \subseteq Entries \cup {c}
      BY <1>2, <1>7, <2>1 DEF MakeRoom, Entries
    <3>2. CASE c \in Entries
      BY <3>1, <3>2, Smaller, LimitsOK DEF LimitsOK, TInv
    <3>3. CASE Cardinality(Entries) < MaxEntries
      BY <3>1, <3>3, OneMore, LimitsOK DEF LimitsOK, TInv, SmallTable
    <3> QED
      BY <2>1, <3>2, <3>3
  <2>2. CASE ~(c \in Entries \/ Cardinality(Entries) < MaxEntries)
    <3>1. PICK k \in Entries : table = [attempts EXCEPT ![k] = NoAttempt]
      BY <1>2, <2>2 DEF MakeRoom
    <3>2. Entries' \subseteq (Entries \ {k}) \cup {c}
      BY <1>1, <1>7, <3>1 DEF Entries, NoAttempt
    <3> QED
      BY <3>2, Exchange, LimitsOK DEF LimitsOK, TInv
  <2> QED
    BY <2>1, <2>2
<1> QED
  BY <1>6, <1>8 DEF LoginFails, TInv, Typed

LEMMA StoreKeepsTypes ==
  ASSUME TInv, NEW g \in granted, NEW t \in Tokens, LoginStores(g, t) PROVE TInv'
<1>1. [token |-> t, user |-> g.user, left |-> Life] \in Session
  BY LimitsOK DEF LimitsOK, TInv, Typed, Session
<1>2. PICK kept \in Remaining, new \in Session : sessions' = kept \cup {new}
  BY <1>1 DEF LoginStores
<1>3. kept \subseteq sessions
  BY <1>2 DEF Remaining, Live
<1>4. SmallTable(sessions', MaxSessions)
  <2>1. CASE Cardinality(Live) < MaxSessions
    <3>1. IsFiniteSet(Live)
      BY FS_Subset DEF Live, TInv, SmallTable
    <3>2. sessions' \subseteq Live \cup {new}
      BY <1>2, <2>1 DEF Remaining
    <3> QED
      BY <2>1, <3>1, <3>2, OneMore, LimitsOK DEF LimitsOK
  <2>2. CASE ~(Cardinality(Live) < MaxSessions)
    <3>1. PICK s \in Live : kept = Live \ {s}
      BY <1>2, <2>2 DEF Remaining, First
    <3>2. s \in sessions /\ sessions' \subseteq (sessions \ {s}) \cup {new}
      BY <1>2, <3>1 DEF Live
    <3> QED
      BY <3>2, Exchange, LimitsOK DEF LimitsOK, TInv
  <2> QED
    BY <2>1, <2>2
<1>5. Entries' = Entries
  BY DEF LoginStores, Entries
<1> QED
  BY <1>2, <1>3, <1>4, <1>5 DEF LoginStores, TInv, Typed

LEMMA TickKeepsTypes == ASSUME TInv, Tick PROVE TInv'
<1> DEFINE Aged(s) == [s EXCEPT !.left = IF @ = 0 THEN 0 ELSE @ - 1]
           f == [s \in sessions |-> Aged(s)]
<1>1. \A s \in sessions : Aged(s) \in Session
  BY LimitsOK DEF LimitsOK, TInv, Typed, Session
<1>2. sessions' \subseteq Session
  BY <1>1 DEF Tick
<1>3. f \in Surjection(sessions, sessions')
  BY DEF Tick, Surjection
<1>4. IsFiniteSet(sessions') /\ Cardinality(sessions') <= Cardinality(sessions)
  BY <1>3, FS_Surjection DEF TInv, SmallTable
<1>5. SmallTable(sessions', MaxSessions)
  BY <1>4, FS_CardinalityType, LimitsOK DEF LimitsOK, TInv, SmallTable
<1>6. ASSUME NEW c \in Clients PROVE attempts'[c] \in Attempt
  <2>1. attempts[c] \in Attempt
    BY DEF TInv, Typed
  <2>2. /\ 0 \in 0..Block /\ attempts[c].blocked \in 0..Block
        /\ attempts[c].blocked # 0 => attempts[c].blocked - 1 \in 0..Block
        /\ attempts[c].age \in 0..Window
        /\ attempts[c].age # Window => attempts[c].age + 1 \in 0..Window
    BY <2>1, LimitsOK DEF LimitsOK, Attempt
  <2>3. PICK age \in 0..Window, blocked \in 0..Block :
          attempts'[c] = [attempts[c] EXCEPT !.age = age, !.blocked = blocked]
    BY <2>2 DEF Tick
  <2> QED
    BY <2>1, <2>3 DEF Attempt
<1>7. \A c \in Clients : attempts'[c].failures = attempts[c].failures
  BY DEF Tick, TInv, Typed, Attempt
<1>8. Entries' = Entries
  BY <1>7 DEF Entries
<1>9. attempts' \in [Clients -> Attempt]
  BY <1>6 DEF Tick
<1> QED
  BY <1>2, <1>5, <1>8, <1>9 DEF Tick, TInv, Typed

LEMMA TypesStep == TInv /\ [Next]_vars => TInv'
<1> SUFFICES ASSUME TInv, [Next]_vars PROVE TInv'
  OBVIOUS
<1>0. MaxSessions \in Nat /\ MaxEntries \in Nat /\ NoAttempt \in Attempt
  BY LimitsOK DEF LimitsOK, NoAttempt, Attempt
<1>1. ASSUME NEW l \in Logins, NEW c \in Clients, LoginChecked(l, c) PROVE TInv'
  <2>1. Typed'
    BY <1>0, <1>1 DEF LoginChecked, TInv, Typed
  <2>2. Entries' \subseteq Entries
    BY <1>1 DEF LoginChecked, Entries, TInv, Typed, NoAttempt
  <2> QED
    BY <1>0, <1>1, <2>1, <2>2, Smaller DEF LoginChecked, TInv
<1>2. ASSUME NEW x \in checking, LoginFails(x) PROVE TInv'
  BY <1>2, FailureKeepsTypes
<1>3. ASSUME NEW x \in checking, NEW u \in users, LoginSucceeds(x, u) PROVE TInv'
  <2>1. Typed'
    BY <1>0, <1>3 DEF LoginSucceeds, TInv, Typed
  <2>2. Entries' \subseteq Entries
    BY <1>3 DEF LoginSucceeds, Entries, TInv, Typed, NoAttempt
  <2> QED
    BY <1>0, <1>3, <2>1, <2>2, Smaller DEF LoginSucceeds, TInv
<1>4. ASSUME NEW g \in granted, NEW t \in Tokens, LoginStores(g, t) PROVE TInv'
  BY <1>4, StoreKeepsTypes
<1>5. ASSUME NEW s \in sessions, Logout(s) \/ Expires(s) \/ Edit(s) PROVE TInv'
  <2>1. sessions' \subseteq sessions /\ UNCHANGED <<attempts, checking, granted>>
    BY <1>5 DEF Logout, Expires, Edit, AddUser, ChangeUser, RemoveUser, Change, Unrevoked,
                Record
  <2>2. users' \subseteq User
    BY <1>5 DEF Logout, Expires, Edit, AddUser, ChangeUser, RemoveUser, Change, TInv, Typed
  <2>3. author' \in Names \cup {Anonymous}
    BY <1>5 DEF Logout, Expires, Edit, AddUser, ChangeUser, RemoveUser, Change, Record,
                TInv, Typed, Session, User
  <2>4. Entries' = Entries
    BY <2>1 DEF Entries
  <2> QED
    BY <1>0, <2>1, <2>2, <2>3, <2>4, Smaller DEF TInv, Typed
<1>6. CASE Tick
  BY <1>6, TickKeepsTypes
<1>7. CASE UNCHANGED vars
  BY <1>7 DEF vars, TInv, Typed, Entries
<1> QED
  BY <1>1, <1>2, <1>3, <1>4, <1>5, <1>6, <1>7 DEF Next, Login

THEOREM Types == Spec => []TInv
<1> QED
  BY TypesStart, TypesStep, PTL DEF Spec

(* Every variable keeps its type, and the tables their bounds: maxSessions *)
(* and maxLoginEntries hold whoever logs in when.                          *)
THEOREM TypeCorrect == Spec => []TypeOK
<1>1. TInv => TypeOK
  BY DEF TInv, Typed, TypeOK, SmallTable, Attempt
<1> QED
  BY <1>1, Types, PTL

(***************************************************************************)
(* Rights.                                                                 *)
(***************************************************************************)

(* The record a login has found is in force until its session is stored:   *)
(* no edit comes between.                                                  *)
GrantedAreCurrent == \A g \in granted : g.user \in users

IInv == SessionsAreCurrent /\ GrantedAreCurrent /\ AdminRemains

LEMMA Starts == Init => IInv
<1> SUFFICES ASSUME Init PROVE IInv
  OBVIOUS
<1>1. PICK n \in Names, p \in Passwords :
        users = {[name |-> n, role |-> "admin", password |-> p]}
  BY DEF Init
<1> QED
  BY <1>1 DEF Init, IInv, SessionsAreCurrent, GrantedAreCurrent, AdminRemains

(* A login changes no user, and the session it stores is of a user who was *)
(* there when the password was verified.                                   *)
LEMMA LoginStep == ASSUME IInv, Login PROVE IInv'
<1> USE DEF IInv, SessionsAreCurrent, GrantedAreCurrent
<1>1. ASSUME NEW l \in Logins, NEW c \in Clients, LoginChecked(l, c) PROVE IInv'
  BY <1>1 DEF LoginChecked, AdminRemains
<1>2. ASSUME NEW x \in checking, LoginFails(x) PROVE IInv'
  BY <1>2 DEF LoginFails, AdminRemains
<1>3. ASSUME NEW x \in checking, NEW u \in users, LoginSucceeds(x, u) PROVE IInv'
  BY <1>3 DEF LoginSucceeds, AdminRemains
<1>4. ASSUME NEW g \in granted, NEW t \in Tokens, LoginStores(g, t) PROVE IInv'
  <2>1. PICK kept \in Remaining :
          sessions' = kept \cup {[token |-> t, user |-> g.user, left |-> Life]}
    BY <1>4 DEF LoginStores
  <2>2. kept \subseteq sessions
    BY <2>1 DEF Remaining, Live
  <2> QED
    BY <1>4, <2>1, <2>2 DEF LoginStores, AdminRemains
<1> QED
  BY <1>1, <1>2, <1>3, <1>4 DEF Login

(* Who is not the user edited stays as he was, and the sessions that       *)
(* remain are not of the user edited; if the edit is undone, fewer remain. *)
LEMMA EditStep == ASSUME IInv, NEW s \in sessions, Edit(s) PROVE IInv'
<1> USE DEF IInv, SessionsAreCurrent, GrantedAreCurrent
<1>1. ASSUME NEW u \in User, AddUser(s, u) PROVE IInv'
  <2>1. AdminRemains'
    BY <1>1 DEF AddUser, Change, Named, AdminRemains
  <2> QED
    BY <1>1, <2>1 DEF AddUser, Change, Record
<1>2. ASSUME NEW u \in users, NEW v \in User, ChangeUser(s, u, v) PROVE IInv'
  <2>1. \A r \in sessions' : r \in sessions /\ r.user # u
    BY <1>2 DEF ChangeUser, Change, Record, Unrevoked
  <2>2. users' = (users \ {u}) \cup {v} \/ users' = users
    BY <1>2 DEF ChangeUser, Change
  <2>3. AdminRemains'
    <3>1. \E w \in (users \ {u}) \cup {v} : w.role = "admin"
      BY <1>2 DEF ChangeUser, OtherAdmin, AdminRemains
    <3>2. \A w \in users \ {u} : w.name # v.name
      BY <1>2 DEF ChangeUser, Named, AdminRemains
    <3> QED
      BY <2>2, <3>1, <3>2 DEF AdminRemains
  <2> QED
    BY <1>2, <2>1, <2>2, <2>3 DEF ChangeUser, Change
<1>3. ASSUME NEW u \in users, RemoveUser(s, u) PROVE IInv'
  <2>1. \A r \in sessions' : r \in sessions /\ r.user # u
    BY <1>3 DEF RemoveUser, Change, Record, Unrevoked
  <2>2. users' = users \ {u} \/ users' = users
    BY <1>3 DEF RemoveUser, Change
  <2>3. AdminRemains'
    BY <1>3, <2>2 DEF RemoveUser, OtherAdmin, AdminRemains
  <2> QED
    BY <1>3, <2>1, <2>2, <2>3 DEF RemoveUser, Change
<1> QED
  BY <1>1, <1>2, <1>3 DEF Edit

LEMMA Steps == Typed /\ IInv /\ [Next]_vars => IInv'
<1> SUFFICES ASSUME Typed, IInv, [Next]_vars PROVE IInv'
  OBVIOUS
<1> USE DEF IInv, SessionsAreCurrent, GrantedAreCurrent, AdminRemains
<1>1. CASE Login
  BY <1>1, LoginStep
<1>2. ASSUME NEW s \in sessions, Logout(s) PROVE IInv'
  BY <1>2 DEF Logout
<1>3. ASSUME NEW s \in sessions, Expires(s) PROVE IInv'
  BY <1>3 DEF Expires
<1>4. ASSUME NEW s \in sessions, Edit(s) PROVE IInv'
  BY <1>4, EditStep
<1>5. CASE Tick
  <2>1. \A s \in sessions' : \E r \in sessions : s.user = r.user
    BY <1>5 DEF Tick, Typed, Session
  <2> QED
    BY <1>5, <2>1 DEF Tick
<1>6. CASE UNCHANGED vars
  BY <1>6 DEF vars
<1> QED
  BY <1>1, <1>2, <1>3, <1>4, <1>5, <1>6 DEF Next

THEOREM Invariance == Spec => []IInv
<1>1. TInv => Typed
  BY DEF TInv
<1> QED
  BY <1>1, Starts, Steps, Types, PTL DEF Spec

(* Every session is of a user as he is now (handleUsers, handleLogin and   *)
(* the locks of configGuard).                                              *)
THEOREM RightsAreCurrent == Spec => []SessionsAreCurrent
<1>1. IInv => SessionsAreCurrent
  BY DEF IInv
<1> QED
  BY <1>1, Invariance, PTL

(* Some administrator remains, and names stay unique (handleUsers).        *)
THEOREM PanelIsAdministered == Spec => []AdminRemains
<1>1. IInv => AdminRemains
  BY DEF IInv
<1> QED
  BY <1>1, Invariance, PTL

(* Only a logged-in administrator changes the users, and the audit log     *)
(* names him unless his session has ended: requireAuth judges by the role  *)
(* in the session, which is the one of the users.                          *)
THEOREM EditsAreAuthorized == Spec => OnlyAdminsEdit
<1>1. ASSUME IInv, [Next]_vars, users' # users
      PROVE  \E s \in sessions :
               /\ s.left > 0 /\ s.user \in users /\ s.user.role = "admin"
               /\ author' = s.user.name \/ (author' = Anonymous /\ s \notin sessions')
  <2>1. PICK s \in sessions : Edit(s)
    BY <1>1 DEF Next, Login, LoginChecked, LoginFails, LoginSucceeds, LoginStores, Logout,
        Expires, Tick, vars
  <2>2. PICK edited, kept : Change(s, edited, kept)
    BY <2>1 DEF Edit, AddUser, ChangeUser, RemoveUser
  <2>3. Authorized(s) /\ Record(s, kept)
    BY <1>1, <2>2 DEF Change
  <2> QED
    BY <1>1, <2>3 DEF Record, Authorized, Live, IInv, SessionsAreCurrent
<1>2. IInv /\ [Next]_vars => 
        [users' # users =>
           \E s \in sessions :
             /\ s.left > 0 /\ s.user \in users /\ s.user.role = "admin"
             /\ author' = s.user.name \/ (author' = Anonymous /\ s \notin sessions')]_vars
  BY <1>1
<1> QED
  BY <1>2, Invariance, PTL DEF Spec, OnlyAdminsEdit

(* A live session makes way only for a full table of live ones             *)
(* (handleLogin).                                                          *)
THEOREM LiveSessionsMakeWayLast == Spec => LiveSessionsKept
<1>1. ASSUME TInv, [Next]_vars, NEW g \in granted \ granted', NEW s \in Live \ sessions'
      PROVE  Cardinality(Live) >= MaxSessions /\ \A o \in Live : s.left <= o.left
  <2>1. PICK h \in granted, t \in Tokens : LoginStores(h, t)
    BY <1>1 DEF Next, Login, LoginChecked, LoginFails, LoginSucceeds, Logout, Expires,
        Tick, Edit, AddUser, ChangeUser, RemoveUser, Change, vars
  <2>2. PICK kept \in Remaining : kept \subseteq sessions'
    BY <2>1 DEF LoginStores
  <2>3. ~(Cardinality(Live) < MaxSessions)
    BY <1>1, <2>2 DEF Remaining
  <2>4. PICK r \in First(Live) : kept = Live \ {r}
    BY <2>2, <2>3 DEF Remaining
  <2>5. s = r
    BY <1>1, <2>2, <2>4
  <2>6. Cardinality(Live) \in Nat
    BY <1>1, FS_Subset, FS_CardinalityType DEF Live, TInv, SmallTable
  <2> QED
    BY <2>3, <2>4, <2>5, <2>6, LimitsOK DEF LimitsOK, First
<1>2. TInv /\ [Next]_vars =>
        [\A g \in granted \ granted', s \in Live \ sessions' :
           Cardinality(Live) >= MaxSessions /\ \A o \in Live : s.left <= o.left]_vars
  BY <1>1
<1> QED
  BY <1>2, Types, PTL DEF Spec, LiveSessionsKept

(***************************************************************************)
(* The guesses of a client.  A block lets pass only what was checked       *)
(* before it: at most one login of each goroutine.  So the failures beyond *)
(* the limit come in rounds of that many, and each round but the last has  *)
(* waited for a block to end.                                              *)
(***************************************************************************)

Overlap == Cardinality(Logins)

Underway(c) == {x \in checking : x.client = c}

OneEach == \A x, y \in checking : x.login = y.login => x = y

(* n failures need no more rounds than there were blocks in t ticks. *)
Rounds(n, t) == \E k \in Nat : k * Block <= t /\ n < MaxFailures + Overlap * k

(* While a block lasts, the logins underway may fail in its round. *)
Guessed(a, underway) ==
  a.failures >= MaxFailures =>
    /\ Rounds(a.failures, a.age + Block)
    /\ a.age < Window /\ a.blocked = 0 => Rounds(a.failures, a.age)
    /\ a.age < Window /\ a.blocked > 0 =>
         Rounds(a.failures + underway, a.age + a.blocked)

ClientGuessed(c) == Guessed(attempts[c], Cardinality(Underway(c)))

GInv == OneEach /\ \A c \in Clients : ClientGuessed(c)

LEMMA RoundsWeaken ==
  ASSUME NEW n \in Nat, NEW t \in Nat, Rounds(n, t), IsFiniteSet(Logins),
         NEW m \in Nat, m <= n, NEW u \in Nat, t <= u
  PROVE  Rounds(m, u)
<1>1. PICK k \in Nat : k * Block <= t /\ n < MaxFailures + Overlap * k
  BY DEF Rounds
<1>2. Overlap \in Nat
  BY FS_CardinalityType DEF Overlap
<1>3. k * Block \in Nat /\ Overlap * k \in Nat /\ MaxFailures \in Nat
  BY <1>2, LimitsOK DEF LimitsOK
<1>4. k * Block <= u /\ m < MaxFailures + Overlap * k
  BY <1>1, <1>3
<1> QED
  BY <1>4 DEF Rounds

LEMMA AnotherRound ==
  ASSUME NEW n \in Nat, NEW t \in Nat, Rounds(n, t), IsFiniteSet(Logins)
  PROVE  Rounds(n + Overlap, t + Block)
<1>1. PICK k \in Nat : k * Block <= t /\ n < MaxFailures + Overlap * k
  BY DEF Rounds
<1>2. Overlap \in Nat /\ Block \in Nat /\ MaxFailures \in Nat
  BY FS_CardinalityType, LimitsOK DEF Overlap, LimitsOK
<1>3. (k + 1) * Block = k * Block + Block /\ Overlap * (k + 1) = Overlap * k + Overlap
  BY <1>2
<1>4. k * Block \in Nat /\ Overlap * k \in Nat
  BY <1>2
<1>5. (k + 1) * Block <= t + Block /\ n + Overlap < MaxFailures + Overlap * (k + 1)
  BY <1>1, <1>2, <1>3, <1>4
<1> QED
  BY <1>5 DEF Rounds

LEMMA FirstRound ==
  ASSUME NEW n \in Nat, IsFiniteSet(Logins), n < MaxFailures + Overlap,
         NEW t \in Nat
  PROVE  Rounds(n, t + Block)
<1>1. Overlap \in Nat /\ Block \in Nat
  BY FS_CardinalityType, LimitsOK DEF Overlap, LimitsOK
<1>2. 1 * Block <= t + Block /\ n < MaxFailures + Overlap * 1
  BY <1>1
<1> QED
  BY <1>2 DEF Rounds

LEMMA RoundsBound ==
  ASSUME NEW n \in Nat, NEW t \in Nat, Rounds(n, t + Block), IsFiniteSet(Logins)
  PROVE  n < MaxFailures + Overlap * (1 + t \div Block)
<1> DEFINE q == t \div Block
<1>1. PICK k \in Nat : k * Block <= t + Block /\ n < MaxFailures + Overlap * k
  BY DEF Rounds
<1>2. Overlap \in Nat /\ Block \in Nat \ {0} /\ MaxFailures \in Nat
  BY FS_CardinalityType, LimitsOK DEF Overlap, LimitsOK
<1>3. q \in Nat /\ t < (q + 1) * Block
  BY <1>2
<1> HIDE DEF q
<1>4. k <= q + 1
  <2>1. SUFFICES ASSUME k >= q + 2 PROVE FALSE
    BY <1>3
  <2>2. (q + 2) * Block <= k * Block
    BY <1>2, <1>3, <2>1
  <2>3. (q + 2) * Block = (q + 1) * Block + Block
    BY <1>2, <1>3
  <2> QED
    BY <1>1, <1>2, <1>3, <2>2, <2>3
<1>5. Overlap * k <= Overlap * (1 + q)
  BY <1>2, <1>3, <1>4
<1>6. Overlap * k \in Nat /\ Overlap * (1 + q) \in Nat
  BY <1>2, <1>3
<1>7. n < MaxFailures + Overlap * (1 + q)
  BY <1>1, <1>2, <1>5, <1>6
<1> QED
  BY <1>7 DEF q

(* The logins underway for a client are of different goroutines.           *)
LEMMA UnderwayCounted ==
  ASSUME Typed, OneEach, IsFiniteSet(Logins), NEW c \in Clients
  PROVE  /\ IsFiniteSet(Underway(c))
         /\ Cardinality(Underway(c)) \in Nat
         /\ Cardinality(Underway(c)) <= Overlap
         /\ Overlap \in Nat
<1> DEFINE f == [x \in Underway(c) |-> x.login]
<1>1. f \in Injection(Underway(c), Logins)
  BY DEF Underway, Injection, IsInjective, OneEach, Typed
<1>2. IsFiniteSet(Underway(c)) /\ Cardinality(Underway(c)) <= Overlap
  BY <1>1, FS_Injection DEF Overlap
<1> QED
  BY <1>2, FS_CardinalityType DEF Overlap

LEMMA GuessesStart == Init => GInv
<1> SUFFICES ASSUME Init PROVE GInv
  OBVIOUS
<1>1. \A c \in Clients : attempts[c].failures = 0
  BY DEF Init, NoAttempt
<1> QED
  BY <1>1, LimitsOK DEF LimitsOK, Init, GInv, OneEach, ClientGuessed, Guessed

(* A client that is forgotten has nothing to account for. *)
LEMMA Forgotten == ASSUME NEW n PROVE Guessed(NoAttempt, n)
  BY LimitsOK DEF LimitsOK, Guessed, NoAttempt

(* One more failure: it was underway when the block began, or there is no  *)
(* block and it begins one, with a round of its own.                       *)
LEMMA FailureGuessed ==
  ASSUME IsFiniteSet(Logins), NEW a \in Attempt,
         NEW n \in Nat, n >= 1, n <= Overlap, Overlap \in Nat, Guessed(a, n)
  PROVE  Guessed(Failed(a), n - 1)
<1> DEFINE b == Failed(a)
<1>0. MaxFailures \in Nat \ {0} /\ Block \in Nat \ {0} /\ Window \in Nat \ {0}
  BY LimitsOK DEF LimitsOK
<1>1. a.failures \in Nat /\ a.age \in Nat /\ a.age <= Window
      /\ a.blocked \in Nat /\ a.blocked <= Block
  BY <1>0 DEF Attempt
<1>2. PICK old \in {a, NoAttempt} :
        /\ old = a => a.failures = 0 \/ a.age < Window
        /\ b = [old EXCEPT !.failures = old.failures + 1,
                           !.blocked = IF Blocks(old.failures + 1) THEN Block ELSE @]
  <2>1. CASE a.failures = 0 \/ a.age >= Window
    <3>1. b = [NoAttempt EXCEPT !.failures = NoAttempt.failures + 1,
                                !.blocked = IF Blocks(NoAttempt.failures + 1)
                                            THEN Block ELSE @]
      BY <2>1 DEF Failed
    <3>2. NoAttempt = a => a.failures = 0
      BY DEF NoAttempt
    <3> QED
      BY <3>1, <3>2
  <2>2. CASE ~(a.failures = 0 \/ a.age >= Window)
    <3>1. b = [a EXCEPT !.failures = a.failures + 1,
                        !.blocked = IF Blocks(a.failures + 1) THEN Block ELSE @]
      BY <2>2 DEF Failed
    <3>2. a.failures = 0 \/ a.age < Window
      BY <1>0, <1>1, <2>2
    <3> QED
      BY <3>1, <3>2
  <2> QED
    BY <2>1, <2>2
<1>3. old \in Attempt
  BY <1>0, <1>2 DEF Attempt, NoAttempt
<1>4. b.failures = old.failures + 1 /\ b.age = old.age
  BY <1>2, <1>3 DEF Attempt
<1>5. SUFFICES ASSUME b.failures >= MaxFailures PROVE Guessed(b, n - 1)
  BY DEF Guessed
<1>6. b.blocked = Block
  BY <1>2, <1>3, <1>4, <1>5 DEF Attempt, Blocks
<1>7. old.failures \in Nat /\ old.age \in Nat
  BY <1>0, <1>3 DEF Attempt
<1>8. Rounds(old.failures + n, old.age + Block)
  <2>1. CASE old.failures < MaxFailures
    <3>1. old.failures + n < MaxFailures + Overlap
      BY <1>0, <1>7, <2>1
    <3> QED
      BY <1>7, <3>1, FirstRound
  <2>2. CASE old.failures >= MaxFailures
    <3>1. old = a /\ a.age < Window
      BY <1>0, <1>1, <1>2, <2>2 DEF NoAttempt
    <3>2. CASE a.blocked = 0
      <4>1. Rounds(a.failures, a.age)
        BY <2>2, <3>1, <3>2 DEF Guessed
      <4>2. Rounds(a.failures + Overlap, a.age + Block)
        BY <1>1, <4>1, AnotherRound
      <4> QED
        BY <1>0, <1>1, <3>1, <4>2, RoundsWeaken
    <3>3. CASE a.blocked > 0
      <4>1. Rounds(a.failures + n, a.age + a.blocked)
        BY <2>2, <3>1, <3>3 DEF Guessed
      <4> QED
        BY <1>0, <1>1, <3>1, <4>1, RoundsWeaken
    <3> QED
      BY <1>1, <3>2, <3>3
  <2> QED
    BY <1>0, <1>7, <2>1, <2>2
<1>9. Rounds(b.failures + (n - 1), b.age + b.blocked)
  BY <1>4, <1>6, <1>7, <1>8
<1>10. Rounds(b.failures, b.age + Block)
  BY <1>0, <1>4, <1>7, <1>8, RoundsWeaken
<1> QED
  BY <1>0, <1>6, <1>9, <1>10 DEF Guessed

(* A tick: what is left of the block and what has passed of the window add *)
(* up to the same, and after the block the logins underway are new ones.   *)
LEMMA TickGuessed ==
  ASSUME IsFiniteSet(Logins), NEW a \in Attempt, NEW n \in Nat, Guessed(a, n),
         NEW b \in Attempt, b.failures = a.failures,
         b.age = IF a.failures = 0 \/ a.age = Window THEN a.age ELSE a.age + 1,
         b.blocked = IF a.blocked = 0 THEN 0 ELSE a.blocked - 1
  PROVE  Guessed(b, n)
<1>0. MaxFailures \in Nat \ {0} /\ Block \in Nat \ {0} /\ Window \in Nat \ {0}
  BY LimitsOK DEF LimitsOK
<1>1. a.failures \in Nat /\ a.age \in Nat /\ a.age <= Window /\ a.blocked \in Nat
  BY <1>0 DEF Attempt
<1>2. SUFFICES ASSUME a.failures >= MaxFailures PROVE Guessed(b, n)
  BY DEF Guessed
<1>3. b.age \in Nat /\ a.age <= b.age /\ b.blocked \in Nat
  BY <1>0, <1>1
<1>4. Rounds(b.failures, b.age + Block)
  <2>1. Rounds(a.failures, a.age + Block)
    BY <1>2 DEF Guessed
  <2> QED
    BY <1>0, <1>1, <1>3, <2>1, RoundsWeaken
<1>5. ASSUME b.age < Window
      PROVE  a.age < Window /\ b.age = a.age + 1
  BY <1>0, <1>1, <1>2, <1>5
<1>6. ASSUME b.age < Window, b.blocked = 0
      PROVE  Rounds(b.failures, b.age)
  <2>1. CASE a.blocked = 0
    <3>1. Rounds(a.failures, a.age)
      BY <1>2, <1>5, <1>6, <2>1 DEF Guessed
    <3> QED
      BY <1>1, <1>3, <3>1, RoundsWeaken
  <2>2. CASE a.blocked # 0
    <3>1. Rounds(a.failures + n, a.age + a.blocked)
      BY <1>1, <1>2, <1>5, <1>6, <2>2 DEF Guessed
    <3>2. a.age + a.blocked = b.age
      BY <1>1, <1>5, <1>6, <2>2
    <3> QED
      BY <1>1, <1>3, <3>1, <3>2, RoundsWeaken
  <2> QED
    BY <2>1, <2>2
<1>7. ASSUME b.age < Window, b.blocked > 0
      PROVE  Rounds(b.failures + n, b.age + b.blocked)
  <2>1. a.blocked > 0 /\ a.age + a.blocked = b.age + b.blocked
    BY <1>1, <1>5, <1>7
  <2>2. Rounds(a.failures + n, a.age + a.blocked)
    BY <1>2, <1>5, <1>7, <2>1 DEF Guessed
  <2> QED
    BY <2>1, <2>2
<1> QED
  BY <1>4, <1>6, <1>7 DEF Guessed

(* A step that leaves the logins underway as they are, and forgets some    *)
(* clients or none.                                                        *)
LEMMA GuessesKept ==
  ASSUME GInv, UNCHANGED checking,
         \A c \in Clients : attempts'[c] \in {attempts[c], NoAttempt}
  PROVE  GInv'
<1>1. OneEach'
  BY DEF GInv, OneEach
<1>2. ASSUME NEW c \in Clients PROVE ClientGuessed(c)'
  <2>1. Underway(c)' = Underway(c)
    BY DEF Underway
  <2> QED
    BY <2>1, Forgotten DEF GInv, ClientGuessed
<1> QED
  BY <1>1, <1>2 DEF GInv

LEMMA CheckedGuesses ==
  ASSUME Typed, GInv, NEW l \in Logins, NEW c \in Clients, LoginChecked(l, c)
  PROVE  GInv'
<1>0. attempts \in [Clients -> Attempt] /\ MaxFailures \in Nat \ {0} /\ Window \in Nat
  BY LimitsOK DEF LimitsOK, Typed
<1>1. OneEach'
  BY DEF LoginChecked, Idle, GInv, OneEach
<1>2. ASSUME NEW k \in Clients \ {c} PROVE ClientGuessed(k)'
  <2>1. Underway(k)' = Underway(k)
    BY DEF LoginChecked, Underway
  <2>2. attempts'[k] = attempts[k]
    BY <1>0 DEF LoginChecked
  <2> QED
    BY <2>1, <2>2 DEF GInv, ClientGuessed
<1>3. ClientGuessed(c)'
  <2>1. CASE Stale(c)
    <3>1. attempts'[c] = NoAttempt
      BY <1>0, <2>1 DEF LoginChecked
    <3> QED
      BY <3>1, Forgotten DEF ClientGuessed
  <2>2. CASE ~Stale(c)
    <3>1. attempts' = attempts /\ attempts[c].blocked = 0
      BY <2>2 DEF LoginChecked
    <3>2. Guessed(attempts[c], Cardinality(Underway(c)))
      BY DEF GInv, ClientGuessed
    <3>3. Guessed(attempts[c], Cardinality(Underway(c)'))
      BY <3>1, <3>2 DEF Guessed
    <3> QED
      BY <3>1, <3>3 DEF ClientGuessed
  <2> QED
    BY <2>1, <2>2
<1> QED
  BY <1>1, <1>2, <1>3 DEF GInv

LEMMA FailureGuesses ==
  ASSUME Typed, GInv, IsFiniteSet(Logins), NEW x \in checking, LoginFails(x)
  PROVE  GInv'
<1> DEFINE c == x.client
           n == Cardinality(Underway(c))
<1>0. attempts \in [Clients -> Attempt] /\ c \in Clients
  BY DEF Typed
<1>1. PICK table \in MakeRoom(c) : attempts' = [table EXCEPT ![c] = Failed(@)]
  BY DEF LoginFails
<1>2. /\ table \in [Clients -> Attempt \cup {NoAttempt}]
      /\ table[c] = attempts[c]
      /\ \A k \in Clients : table[k] \in {attempts[k], NoAttempt}
  BY <1>0, <1>1 DEF MakeRoom
<1>3. checking' = checking \ {x}
  BY DEF LoginFails
<1>4. OneEach'
  BY <1>3 DEF GInv, OneEach
<1>5. ASSUME NEW k \in Clients \ {c} PROVE ClientGuessed(k)'
  <2>1. Underway(k)' = Underway(k)
    BY <1>3 DEF Underway
  <2>2. attempts'[k] \in {attempts[k], NoAttempt}
    BY <1>1, <1>2
  <2> QED
    BY <2>1, <2>2, Forgotten DEF GInv, ClientGuessed
<1>6. ClientGuessed(c)'
  <2>1. Underway(c)' = Underway(c) \ {x} /\ x \in Underway(c)
    BY <1>3 DEF Underway
  <2>2. IsFiniteSet(Underway(c)) /\ n \in Nat /\ n <= Overlap /\ Overlap \in Nat
    BY <1>0, UnderwayCounted DEF GInv
  <2>3. Cardinality(Underway(c)') = n - 1 /\ Cardinality(Underway(c)') \in Nat
    BY <2>1, <2>2, FS_RemoveElement, FS_CardinalityType
  <2>4. n >= 1
    BY <2>2, <2>3
  <2>5. attempts'[c] = Failed(attempts[c])
    BY <1>0, <1>1, <1>2
  <2>6. attempts[c] \in Attempt /\ Guessed(attempts[c], n)
    BY <1>0 DEF GInv, ClientGuessed
  <2>7. Guessed(Failed(attempts[c]), n - 1)
    BY <2>2, <2>4, <2>6, FailureGuessed
  <2> QED
    BY <2>3, <2>5, <2>7 DEF ClientGuessed
<1> QED
  BY <1>4, <1>5, <1>6 DEF GInv

LEMMA SuccessGuesses ==
  ASSUME Typed, GInv, NEW x \in checking, NEW u \in users, LoginSucceeds(x, u)
  PROVE  GInv'
<1>0. attempts \in [Clients -> Attempt] /\ x.client \in Clients
  BY DEF Typed
<1>1. checking' = checking \ {x} /\ attempts' = [attempts EXCEPT ![x.client] = NoAttempt]
  BY DEF LoginSucceeds
<1>2. OneEach'
  BY <1>1 DEF GInv, OneEach
<1>3. ASSUME NEW k \in Clients \ {x.client} PROVE ClientGuessed(k)'
  <2>1. Underway(k)' = Underway(k) /\ attempts'[k] = attempts[k]
    BY <1>0, <1>1 DEF Underway
  <2> QED
    BY <2>1 DEF GInv, ClientGuessed
<1>4. ClientGuessed(x.client)'
  <2>1. attempts'[x.client] = NoAttempt
    BY <1>0, <1>1
  <2> QED
    BY <2>1, Forgotten DEF ClientGuessed
<1> QED
  BY <1>2, <1>3, <1>4 DEF GInv

LEMMA TickGuesses ==
  ASSUME TInv, TInv', GInv, IsFiniteSet(Logins), Tick PROVE GInv'
<1>1. OneEach'
  BY DEF Tick, GInv, OneEach
<1>2. ASSUME NEW c \in Clients PROVE ClientGuessed(c)'
  <2> DEFINE a == attempts[c]
             b == attempts'[c]
  <2>1. a \in Attempt /\ b \in Attempt
    BY DEF TInv, Typed
  <2>2. b = [a EXCEPT !.age = IF a.failures = 0 \/ @ = Window THEN @ ELSE @ + 1,
                      !.blocked = IF @ = 0 THEN 0 ELSE @ - 1]
    BY DEF Tick
  <2>3. /\ b.failures = a.failures
        /\ b.age = IF a.failures = 0 \/ a.age = Window THEN a.age ELSE a.age + 1
        /\ b.blocked = IF a.blocked = 0 THEN 0 ELSE a.blocked - 1
    BY <2>1, <2>2 DEF Attempt
  <2>4. Underway(c)' = Underway(c)
    BY DEF Tick, Underway
  <2>5. Cardinality(Underway(c)) \in Nat /\ Guessed(a, Cardinality(Underway(c)))
    BY UnderwayCounted DEF TInv, GInv, ClientGuessed
  <2>6. Guessed(b, Cardinality(Underway(c)))
    BY <2>1, <2>3, <2>5, TickGuessed
  <2> QED
    BY <2>4, <2>6 DEF ClientGuessed
<1> QED
  BY <1>1, <1>2 DEF GInv

LEMMA GuessesStep ==
  ASSUME IsFiniteSet(Logins), TInv, TInv', GInv, [Next]_vars PROVE GInv'
<1>0. Typed
  BY DEF TInv
<1>1. ASSUME NEW l \in Logins, NEW c \in Clients, LoginChecked(l, c) PROVE GInv'
  BY <1>0, <1>1, CheckedGuesses
<1>2. ASSUME NEW x \in checking, LoginFails(x) PROVE GInv'
  BY <1>0, <1>2, FailureGuesses
<1>3. ASSUME NEW x \in checking, NEW u \in users, LoginSucceeds(x, u) PROVE GInv'
  BY <1>0, <1>3, SuccessGuesses
<1>4. ASSUME NEW g \in granted, NEW t \in Tokens, LoginStores(g, t) PROVE GInv'
  BY <1>4, GuessesKept DEF LoginStores
<1>5. ASSUME NEW s \in sessions, Logout(s) \/ Expires(s) \/ Edit(s) PROVE GInv'
  <2>1. UNCHANGED <<attempts, checking>>
    BY <1>5 DEF Logout, Expires, Edit, AddUser, ChangeUser, RemoveUser, Change
  <2> QED
    BY <2>1, GuessesKept
<1>6. CASE Tick
  BY <1>6, TickGuesses
<1>7. CASE UNCHANGED vars
  BY <1>7, GuessesKept DEF vars
<1> QED
  BY <1>1, <1>2, <1>3, <1>4, <1>5, <1>6, <1>7 DEF Next, Login

(* A client gets no more wrong guesses than the limit and one round of     *)
(* overlapping logins for each block, however they overlap (loginAllowed   *)
(* and noteLoginFailure take loginMu one after the other).                 *)
THEOREM ThrottleHolds ==
  ASSUME IsFiniteSet(Logins) PROVE Spec => []GuessesBounded
<1>1. TInv /\ GInv => GuessesBounded
  <2> SUFFICES ASSUME TInv, GInv, NEW c \in Clients
               PROVE  attempts[c].failures <
                        MaxFailures + Overlap * (1 + attempts[c].age \div Block)
    BY DEF GuessesBounded, Overlap
  <2>0. MaxFailures \in Nat \ {0} /\ Block \in Nat \ {0} /\ Window \in Nat /\ Overlap \in Nat
    BY LimitsOK, FS_CardinalityType DEF LimitsOK, Overlap
  <2>1. attempts[c].failures \in Nat /\ attempts[c].age \in Nat
    BY <2>0 DEF TInv, Typed, Attempt
  <2>2. CASE attempts[c].failures >= MaxFailures
    <3>1. Rounds(attempts[c].failures, attempts[c].age + Block)
      BY <2>2 DEF GInv, ClientGuessed, Guessed
    <3> QED
      BY <2>1, <3>1, RoundsBound
  <2>3. CASE attempts[c].failures < MaxFailures
    <3>1. attempts[c].age \div Block \in Nat
      BY <2>0, <2>1
    <3>2. Overlap * (1 + attempts[c].age \div Block) \in Nat
      BY <2>0, <3>1
    <3> QED
      BY <2>0, <2>1, <2>3, <3>2
  <2> QED
    BY <2>0, <2>1, <2>2, <2>3
<1>2. TInv /\ TInv' /\ GInv /\ [Next]_vars => GInv'
  BY GuessesStep
<1>3. Spec => []GInv
  BY <1>2, GuessesStart, Types, PTL DEF Spec
<1> QED
  BY <1>1, <1>3, Types, PTL
=============================================================================
