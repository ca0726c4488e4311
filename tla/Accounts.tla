------------------------------- MODULE Accounts -------------------------------
(***************************************************************************)
(* Accounts and their tokens: server/http/auth_handler.go, user_handler.go,*)
(* internal/user/user.go, internal/auth/token.go and middleware.go.        *)
(*                                                                         *)
(* A request is a goroutine; its steps are its calls to the database, to   *)
(* Redis and to the clock.  A token is what it is signed over, a user and  *)
(* the second it expires: two logins of a user in one second get the same  *)
(* string.  The database refuses a second row with an e-mail (the unique   *)
(* index of user.go:23); a row is read and saved whole, except for the     *)
(* login's time.  The blacklist is a Redis key per token with a time to    *)
(* live, counted from when Redis sets it.                                  *)
(*                                                                         *)
(* Left out: requests that fail to bind or validate, forged and malformed  *)
(* tokens, failures of database and Redis (all answered with an error      *)
(* before anything is stored), roles, and the profile's image.             *)
(***************************************************************************)
EXTENDS Integers, FiniteSets

CONSTANTS
  Users,          \* e-mail addresses, and the users that sign up with them
  Passwords, Nicknames,
  Requests,       \* goroutines that serve HTTP requests
  Validity,       \* how long a token is valid: 24 hours
  MaxTime,        \* bounds the clock
  MaxLogins,      \* bounds the tokens that are issued
  NoRow, NoUser, NoToken

ASSUME TimesAssumption == Validity \in Nat \ {0} /\ MaxTime \in Nat /\ MaxLogins \in Nat

Time   == 0 .. MaxTime
Row    == [password : Passwords, nickname : Nicknames, lastLogin : Time]
Tokens == [user : Users, exp : 0 .. MaxTime + Validity]

ASSUME NonesAssumption == NoUser \notin Users /\ NoRow \notin Row

VARIABLES
  row,          \* the table of users
  blacklist,    \* until when Redis keeps the key of a token; 0 if never set
  issued,       \* tokens that clients hold
  logins,       \* how many were issued
  now,
  pc, local,    \* where each request is, and what it has read
  created,      \* history: sign-ups that were answered with success
  loggedOut,    \* history: tokens whose logout was answered with success
  holders       \* history: requests that have held their copy of a row since
                \*   before its password was last stored

db      == <<row, blacklist>>
clients == <<issued, logins>>
history == <<created, loggedOut, holders>>
vars    == <<db, clients, now, pc, local, history>>

\* What a request has in hand: its user, the row it read and the one it stores.
Serving(u, copy, new) == [user |-> u, token |-> NoToken, copy |-> copy, row |-> new, ttl |-> 0]

NoLocal == Serving(NoUser, NoRow, NoRow)

Init ==
  /\ row = [u \in Users |-> NoRow]
  /\ blacklist = [t \in Tokens |-> 0]
  /\ issued = {} /\ logins = 0 /\ now = 0
  /\ pc = [i \in Requests |-> "idle"] /\ local = [i \in Requests |-> NoLocal]
  /\ created = [u \in Users |-> 0] /\ loggedOut = {}
  /\ holders = [u \in Users |-> {}]

-----------------------------------------------------------------------------
Goto(i, step, l) ==
  /\ pc' = [pc EXCEPT ![i] = step]
  /\ local' = [local EXCEPT ![i] = l]

Answer(i) == Goto(i, "idle", NoLocal)

\* The requests that hold a copy of u's row.
Holding(u) == { i \in Requests : local[i].user = u /\ local[i].copy # NoRow }

\* A row goes to the table; who still holds an older copy is remembered.
Store(i, u, r) ==
  /\ row' = [row EXCEPT ![u] = r]
  /\ holders' = IF row[u] # NoRow /\ row[u].password = r.password THEN holders
                ELSE [holders EXCEPT ![u] = Holding(u) \ {i}]

\* SignUp: FindUserByEmail; only an unknown address goes on.
SignUp(i, u, p, n) ==
  /\ pc[i] = "idle" /\ row[u] = NoRow
  /\ Goto(i, "create",
          Serving(u, NoRow, [password |-> p, nickname |-> n, lastLogin |-> 0]))
  /\ UNCHANGED <<db, clients, now, history>>

\* Mutant: the database has no unique index.
CreateAnyway(i) ==
  LET u == local[i].user
  IN  /\ pc[i] = "create"
      /\ Answer(i)
      /\ Store(i, u, local[i].row)
      /\ created' = [created EXCEPT ![u] = @ + 1]
      /\ UNCHANGED <<blacklist, clients, now, loggedOut>>

\* SignUp: Create, which fails if another sign-up was faster.
Create(i) ==
  LET u == local[i].user
  IN  /\ pc[i] = "create"
      /\ Answer(i)
      /\ \/ /\ row[u] = NoRow
            /\ Store(i, u, local[i].row)
            /\ created' = [created EXCEPT ![u] = @ + 1]
         \/ row[u] # NoRow /\ UNCHANGED <<row, created, holders>>
      /\ UNCHANGED <<blacklist, clients, now, loggedOut>>

\* Login: FindUserByEmail and the password's check, which the client passes.
Login(i, u) ==
  /\ pc[i] = "idle" /\ row[u] # NoRow /\ logins < MaxLogins
  /\ logins' = logins + 1
  /\ Goto(i, "touch", Serving(u, row[u], NoRow))
  /\ UNCHANGED <<db, issued, now, history>>

\* Mutant: the row that was read is saved whole.
SaveLastLoginAt(i) ==
  /\ pc[i] = "touch"
  /\ row' = [row EXCEPT ![local[i].user] = [local[i].copy EXCEPT !.lastLogin = now]]
  /\ Goto(i, "issue", local[i])
  /\ UNCHANGED <<blacklist, clients, now, history>>

\* Login: UpdateLastLoginAt, an update of one column.
UpdateLastLoginAt(i) ==
  /\ pc[i] = "touch"
  /\ row' = [row EXCEPT ![local[i].user].lastLogin = now]
  /\ Goto(i, "issue", local[i])
  /\ UNCHANGED <<blacklist, clients, now, history>>

\* Login: GenerateJWT.
GenerateJWT(i) ==
  /\ pc[i] = "issue"
  /\ issued' = issued \cup {[user |-> local[i].user, exp |-> now + Validity]}
  /\ Answer(i)
  /\ UNCHANGED <<db, logins, now, history>>

-----------------------------------------------------------------------------
\* jwt.Parse (golang-jwt v3.2.2, go.mod:9) takes a token up to and with the
\* second it expires.
IsValid(t) == now <= t.exp

\* JWTMiddleware: the token is parsed; an expired one is refused.
Parse(i, t) ==
  /\ pc[i] = "idle" /\ t \in issued
  /\ \/ /\ IsValid(t)
        /\ Goto(i, "blacklist", [Serving(t.user, NoRow, NoRow) EXCEPT !.token = t])
     \/ ~IsValid(t) /\ Answer(i)
  /\ UNCHANGED <<db, clients, now, history>>

IsTokenBlacklisted(t) == now < blacklist[t]

\* JWTMiddleware: then Redis is asked whether it is logged out.
CheckBlacklist(i) ==
  /\ pc[i] = "blacklist"
  /\ \/ IsTokenBlacklisted(local[i].token) /\ Answer(i)
     \/ ~IsTokenBlacklisted(local[i].token) /\ Goto(i, "handle", local[i])
  /\ UNCHANGED <<db, clients, now, history>>

\* Mutant: the remaining time is one unit short.
RemainingTooShort(t) == t.exp - now - 1

\* GetTokenRemainingValidity, of a token that is parsed once more.
GetTokenRemainingValidity(t) == t.exp - now

\* Logout, AddTokenToBlacklist: an expired token is an error; in the second it
\* expires nothing remains, and the logout succeeds with nothing stored.
Logout(i) ==
  LET token == local[i].token
      ttl   == GetTokenRemainingValidity(token)
  IN  /\ pc[i] = "handle"
      /\ \/ /\ IsValid(token) /\ ttl > 0
            /\ Goto(i, "setBlacklist", [local[i] EXCEPT !.ttl = ttl])
            /\ UNCHANGED loggedOut
         \/ /\ IsValid(token) /\ ttl <= 0
            /\ loggedOut' = loggedOut \cup {token}
            /\ Answer(i)
         \/ ~IsValid(token) /\ Answer(i) /\ UNCHANGED loggedOut
      /\ UNCHANGED <<db, clients, now, created, holders>>

\* AddTokenToBlacklist: SetStringWithTTL, and the answer.
SetBlacklist(i) ==
  /\ pc[i] = "setBlacklist"
  /\ blacklist' = [blacklist EXCEPT ![local[i].token] = now + local[i].ttl]
  /\ loggedOut' = loggedOut \cup {local[i].token}
  /\ Answer(i)
  /\ UNCHANGED <<row, clients, now, created, holders>>

\* GetUserProfile, UpdateUserProfile and ChangePassword: FindUserByID.
GetUserProfile(i) ==
  /\ pc[i] = "handle"
  /\ Answer(i)
  /\ UNCHANGED <<db, clients, now, history>>

FindUserByID(i, changed) ==
  /\ pc[i] = "handle"
  /\ Goto(i, "save", Serving(local[i].user, row[local[i].user], changed))
  /\ holders' = [holders EXCEPT ![local[i].user] = @ \ {i}]
  /\ UNCHANGED <<db, clients, now, created, loggedOut>>

UpdateUserProfile(i, n) ==
  FindUserByID(i, [row[local[i].user] EXCEPT !.nickname = n])

\* ChangePassword of a client that knows the current one.
ChangePassword(i, p) ==
  FindUserByID(i, [row[local[i].user] EXCEPT !.password = p])

\* UpdateUserProfile and ChangePassword: Save of the whole row.
Save(i) ==
  /\ pc[i] = "save"
  /\ Store(i, local[i].user, local[i].row)
  /\ Answer(i)
  /\ UNCHANGED <<blacklist, clients, now, created, loggedOut>>

Tick ==
  /\ now < MaxTime
  /\ now' = now + 1
  /\ UNCHANGED <<db, clients, pc, local, history>>

Next ==
  \/ Tick
  \/ \E i \in Requests :
       \/ \E u \in Users, p \in Passwords, n \in Nicknames : SignUp(i, u, p, n)
       \/ \E u \in Users : Login(i, u)
       \/ \E t \in issued : Parse(i, t)
       \/ Create(i) \/ UpdateLastLoginAt(i) \/ GenerateJWT(i)
       \/ CheckBlacklist(i) \/ Logout(i) \/ SetBlacklist(i)
       \/ GetUserProfile(i) \/ Save(i)
       \/ \E n \in Nicknames : UpdateUserProfile(i, n)
       \/ \E p \in Passwords : ChangePassword(i, p)

Spec == Init /\ [][Next]_vars

-----------------------------------------------------------------------------
\* Two sign-ups with one address may both find it free; one of them is answered
\* with success, and that one's row is in the table from then on
\* (auth_handler.go:46-58 against 77).
OneAccountPerAddress ==
  \A u \in Users : created[u] = IF row[u] = NoRow THEN 0 ELSE 1

\* No request gets past the middleware with a token that was logged out before,
\* however late Redis sets the blacklist's entry, until the second in which the
\* token expires: then the entry is gone, and a request that parses the token in
\* that second, or parsed it before, still gets past (middleware.go:23-44,
\* token.go:69-97).
LoggedOutStaysOut ==
  [][\A i \in Requests :
       pc[i] = "blacklist" /\ pc'[i] = "handle" /\ local[i].token \in loggedOut =>
         now >= local[i].token.exp]_vars

\* A stored password gives way only to a request that was asked to change it
\* and checked the current one, or to a request that read the row before the
\* last change and saves it whole: nothing else brings a password back
\* (user_handler.go:108-133, 189-215; auth_handler.go:134).
PasswordsChangeOnRequest ==
  [][\A u \in Users :
       row[u] # NoRow /\ row'[u].password # row[u].password =>
         \E i \in Requests :
           /\ pc[i] = "save" /\ pc'[i] = "idle" /\ local[i].user = u
           /\ row'[u] = local[i].row
           /\ \/ local[i].copy.password = row[u].password
              \/ i \in holders[u]]_vars
=============================================================================
