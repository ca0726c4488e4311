---------------------------- MODULE AccountsProofs ----------------------------
(***************************************************************************)
(* Proofs about Accounts, for every set of users, requests, passwords and  *)
(* nicknames, every validity of a token and every bound on time and        *)
(* logins.  The inductive invariant says what each step of a request has   *)
(* made sure of: a request that has a user's row in hand will find one in  *)
(* the table, and one that is about to blacklist a token has not lost any  *)
(* of the token's remaining time by waiting.                               *)
(***************************************************************************)
EXTENDS Accounts, TLAPS

Steps == {"idle", "create", "touch", "issue", "blacklist", "handle", "setBlacklist", "save"}

Locals == [user : Users \cup {NoUser}, token : Tokens \cup {NoToken},
           copy : Row \cup {NoRow}, row : Row \cup {NoRow}, ttl : Int]

TypesOK ==
  /\ row \in [Users -> Row \cup {NoRow}]
  /\ blacklist \in [Tokens -> Nat]
  /\ issued \subseteq Tokens
  /\ now \in Time
  /\ pc \in [Requests -> Steps]
  /\ local \in [Requests -> Locals]
  /\ created \in [Users -> Nat]
  /\ loggedOut \subseteq Tokens
  /\ holders \in [Users -> SUBSET Requests]

\* Whoever has a token has an account, and rows do not go away.
TokensHaveAccounts == \A t \in issued : row[t.user] # NoRow

\* A request that got as far as this serves a user with an account.
ServesAnAccount ==
  \A i \in Requests :
    pc[i] \in {"touch", "issue", "blacklist", "handle", "setBlacklist", "save"} =>
      local[i].user \in Users /\ row[local[i].user] # NoRow

\* A request that stores a row has one.
HasARow ==
  \A i \in Requests :
    /\ pc[i] = "create" => local[i].user \in Users /\ local[i].row \in Row
    /\ pc[i] = "save" => local[i].row \in Row /\ local[i].copy \in Row

HasAToken ==
  \A i \in Requests : pc[i] \in {"blacklist", "handle", "setBlacklist"} => local[i].token \in issued

\* The time to live was counted before Redis sets the key, so the key ends no
\* earlier than the token.
LivesLongEnough ==
  \A i \in Requests :
    pc[i] = "setBlacklist" => local[i].ttl \in Nat /\ now + local[i].ttl >= local[i].token.exp

\* A token that was logged out has its key until it expires.
KeyOutlivesToken == \A t \in loggedOut : now >= t.exp \/ blacklist[t] >= t.exp

\* A request that is about to save read the password that is stored now, or is
\* known to hold an older one.
CopyIsNewOrKnown ==
  \A i \in Requests :
    pc[i] = "save" => \/ local[i].copy.password = row[local[i].user].password
                      \/ i \in holders[local[i].user]

IInv ==
  /\ TypesOK /\ OneAccountPerAddress
  /\ TokensHaveAccounts /\ ServesAnAccount
  /\ HasARow /\ HasAToken
  /\ LivesLongEnough /\ KeyOutlivesToken /\ CopyIsNewOrKnown

USE TimesAssumption, NonesAssumption

-----------------------------------------------------------------------------
LEMMA InitInv == Init => IInv
  <1> SUFFICES ASSUME Init PROVE IInv
    OBVIOUS
  <1> USE DEF Init
  <1>1. NoLocal \in Locals
    BY DEF NoLocal, Serving, Locals
  <1>2. TypesOK
    BY <1>1 DEF TypesOK, Time, Steps
  <1>3. OneAccountPerAddress
    BY DEF OneAccountPerAddress
  <1>4. \A i \in Requests : pc[i] = "idle"
    OBVIOUS
  <1>5. ServesAnAccount /\ HasARow /\ HasAToken /\ LivesLongEnough /\ CopyIsNewOrKnown
    BY <1>4 DEF ServesAnAccount, HasARow, HasAToken, LivesLongEnough, CopyIsNewOrKnown
  <1>6. TokensHaveAccounts /\ KeyOutlivesToken
    BY DEF TokensHaveAccounts, KeyOutlivesToken
  <1> QED BY <1>2, <1>3, <1>5, <1>6 DEF IInv

\* A step of one request, as the others see it.
LEMMA GotoTypes ==
  ASSUME TypesOK, NEW i \in Requests, NEW step \in Steps, NEW l \in Locals, Goto(i, step, l)
  PROVE  /\ pc' \in [Requests -> Steps] /\ local' \in [Requests -> Locals]
         /\ pc'[i] = step /\ local'[i] = l
         /\ \A j \in Requests : j # i => pc'[j] = pc[j] /\ local'[j] = local[j]
  BY DEF TypesOK, Goto

LEMMA AnswerTypes ==
  ASSUME TypesOK, NEW i \in Requests, Answer(i)
  PROVE  /\ pc' \in [Requests -> Steps] /\ local' \in [Requests -> Locals]
         /\ pc'[i] = "idle" /\ local'[i] = NoLocal
         /\ \A j \in Requests : j # i => pc'[j] = pc[j] /\ local'[j] = local[j]
  <1>1. NoLocal \in Locals
    BY DEF NoLocal, Serving, Locals
  <1>2. "idle" \in Steps
    BY DEF Steps
  <1> QED BY <1>1, <1>2, GotoTypes DEF Answer

\* What a step that touches neither database nor clients nor history keeps, if
\* the request it is a step of is sound afterwards.
Sound(i) ==
  /\ pc[i] \in {"touch", "issue", "blacklist", "handle", "setBlacklist", "save"} =>
       local[i].user \in Users /\ row[local[i].user] # NoRow
  /\ pc[i] = "create" => local[i].user \in Users /\ local[i].row \in Row
  /\ pc[i] = "save" => local[i].row \in Row /\ local[i].copy \in Row
  /\ pc[i] \in {"blacklist", "handle", "setBlacklist"} => local[i].token \in issued
  /\ pc[i] = "setBlacklist" => local[i].ttl \in Nat /\ now + local[i].ttl >= local[i].token.exp
  /\ pc[i] = "save" => \/ local[i].copy.password = row[local[i].user].password
                       \/ i \in holders[local[i].user]

LEMMA AllSound ==
  (\A i \in Requests : Sound(i)) <=>
    ServesAnAccount /\ HasARow /\ HasAToken /\ LivesLongEnough /\ CopyIsNewOrKnown
  BY DEF Sound, ServesAnAccount, HasARow, HasAToken, LivesLongEnough, CopyIsNewOrKnown

LEMMA IdleSound == ASSUME NEW i, pc[i] = "idle" PROVE Sound(i)
  BY DEF Sound

-----------------------------------------------------------------------------
\* Steps that leave the table, the blacklist, the clients' tokens, the clock
\* and the history alone.
LEMMA QuietStep ==
  ASSUME IInv, NEW i \in Requests,
         UNCHANGED <<row, blacklist, issued, now, created, loggedOut, holders>>,
         pc' \in [Requests -> Steps], local' \in [Requests -> Locals],
         \A j \in Requests : j # i => pc'[j] = pc[j] /\ local'[j] = local[j],
         Sound(i)'
  PROVE  IInv'
  <1>1. \A j \in Requests : Sound(j)
    BY AllSound DEF IInv
  <1>2. \A j \in Requests : Sound(j)'
    BY <1>1 DEF Sound
  <1>3. (ServesAnAccount /\ HasARow /\ HasAToken /\ LivesLongEnough /\ CopyIsNewOrKnown)'
    BY <1>2, AllSound DEF Sound, ServesAnAccount, HasARow, HasAToken, LivesLongEnough, CopyIsNewOrKnown
  <1>4. TypesOK'
    BY DEF IInv, TypesOK
  <1>5. OneAccountPerAddress' /\ TokensHaveAccounts' /\ KeyOutlivesToken'
    BY DEF IInv, OneAccountPerAddress, TokensHaveAccounts, KeyOutlivesToken
  <1> QED BY <1>3, <1>4, <1>5 DEF IInv

LEMMA QuietSteps ==
  ASSUME IInv, NEW i \in Requests,
         \/ \E u \in Users, p \in Passwords, n \in Nicknames : SignUp(i, u, p, n)
         \/ \E u \in Users : Login(i, u)
         \/ \E t \in issued : Parse(i, t)
         \/ CheckBlacklist(i) \/ GetUserProfile(i)
  PROVE  IInv'
  <1> USE DEF db, clients, history
  <1>0. TypesOK /\ Sound(i)
    BY AllSound DEF IInv
  <1>1. ASSUME NEW u \in Users, NEW p \in Passwords, NEW n \in Nicknames, SignUp(i, u, p, n)
        PROVE IInv'
    <2> DEFINE l == Serving(u, NoRow, [password |-> p, nickname |-> n, lastLogin |-> 0])
    <2>1. [password |-> p, nickname |-> n, lastLogin |-> 0] \in Row
      BY DEF Row, Time
    <2>2. l \in Locals /\ l.user = u /\ l.row \in Row
      BY <2>1 DEF NoLocal, Serving, Locals
    <2>3. Goto(i, "create", l) /\ "create" \in Steps
      BY <1>1 DEF SignUp, Steps
    <2> HIDE DEF l
    <2>4. /\ pc' \in [Requests -> Steps] /\ local' \in [Requests -> Locals]
          /\ pc'[i] = "create" /\ local'[i] = l
          /\ \A j \in Requests : j # i => pc'[j] = pc[j] /\ local'[j] = local[j]
      BY <1>0, <2>2, <2>3, GotoTypes
    <2>5. Sound(i)'
      BY <2>2, <2>4 DEF Sound
    <2> QED BY <1>1, <2>4, <2>5, QuietStep DEF SignUp
  <1>2. ASSUME NEW u \in Users, Login(i, u) PROVE IInv'
    <2> DEFINE l == Serving(u, row[u], NoRow)
    <2>1. row[u] \in Row /\ row[u] # NoRow
      BY <1>0, <1>2 DEF TypesOK, Login
    <2>2. l \in Locals /\ l.user = u
      BY <2>1 DEF NoLocal, Serving, Locals
    <2>3. Goto(i, "touch", l) /\ "touch" \in Steps
      BY <1>2 DEF Login, Steps
    <2> HIDE DEF l
    <2>4. /\ pc' \in [Requests -> Steps] /\ local' \in [Requests -> Locals]
          /\ pc'[i] = "touch" /\ local'[i] = l
          /\ \A j \in Requests : j # i => pc'[j] = pc[j] /\ local'[j] = local[j]
      BY <1>0, <2>2, <2>3, GotoTypes
    <2>5. row' = row
      BY <1>2 DEF Login
    <2>6. Sound(i)'
      BY <2>1, <2>2, <2>4, <2>5 DEF Sound
    <2> QED BY <1>2, <2>4, <2>6, QuietStep DEF Login
  <1>3. ASSUME NEW t \in issued, Parse(i, t) PROVE IInv'
    <2>1. UNCHANGED <<row, blacklist, issued, now, created, loggedOut, holders>>
      BY <1>3 DEF Parse
    <2>2. CASE Answer(i)
      <3>1. Sound(i)'
        BY <1>0, <2>2, AnswerTypes DEF Sound
      <3> QED BY <1>0, <2>1, <2>2, <3>1, AnswerTypes, QuietStep
    <2>3. CASE Goto(i, "blacklist", [Serving(t.user, NoRow, NoRow) EXCEPT !.token = t])
      <3> DEFINE l == [Serving(t.user, NoRow, NoRow) EXCEPT !.token = t]
      <3>1. t \in Tokens /\ t.user \in Users /\ row[t.user] # NoRow
        BY <1>0 DEF IInv, TypesOK, Tokens, TokensHaveAccounts
      <3>2. l \in Locals /\ l.user = t.user /\ l.token = t
        BY <3>1 DEF NoLocal, Serving, Locals
      <3>3. "blacklist" \in Steps
        BY DEF Steps
      <3> HIDE DEF l
      <3>4. /\ pc' \in [Requests -> Steps] /\ local' \in [Requests -> Locals]
            /\ pc'[i] = "blacklist" /\ local'[i] = l
            /\ \A j \in Requests : j # i => pc'[j] = pc[j] /\ local'[j] = local[j]
        BY <1>0, <2>3, <3>2, <3>3, GotoTypes DEF l
      <3>5. Sound(i)'
        BY <2>1, <3>1, <3>2, <3>4 DEF Sound
      <3> QED BY <2>1, <3>4, <3>5, QuietStep
    <2> QED BY <1>3, <2>2, <2>3 DEF Parse
  <1>4. ASSUME CheckBlacklist(i) PROVE IInv'
    <2>1. UNCHANGED <<row, blacklist, issued, now, created, loggedOut, holders>>
      BY <1>4 DEF CheckBlacklist
    <2>2. CASE Answer(i)
      <3>1. Sound(i)'
        BY <1>0, <2>2, AnswerTypes DEF Sound
      <3> QED BY <1>0, <2>1, <2>2, <3>1, AnswerTypes, QuietStep
    <2>3. CASE Goto(i, "handle", local[i])
      <3>1. local[i] \in Locals /\ "handle" \in Steps
        BY <1>0 DEF TypesOK, Steps
      <3>2. /\ pc' \in [Requests -> Steps] /\ local' \in [Requests -> Locals]
            /\ pc'[i] = "handle" /\ local'[i] = local[i]
            /\ \A j \in Requests : j # i => pc'[j] = pc[j] /\ local'[j] = local[j]
        BY <1>0, <2>3, <3>1, GotoTypes
      <3>3. Sound(i)'
        BY <1>0, <1>4, <2>1, <3>2 DEF Sound, CheckBlacklist
      <3> QED BY <2>1, <3>2, <3>3, QuietStep
    <2> QED BY <1>4, <2>2, <2>3 DEF CheckBlacklist
  <1>5. ASSUME GetUserProfile(i) PROVE IInv'
    <2>1. Answer(i)
      BY <1>5 DEF GetUserProfile
    <2>2. Sound(i)'
      BY <1>0, <2>1, AnswerTypes DEF Sound
    <2> QED BY <1>0, <1>5, <2>1, <2>2, AnswerTypes, QuietStep DEF GetUserProfile
  <1> QED BY <1>1, <1>2, <1>3, <1>4, <1>5

-----------------------------------------------------------------------------
\* A copy that was read for a change is as new as the table.
LEMMA FindUserByIDInv ==
  ASSUME IInv, NEW i \in Requests, NEW changed,
         row[local[i].user] \in Row => changed \in Row, FindUserByID(i, changed)
  PROVE  IInv'
  <1> DEFINE u == local[i].user
             l == Serving(u, row[u], changed)
  <1> USE DEF db, clients
  <1>0. TypesOK /\ Sound(i)
    BY AllSound DEF IInv
  <1>1. u \in Users /\ row[u] \in Row
    BY <1>0 DEF FindUserByID, Sound, TypesOK
  <1>2. changed \in Row
    BY <1>1
  <1>3. l \in Locals /\ l.user = u /\ l.copy = row[u] /\ l.row = changed
    BY <1>1, <1>2 DEF Serving, Locals
  <1>4. Goto(i, "save", l) /\ "save" \in Steps
    BY DEF FindUserByID, Steps
  <1>5. /\ UNCHANGED <<row, blacklist, issued, now, created, loggedOut>>
        /\ holders' = [holders EXCEPT ![u] = @ \ {i}]
    BY DEF FindUserByID
  <1> HIDE DEF l, u
  <1>6. /\ pc' \in [Requests -> Steps] /\ local' \in [Requests -> Locals]
        /\ pc'[i] = "save" /\ local'[i] = l
        /\ \A j \in Requests : j # i => pc'[j] = pc[j] /\ local'[j] = local[j]
    BY <1>0, <1>3, <1>4, GotoTypes
  <1>7. Sound(i)'
    BY <1>1, <1>2, <1>3, <1>5, <1>6 DEF Sound
  <1>8. holders \in [Users -> SUBSET Requests]
    BY <1>0 DEF TypesOK
  <1>9. \A v \in Users, j \in Requests : j # i => (j \in holders[v] => j \in holders'[v])
    BY <1>1, <1>5, <1>8
  <1>10. ASSUME NEW j \in Requests, j # i PROVE Sound(j)'
    <2>1. Sound(j)
      BY AllSound DEF IInv
    <2> QED BY <1>5, <1>6, <1>9, <1>10, <2>1 DEF Sound
  <1>11. (ServesAnAccount /\ HasARow /\ HasAToken /\ LivesLongEnough /\ CopyIsNewOrKnown)'
    BY <1>7, <1>10 DEF Sound, ServesAnAccount, HasARow, HasAToken, LivesLongEnough, CopyIsNewOrKnown
  <1>12. holders' \in [Users -> SUBSET Requests]
    BY <1>5, <1>8
  <1>13. TypesOK'
    BY <1>0, <1>5, <1>6, <1>12 DEF TypesOK
  <1>14. OneAccountPerAddress' /\ TokensHaveAccounts' /\ KeyOutlivesToken'
    BY <1>5 DEF IInv, OneAccountPerAddress, TokensHaveAccounts, KeyOutlivesToken
  <1> QED BY <1>11, <1>13, <1>14 DEF IInv

LEMMA ChangeSteps ==
  ASSUME IInv, NEW i \in Requests,
         \/ \E n \in Nicknames : UpdateUserProfile(i, n)
         \/ \E p \in Passwords : ChangePassword(i, p)
  PROVE  IInv'
  <1>1. ASSUME NEW n \in Nicknames, UpdateUserProfile(i, n) PROVE IInv'
    <2> DEFINE changed == [row[local[i].user] EXCEPT !.nickname = n]
    <2>1. row[local[i].user] \in Row => changed \in Row
      BY DEF Row
    <2>2. FindUserByID(i, changed)
      BY <1>1 DEF UpdateUserProfile
    <2> QED BY <2>1, <2>2, FindUserByIDInv
  <1>2. ASSUME NEW p \in Passwords, ChangePassword(i, p) PROVE IInv'
    <2> DEFINE changed == [row[local[i].user] EXCEPT !.password = p]
    <2>1. row[local[i].user] \in Row => changed \in Row
      BY DEF Row
    <2>2. FindUserByID(i, changed)
      BY <1>2 DEF ChangePassword
    <2> QED BY <2>1, <2>2, FindUserByIDInv
  <1> QED BY <1>1, <1>2

-----------------------------------------------------------------------------
\* A stored row is remembered by the requests whose copies it outdates.
LEMMA StoreSound ==
  ASSUME IInv, NEW i \in Requests, NEW u \in Users, NEW r \in Row, Store(i, u, r),
         Answer(i), UNCHANGED <<issued, now>>
  PROVE  /\ row' \in [Users -> Row \cup {NoRow}] /\ holders' \in [Users -> SUBSET Requests]
         /\ row'[u] = r /\ \A v \in Users : v # u => row'[v] = row[v]
         /\ \A j \in Requests : Sound(j)'
  <1>0. TypesOK
    BY DEF IInv
  <1>1. row' = [row EXCEPT ![u] = r]
    BY DEF Store
  <1>2. row' \in [Users -> Row \cup {NoRow}] /\ row'[u] = r /\ \A v \in Users : v # u => row'[v] = row[v]
    BY <1>0, <1>1 DEF TypesOK
  <1>3. /\ \A v \in Users : v # u => holders'[v] = holders[v]
        /\ holders' \in [Users -> SUBSET Requests]
        /\ \/ row[u] # NoRow /\ row[u].password = r.password /\ holders' = holders
           \/ holders'[u] = Holding(u) \ {i}
    <2>1. holders \in [Users -> SUBSET Requests] /\ Holding(u) \ {i} \in SUBSET Requests
      BY <1>0 DEF TypesOK, Holding
    <2>2. CASE row[u] # NoRow /\ row[u].password = r.password
      BY <2>1, <2>2 DEF Store
    <2>3. CASE ~(row[u] # NoRow /\ row[u].password = r.password)
      <3>1. holders' = [holders EXCEPT ![u] = Holding(u) \ {i}]
        BY <2>3 DEF Store
      <3> HIDE DEF Holding
      <3> QED BY <2>1, <3>1
    <2> QED BY <2>2, <2>3
  <1>4. /\ pc'[i] = "idle"
        /\ \A j \in Requests : j # i => pc'[j] = pc[j] /\ local'[j] = local[j]
    BY <1>0, AnswerTypes
  <1>5. ASSUME NEW j \in Requests, j # i PROVE Sound(j)'
    <2>1. Sound(j)
      BY AllSound DEF IInv
    <2>2. pc'[j] = pc[j] /\ local'[j] = local[j]
      BY <1>4, <1>5
    <2>3. \A v \in Users : row[v] # NoRow => row'[v] # NoRow
      BY <1>2
    <2>4. ASSUME pc[j] = "save"
          PROVE  \/ local[j].copy.password = row'[local[j].user].password
                 \/ j \in holders'[local[j].user]
      <3>1. local[j].user \in Users /\ local[j].copy \in Row /\ local[j].copy # NoRow
        BY <2>1, <2>4 DEF Sound
      <3>2. CASE local[j].user = u
        <4>1. j \in Holding(u) \ {i}
          BY <1>5, <3>1, <3>2 DEF Holding
        <4> QED BY <1>2, <1>3, <2>1, <2>4, <3>2, <4>1 DEF Sound
      <3>3. CASE local[j].user # u
        BY <1>2, <1>3, <2>1, <2>4, <3>1, <3>3 DEF Sound
      <3> QED BY <3>2, <3>3
    <2> QED BY <2>1, <2>2, <2>3, <2>4 DEF Sound
  <1>6. Sound(i)'
    BY <1>4 DEF Sound
  <1> QED BY <1>2, <1>3, <1>5, <1>6

LEMMA CreateInv == ASSUME IInv, NEW i \in Requests, Create(i) PROVE IInv'
  <1> DEFINE u == local[i].user
  <1> USE DEF clients
  <1>0. TypesOK /\ Sound(i)
    BY AllSound DEF IInv
  <1>1. u \in Users /\ local[i].row \in Row /\ Answer(i)
        /\ UNCHANGED <<blacklist, issued, now, loggedOut>>
    BY <1>0 DEF Sound, Create
  <1>2. pc' \in [Requests -> Steps] /\ local' \in [Requests -> Locals]
        /\ pc'[i] = "idle" /\ local'[i] = NoLocal
        /\ \A j \in Requests : j # i => pc'[j] = pc[j] /\ local'[j] = local[j]
    BY <1>0, <1>1, AnswerTypes
  <1>3. CASE row[u] = NoRow /\ Store(i, u, local[i].row) /\ created' = [created EXCEPT ![u] = @ + 1]
    <2> HIDE DEF u
    <2>1. /\ row' \in [Users -> Row \cup {NoRow}] /\ holders' \in [Users -> SUBSET Requests]
          /\ row'[u] = local[i].row /\ \A v \in Users : v # u => row'[v] = row[v]
          /\ \A j \in Requests : Sound(j)'
      BY <1>1, <1>3, StoreSound
    <2>2. created \in [Users -> Nat] /\ created[u] = 0
      BY <1>0, <1>1, <1>3 DEF TypesOK, IInv, OneAccountPerAddress
    <2>3. /\ created' \in [Users -> Nat] /\ created'[u] = 1
          /\ \A v \in Users : v # u => created'[v] = created[v]
      BY <1>1, <1>3, <2>2
    <2>4. TypesOK'
      BY <1>0, <1>1, <1>2, <2>1, <2>3 DEF TypesOK
    <2>5. row'[u] # NoRow /\ \A v \in Users : row[v] # NoRow => row'[v] # NoRow
      BY <1>1, <2>1
    <2>6. OneAccountPerAddress'
      BY <2>1, <2>3, <2>5 DEF IInv, OneAccountPerAddress
    <2>7. TokensHaveAccounts' /\ KeyOutlivesToken'
      BY <1>0, <1>1, <2>5 DEF IInv, TokensHaveAccounts, KeyOutlivesToken, TypesOK, Tokens
    <2>8. (ServesAnAccount /\ HasARow /\ HasAToken /\ LivesLongEnough /\ CopyIsNewOrKnown)'
      BY <2>1 DEF Sound, ServesAnAccount, HasARow, HasAToken, LivesLongEnough, CopyIsNewOrKnown
    <2> QED BY <2>4, <2>6, <2>7, <2>8 DEF IInv
  <1>4. CASE UNCHANGED <<row, created, holders>>
    <2>1. Sound(i)'
      BY <1>2 DEF Sound
    <2> QED BY <1>1, <1>2, <1>4, <2>1, QuietStep
  <1> QED BY <1>3, <1>4 DEF Create

LEMMA SaveInv == ASSUME IInv, NEW i \in Requests, Save(i) PROVE IInv'
  <1> DEFINE u == local[i].user
  <1> USE DEF clients
  <1>0. TypesOK /\ Sound(i)
    BY AllSound DEF IInv
  <1>1. /\ u \in Users /\ row[u] # NoRow /\ local[i].row \in Row /\ Answer(i)
        /\ UNCHANGED <<blacklist, issued, now, created, loggedOut>>
        /\ Store(i, u, local[i].row)
    BY <1>0 DEF Sound, Save
  <1>2. pc' \in [Requests -> Steps] /\ local' \in [Requests -> Locals]
    BY <1>0, <1>1, AnswerTypes
  <1> HIDE DEF u
  <1>3. /\ row' \in [Users -> Row \cup {NoRow}] /\ holders' \in [Users -> SUBSET Requests]
        /\ row'[u] = local[i].row /\ \A v \in Users : v # u => row'[v] = row[v]
        /\ \A j \in Requests : Sound(j)'
    BY <1>1, StoreSound
  <1>4. TypesOK'
    BY <1>0, <1>1, <1>2, <1>3 DEF TypesOK
  <1>5. \A v \in Users : row[v] # NoRow <=> row'[v] # NoRow
    BY <1>1, <1>3
  <1>6. OneAccountPerAddress'
    BY <1>1, <1>5 DEF IInv, OneAccountPerAddress
  <1>7. TokensHaveAccounts' /\ KeyOutlivesToken'
    BY <1>0, <1>1, <1>5 DEF IInv, TokensHaveAccounts, KeyOutlivesToken, TypesOK, Tokens
  <1>8. (ServesAnAccount /\ HasARow /\ HasAToken /\ LivesLongEnough /\ CopyIsNewOrKnown)'
    BY <1>3 DEF Sound, ServesAnAccount, HasARow, HasAToken, LivesLongEnough, CopyIsNewOrKnown
  <1> QED BY <1>4, <1>6, <1>7, <1>8 DEF IInv

-----------------------------------------------------------------------------
\* Only the time of the login is written, so no copy grows older.
LEMMA UpdateLastLoginAtInv == ASSUME IInv, NEW i \in Requests, UpdateLastLoginAt(i) PROVE IInv'
  <1> DEFINE u == local[i].user
  <1> USE DEF clients, history
  <1>0. TypesOK /\ Sound(i)
    BY AllSound DEF IInv
  <1>1. u \in Users /\ row[u] \in Row /\ row[u] # NoRow
    BY <1>0 DEF UpdateLastLoginAt, Sound, TypesOK
  <1>2. /\ row' = [row EXCEPT ![u] = [row[u] EXCEPT !.lastLogin = now]]
        /\ UNCHANGED <<blacklist, issued, now, created, loggedOut, holders>>
        /\ Goto(i, "issue", local[i]) /\ "issue" \in Steps /\ local[i] \in Locals
        /\ pc[i] = "touch"
    BY <1>0 DEF UpdateLastLoginAt, Steps, TypesOK
  <1> HIDE DEF u
  <1>3. [row[u] EXCEPT !.lastLogin = now] \in Row /\ [row[u] EXCEPT !.lastLogin = now].password = row[u].password
    BY <1>0, <1>1 DEF Row, TypesOK
  <1>4. /\ row' \in [Users -> Row \cup {NoRow}]
        /\ \A v \in Users : row[v] # NoRow <=> row'[v] # NoRow
        /\ \A v \in Users : row[v] # NoRow => row'[v].password = row[v].password
    BY <1>0, <1>1, <1>2, <1>3 DEF TypesOK
  <1>5. /\ pc' \in [Requests -> Steps] /\ local' \in [Requests -> Locals]
        /\ pc'[i] = "issue" /\ local'[i] = local[i]
        /\ \A j \in Requests : j # i => pc'[j] = pc[j] /\ local'[j] = local[j]
    BY <1>0, <1>2, GotoTypes
  <1>6. Sound(i)'
    BY <1>0, <1>2, <1>4, <1>5 DEF Sound
  <1>7. ASSUME NEW j \in Requests, j # i PROVE Sound(j)'
    <2>1. Sound(j)
      BY AllSound DEF IInv
    <2> QED BY <1>2, <1>4, <1>5, <1>7, <2>1 DEF Sound
  <1>8. (ServesAnAccount /\ HasARow /\ HasAToken /\ LivesLongEnough /\ CopyIsNewOrKnown)'
    BY <1>6, <1>7 DEF Sound, ServesAnAccount, HasARow, HasAToken, LivesLongEnough, CopyIsNewOrKnown
  <1>9. TypesOK'
    BY <1>0, <1>2, <1>4, <1>5 DEF TypesOK
  <1>10. OneAccountPerAddress'
    BY <1>2, <1>4 DEF IInv, OneAccountPerAddress
  <1>11. TokensHaveAccounts' /\ KeyOutlivesToken'
    BY <1>0, <1>2, <1>4 DEF IInv, TokensHaveAccounts, KeyOutlivesToken, TypesOK, Tokens
  <1> QED BY <1>8, <1>9, <1>10, <1>11 DEF IInv

LEMMA GenerateJWTInv == ASSUME IInv, NEW i \in Requests, GenerateJWT(i) PROVE IInv'
  <1> DEFINE t == [user |-> local[i].user, exp |-> now + Validity]
  <1> USE DEF db, history
  <1>0. TypesOK /\ Sound(i)
    BY AllSound DEF IInv
  <1>1. local[i].user \in Users /\ row[local[i].user] # NoRow
    BY <1>0 DEF GenerateJWT, Sound
  <1>2. now + Validity \in 0 .. MaxTime + Validity
    BY <1>0 DEF TypesOK, Time
  <1>3. t \in Tokens /\ row[t.user] # NoRow
    BY <1>1, <1>2 DEF Tokens
  <1>4. /\ issued' = issued \cup {t} /\ Answer(i)
        /\ UNCHANGED <<row, blacklist, now, created, loggedOut, holders>>
    BY DEF GenerateJWT
  <1> HIDE DEF t
  <1>5. /\ pc' \in [Requests -> Steps] /\ local' \in [Requests -> Locals]
        /\ pc'[i] = "idle" /\ \A j \in Requests : j # i => pc'[j] = pc[j] /\ local'[j] = local[j]
    BY <1>0, <1>4, AnswerTypes
  <1>6. ASSUME NEW j \in Requests PROVE Sound(j)'
    <2>1. Sound(j)
      BY AllSound DEF IInv
    <2> QED BY <1>4, <1>5, <2>1 DEF Sound
  <1>7. (ServesAnAccount /\ HasARow /\ HasAToken /\ LivesLongEnough /\ CopyIsNewOrKnown)'
    BY <1>6 DEF Sound, ServesAnAccount, HasARow, HasAToken, LivesLongEnough, CopyIsNewOrKnown
  <1>8. TypesOK'
    BY <1>0, <1>3, <1>4, <1>5 DEF TypesOK
  <1>9. OneAccountPerAddress' /\ TokensHaveAccounts' /\ KeyOutlivesToken'
    BY <1>3, <1>4 DEF IInv, OneAccountPerAddress, TokensHaveAccounts, KeyOutlivesToken
  <1> QED BY <1>7, <1>8, <1>9 DEF IInv

-----------------------------------------------------------------------------
\* What remains of the token is counted now; Redis counts it from later on.
LEMMA LogoutInv == ASSUME IInv, NEW i \in Requests, Logout(i) PROVE IInv'
  <1> DEFINE t == local[i].token
             ttl == GetTokenRemainingValidity(t)
  <1> USE DEF db, clients
  <1>0. TypesOK /\ Sound(i)
    BY AllSound DEF IInv
  <1>1. pc[i] = "handle" /\ t \in issued /\ t \in Tokens
    BY <1>0 DEF Logout, Sound, TypesOK
  <1>2. t.exp \in Nat /\ now \in Nat /\ ttl = t.exp - now
    BY <1>0, <1>1 DEF Tokens, TypesOK, Time, GetTokenRemainingValidity
  <1>3. UNCHANGED <<row, blacklist, issued, now, created, holders>>
    BY DEF Logout
  <1>4. CASE ttl > 0 /\ Goto(i, "setBlacklist", [local[i] EXCEPT !.ttl = ttl]) /\ UNCHANGED loggedOut
    <2> DEFINE l == [local[i] EXCEPT !.ttl = ttl]
    <2>1. ttl \in Nat
      BY <1>2, <1>4
    <2> HIDE DEF ttl
    <2>2. l \in Locals /\ l.user = local[i].user /\ l.token = t /\ l.ttl = ttl
      BY <1>0, <2>1 DEF TypesOK, Locals
    <2>3. "setBlacklist" \in Steps
      BY DEF Steps
    <2> HIDE DEF l
    <2>4. /\ pc' \in [Requests -> Steps] /\ local' \in [Requests -> Locals]
          /\ pc'[i] = "setBlacklist" /\ local'[i] = l
          /\ \A j \in Requests : j # i => pc'[j] = pc[j] /\ local'[j] = local[j]
      BY <1>0, <1>4, <2>2, <2>3, GotoTypes DEF l
    <2>5. now + ttl >= t.exp
      BY <1>2
    <2>6. Sound(i)'
      BY <1>0, <1>1, <1>3, <2>1, <2>2, <2>4, <2>5 DEF Sound
    <2> QED BY <1>3, <1>4, <2>4, <2>6, QuietStep
  <1>5. CASE ttl <= 0 /\ loggedOut' = loggedOut \cup {t} /\ Answer(i)
    <2>1. now >= t.exp
      BY <1>2, <1>5
    <2> HIDE DEF t, ttl
    <2>2. /\ pc' \in [Requests -> Steps] /\ local' \in [Requests -> Locals]
          /\ pc'[i] = "idle" /\ \A j \in Requests : j # i => pc'[j] = pc[j] /\ local'[j] = local[j]
      BY <1>0, <1>5, AnswerTypes
    <2>3. ASSUME NEW j \in Requests PROVE Sound(j)'
      <3>1. Sound(j)
        BY AllSound DEF IInv
      <3> QED BY <1>3, <2>2, <3>1 DEF Sound
    <2>4. (ServesAnAccount /\ HasARow /\ HasAToken /\ LivesLongEnough /\ CopyIsNewOrKnown)'
      BY <2>3 DEF Sound, ServesAnAccount, HasARow, HasAToken, LivesLongEnough, CopyIsNewOrKnown
    <2>5. TypesOK'
      BY <1>0, <1>1, <1>3, <1>5, <2>2 DEF TypesOK
    <2>6. OneAccountPerAddress' /\ TokensHaveAccounts' /\ KeyOutlivesToken'
      BY <1>3, <1>5, <2>1 DEF IInv, OneAccountPerAddress, TokensHaveAccounts, KeyOutlivesToken
    <2> QED BY <2>4, <2>5, <2>6 DEF IInv
  <1>6. CASE Answer(i) /\ UNCHANGED loggedOut
    <2>1. Sound(i)'
      BY <1>0, <1>6, AnswerTypes DEF Sound
    <2> QED BY <1>0, <1>3, <1>6, <2>1, AnswerTypes, QuietStep
  <1> QED BY <1>4, <1>5, <1>6 DEF Logout

LEMMA SetBlacklistInv == ASSUME IInv, NEW i \in Requests, SetBlacklist(i) PROVE IInv'
  <1> DEFINE t == local[i].token
  <1> USE DEF clients
  <1>0. TypesOK /\ Sound(i)
    BY AllSound DEF IInv
  <1>1. /\ t \in Tokens /\ local[i].ttl \in Nat /\ now + local[i].ttl >= t.exp
    BY <1>0 DEF SetBlacklist, Sound, TypesOK
  <1>2. now + local[i].ttl \in Nat
    BY <1>0, <1>1 DEF TypesOK, Time
  <1>3. /\ blacklist' = [blacklist EXCEPT ![t] = now + local[i].ttl]
        /\ loggedOut' = loggedOut \cup {t} /\ Answer(i)
        /\ UNCHANGED <<row, issued, now, created, holders>>
    BY DEF SetBlacklist
  <1> HIDE DEF t
  <1>4. /\ pc' \in [Requests -> Steps] /\ local' \in [Requests -> Locals]
        /\ pc'[i] = "idle" /\ \A j \in Requests : j # i => pc'[j] = pc[j] /\ local'[j] = local[j]
    BY <1>0, <1>3, AnswerTypes
  <1>5. ASSUME NEW j \in Requests PROVE Sound(j)'
    <2>1. Sound(j)
      BY AllSound DEF IInv
    <2> QED BY <1>3, <1>4, <2>1 DEF Sound
  <1>6. (ServesAnAccount /\ HasARow /\ HasAToken /\ LivesLongEnough /\ CopyIsNewOrKnown)'
    BY <1>5 DEF Sound, ServesAnAccount, HasARow, HasAToken, LivesLongEnough, CopyIsNewOrKnown
  <1>7. TypesOK'
    BY <1>0, <1>1, <1>2, <1>3, <1>4 DEF TypesOK
  <1>8. KeyOutlivesToken'
    <2>1. blacklist'[t] >= t.exp /\ \A x \in Tokens : x # t => blacklist'[x] = blacklist[x]
      BY <1>0, <1>1, <1>2, <1>3 DEF TypesOK
    <2> QED BY <1>0, <1>3, <2>1 DEF IInv, TypesOK, KeyOutlivesToken
  <1>9. OneAccountPerAddress' /\ TokensHaveAccounts'
    BY <1>3 DEF IInv, OneAccountPerAddress, TokensHaveAccounts
  <1> QED BY <1>6, <1>7, <1>8, <1>9 DEF IInv

\* What was long enough stays so when time goes by.
LEMMA TickInv == IInv /\ Tick => IInv'
  <1> SUFFICES ASSUME IInv, Tick PROVE IInv'
    OBVIOUS
  <1> USE DEF db, clients, history
  <1>0. TypesOK
    BY DEF IInv
  <1>1. /\ UNCHANGED <<row, blacklist, issued, pc, local, created, loggedOut, holders>>
        /\ now' = now + 1 /\ now' \in Time /\ now \in Nat
    BY <1>0 DEF Tick, TypesOK, Time
  <1>2. TypesOK'
    BY <1>0, <1>1 DEF TypesOK
  <1>3. /\ OneAccountPerAddress' /\ TokensHaveAccounts' /\ ServesAnAccount'
        /\ HasARow' /\ HasAToken' /\ CopyIsNewOrKnown'
    BY <1>1 DEF IInv, OneAccountPerAddress, TokensHaveAccounts, ServesAnAccount, HasARow, HasAToken, CopyIsNewOrKnown
  <1>4. \A t \in Tokens : t.exp \in Nat
    BY DEF Tokens
  <1>5. KeyOutlivesToken'
    BY <1>0, <1>1, <1>4 DEF IInv, TypesOK, KeyOutlivesToken
  <1>6. LivesLongEnough'
    <2>1. \A i \in Requests : pc[i] = "setBlacklist" => local[i].token.exp \in Nat
      BY <1>0, <1>4 DEF IInv, TypesOK, HasAToken
    <2> QED BY <1>1, <2>1 DEF IInv, LivesLongEnough
  <1> QED BY <1>2, <1>3, <1>5, <1>6 DEF IInv

LEMMA NextInv == IInv /\ [Next]_vars => IInv'
  <1> SUFFICES ASSUME IInv, [Next]_vars PROVE IInv'
    OBVIOUS
  <1>1. CASE UNCHANGED vars
    BY <1>1 DEF vars, db, clients, history, IInv, TypesOK, OneAccountPerAddress, TokensHaveAccounts,
       ServesAnAccount, HasARow, HasAToken, LivesLongEnough, KeyOutlivesToken, CopyIsNewOrKnown
  <1>2. CASE Tick
    BY <1>2, TickInv
  <1>3. ASSUME NEW i \in Requests,
               \/ \E u \in Users, p \in Passwords, n \in Nicknames : SignUp(i, u, p, n)
               \/ \E u \in Users : Login(i, u)
               \/ \E t \in issued : Parse(i, t)
               \/ CheckBlacklist(i) \/ GetUserProfile(i)
        PROVE  IInv'
    BY <1>3, QuietSteps
  <1>4. ASSUME NEW i \in Requests,
               \/ \E n \in Nicknames : UpdateUserProfile(i, n)
               \/ \E p \in Passwords : ChangePassword(i, p)
        PROVE  IInv'
    BY <1>4, ChangeSteps
  <1>5. ASSUME NEW i \in Requests,
               Create(i) \/ UpdateLastLoginAt(i) \/ GenerateJWT(i) \/ Logout(i) \/ SetBlacklist(i) \/ Save(i)
        PROVE  IInv'
    BY <1>5, CreateInv, UpdateLastLoginAtInv, GenerateJWTInv, LogoutInv, SetBlacklistInv, SaveInv
  <1> QED BY <1>1, <1>2, <1>3, <1>4, <1>5 DEF Next

LEMMA Invariance == Spec => []IInv
  BY InitInv, NextInv, PTL DEF Spec

-----------------------------------------------------------------------------
\* However many sign-ups with one address overlap, one of them succeeds
\* (auth_handler.go:46-77).
THEOREM OneAccount == Spec => []OneAccountPerAddress
  <1>1. IInv => OneAccountPerAddress
    BY DEF IInv
  <1> QED BY <1>1, Invariance, PTL

\* Which steps let a request past the middleware: only the question to Redis,
\* whether the token is logged out.
LEMMA OnlyCheckLetsPast ==
  ASSUME TypesOK, Next, NEW i \in Requests, pc[i] = "blacklist", pc'[i] = "handle"
  PROVE  CheckBlacklist(i)
  <1> USE DEF Answer
  <1>1. pc \in [Requests -> Steps]
    BY DEF TypesOK
  <1>2. ASSUME NEW j \in Requests, NEW step, NEW l, Goto(j, step, l)
        PROVE  j = i /\ step = "handle"
    BY <1>1, <1>2 DEF Goto
  <1>3. CASE Tick
    BY <1>3 DEF Tick
  <1>5. ASSUME NEW j \in Requests, NEW u \in Users, NEW p \in Passwords, NEW n \in Nicknames, SignUp(j, u, p, n)
        PROVE FALSE
    BY <1>2, <1>5 DEF SignUp
  <1>6. ASSUME NEW j \in Requests, NEW u \in Users, Login(j, u) PROVE FALSE
    BY <1>2, <1>6 DEF Login
  <1>7. ASSUME NEW j \in Requests, NEW t \in issued, Parse(j, t) PROVE FALSE
    BY <1>2, <1>7 DEF Parse
  <1>8. ASSUME NEW j \in Requests,
               \/ Create(j) \/ UpdateLastLoginAt(j) \/ GenerateJWT(j)
               \/ SetBlacklist(j) \/ GetUserProfile(j) \/ Save(j)
        PROVE FALSE
    BY <1>2, <1>8 DEF Create, UpdateLastLoginAt, GenerateJWT, SetBlacklist, GetUserProfile, Save
  <1>9. ASSUME NEW j \in Requests, Logout(j) PROVE FALSE
    <2>1. pc[j] = "handle"
      BY <1>9 DEF Logout
    <2>2. j # i
      BY <2>1
    <2> QED BY <1>2, <1>9, <2>2 DEF Logout
  <1>10. ASSUME NEW j \in Requests, NEW changed, FindUserByID(j, changed) PROVE FALSE
    BY <1>2, <1>10 DEF FindUserByID
  <1>11. ASSUME NEW j \in Requests,
                \/ \E n \in Nicknames : UpdateUserProfile(j, n)
                \/ \E p \in Passwords : ChangePassword(j, p)
         PROVE FALSE
    BY <1>10, <1>11 DEF UpdateUserProfile, ChangePassword
  <1>12. ASSUME NEW j \in Requests, CheckBlacklist(j) PROVE CheckBlacklist(i)
    BY <1>2, <1>12 DEF CheckBlacklist
  <1> QED BY <1>3, <1>5, <1>6, <1>7, <1>8, <1>9, <1>11, <1>12 DEF Next

\* A token that was logged out lets nobody past before the second it expires
\* (middleware.go:23-44, token.go:69-97).
THEOREM LoggedOutOut == Spec => LoggedOutStaysOut
  <1> DEFINE Past == \A i \in Requests :
               pc[i] = "blacklist" /\ pc'[i] = "handle" /\ local[i].token \in loggedOut =>
                 now >= local[i].token.exp
  <1>1. IInv /\ [Next]_vars => [Past]_vars
    <2> SUFFICES ASSUME IInv, Next, NEW i \in Requests,
                        pc[i] = "blacklist", pc'[i] = "handle", local[i].token \in loggedOut
                 PROVE  now >= local[i].token.exp
      OBVIOUS
    <2>1. TypesOK /\ KeyOutlivesToken
      BY DEF IInv
    <2>2. CheckBlacklist(i)
      BY <2>1, OnlyCheckLetsPast
    <2>3. ~IsTokenBlacklisted(local[i].token)
      BY <2>1, <2>2 DEF CheckBlacklist, Answer, Goto, TypesOK
    <2>4. local[i].token \in Tokens /\ blacklist[local[i].token] \in Nat
      BY <2>1 DEF TypesOK
    <2>5. local[i].token.exp \in Nat
      BY <2>4 DEF Tokens
    <2>6. now \in Nat
      BY <2>1 DEF TypesOK, Time
    <2> QED BY <2>1, <2>3, <2>4, <2>5, <2>6 DEF IsTokenBlacklisted, KeyOutlivesToken
  <1> QED BY <1>1, Invariance, PTL DEF Spec, LoggedOutStaysOut

\* Which steps change a stored password: only the save of a whole row.
LEMMA OnlySaveChangesPasswords ==
  ASSUME IInv, Next, NEW u \in Users, row[u] # NoRow, row'[u].password # row[u].password
  PROVE  \E i \in Requests : Save(i) /\ local[i].user = u
  <1> USE DEF db, clients
  <1>1. TypesOK
    BY DEF IInv
  <1>2. CASE Tick
    BY <1>2 DEF Tick
  <1>3. ASSUME NEW i \in Requests, row' = row PROVE FALSE
    BY <1>3
  <1>4. ASSUME NEW i \in Requests, Create(i) PROVE FALSE
    <2>1. CASE row[local[i].user] = NoRow /\ Store(i, local[i].user, local[i].row)
      BY <1>1, <2>1 DEF Store, TypesOK
    <2>2. CASE row' = row
      BY <2>2
    <2> QED BY <1>4, <2>1, <2>2 DEF Create
  <1>5. ASSUME NEW i \in Requests, UpdateLastLoginAt(i) PROVE FALSE
    <2> DEFINE v == local[i].user
    <2>1. row' = [row EXCEPT ![v] = [row[v] EXCEPT !.lastLogin = now]]
      BY <1>5 DEF UpdateLastLoginAt
    <2>2. CASE v = u
      <3>1. row[u] \in Row
        BY <1>1 DEF TypesOK
      <3>2. [row[u] EXCEPT !.lastLogin = now].password = row[u].password
        BY <3>1 DEF Row
      <3> QED BY <1>1, <2>1, <2>2, <3>2 DEF TypesOK
    <2>3. CASE v # u
      BY <1>1, <2>1, <2>3 DEF TypesOK
    <2> QED BY <2>2, <2>3
  <1>6. ASSUME NEW i \in Requests, Save(i) PROVE local[i].user = u
    BY <1>1, <1>6 DEF Save, Store, TypesOK
  <1>7. ASSUME NEW i \in Requests,
               \/ \E v \in Users, p \in Passwords, n \in Nicknames : SignUp(i, v, p, n)
               \/ \E v \in Users : Login(i, v)
               \/ \E t \in issued : Parse(i, t)
               \/ GenerateJWT(i) \/ CheckBlacklist(i) \/ Logout(i) \/ SetBlacklist(i) \/ GetUserProfile(i)
        PROVE row' = row
    BY <1>7 DEF SignUp, Login, Parse, GenerateJWT, CheckBlacklist, Logout, SetBlacklist, GetUserProfile
  <1>8. ASSUME NEW i \in Requests,
               \/ \E n \in Nicknames : UpdateUserProfile(i, n)
               \/ \E p \in Passwords : ChangePassword(i, p)
        PROVE row' = row
    BY <1>8 DEF UpdateUserProfile, ChangePassword, FindUserByID
  <1> QED BY <1>2, <1>3, <1>4, <1>5, <1>6, <1>7, <1>8 DEF Next

\* A stored password gives way only to one that was asked for by a request that
\* read it, or by one that has held its copy since an older password
\* (user_handler.go:108-133, 189-215; auth_handler.go:134).
THEOREM PasswordsOnRequest == Spec => PasswordsChangeOnRequest
  <1> DEFINE Asked == \A u \in Users :
               row[u] # NoRow /\ row'[u].password # row[u].password =>
                 \E i \in Requests :
                   /\ pc[i] = "save" /\ pc'[i] = "idle" /\ local[i].user = u
                   /\ row'[u] = local[i].row
                   /\ \/ local[i].copy.password = row[u].password
                      \/ i \in holders[u]
  <1>1. IInv /\ [Next]_vars => [Asked]_vars
    <2> SUFFICES ASSUME IInv, Next, NEW u \in Users,
                        row[u] # NoRow, row'[u].password # row[u].password
                 PROVE  \E i \in Requests :
                          /\ pc[i] = "save" /\ pc'[i] = "idle" /\ local[i].user = u
                          /\ row'[u] = local[i].row
                          /\ \/ local[i].copy.password = row[u].password
                             \/ i \in holders[u]
      OBVIOUS
    <2>1. PICK i \in Requests : Save(i) /\ local[i].user = u
      BY OnlySaveChangesPasswords
    <2>2. pc[i] = "save" /\ Store(i, u, local[i].row) /\ Answer(i) /\ TypesOK
      BY <2>1 DEF Save, IInv
    <2>3. pc'[i] = "idle"
      BY <2>2, AnswerTypes
    <2>4. row'[u] = local[i].row
      BY <2>2 DEF Store, TypesOK
    <2>5. local[i].copy.password = row[u].password \/ i \in holders[u]
      BY <2>1, <2>2 DEF IInv, CopyIsNewOrKnown
    <2> QED BY <2>1, <2>2, <2>3, <2>4, <2>5
  <1> QED BY <1>1, Invariance, PTL DEF Spec, PasswordsChangeOnRequest
===============================================================================
