--------------------------- MODULE AccountsProofs ---------------------------
(***************************************************************************)
(* Accounts, for any number of people, addresses and users.  What makes    *)
(* the check-then-insert of registration safe is the unique index: a row   *)
(* is its registrant's alone, so a login that finds a row under the        *)
(* address a person registered finds that person's row.                    *)
(***************************************************************************)
EXTENDS Accounts, TLAPS

(***************************************************************************)
(* The row of the session by itself, for any number of requests that name  *)
(* it.  What makes one conditional UPDATE enough: until the user blanks    *)
(* the name, a session that was claimed, or read as named, is never        *)
(* unnamed again.                                                          *)
(***************************************************************************)

\* Nobody authenticates before the row exists.
NotYet ==
    row = "absent" =>
        name = "" /\ \A r \in Requests : pc[r] = "none" /\ task[r] = "none"

\* What was read as named still is.
ReadNamed ==
    ~blanked /\ row = "present" =>
        \A r \in Requests : pc[r] = "claim" /\ ~unnamed[r] => name # ""

\* A session some request claimed has a name.
ClaimedNamed ==
    ~blanked /\ row = "present" =>
        \A r \in Requests : task[r] # "none" => name # ""

NInv == TypeOK /\ NotYet /\ ReadNamed /\ ClaimedNamed /\ OneTitle /\ AlwaysNamed

LEMMA NInvInit == Init => NInv
BY DEF Init, NInv, TypeOK, NotYet, ReadNamed, ClaimedNamed, OneTitle, AlwaysNamed

LEMMA NInvNext == NInv /\ [Next]_vars => NInv'
<1> SUFFICES ASSUME NInv, [Next]_vars PROVE NInv'
  OBVIOUS
<1> USE DEF NInv, TypeOK, NotYet, ReadNamed, ClaimedNamed, OneTitle, AlwaysNamed
<1>1. CASE CreateSession
  BY <1>1 DEF CreateSession
<1>2. CASE DeleteSession
  BY <1>2 DEF DeleteSession
<1>3. CASE UpdateSessionName
  BY <1>3 DEF UpdateSessionName, WriteName
<1>4. ASSUME NEW r \in Requests, Authenticate(r) PROVE NInv'
  BY <1>4 DEF Authenticate
<1>5. ASSUME NEW r \in Requests, AlreadyNamed(r) PROVE NInv'
  BY <1>5 DEF AlreadyNamed
<1>6. ASSUME NEW r \in Requests, NothingToName(r) PROVE NInv'
  BY <1>6 DEF NothingToName
<1>7. ASSUME NEW r \in Requests, ClaimSession(r) PROVE NInv'
  BY <1>7 DEF ClaimSession, Claimable
<1>8. ASSUME NEW r \in Requests, ClaimMisses(r) PROVE NInv'
  BY <1>8 DEF ClaimMisses, Claimable
<1>9. ASSUME NEW r \in Requests, RequestLost(r) PROVE NInv'
  BY <1>9 DEF RequestLost
<1>10. ASSUME NEW r \in Requests, PersistSessionName(r) PROVE NInv'
  BY <1>10 DEF PersistSessionName, WriteName, Title
<1>11. ASSUME NEW r \in Requests, NamingFails(r) PROVE NInv'
  BY <1>11 DEF NamingFails
<1>12. CASE UNCHANGED vars
  BY <1>12 DEF vars
<1> QED
  BY <1>1, <1>2, <1>3, <1>4, <1>5, <1>6, <1>7, <1>8, <1>9, <1>10, <1>11, <1>12
  DEF Next, NamingStep

\* The strengthened invariant holds throughout, for any set of requests.
THEOREM NamingInvariance == Spec => []NInv
BY NInvInit, NInvNext, PTL DEF Spec

\* The row, its name and the requests keep their values' ranges.
THEOREM NamingTypeCorrect == Spec => []TypeOK
<1>1. NInv => TypeOK
  BY DEF NInv
<1> QED BY <1>1, NamingInvariance, PTL

\* One model call names a session however many requests found it unnamed
\* (_claim_session).
THEOREM NamedOnce == Spec => []OneTitle
<1>1. NInv => OneTitle
  BY DEF NInv
<1> QED BY <1>1, NamingInvariance, PTL

\* Past maybe_name_session the session has a name, whatever the task does.
THEOREM NamedAfterFirstMessage == Spec => []AlwaysNamed
<1>1. NInv => AlwaysNamed
  BY DEF NInv
<1> QED BY <1>1, NamingInvariance, PTL

-----------------------------------------------------------------------------
(***************************************************************************)
(* The accounts.                                                           *)
(***************************************************************************)

\* Everybody keeps to a password of their own.
OwnCredentials ==
    \A p \in People : /\ credentials[p].password.by = p
                      /\ ~credentials[p].password.escaped

\* A row is what its registrant's credentials made of it.
RowsAsRegistered ==
    \A u \in users :
        /\ u.password = credentials[u.password.by].password
        /\ u.email = SanitizeEmail(credentials[u.password.by].email)

OneRowPerAddress == \A u, v \in users : u.email = v.email => u = v

Owns(p) == \E u \in users : u.id \in owner /\ u.password.by = p

\* A rename that is under way hands out a token again, also to one whose own
\* has expired meanwhile.
RenamersOwn == \A p \in People : at[p] = "rename" => Owns(p)

NoSessionYet ==
    row = "absent" => sessionTokens = {} /\ \A p \in People : at[p] # "rename"

AInv ==
    /\ AccountsTypeOK /\ OwnCredentials /\ RowsAsRegistered /\ OneRowPerAddress
    /\ TokensAreEarned /\ SessionTokensAreOwned /\ RenamersOwn /\ NoSessionYet
    /\ AccountOpens

-----------------------------------------------------------------------------

\* What is registered in small letters and without markup is looked up and
\* verified as it was stored.
LEMMA PlainIsKept ==
    ASSUME AccountsTypeOK, OwnCredentials, NEW p \in People, PlainCredentials(p)
    PROVE  /\ SanitizeEmail(credentials[p].email) = credentials[p].email
           /\ SanitizeString(credentials[p].password) = credentials[p].password
<1>1. credentials[p] \in [email : Emails, password : Passwords]
  BY DEF AccountsTypeOK
<1>2. /\ credentials[p].email \in Emails /\ credentials[p].password \in Passwords
  BY <1>1
<1>3. credentials[p].email.capitals = FALSE /\ credentials[p].password.escaped = FALSE
  BY <1>2 DEF PlainCredentials, OwnCredentials, Emails, Passwords
<1>4. SanitizeEmail(credentials[p].email) = credentials[p].email
  BY <1>2, <1>3 DEF SanitizeEmail, Emails
<1>5. (credentials[p].password.kind = "markup") = FALSE
  BY DEF PlainCredentials
<1>6. SanitizeString(credentials[p].password) = credentials[p].password
  BY <1>2, <1>3, <1>5 DEF SanitizeString, Passwords
<1> QED BY <1>4, <1>6

LEMMA SanitizeEmailType ==
    ASSUME NEW e \in Emails PROVE SanitizeEmail(e) \in Emails
BY DEF SanitizeEmail, Emails

\* A step that adds no row, no token and no answer, and starts no rename.
LEMMA QuietStep ==
    ASSUME AInv, AccountsTypeOK',
           UNCHANGED <<credentials, users, owner>>,
           \A p \in People : userTokens'[p] \subseteq userTokens[p],
           sessionTokens' \subseteq sessionTokens,
           \A p \in People : at'[p] = "rename" => at[p] = "rename",
           \A p \in People : answer'[p] = "denied" => answer[p] = "denied",
           row' = "absent" => row = "absent"
    PROVE  AInv'
<1> USE DEF AInv
<1>1. OwnCredentials' /\ RowsAsRegistered' /\ OneRowPerAddress'
  BY DEF OwnCredentials, RowsAsRegistered, OneRowPerAddress
<1>2. TokensAreEarned'
  BY DEF TokensAreEarned
<1>3. SessionTokensAreOwned'
  BY DEF SessionTokensAreOwned
<1>4. RenamersOwn'
  BY DEF RenamersOwn, Owns
<1>5. NoSessionYet'
  BY DEF NoSessionYet
<1>6. AccountOpens'
  BY DEF AccountOpens, Registered, PlainCredentials
<1> QED BY <1>1, <1>2, <1>3, <1>4, <1>5, <1>6

\* The session's own steps disturb nothing but the naming variables.
LEMMA NamingStepRow == ASSUME NEW r, NamingStep(r) PROVE row' = row
BY DEF NamingStep, AlreadyNamed, NothingToName, ClaimSession, ClaimMisses,
   RequestLost, PersistSessionName, NamingFails

LEMMA AInvInit == AccountsInit => AInv
<1> SUFFICES ASSUME AccountsInit PROVE AInv
  OBVIOUS
<1>1. \A p \in People : /\ at[p] = "idle" /\ answer[p] = "none"
                        /\ userTokens[p] = {}
  BY DEF AccountsInit
<1>2. OwnCredentials
  BY DEF AccountsInit, OwnCredentials
<1>3. AccountsTypeOK
  BY DEF AccountsInit, AccountsTypeOK
<1> QED
  BY <1>1, <1>2, <1>3 DEF AccountsInit, AInv, RowsAsRegistered, OneRowPerAddress,
     TokensAreEarned, SessionTokensAreOwned, RenamersOwn, NoSessionYet, AccountOpens

\* The unique index keeps the rows apart; the new row is its registrant's.
LEMMA CreateUserKeeps ==
    ASSUME AInv, NEW p \in People, CreateUser(p) PROVE AInv'
<1> DEFINE email == SanitizeEmail(credentials[p].email)
<1> USE DEF AInv
<1>1. PICK id \in UserIds \ {u.id : u \in users} :
          /\ users' = users \cup {[id |-> id, email |-> email,
                                   password |-> credentials[p].password]}
          /\ userTokens' = [userTokens EXCEPT ![p] = @ \cup {id}]
  BY DEF CreateUser
<1> DEFINE new == [id |-> id, email |-> email, password |-> credentials[p].password]
<1>2. /\ Unique(email) /\ at' = [at EXCEPT ![p] = "idle"]
      /\ answer' = [answer EXCEPT ![p] = "ok"]
      /\ UNCHANGED <<row, credentials, owner, sessionTokens>>
  BY DEF CreateUser, Answer, vars
<1>3. credentials[p] \in [email : Emails, password : Passwords]
  BY DEF AccountsTypeOK
<1>4. email \in Emails /\ credentials[p].password \in Passwords
  BY <1>3, SanitizeEmailType
<1>5. new \in [id : UserIds, email : Emails, password : Passwords]
  BY <1>1, <1>4
<1>6. /\ new.id = id /\ new.email = email /\ new.password = credentials[p].password
      /\ new.password.by = p
  BY DEF OwnCredentials
<1>7. users' = users \cup {new}
  BY <1>1
<1> HIDE DEF new
<1>8. AccountsTypeOK'
  BY <1>1, <1>2, <1>5, <1>7 DEF AccountsTypeOK
<1>9. OwnCredentials' /\ RowsAsRegistered'
  BY <1>2, <1>6, <1>7 DEF OwnCredentials, RowsAsRegistered, SanitizeEmail
<1>10. OneRowPerAddress'
  BY <1>2, <1>6, <1>7 DEF OneRowPerAddress, Unique
<1>11. TokensAreEarned'
  <2> SUFFICES ASSUME NEW q \in People, NEW i \in userTokens'[q]
               PROVE  \E u \in users' : u.id = i /\ u.password.by = q
    BY DEF TokensAreEarned
  <2>1. CASE q = p /\ i = id
    BY <2>1, <1>6, <1>7
  <2>2. CASE ~(q = p /\ i = id)
    <3>1. i \in userTokens[q]
      BY <2>2, <1>1 DEF AccountsTypeOK
    <3> QED BY <3>1, <1>7 DEF TokensAreEarned
  <2> QED BY <2>1, <2>2
<1>12. SessionTokensAreOwned' /\ RenamersOwn' /\ NoSessionYet'
  BY <1>2, <1>7 DEF SessionTokensAreOwned, RenamersOwn, Owns, NoSessionYet, AccountsTypeOK
<1>13. AccountOpens'
  <2> SUFFICES ASSUME NEW q \in People, Registered(q)', PlainCredentials(q)'
               PROVE  answer'[q] # "denied"
    BY DEF AccountOpens
  <2>1. CASE q = p
    BY <2>1, <1>2 DEF AccountsTypeOK
  <2>2. CASE q # p
    <3>1. Registered(q)
      BY <2>2, <1>6, <1>7 DEF Registered
    <3> QED BY <3>1, <2>2, <1>2 DEF AccountOpens, PlainCredentials, AccountsTypeOK
  <2> QED BY <2>1, <2>2
<1> QED BY <1>8, <1>9, <1>10, <1>11, <1>12, <1>13

\* A plain login is denied only to who has no row: the row found under the
\* address would be the registrant's, and its password the one presented.
LEMMA LoginKeeps == ASSUME AInv, NEW p \in People, Login(p) PROVE AInv'
<1> USE DEF AInv
<1>1. UNCHANGED <<row, credentials, users, owner, at, sessionTokens>>
  BY DEF Login, vars
<1>2. PICK u \in users :
          /\ u.email = credentials[p].email
          /\ IF Opens(p, u)
             THEN /\ userTokens' = [userTokens EXCEPT ![p] = @ \cup {u.id}]
                  /\ Answer(p, "ok")
             ELSE Answer(p, "denied") /\ userTokens' = userTokens
  BY DEF Login
<1>3. CASE Opens(p, u)
  <2>1. /\ userTokens' = [userTokens EXCEPT ![p] = @ \cup {u.id}]
        /\ answer' = [answer EXCEPT ![p] = "ok"]
    BY <1>2, <1>3 DEF Answer
  <2>2. u.id \in UserIds
    BY DEF AccountsTypeOK
  <2>3. u.password.by = p
    <3>1. credentials[p] \in [email : Emails, password : Passwords]
      BY DEF AccountsTypeOK
    <3>2. credentials[p].password \in Passwords /\ credentials[p].password.by = p
      BY <3>1 DEF OwnCredentials
    <3>3. SanitizeString(credentials[p].password).by = p
      BY <3>2 DEF SanitizeString, Passwords
    <3> QED BY <3>3, <1>3 DEF Opens
  <2>4. AccountsTypeOK'
    BY <1>1, <2>1, <2>2 DEF AccountsTypeOK
  <2>5. TokensAreEarned'
    BY <1>1, <2>1, <2>3 DEF TokensAreEarned, AccountsTypeOK
  <2>6. AccountOpens'
    BY <1>1, <2>1 DEF AccountOpens, Registered, PlainCredentials, AccountsTypeOK
  <2> QED BY <1>1, <2>4, <2>5, <2>6 DEF OwnCredentials, RowsAsRegistered,
          OneRowPerAddress, SessionTokensAreOwned, RenamersOwn, Owns, NoSessionYet
<1>4. CASE ~Opens(p, u)
  <2>1. userTokens' = userTokens /\ answer' = [answer EXCEPT ![p] = "denied"]
    BY <1>2, <1>4 DEF Answer
  <2>2. AccountsTypeOK'
    BY <1>1, <2>1 DEF AccountsTypeOK
  <2>3. ASSUME Registered(p), PlainCredentials(p) PROVE FALSE
    <3>1. PICK w \in users : w.password.by = p
      BY <2>3 DEF Registered
    <3>2. /\ w.email = credentials[p].email
          /\ w.password = SanitizeString(credentials[p].password)
      BY <2>3, <3>1, PlainIsKept DEF RowsAsRegistered
    <3>3. w = u
      BY <3>2, <1>2 DEF OneRowPerAddress
    <3> QED BY <3>2, <3>3, <1>4 DEF Opens
  <2>4. AccountOpens'
    <3> SUFFICES ASSUME NEW q \in People, Registered(q)', PlainCredentials(q)'
                 PROVE  answer'[q] # "denied"
      BY DEF AccountOpens
    <3>1. Registered(q) /\ PlainCredentials(q)
      BY <1>1 DEF Registered, PlainCredentials
    <3>2. q # p
      BY <2>3, <3>1
    <3> QED BY <3>1, <3>2, <2>1 DEF AccountOpens, AccountsTypeOK
  <2>5. TokensAreEarned'
    BY <1>1, <2>1 DEF TokensAreEarned
  <2> QED BY <1>1, <2>2, <2>4, <2>5 DEF OwnCredentials, RowsAsRegistered,
          OneRowPerAddress, SessionTokensAreOwned, RenamersOwn, Owns, NoSessionYet
<1> QED BY <1>3, <1>4

\* The owner of the token a session is created with owns the session.
LEMMA NewSessionKeeps == ASSUME AInv, NEW p \in People, NewSession(p) PROVE AInv'
<1> USE DEF AInv
<1>1. PICK id \in userTokens[p] : owner' = {id}
  BY DEF NewSession
<1>2. /\ row = "absent" /\ row' = "present"
      /\ sessionTokens' = sessionTokens \cup {p}
      /\ answer' = [answer EXCEPT ![p] = "ok"]
      /\ UNCHANGED <<credentials, users, at, userTokens>>
  BY DEF NewSession, CreateSession, Answer
<1>3. id \in UserIds
  BY DEF AccountsTypeOK
<1>4. AccountsTypeOK'
  BY <1>1, <1>2, <1>3 DEF AccountsTypeOK
<1>5. \E u \in users : u.id = id /\ u.password.by = p
  BY DEF TokensAreEarned
<1>6. sessionTokens = {} /\ \A q \in People : at[q] # "rename"
  BY <1>2 DEF NoSessionYet
<1>7. SessionTokensAreOwned' /\ RenamersOwn' /\ NoSessionYet'
  BY <1>1, <1>2, <1>5, <1>6 DEF SessionTokensAreOwned, RenamersOwn, NoSessionYet
<1>8. AccountOpens'
  BY <1>2 DEF AccountOpens, Registered, PlainCredentials, AccountsTypeOK
<1> QED BY <1>2, <1>4, <1>7, <1>8 DEF OwnCredentials, RowsAsRegistered,
        OneRowPerAddress, TokensAreEarned

\* What is listed to a user is the user's.
LEMMA GetUserSessionsKeeps ==
    ASSUME AInv, NEW p \in People, GetUserSessions(p) PROVE AInv'
<1> USE DEF AInv
<1>1. /\ UNCHANGED <<row, credentials, users, owner, at, userTokens>>
      /\ \E a \in {"ok", "invalid"} : answer' = [answer EXCEPT ![p] = a]
  BY DEF GetUserSessions, Answer, vars
<1>2. CASE sessionTokens' = sessionTokens
  <2>1. AccountsTypeOK'
    BY <1>1, <1>2 DEF AccountsTypeOK
  <2>2. \A q \in People : answer'[q] = "denied" => answer[q] = "denied"
    BY <1>1 DEF AccountsTypeOK
  <2> QED BY <1>1, <1>2, <2>1, <2>2, QuietStep
<1>3. CASE sessionTokens' # sessionTokens
  <2>1. PICK id \in userTokens[p] :
            Listed(id) /\ sessionTokens' = sessionTokens \cup {p}
    BY <1>3 DEF GetUserSessions
  <2>2. \E u \in users : u.id \in owner /\ u.password.by = p
    BY <2>1 DEF TokensAreEarned, Listed
  <2>3. SessionTokensAreOwned' /\ RenamersOwn' /\ NoSessionYet'
    BY <1>1, <2>1, <2>2 DEF SessionTokensAreOwned, RenamersOwn, Owns, NoSessionYet, Listed
  <2>4. AccountsTypeOK'
    BY <1>1, <2>1 DEF AccountsTypeOK
  <2>5. AccountOpens'
    BY <1>1 DEF AccountOpens, Registered, PlainCredentials, AccountsTypeOK
  <2> QED BY <1>1, <2>3, <2>4, <2>5 DEF OwnCredentials, RowsAsRegistered,
          OneRowPerAddress, TokensAreEarned
<1> QED BY <1>2, <1>3

LEMMA AuthenticateSessionKeeps ==
    ASSUME AInv, NEW p \in People, AuthenticateSession(p) PROVE AInv'
<1> USE DEF AInv
<1>1. UNCHANGED <<row, credentials, users, owner, userTokens, sessionTokens>>
  BY DEF AuthenticateSession, vars
<1>2. p \in sessionTokens
  BY DEF AuthenticateSession
<1>3. CASE row = "present"
  <2>1. PICK op \in {"rename", "delete"} : at' = [at EXCEPT ![p] = op]
    BY <1>3 DEF AuthenticateSession
  <2>2. answer' = answer
    BY <1>3 DEF AuthenticateSession
  <2>3. AccountsTypeOK'
    BY <1>1, <2>1, <2>2 DEF AccountsTypeOK
  <2>4. RenamersOwn'
    BY <1>1, <1>2, <2>1 DEF RenamersOwn, Owns, SessionTokensAreOwned, AccountsTypeOK
  <2> QED BY <1>1, <1>3, <2>2, <2>3, <2>4 DEF OwnCredentials, RowsAsRegistered,
          OneRowPerAddress, TokensAreEarned, SessionTokensAreOwned, NoSessionYet,
          AccountOpens, Registered, PlainCredentials
<1>4. CASE row # "present"
  <2>1. at' = at /\ answer' = [answer EXCEPT ![p] = "missing"]
    BY <1>4 DEF AuthenticateSession, Answer
  <2>2. AccountsTypeOK'
    BY <1>1, <2>1 DEF AccountsTypeOK
  <2>3. \A q \in People : answer'[q] = "denied" => answer[q] = "denied"
    BY <2>1 DEF AccountsTypeOK
  <2> QED BY <1>1, <2>1, <2>2, <2>3, QuietStep
<1> QED BY <1>3, <1>4

\* Whoever renames owned the session when the request was authenticated.
LEMMA RenameSessionKeeps ==
    ASSUME AInv, NEW p \in People, RenameSession(p) PROVE AInv'
<1> USE DEF AInv
<1>1. /\ at[p] = "rename" /\ at' = [at EXCEPT ![p] = "idle"]
      /\ UNCHANGED <<row, credentials, users, owner, userTokens>>
      /\ \E a \in {"ok", "invalid", "missing"} : answer' = [answer EXCEPT ![p] = a]
      /\ sessionTokens' \in {sessionTokens, sessionTokens \cup {p}}
  BY DEF RenameSession, UpdateSessionName, Answer, vars
<1>2. Owns(p)
  BY <1>1 DEF RenamersOwn
<1>3. AccountsTypeOK'
  BY <1>1 DEF AccountsTypeOK
<1>4. SessionTokensAreOwned' /\ RenamersOwn' /\ NoSessionYet'
  BY <1>1, <1>2 DEF SessionTokensAreOwned, RenamersOwn, Owns, NoSessionYet, AccountsTypeOK
<1>5. AccountOpens'
  BY <1>1 DEF AccountOpens, Registered, PlainCredentials, AccountsTypeOK
<1> QED BY <1>1, <1>3, <1>4, <1>5 DEF OwnCredentials, RowsAsRegistered,
        OneRowPerAddress, TokensAreEarned

LEMMA AInvNext == AInv /\ [AccountsNext]_allVars => AInv'
<1> SUFFICES ASSUME AInv, [AccountsNext]_allVars PROVE AInv'
  OBVIOUS
<1>1. ASSUME NEW p \in People, RegisterUser(p) PROVE AInv'
  <2>1. /\ UNCHANGED <<row, credentials, users, owner, userTokens, sessionTokens>>
        /\ \/ at' = at
           \/ at' = [at EXCEPT ![p] = "insert"]
        /\ \/ answer' = answer
           \/ \E a \in {"invalid", "taken"} : answer' = [answer EXCEPT ![p] = a]
    BY <1>1 DEF RegisterUser, Answer, vars
  <2>2. AccountsTypeOK'
    BY <2>1 DEF AInv, AccountsTypeOK
  <2>3. \A q \in People : /\ answer'[q] = "denied" => answer[q] = "denied"
                          /\ at'[q] = "rename" => at[q] = "rename"
    BY <2>1 DEF AInv, AccountsTypeOK
  <2> QED BY <2>1, <2>2, <2>3, QuietStep
<1>2. ASSUME NEW p \in People, CreateUserFails(p) PROVE AInv'
  <2>1. /\ UNCHANGED <<row, credentials, users, owner, userTokens, sessionTokens>>
        /\ at' = [at EXCEPT ![p] = "idle"] /\ answer' = [answer EXCEPT ![p] = "error"]
    BY <1>2 DEF CreateUserFails, Answer, vars
  <2>2. AccountsTypeOK'
    BY <2>1 DEF AInv, AccountsTypeOK
  <2>3. \A q \in People : /\ answer'[q] = "denied" => answer[q] = "denied"
                          /\ at'[q] = "rename" => at[q] = "rename"
    BY <2>1 DEF AInv, AccountsTypeOK
  <2> QED BY <2>1, <2>2, <2>3, QuietStep
<1>3. ASSUME NEW p \in People, LoginUnknown(p) PROVE AInv'
  <2>1. /\ UNCHANGED <<row, credentials, users, owner, at, userTokens, sessionTokens>>
        /\ answer' = [answer EXCEPT ![p] = "denied"]
        /\ \A u \in users : u.email # credentials[p].email
    BY <1>3 DEF LoginUnknown, Answer, vars
  <2>2. AccountsTypeOK'
    BY <2>1 DEF AInv, AccountsTypeOK
  <2>3. Registered(p) => ~PlainCredentials(p)
    BY <2>1, PlainIsKept DEF AInv, Registered, RowsAsRegistered
  <2>4. AccountOpens'
    BY <2>1, <2>3 DEF AInv, AccountOpens, Registered, PlainCredentials, AccountsTypeOK
  <2> QED BY <2>1, <2>2, <2>4 DEF AInv, OwnCredentials, RowsAsRegistered,
          OneRowPerAddress, TokensAreEarned, SessionTokensAreOwned, RenamersOwn, Owns,
          NoSessionYet
<1>4. ASSUME NEW p \in People, TokensExpire(p) PROVE AInv'
  <2>1. /\ UNCHANGED <<row, credentials, users, owner, at, answer>>
        /\ userTokens' = [userTokens EXCEPT ![p] = {}]
        /\ sessionTokens' = sessionTokens \ {p}
    BY <1>4 DEF TokensExpire, vars
  <2>2. AccountsTypeOK' /\ \A q \in People : userTokens'[q] \subseteq userTokens[q]
    BY <2>1 DEF AInv, AccountsTypeOK
  <2> QED BY <2>1, <2>2, QuietStep
<1>5. ASSUME NEW p \in People, RemoveSession(p) PROVE AInv'
  <2>1. /\ UNCHANGED <<credentials, users, owner, userTokens, sessionTokens>>
        /\ at' = [at EXCEPT ![p] = "idle"] /\ answer' = [answer EXCEPT ![p] = "ok"]
        /\ (row' = "absent" => row = "absent")
    BY <1>5 DEF RemoveSession, DeleteSession, Answer, vars
  <2>2. AccountsTypeOK'
    BY <2>1 DEF AInv, AccountsTypeOK
  <2>3. \A q \in People : /\ answer'[q] = "denied" => answer[q] = "denied"
                          /\ at'[q] = "rename" => at[q] = "rename"
    BY <2>1 DEF AInv, AccountsTypeOK
  <2> QED BY <2>1, <2>2, <2>3, QuietStep
<1>6. ASSUME NEW r \in Requests, ChatAuthenticates(r) \/ (NamingStep(r) /\ UNCHANGED accounts)
      PROVE  AInv'
  <2>1. UNCHANGED accounts /\ row' = row
    BY <1>6, NamingStepRow DEF ChatAuthenticates, Authenticate
  <2>2. AccountsTypeOK'
    BY <2>1 DEF AInv, AccountsTypeOK, accounts
  <2> QED BY <2>1, <2>2, QuietStep DEF accounts
<1>7. CASE UNCHANGED allVars
  <2>1. AccountsTypeOK'
    BY <1>7 DEF AInv, AccountsTypeOK, allVars, accounts
  <2> QED BY <1>7, <2>1, QuietStep DEF allVars, accounts, vars
<1> QED
  BY <1>1, <1>2, <1>3, <1>4, <1>5, <1>6, <1>7, CreateUserKeeps, LoginKeeps,
     NewSessionKeeps, GetUserSessionsKeeps, AuthenticateSessionKeeps, RenameSessionKeeps
  DEF AccountsNext

\* The strengthened invariant holds throughout.
THEOREM AccountsInvariance == AccountsSpec => []AInv
BY AInvInit, AInvNext, PTL DEF AccountsSpec

\* A user's token is held by who registered that user (register_user, login).
THEOREM TokensEarned == AccountsSpec => []TokensAreEarned
<1>1. AInv => TokensAreEarned
  BY DEF AInv
<1> QED BY <1>1, AccountsInvariance, PTL

\* A session's token is held by who registered its owner (create_session,
\* get_user_sessions, update_session_name).
THEOREM SessionTokensOwned == AccountsSpec => []SessionTokensAreOwned
<1>1. AInv => SessionTokensAreOwned
  BY DEF AInv
<1> QED BY <1>1, AccountsInvariance, PTL

\* Registration is not in vain for plain credentials, whatever races it ran.
THEOREM AccountsOpen == AccountsSpec => []AccountOpens
<1>1. AInv => AccountOpens
  BY DEF AInv
<1> QED BY <1>1, AccountsInvariance, PTL

\* The session of an account goes through the steps of SessionNaming and no
\* others, so that what is proved of the naming holds of it.
THEOREM ImplementsNaming == AccountsSpec => Spec
<1>1. AccountsInit => Init
  BY DEF AccountsInit
<1>2. [AccountsNext]_allVars => [Next]_vars
  BY DEF AccountsNext, RegisterUser, CreateUser, CreateUserFails, Login, LoginUnknown,
     TokensExpire, NewSession, GetUserSessions, AuthenticateSession, RenameSession,
     RemoveSession, ChatAuthenticates, Next, allVars
<1> QED BY <1>1, <1>2, PTL DEF AccountsSpec, Spec

\* What is proved of the row holds with everything people do to it: one
\* message asks for a title and past the first one the session has a name
\* (session_naming.py:40, 6).
THEOREM AccountsNameSessions == AccountsSpec => [](OneTitle /\ AlwaysNamed)
BY ImplementsNaming, NamedOnce, NamedAfterFirstMessage, PTL

=============================================================================
