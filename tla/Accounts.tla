------------------------------ MODULE Accounts ------------------------------
(***************************************************************************)
(* Accounts, their tokens and one chat session (app/api/v1/auth.py,        *)
(* app/services/database.py, app/utils/auth.py, app/utils/sanitization.py).*)
(* People register and log in, each with an address and a password, and    *)
(* create, list, rename and delete the session, whose row is that of       *)
(* SessionNaming.  A statement on the database is one step; registering,   *)
(* renaming and deleting are two, and workers interleave between them.     *)
(*                                                                         *)
(* The two kinds of tokens are kept apart by their subjects: a user's id   *)
(* names no session (404), and a session's id is no integer (422).         *)
(***************************************************************************)
EXTENDS SessionNaming

CONSTANTS
    People,
    Addresses,          \* mail addresses, by their lower-case spelling
    UserIds             \* the serial of the table: the same id never twice

VARIABLES
    credentials,        \* what each person registers and logs in with
    users,              \* the rows of the table
    owner,              \* the ids of users the session belongs to
    at,                 \* each person's request, between its two statements
    answer,             \* what the last one was answered
    userTokens,         \* the ids each person has a valid token for
    sessionTokens       \* who has a valid token for the session

accounts == <<credentials, users, owner, at, answer, userTokens, sessionTokens>>
allVars == <<vars, accounts>>

\* An address may be spelled with capitals.  A password may have one of the
\* characters & < > " ', which HTML escapes; a weak one is refused.
Emails == [address : Addresses, capitals : BOOLEAN]
Passwords == [by : People, kind : {"plain", "markup", "weak"}, escaped : BOOLEAN]

AccountsTypeOK ==
    /\ credentials \in [People -> [email : Emails, password : Passwords]]
    /\ users \subseteq [id : UserIds, email : Emails, password : Passwords]
    /\ owner \subseteq UserIds
    /\ at \in [People -> {"idle", "insert", "rename", "delete"}]
    /\ answer \in [People -> {"none", "ok", "taken", "denied", "error",
                              "missing", "invalid"}]
    /\ userTokens \in [People -> SUBSET UserIds]
    /\ sessionTokens \subseteq People

\* Everybody has a password of their own, not escaped as they type it.
AccountsInit ==
    /\ Init
    /\ credentials \in [People -> [email : Emails, password : Passwords]]
    /\ \A p \in People : /\ credentials[p].password.by = p
                         /\ ~credentials[p].password.escaped
    /\ users = {} /\ owner = {}
    /\ at = [p \in People |-> "idle"]
    /\ answer = [p \in People |-> "none"]
    /\ userTokens = [p \in People |-> {}]
    /\ sessionTokens = {}

Answer(p, a) == answer' = [answer EXCEPT ![p] = a]

-----------------------------------------------------------------------------
(***************************************************************************)
(* Registration and login.                                                 *)
(***************************************************************************)

\* html.escape leaves an address that passes the format check as it is.
SanitizeString(password) ==
    [by |-> password.by, kind |-> password.kind,
     escaped |-> password.kind = "markup"]

SanitizeEmail(email) == [address |-> email.address, capitals |-> FALSE]

\* Mutant: the column has lost its unique index.
UniqueNot(email) == TRUE

\* The unique index on User.email.
Unique(email) == \A u \in users : u.email # email

\* The checks of the schema and of the handler, then get_user_by_email.
RegisterUser(p) ==
    LET email == SanitizeEmail(credentials[p].email) IN
    /\ at[p] = "idle"
    /\ IF credentials[p].password.kind = "weak"
       THEN Answer(p, "invalid") /\ at' = at
       ELSE IF \E u \in users : u.email = email
       THEN Answer(p, "taken") /\ at' = at
       ELSE at' = [at EXCEPT ![p] = "insert"] /\ answer' = answer
    /\ UNCHANGED <<vars, credentials, users, owner, userTokens, sessionTokens>>

\* Mutant: create_user becomes get-or-create.
CreateUserOrGet(p) ==
    LET email == SanitizeEmail(credentials[p].email) IN
    /\ at[p] = "insert" /\ at' = [at EXCEPT ![p] = "idle"]
    /\ \/ \E u \in users :
            /\ u.email = email
            /\ userTokens' = [userTokens EXCEPT ![p] = @ \cup {u.id}]
            /\ users' = users
       \/ /\ Unique(email)
          /\ \E id \in UserIds \ {u.id : u \in users} :
                /\ users' = users \cup {[id |-> id, email |-> email,
                                         password |-> credentials[p].password]}
                /\ userTokens' = [userTokens EXCEPT ![p] = @ \cup {id}]
    /\ Answer(p, "ok")
    /\ UNCHANGED <<vars, credentials, owner, sessionTokens>>

\* The row keeps the hash of the password as it was typed.
CreateUser(p) ==
    LET email == SanitizeEmail(credentials[p].email) IN
    /\ at[p] = "insert" /\ at' = [at EXCEPT ![p] = "idle"]
    /\ Unique(email)
    /\ \E id \in UserIds \ {u.id : u \in users} :
          /\ users' = users \cup {[id |-> id, email |-> email,
                                   password |-> credentials[p].password]}
          /\ userTokens' = [userTokens EXCEPT ![p] = @ \cup {id}]
    /\ Answer(p, "ok")
    /\ UNCHANGED <<vars, credentials, owner, sessionTokens>>

\* The address was registered since the check: IntegrityError, a 500.
CreateUserFails(p) ==
    /\ at[p] = "insert" /\ at' = [at EXCEPT ![p] = "idle"]
    /\ ~Unique(SanitizeEmail(credentials[p].email))
    /\ Answer(p, "error")
    /\ UNCHANGED <<vars, credentials, users, owner, userTokens, sessionTokens>>

\* The rows login may open: an address is looked up as it is spelled, a
\* password verified as sanitize_string leaves it.
Opens(p, u) ==
    /\ u.email = credentials[p].email
    /\ u.password = SanitizeString(credentials[p].password)

\* get_user_by_email takes the first row of the address.
Login(p) ==
    /\ at[p] = "idle"
    /\ \E u \in users :
          /\ u.email = credentials[p].email
          /\ IF Opens(p, u)
             THEN /\ userTokens' = [userTokens EXCEPT ![p] = @ \cup {u.id}]
                  /\ Answer(p, "ok")
             ELSE Answer(p, "denied") /\ userTokens' = userTokens
    /\ UNCHANGED <<vars, credentials, users, owner, at, sessionTokens>>

LoginUnknown(p) ==
    /\ at[p] = "idle"
    /\ \A u \in users : u.email # credentials[p].email
    /\ Answer(p, "denied")
    /\ UNCHANGED <<vars, credentials, users, owner, at, userTokens, sessionTokens>>

\* JWT_ACCESS_TOKEN_EXPIRE_DAYS have passed: verify_token decodes no more.
TokensExpire(p) ==
    /\ userTokens[p] # {} \/ p \in sessionTokens
    /\ userTokens' = [userTokens EXCEPT ![p] = {}]
    /\ sessionTokens' = sessionTokens \ {p}
    /\ UNCHANGED <<vars, credentials, users, owner, at, answer>>

-----------------------------------------------------------------------------
(***************************************************************************)
(* The session.                                                            *)
(***************************************************************************)

NewSession(p) ==
    /\ at[p] = "idle"
    /\ \E id \in userTokens[p] : owner' = {id}
    /\ CreateSession
    /\ sessionTokens' = sessionTokens \cup {p}
    /\ Answer(p, "ok")
    /\ UNCHANGED <<credentials, users, at, userTokens>>

\* Mutant: every session is listed.
ListedToAll(id) == row = "present"

\* WHERE user_id = ...
Listed(id) == row = "present" /\ id \in owner

\* A listed session comes with a token for it.  One name that is too long
\* fails the whole list.
GetUserSessions(p) ==
    /\ at[p] = "idle"
    /\ \E id \in userTokens[p] :
          \/ /\ Listed(id) /\ name # "long"
             /\ sessionTokens' = sessionTokens \cup {p} /\ Answer(p, "ok")
          \/ /\ Listed(id) /\ name = "long"
             /\ Answer(p, "invalid") /\ UNCHANGED sessionTokens
          \/ ~Listed(id) /\ Answer(p, "ok") /\ UNCHANGED sessionTokens
    /\ UNCHANGED <<vars, credentials, users, owner, at, userTokens>>

\* get_current_session of PATCH and DELETE: a session that is gone is a 404.
AuthenticateSession(p) ==
    /\ at[p] = "idle" /\ p \in sessionTokens
    /\ IF row = "present"
       THEN \E op \in {"rename", "delete"} :
               at' = [at EXCEPT ![p] = op] /\ answer' = answer
       ELSE Answer(p, "missing") /\ at' = at
    /\ UNCHANGED <<vars, credentials, users, owner, userTokens, sessionTokens>>

\* The name is committed before the response is validated: a name that is too
\* long is answered 422 and stays.  The session may be gone by now.
RenameSession(p) ==
    /\ at[p] = "rename" /\ at' = [at EXCEPT ![p] = "idle"]
    /\ \/ /\ UpdateSessionName
          /\ sessionTokens' = sessionTokens \cup {p}
          /\ Answer(p, IF name' = "long" THEN "invalid" ELSE "ok")
       \/ /\ row # "present" /\ Answer(p, "missing")
          /\ UNCHANGED <<vars, sessionTokens>>
    /\ UNCHANGED <<credentials, users, owner, userTokens>>

\* A session somebody else has deleted by now is answered like one deleted.
RemoveSession(p) ==
    /\ at[p] = "delete" /\ at' = [at EXCEPT ![p] = "idle"]
    /\ \/ DeleteSession
       \/ row # "present" /\ UNCHANGED vars
    /\ Answer(p, "ok")
    /\ UNCHANGED <<credentials, users, owner, userTokens, sessionTokens>>

\* A message to the chat endpoints.
ChatAuthenticates(r) ==
    /\ sessionTokens # {} /\ Authenticate(r)
    /\ UNCHANGED accounts

AccountsNext ==
    \/ \E p \in People :
         \/ RegisterUser(p) \/ CreateUser(p) \/ CreateUserFails(p)
         \/ Login(p) \/ LoginUnknown(p) \/ TokensExpire(p)
         \/ NewSession(p) \/ GetUserSessions(p) \/ AuthenticateSession(p)
         \/ RenameSession(p) \/ RemoveSession(p)
    \/ \E r \in Requests :
         ChatAuthenticates(r) \/ (NamingStep(r) /\ UNCHANGED accounts)

AccountsSpec == AccountsInit /\ [][AccountsNext]_allVars

-----------------------------------------------------------------------------
(***************************************************************************)
(* Properties.                                                             *)
(***************************************************************************)

Registered(p) == \E u \in users : u.password.by = p

\* Whoever holds a token of a user registered that user: not who asked for the
\* same address at the same time and came second.
TokensAreEarned ==
    \A p \in People : \A id \in userTokens[p] :
        \E u \in users : u.id = id /\ u.password.by = p

\* Whoever holds a token of the session registered its owner.
SessionTokensAreOwned ==
    \A p \in sessionTokens :
        \E u \in users : u.id \in owner /\ u.password.by = p

\* Who registered an address in small letters and a password HTML has no
\* escapes for is let in again (the others are not: auth.py:220-232), whoever else asked for the address meanwhile.
PlainCredentials(p) ==
    /\ ~credentials[p].email.capitals
    /\ credentials[p].password.kind = "plain"

AccountOpens ==
    \A p \in People :
        Registered(p) /\ PlainCredentials(p) => answer[p] # "denied"

=============================================================================
