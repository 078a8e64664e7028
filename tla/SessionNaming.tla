---------------------------- MODULE SessionNaming ----------------------------
(***************************************************************************)
(* The row of one chat session and the tasks that give it a name           *)
(* (app/services/session_naming.py, app/services/database.py).  The first  *)
(* message claims the unnamed session with one UPDATE that also writes a   *)
(* placeholder; the claimer asks a model for a title in the background.    *)
(* Meanwhile the user renames or deletes the session and sends more        *)
(* messages, to any worker.                                                *)
(***************************************************************************)
EXTENDS Integers, FiniteSets

CONSTANT Requests       \* requests to /chat and /chat/stream of the session

VARIABLES
    row,                \* "absent", then "present", then perhaps "deleted"
    name,               \* the row's name; "" is unnamed
    pc,                 \* of each request: where it is in maybe_name_session
    unnamed,            \* ... did authentication read an unnamed session?
    task,               \* ... its background task
    blanked             \* history: did the user rename the session to ""?

vars == <<row, name, pc, unnamed, task, blanked>>

TypeOK ==
    /\ row \in {"absent", "present", "deleted"}
    /\ name \in {"", "placeholder", "title", "chosen", "long"}
    /\ pc \in [Requests -> {"none", "claim", "named", "over"}]
    /\ unnamed \in [Requests -> BOOLEAN]
    /\ task \in [Requests -> {"none", "calling", "over"}]
    /\ blanked \in BOOLEAN

Init ==
    /\ row = "absent" /\ name = ""
    /\ pc = [r \in Requests |-> "none"]
    /\ unnamed = [r \in Requests |-> FALSE]
    /\ task = [r \in Requests |-> "none"]
    /\ blanked = FALSE

-----------------------------------------------------------------------------
(***************************************************************************)
(* The statements on the row.                                              *)
(***************************************************************************)

CreateSession ==
    /\ row = "absent"
    /\ row' = "present"
    /\ UNCHANGED <<name, pc, unnamed, task, blanked>>

DeleteSession ==
    /\ row = "present"
    /\ row' = "deleted"
    /\ UNCHANGED <<name, pc, unnamed, task, blanked>>

\* update_session_name of the database service: a row that is gone is not
\* written again.
WriteName(new) == row = "present" /\ name' = new

\* PATCH /session/{id}/name.  sanitize_string may leave nothing of the name;
\* "long" is more than a SessionResponse may show.
UpdateSessionName ==
    \E new \in {"", "chosen", "long"} :
        /\ WriteName(new)
        /\ blanked' = (blanked \/ new = "")
        /\ UNCHANGED <<row, pc, unnamed, task>>

-----------------------------------------------------------------------------
(***************************************************************************)
(* A message.                                                              *)
(***************************************************************************)

\* get_current_session reads the row; what follows uses the name it read.
Authenticate(r) ==
    /\ pc[r] = "none" /\ row = "present"
    /\ unnamed' = [unnamed EXCEPT ![r] = name = ""]
    /\ pc' = [pc EXCEPT ![r] = "claim"]
    /\ UNCHANGED <<row, name, task, blanked>>

AlreadyNamed(r) ==
    /\ pc[r] = "claim" /\ ~unnamed[r]
    /\ pc' = [pc EXCEPT ![r] = "named"]
    /\ UNCHANGED <<row, name, unnamed, task, blanked>>

\* A request without a message of the user claims nothing.
NothingToName(r) ==
    /\ pc[r] = "claim" /\ unnamed[r]
    /\ pc' = [pc EXCEPT ![r] = "over"]
    /\ UNCHANGED <<row, name, unnamed, task, blanked>>

\* Mutant: the claim relies on the name read at authentication.
ClaimableAsRead == row = "present"

\* WHERE id = ... AND name = ''
Claimable == row = "present" /\ name = ""

\* Mutant: the placeholder is left to the task.
ClaimBare(r) ==
    /\ pc[r] = "claim" /\ unnamed[r] /\ Claimable
    /\ task' = [task EXCEPT ![r] = "calling"]
    /\ pc' = [pc EXCEPT ![r] = "named"]
    /\ UNCHANGED <<row, name, unnamed, blanked>>

\* _claim_session hits the row: the name is no longer empty, and the title is
\* this request's task.
ClaimSession(r) ==
    /\ pc[r] = "claim" /\ unnamed[r] /\ Claimable
    /\ name' = "placeholder"
    /\ task' = [task EXCEPT ![r] = "calling"]
    /\ pc' = [pc EXCEPT ![r] = "named"]
    /\ UNCHANGED <<row, unnamed, blanked>>

ClaimMisses(r) ==
    /\ pc[r] = "claim" /\ unnamed[r] /\ ~Claimable
    /\ pc' = [pc EXCEPT ![r] = "named"]
    /\ UNCHANGED <<row, name, unnamed, task, blanked>>

-----------------------------------------------------------------------------
(***************************************************************************)
(* Its task.                                                               *)
(***************************************************************************)

\* A SessionTitle is never empty.
Title == "title"

PersistSessionName(r) ==
    /\ task[r] = "calling" /\ WriteName(Title)
    /\ task' = [task EXCEPT ![r] = "over"]
    /\ UNCHANGED <<row, pc, unnamed, blanked>>

\* The model call fails, the row is gone, or the worker stops.
NamingFails(r) ==
    /\ task[r] = "calling"
    /\ task' = [task EXCEPT ![r] = "over"]
    /\ UNCHANGED <<row, name, pc, unnamed, blanked>>

\* The worker stops, or the claim raises.
RequestLost(r) ==
    /\ pc[r] = "claim"
    /\ pc' = [pc EXCEPT ![r] = "over"]
    /\ UNCHANGED <<row, name, unnamed, task, blanked>>

NamingStep(r) ==
    \/ AlreadyNamed(r) \/ NothingToName(r)
    \/ ClaimSession(r) \/ ClaimMisses(r) \/ RequestLost(r)
    \/ PersistSessionName(r) \/ NamingFails(r)

Next ==
    \/ CreateSession \/ UpdateSessionName \/ DeleteSession
    \/ \E r \in Requests : Authenticate(r) \/ NamingStep(r)

Spec == Init /\ [][Next]_vars

-----------------------------------------------------------------------------
(***************************************************************************)
(* Properties.                                                             *)
(***************************************************************************)

\* One model call names a session, however many requests found it unnamed on
\* however many workers (session_naming.py:40 "exactly one concurrent
\* caller"), unless the user renamed it to nothing in between.
OneTitle ==
    ~blanked => \A r, s \in Requests :
                    task[r] # "none" /\ task[s] # "none" => r = s

\* Past maybe_name_session the session has a name, also when the title never
\* comes (session_naming.py:6 "always has a sensible name even if the LLM
\* call later fails").
AlwaysNamed ==
    ~blanked /\ row = "present" =>
        \A r \in Requests : pc[r] = "named" => name # ""

=============================================================================
