-------------------------- MODULE IncidentWorkbench --------------------------
(***************************************************************************)
(* The operator page (static/incidents.html) on top of the service.  A     *)
(* client is one browser tab: it shows the last record it rendered         *)
(* (current), has at most one request under way (busy), and quotes the     *)
(* version on its screen with every change it asks for.  Connections break *)
(* and pages are reloaded while the server goes on with the request.       *)
(***************************************************************************)
EXTENDS IncidentService

CONSTANTS
    Clients     \* open tabs

VARIABLES
    screen,     \* the record each tab shows ("current")
    waiting,    \* the request each tab waits for ("busy")
    login,      \* the principal behind the token each tab sends
    clicked     \* history: every decision button pressed, with the screen behind it

clientVars == <<screen, waiting, login, clicked>>
vars == <<serviceVars, clientVars>>

Screen == [id : Incidents \cup {NoIncident}, row : Row]

Blankscreen == [id |-> NoIncident, row |-> NoRow]

Click == [id : Incidents, owner : Owners, approve : BOOLEAN, row : Row]

WorkbenchTypeOK ==
    /\ TypeOK
    /\ screen \in [Clients -> Screen]
    /\ waiting \in [Clients -> Requests \cup {NoRequest}]
    /\ login \in [Clients -> Owners]
    /\ clicked \subseteq Click

WorkbenchInit ==
    /\ Init
    /\ screen = [c \in Clients |-> Blankscreen]
    /\ waiting = [c \in Clients |-> NoRequest]
    /\ login \in [Clients -> Owners]
    /\ clicked = {}

-----------------------------------------------------------------------------
(***************************************************************************)
(* What the operator does.                                                 *)
(***************************************************************************)

\* run(fn): one request at a time per tab.
Send(c, r) ==
    /\ waiting[c] = NoRequest
    /\ waiting' = [waiting EXCEPT ![c] = r]
    /\ UNCHANGED <<screen, login>>

SubmitNew(c, r) ==
    /\ screen[c].id = NoIncident
    /\ \E facts \in Facts : CreateArrives(r, login[c], facts)
    /\ Send(c, r)
    /\ UNCHANGED clicked

\* The form of an open incident; versions are bounded by MaxVersion.
SubmitRevision(c, r) ==
    LET shown == screen[c] IN
    /\ shown.id # NoIncident
    /\ shown.row.status \notin Final
    /\ shown.row.version < MaxVersion
    /\ \E facts \in Facts :
         ReviseArrives(r, login[c], shown.id, shown.row.version, facts)
    /\ Send(c, r)
    /\ UNCHANGED clicked

\* The approve and reject buttons show only under a plan awaiting approval.
PressDecision(c, r, approve) ==
    LET shown == screen[c] IN
    /\ shown.row.status = "awaiting_approval"
    /\ DecideArrives(r, login[c], shown.id, shown.row.version, approve)
    /\ Send(c, r)
    /\ clicked' = clicked \cup {[id |-> shown.id, owner |-> login[c],
                                 approve |-> approve, row |-> shown.row]}

\* Restore the id in localStorage, which all tabs and logins share.
Restore(c, r) ==
    /\ \E i \in Incidents : ReadArrives(r, login[c], i)
    /\ Send(c, r)
    /\ UNCHANGED clicked

\* A new token in the live page leaves the screen as it is.
SwitchLogin(c) ==
    /\ login' \in {[login EXCEPT ![c] = owner] : owner \in Owners}
    /\ UNCHANGED <<serviceVars, screen, waiting, clicked>>

\* "New incident" and a reload clear the page; the server is not told.
Reload(c) ==
    /\ screen' = [screen EXCEPT ![c] = Blankscreen]
    /\ waiting' = [waiting EXCEPT ![c] = NoRequest]
    /\ UNCHANGED <<serviceVars, login, clicked>>

\* fetch throws: the tab is usable again, the handler may still be running.
ConnectionLost(c) ==
    /\ waiting[c] # NoRequest
    /\ waiting' = [waiting EXCEPT ![c] = NoRequest]
    /\ UNCHANGED <<serviceVars, screen, login, clicked>>

-----------------------------------------------------------------------------
(***************************************************************************)
(* What the server does.                                                   *)
(***************************************************************************)

\* render on a 200, an error line that leaves the screen alone otherwise.
Receive(c, r) ==
    /\ waiting[c] = r
    /\ Return(r)
    /\ waiting' = [waiting EXCEPT ![c] = NoRequest]
    /\ screen' = IF req[r].code = 200
                 THEN [screen EXCEPT ![c] = [id |-> req[r].id, row |-> req[r].row]]
                 ELSE screen
    /\ UNCHANGED <<login, clicked>>

\* Nobody waits for this answer any more.
DropAnswer(r) ==
    /\ \A c \in Clients : waiting[c] # r
    /\ Return(r)
    /\ UNCHANGED clientVars

ServerStep(r) == Handle(r) /\ UNCHANGED clientVars

\* The connections break with the process.
ServerCrash ==
    /\ Crash
    /\ waiting' = [c \in Clients |-> NoRequest]
    /\ UNCHANGED <<screen, login, clicked>>

WorkbenchNext ==
    \/ \E r \in Requests :
         \/ ServerStep(r)
         \/ DropAnswer(r)
         \/ \E c \in Clients :
              \/ SubmitNew(c, r)
              \/ SubmitRevision(c, r)
              \/ \E approve \in BOOLEAN : PressDecision(c, r, approve)
              \/ Restore(c, r)
              \/ Receive(c, r)
    \/ \E c \in Clients : SwitchLogin(c) \/ Reload(c) \/ ConnectionLost(c)
    \/ ServerCrash

WorkbenchSpec == WorkbenchInit /\ [][WorkbenchNext]_vars

-----------------------------------------------------------------------------
(***************************************************************************)
(* Properties.                                                             *)
(***************************************************************************)

\* The row an operator decided on: the decided row before the decision.
Undecided(row) ==
    Record(row.owner, row.version - 1, "awaiting_approval", row.facts, row.plan)

\* "Approve or reject the exact proposal version shown to the operator"
\* (routes.py:68, schemas.py:158): behind every decided incident is a button
\* its owner pressed while the tab showed that very row - same facts, same
\* plan, same version - whatever revisions, retries, lost answers and
\* crashes went on meanwhile.
DecidedAsReviewed ==
    \A i \in Incidents :
        incidents[i].status \in Final =>
            [id |-> i, owner |-> incidents[i].owner,
             approve |-> incidents[i].status = "completed",
             row |-> Undecided(incidents[i])] \in clicked

\* A tab never shows a phantom: its record is the stored row or an earlier
\* version of it, and equal versions are equal rows (store.py:59-60).
ScreensAreSnapshots ==
    \A c \in Clients :
        screen[c].id # NoIncident =>
            LET stored == incidents[screen[c].id] IN
            /\ screen[c].row.version \in 1 .. stored.version
            /\ screen[c].row.version = stored.version => screen[c].row = stored

\* "A repeated identical decision returns the saved result" (store.py:63): an
\* operator whose decision was refused with 409 can trust that it did not
\* happen, even when the refused request is the retry of an unanswered one.
RefusedIsNotDecided ==
    \A r \in Requests :
        LET q == req[r] IN
        q.pc = "done" /\ q.op = "decide" /\ q.code = 409 =>
            ~(/\ incidents[q.id].status = Verdict(q.approve)
              /\ incidents[q.id].version = q.expected + 1)

=============================================================================
