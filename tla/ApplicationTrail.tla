--------------------------- MODULE ApplicationTrail ---------------------------
(* What hangs on an application of the board: the forms the browser         *)
(* extension fills for it (services/auto_apply/ats_service.py), its timeline *)
(* with the follow-ups (services/calendar/crm_service.py) and the interviews *)
(* found in the calendar (workers/tasks/calendar_sync.py).  Requests and     *)
(* tasks read, wait and commit; others commit in between.                    *)
EXTENDS FiniteSets, Naturals

CONSTANTS Entries,      \* ids of applications
          Forms,        \* ids of auto-apply submissions
          Meetings,     \* what the calendar of the provider holds
          Interviews,   \* the meetings whose text has an interview keyword
          Timed,        \* the meetings whose start is a moment that parses
          AllDay,       \* the meetings whose start is a date that parses
          TrailNotes,   \* ids of timeline rows
          Clerks,       \* requests and tasks in flight at once
          Unlinked,     \* no application
          LastDay       \* bound: days that pass

ASSUME UnlinkedAssumption == Unlinked \notin Entries

VARIABLES entry,        \* applications: "absent", "here" or "gone"
          form,         \* auto_apply_submissions
          meeting,      \* calendar_events, by the provider's id: a unique index
          trail,        \* application_timeline
          clerk,        \* what each request or task has read
          today,
          filed,       \* history: applications a form has put on the board
          excused       \* history: forms that lost theirs, or raced

trailVars == <<entry, form, meeting, trail, clerk, today, filed, excused>>

Days == 0..LastDay
Never == LastDay + 1    \* no date
Here == {a \in Entries : entry[a] = "here"}

SubmissionStatus == {"none", "prepared", "submitted", "failed"}
Submission == [status : SubmissionStatus, app : Entries \cup {Unlinked}]
CalendarEvent == [stored : BOOLEAN, app : Entries \cup {Unlinked}]
TimelineRow == [is : {"absent", "here", "gone"}, app : Entries \cup {Unlinked},
                due : Days \cup {Never}, sent : BOOLEAN]
NoWork == [op |-> "none"]

TrailInit ==
  /\ entry = [a \in Entries |-> "absent"]
  /\ form = [f \in Forms |-> [status |-> "none", app |-> Unlinked]]
  /\ meeting = [m \in Meetings |-> [stored |-> FALSE, app |-> Unlinked]]
  /\ trail = [n \in TrailNotes |->
                [is |-> "absent", app |-> Unlinked, due |-> Never, sent |-> FALSE]]
  /\ clerk = [c \in Clerks |-> NoWork]
  /\ today = 0
  /\ filed = [f \in Forms |-> {}] /\ excused = {}

Noted == {n \in TrailNotes : trail[n].is = "here"}
NewEvent(a, due) == [is |-> "here", app |-> a, due |-> due, sent |-> FALSE]
Removed(row) == [row EXCEPT !.is = "gone", !.app = Unlinked]

Takes(c, job) == clerk[c] = NoWork /\ clerk' = [clerk EXCEPT ![c] = job]
Rests(c) == clerk' = [clerk EXCEPT ![c] = NoWork]

-----------------------------------------------------------------------------
(* Applications.                                                           *)

AddApplication(a) ==
  /\ entry[a] = "absent" /\ entry' = [entry EXCEPT ![a] = "here"]
  /\ UNCHANGED <<form, meeting, trail, clerk, today, filed, excused>>

\* The timeline goes with its application (ON DELETE CASCADE); forms and
\* meetings stay without one (ON DELETE SET NULL).
DeleteApplication(a) ==
  /\ a \in Here /\ entry' = [entry EXCEPT ![a] = "gone"]
  /\ form' = [f \in Forms |-> IF form[f].app = a THEN [form[f] EXCEPT !.app = Unlinked] ELSE form[f]]
  /\ meeting' = [m \in Meetings |->
                   IF meeting[m].app = a THEN [meeting[m] EXCEPT !.app = Unlinked] ELSE meeting[m]]
  /\ trail' = [n \in TrailNotes |-> IF trail[n].app = a THEN Removed(trail[n]) ELSE trail[n]]
  /\ excused' = excused \cup {f \in Forms : form[f].app = a}
  /\ UNCHANGED <<clerk, today, filed>>

-----------------------------------------------------------------------------
(* Auto-apply.                                                             *)

\* POST /prepare: for an application of the board or for none.
Prepare(f) ==
  /\ form[f].status = "none"
  /\ \E a \in Here \cup {Unlinked} : form' = [form EXCEPT ![f] = [status |-> "prepared", app |-> a]]
  /\ UNCHANGED <<entry, meeting, trail, clerk, today, filed, excused>>

\* POST /report-submitted: the row is loaded, and then written.
BeginReport(c, f) ==
  /\ form[f].status # "none"
  /\ Takes(c, [op |-> "report", form |-> f, read |-> form[f]])
  /\ excused' = IF \E d \in Clerks : clerk[d].op = "report" /\ clerk[d].form = f
                THEN excused \cup {f} ELSE excused
  /\ UNCHANGED <<entry, form, meeting, trail, today, filed>>

\* A status is written only if it differs from the one that was read.
Submitted(f, read) == IF read.status = "submitted" THEN form[f].status ELSE "submitted"

\* Mistake: the application that was opened is not noted in the submission.
OpensApplicationUnnoted(f, read, a) ==
  /\ entry' = [entry EXCEPT ![a] = "here"]
  /\ form' = [form EXCEPT ![f].status = Submitted(f, read)]
  /\ filed' = [filed EXCEPT ![f] = @ \cup {a}]

\* A form without an application opens one on the board.
OpensApplication(f, read, a) ==
  /\ entry' = [entry EXCEPT ![a] = "here"]
  /\ form' = [form EXCEPT ![f] = [status |-> Submitted(f, read), app |-> a]]
  /\ filed' = [filed EXCEPT ![f] = @ \cup {a}]

\* application_id is written only when it was empty as it was read.
ReportSubmitted(c) ==
  /\ clerk[c].op = "report"
  /\ LET f == clerk[c].form  read == clerk[c].read IN
     \/ /\ read.app = Unlinked
        /\ \E a \in Entries : entry[a] = "absent" /\ OpensApplication(f, read, a)
     \/ /\ read.app # Unlinked
        /\ form' = [form EXCEPT ![f].status = Submitted(f, read)]
        /\ UNCHANGED <<entry, filed>>
  /\ Rests(c) /\ UNCHANGED <<meeting, trail, today, excused>>

\* POST /report-failed, also after the form was reported as submitted.
ReportFailed(f) ==
  /\ form[f].status # "none" /\ form' = [form EXCEPT ![f].status = "failed"]
  /\ UNCHANGED <<entry, meeting, trail, clerk, today, filed, excused>>

-----------------------------------------------------------------------------
(* The calendar.                                                           *)

\* What is kept of a provider's answer, where an answer other than 200 is an empty
\* calendar.  Only of Google's events is a bare date read.
GoogleEvents(items) == items \cap Interviews \cap (Timed \cup AllDay)
OutlookEvents(items) == items \cap Interviews \cap Timed

Stored == {m \in Meetings : meeting[m].stored}

\* sync_calendar: fetched, and each event looked up.
BeginCalendarSync(c) ==
  /\ \E items \in SUBSET Meetings : \E events \in {GoogleEvents(items), OutlookEvents(items)} :
       Takes(c, [op |-> "sync", new |-> events \ Stored])
  /\ UNCHANGED <<entry, form, meeting, trail, today, filed, excused>>

\* The unique index refuses an event another sync has stored since: the whole
\* transaction is rolled back, and the task is tried again.
CommitCalendarSync(c) ==
  /\ clerk[c].op = "sync" /\ Rests(c)
  /\ meeting' = IF clerk[c].new \cap Stored # {} THEN meeting
                ELSE [m \in Meetings |-> IF m \in clerk[c].new
                        THEN [stored |-> TRUE, app |-> Unlinked] ELSE meeting[m]]
  /\ UNCHANGED <<entry, form, trail, today, filed, excused>>

\* POST /calendar/{id}/link commits the link, and then adds the meeting to the
\* timeline, which fails if the application is gone by now.
LinkCalendarEvent(c, m, a) ==
  /\ m \in Stored /\ a \in Here
  /\ Takes(c, [op |-> "linked", meeting |-> m, app |-> a])
  /\ meeting' = [meeting EXCEPT ![m].app = a]
  /\ UNCHANGED <<entry, form, trail, today, filed, excused>>
LinkedToTimeline(c) ==
  /\ clerk[c].op = "linked" /\ Rests(c)
  /\ IF clerk[c].app \in Here
     THEN \E n \in TrailNotes : trail[n].is = "absent"
            /\ trail' = [trail EXCEPT ![n] = NewEvent(clerk[c].app, Never)]
     ELSE UNCHANGED trail
  /\ UNCHANGED <<entry, form, meeting, today, filed, excused>>

-----------------------------------------------------------------------------
(* Timeline and follow-ups.                                                *)

AddEvent(n, a, due) ==
  /\ a \in Here /\ trail[n].is = "absent"
  /\ trail' = [trail EXCEPT ![n] = NewEvent(a, due)]
  /\ UNCHANGED <<entry, form, meeting, clerk, today, filed, excused>>

\* A date can be moved and not taken away; whether the reminder was sent stays.
UpdateEvent(n, due) ==
  /\ n \in Noted /\ trail' = [trail EXCEPT ![n].due = due]
  /\ UNCHANGED <<entry, form, meeting, clerk, today, filed, excused>>

DeleteEvent(n) ==
  /\ n \in Noted /\ trail' = [trail EXCEPT ![n] = Removed(@)]
  /\ UNCHANGED <<entry, form, meeting, clerk, today, filed, excused>>

Overdue == {n \in Noted : trail[n].due <= today /\ ~ trail[n].sent}

\* check_followup_reminders reads what is due, and marks it; one row that was
\* deleted since rolls back the others.
BeginReminders(c) ==
  /\ Takes(c, [op |-> "remind", due |-> Overdue])
  /\ UNCHANGED <<entry, form, meeting, trail, today, filed, excused>>
CommitReminders(c) ==
  /\ clerk[c].op = "remind" /\ Rests(c)
  /\ trail' = IF ~ clerk[c].due \subseteq Noted THEN trail
              ELSE [n \in TrailNotes |-> IF n \in clerk[c].due
                      THEN [trail[n] EXCEPT !.sent = TRUE] ELSE trail[n]]
  /\ UNCHANGED <<entry, form, meeting, today, filed, excused>>

NextDay ==
  /\ today < LastDay /\ today' = today + 1
  /\ UNCHANGED <<entry, form, meeting, trail, clerk, filed, excused>>

\* The process of a request or a task ends before its commit.
ClerkLost(c) ==
  /\ clerk[c] # NoWork /\ Rests(c)
  /\ UNCHANGED <<entry, form, meeting, trail, today, filed, excused>>

TrailNext ==
  \/ \E a \in Entries : AddApplication(a) \/ DeleteApplication(a)
  \/ \E f \in Forms : Prepare(f) \/ ReportFailed(f)
  \/ \E c \in Clerks :
       \/ ReportSubmitted(c) \/ BeginCalendarSync(c) \/ CommitCalendarSync(c)
       \/ LinkedToTimeline(c) \/ BeginReminders(c) \/ CommitReminders(c) \/ ClerkLost(c)
       \/ \E f \in Forms : BeginReport(c, f)
       \/ \E m \in Meetings, a \in Entries : LinkCalendarEvent(c, m, a)
  \/ \E n \in TrailNotes :
       \/ DeleteEvent(n) \/ \E due \in Days : UpdateEvent(n, due)
       \/ \E a \in Entries, due \in Days \cup {Never} : AddEvent(n, a, due)
  \/ NextDay

TrailSpec == TrailInit /\ [][TrailNext]_trailVars

-----------------------------------------------------------------------------
\* However often a form is reported as submitted, failed and submitted again, it
\* opens a second application only after the first was deleted, or when two
\* reports had the form open at once (ats_service.py:240-271).
SecondApplicationNeedsOverlapOrDeletion ==
  \A f \in Forms : Cardinality(filed[f]) > 1 => f \in excused

\* models/application_timeline.py:81: "Whether the reminder was already sent".  A
\* follow-up that is still to come has not had its reminder.
ReminderIsToCome ==
  \A n \in Noted : trail[n].due > today => ~ trail[n].sent
=============================================================================
