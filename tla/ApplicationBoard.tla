--------------------------- MODULE ApplicationBoard ---------------------------
(* The Kanban board of job applications: ApplicationService and the routes  *)
(* over it.  Every request reads the row, decides in Python and writes back *)
(* only the columns it changed, WHERE id = ..., so two requests on one      *)
(* application can interleave between the read and the write.               *)
CONSTANTS Apps,        \* application ids
          Editors      \* requests that may be in flight at once

VARIABLES apps,        \* the applications table
          edits        \* the requests that have read a row and not written it

boardVars == <<apps, edits>>

ApplicationStage == {"watching", "applied", "interview", "offer", "rejected"}
Stamped == {"interview", "offer", "rejected"}

\* An application; stamp[s] says that the time of entering stage s is set.  A
\* row that is not there yet is "absent", one that was deleted is "gone": an id
\* is never used again.
Application == [stage : ApplicationStage \cup {"absent", "gone"},
                stamp : [Stamped -> BOOLEAN]]
\* A PATCH in flight: the row as it was read and the stage of the payload (that
\* of the row, when the payload changes other columns only).
Edit == [by : Editors, app : Apps, read : Application, stage : ApplicationStage]

\* A plausible mistake, for the mutation check: an offer has no time.
SetStageTimestampNoOffer(row, stage) ==
  IF stage \in Stamped \ {"offer"} THEN [row EXCEPT !.stamp[stage] = TRUE] ELSE row

\* The time of a stage is recorded once and never moved.
SetStageTimestamp(row, stage) ==
  IF stage \in Stamped THEN [row EXCEPT !.stamp[stage] = TRUE] ELSE row

Rows == {a \in Apps : apps[a].stage \in ApplicationStage}
NoStamps == [s \in Stamped |-> FALSE]

BoardInit ==
  /\ apps = [a \in Apps |-> [stage |-> "absent", stamp |-> NoStamps]]
  /\ edits = {}

Create(a, stage) ==
  /\ apps[a].stage = "absent"
  /\ apps' = [apps EXCEPT ![a] =
                 SetStageTimestamp([stage |-> stage, stamp |-> NoStamps], stage)]
  /\ UNCHANGED edits

\* update and update_stage (drag and drop): the request has loaded the row.
LoadForUpdate(e, a, stage) ==
  /\ a \in Rows /\ \A r \in edits : r.by # e
  /\ edits' = edits \cup {[by |-> e, app |-> a, read |-> apps[a], stage |-> stage]}
  /\ UNCHANGED apps

\* The columns that the request changed in the row it read, over the row as it
\* is now: an unchanged column is not part of the UPDATE.
Written(now, read, stage) ==
  LET new == IF read.stage = stage THEN read ELSE SetStageTimestamp(read, stage)
  IN  [stage |-> IF read.stage = stage THEN now.stage ELSE stage,
       stamp |-> [s \in Stamped |-> IF new.stamp[s] = read.stamp[s]
                                    THEN now.stamp[s] ELSE new.stamp[s]]]

\* flush and commit; the row may have been deleted meanwhile, and the UPDATE
\* that matches no row is an error that changes nothing.
Update(r) ==
  /\ apps' = IF r.app \notin Rows THEN apps
             ELSE [apps EXCEPT ![r.app] = Written(@, r.read, r.stage)]
  /\ edits' = edits \ {r}

Delete(a) == a \in Rows /\ apps' = [apps EXCEPT ![a].stage = "gone"] /\ UNCHANGED edits

WipeAllForTesting ==
  /\ apps' = [a \in Apps |-> IF a \in Rows THEN [apps[a] EXCEPT !.stage = "gone"]
                            ELSE apps[a]]
  /\ UNCHANGED edits

BoardNext ==
  \/ \E a \in Apps, s \in ApplicationStage : Create(a, s)
  \/ \E e \in Editors, a \in Apps, s \in ApplicationStage : LoadForUpdate(e, a, s)
  \/ \E r \in edits : Update(r)
  \/ \E a \in Apps : Delete(a)
  \/ WipeAllForTesting

BoardSpec == BoardInit /\ [][BoardNext]_boardVars

-----------------------------------------------------------------------------
BoardTypeOK == apps \in [Apps -> Application] /\ edits \subseteq Edit

\* An application that stands in a stage has the time it entered it, whatever
\* requests interleaved: the averages of get_analytics and of the user's
\* behavioural profile are computed from these times
\* (application_service.py:206, _set_stage_timestamp).
StageStamped ==
  \A a \in Rows : apps[a].stage \in Stamped => apps[a].stamp[apps[a].stage]

\* Why it holds: a time that an open request has read is still there when the
\* request writes, so that the column it leaves alone is set.
ReadsAreKept ==
  \A r \in edits : /\ apps[r.app].stage # "absent"
                   /\ \A s \in Stamped : r.read.stamp[s] => apps[r.app].stamp[s]

BoardInv == BoardTypeOK /\ StageStamped /\ ReadsAreKept
=============================================================================
