----------------------------- MODULE BoardScreen -----------------------------
(***************************************************************************)
(* The dispatch board in a browser, for one job.  A drag moves the card at  *)
(* once and asks the server afterwards; the server tells every open board   *)
(* of assignments over an event stream that keeps nothing for those who are *)
(* not connected; and each event makes the board read all jobs again, where *)
(* nothing puts the answers in the order of the readings.                   *)
(***************************************************************************)
EXTENDS Platform

CONSTANTS
  Columns,               \* technicians of the branch
  MaxHeard, MaxReadings, \* bounds on the events and the readings under way
  MaxChanges             \* bound on the drags and other changes

VARIABLES
  assigned,    \* the jobs row's technician, or None
  open,        \* the job is neither completed nor canceled
  listed,      \* it is one of the 200 newest jobs of the branch, of any status
  shown,       \* the column of the card, or Hidden
  linked,      \* the event stream is connected
  heard,       \* events on their way to the board
  readings,    \* readings the server has not answered
  answers,     \* its answers on their way, in the order it read the row
  drags,       \* [Requests -> a drag that has not ended]
  doubts,      \* why the board may be wrong
  changes

screenVars ==
  <<assigned, open, listed, shown, linked, heard, readings, answers, drags, doubts, changes>>

Hidden == "hidden"
Places == Columns \cup {None}

(* No technician's column is the one of cards that are not shown. *)
ASSUME ScreenAssumption ==
  /\ Hidden \notin Places
  /\ MaxHeard \in Nat /\ MaxReadings \in Nat /\ MaxChanges \in Nat

RowAsCard == IF open THEN assigned ELSE Hidden

(* GET /jobs?limit=200, newest first, and the filter of the page.           *)
Listing == IF listed THEN RowAsCard ELSE Hidden

Answers ==
  [card : Places \cup {Hidden}, overtaken : BOOLEAN, current : BOOLEAN]

Drags ==
  [step : {"sent", "served", "refused"}, to : Places, from : Places, alone : BOOLEAN]

Reasons ==
  {"otherDay", "silent", "missed", "unread", "overtaken", "rolledBack", "unheard"}

(* page.tsx: the server made the list, none if its own request failed, and  *)
(* without the assigned jobs of other days, which the board's readings       *)
(* include; the stream is not open yet.                                     *)
ScreenInit ==
  /\ assigned \in Places /\ open = TRUE /\ listed \in BOOLEAN /\ linked = FALSE
  /\ \/ shown = Listing /\ doubts = {}
     \/ /\ shown = Hidden
        /\ \/ doubts = {"unread"}
           \/ listed /\ assigned # None /\ doubts = {"otherDay"}
  /\ heard = 0 /\ readings = 0 /\ answers = <<>> /\ drags = NoRequests
  /\ changes = 0

(* An answer that is on its way does not settle a doubt that comes up now.  *)
Doubt(reason) ==
  /\ doubts' = doubts \cup {reason}
  /\ answers' = [k \in DOMAIN answers |-> [answers[k] EXCEPT !.current = FALSE]]

Sure == UNCHANGED <<doubts, answers>>

Change == changes < MaxChanges /\ changes' = changes + 1
-----------------------------------------------------------------------------
(* assignment-routes.ts, event-bus.ts, sse-routes.ts *)

(* Mutant: taking a job from a technician is not an event. *)
Mutant_PublishAssignedOnly(to) ==
  IF linked /\ to # None THEN heard' = heard + 1 /\ Sure ELSE UNCHANGED heard /\ Sure

(* job.assigned or job.unassigned, with job.transitioned where the status   *)
(* follows.                                                                 *)
Publish(to) ==
  IF linked
  THEN \E n \in 1..2 : heard + n <= MaxHeard /\ heard' = heard + n /\ Sure
  ELSE UNCHANGED heard /\ Doubt("missed")

Assign(to) == assigned' = to /\ Publish(to)

(* Another board, or a phone. *)
OtherAssigns(to) ==
  /\ Change /\ Assign(to)
  /\ UNCHANGED <<open, listed, shown, linked, readings, drags>>

(* An approved or applied suggestion, a transition and an edit publish      *)
(* nothing.                                                                 *)
ChangesSilently ==
  /\ Change /\ assigned' \in Places /\ open' \in {open, FALSE} /\ Doubt("silent")
  /\ UNCHANGED <<listed, shown, linked, heard, readings, drags>>

(* So many jobs are created that this one is no longer among the newest.    *)
JobsCome ==
  /\ listed /\ Change /\ listed' = FALSE /\ Sure
  /\ UNCHANGED <<assigned, open, shown, linked, heard, readings, drags>>

LinkBreaks ==
  /\ linked /\ Change /\ linked' = FALSE /\ heard' = 0
  /\ IF heard > 0 THEN Doubt("missed") ELSE Sure
  /\ UNCHANGED <<assigned, open, listed, shown, readings, drags>>

(* The browser connects, at last or again, and the board reads nothing. *)
LinkOpens ==
  /\ ~linked /\ linked' = TRUE /\ Sure
  /\ UNCHANGED <<assigned, open, listed, shown, heard, readings, drags, changes>>
-----------------------------------------------------------------------------
(* DispatchBoard.tsx: refresh *)

EventArrives ==
  /\ heard > 0 /\ heard' = heard - 1
  /\ readings + Len(answers) < MaxReadings /\ readings' = readings + 1
  /\ Sure /\ UNCHANGED <<assigned, open, listed, shown, linked, drags, changes>>

ListJobs ==
  /\ readings > 0 /\ readings' = readings - 1
  /\ answers' = Append(answers, [card |-> Listing, overtaken |-> FALSE, current |-> TRUE])
  /\ UNCHANGED <<assigned, open, listed, shown, linked, heard, drags, doubts, changes>>

ReadingFails ==
  /\ readings > 0 /\ readings' = readings - 1 /\ Doubt("unread")
  /\ UNCHANGED <<assigned, open, listed, shown, linked, heard, drags, changes>>

Disturbed ==
  [r \in Requests |-> IF drags[r] = Idle THEN Idle ELSE [drags[r] EXCEPT !.alone = FALSE]]

(* Mutant: a finished job keeps its card. *)
Mutant_RefreshShowsAll(k) ==
  /\ shown' = IF answers[k].card = Hidden THEN shown ELSE answers[k].card
  /\ answers' = [l \in 1..(Len(answers) - 1) |->
                   IF l < k THEN [answers[l] EXCEPT !.overtaken = TRUE]
                   ELSE answers[l + 1]]
  /\ doubts' = IF answers[k].overtaken THEN doubts \cup {"overtaken"}
               ELSE IF answers[k].current THEN {} ELSE doubts
  /\ drags' = Disturbed
  /\ UNCHANGED <<assigned, open, listed, linked, heard, readings, changes>>

(* The answers may arrive in another order than the readings. *)
Refresh(k) ==
  /\ shown' = answers[k].card
  /\ answers' = [l \in 1..(Len(answers) - 1) |->
                   IF l < k THEN [answers[l] EXCEPT !.overtaken = TRUE]
                   ELSE answers[l + 1]]
  /\ doubts' = IF answers[k].overtaken THEN doubts \cup {"overtaken"}
               ELSE IF answers[k].current THEN {} ELSE doubts
  /\ drags' = Disturbed
  /\ UNCHANGED <<assigned, open, listed, linked, heard, readings, changes>>
-----------------------------------------------------------------------------
(* DispatchBoard.tsx: onDragEnd *)

Drag(r, to) ==
  /\ drags[r] = Idle /\ shown \notin {Hidden, to} /\ Change /\ shown' = to
  /\ drags' = [Disturbed EXCEPT ![r] =
       [step |-> "sent", to |-> to, from |-> shown, alone |-> drags = NoRequests]]
  /\ Sure /\ UNCHANGED <<assigned, open, listed, linked, heard, readings>>

DragServed(r) ==
  /\ drags[r].step = "sent" /\ drags' = [drags EXCEPT ![r].step = "served"]
  /\ Assign(drags[r].to)
  /\ UNCHANGED <<open, listed, shown, linked, readings, changes>>

(* The job is gone, the technician left, or the browser is offline and the  *)
(* write waits in its outbox.                                               *)
DragRefused(r) ==
  /\ drags[r].step = "sent" /\ drags' = [drags EXCEPT ![r].step = "refused"]
  /\ Sure /\ UNCHANGED <<assigned, open, listed, shown, linked, heard, readings, changes>>

DragEnds(r) == drags' = [drags EXCEPT ![r] = Idle]

DragDone(r) ==
  /\ drags[r].step = "served" /\ DragEnds(r)
  /\ Sure /\ UNCHANGED <<assigned, open, listed, shown, linked, heard, readings, changes>>

(* Mutant: the card stays where it was dropped. *)
Mutant_NoRollBack(r) ==
  /\ drags[r].step = "refused" /\ DragEnds(r)
  /\ Sure /\ UNCHANGED <<assigned, open, listed, shown, linked, heard, readings, changes>>

(* Back to the column it was dragged from, whatever the board showed since. *)
RollBack(r) ==
  /\ drags[r].step = "refused" /\ DragEnds(r)
  /\ shown' = IF shown = Hidden THEN Hidden ELSE drags[r].from
  /\ IF drags[r].alone THEN Sure ELSE Doubt("rolledBack")
  /\ UNCHANGED <<assigned, open, listed, linked, heard, readings, changes>>

(* fetch throws, and nothing catches it. *)
DragUnheard(r) ==
  /\ drags[r].step \in {"sent", "served"} /\ DragEnds(r) /\ Doubt("unheard")
  /\ UNCHANGED <<assigned, open, listed, shown, linked, heard, readings, changes>>

ScreenNext ==
  \/ \E to \in Places : OtherAssigns(to)
  \/ ChangesSilently \/ JobsCome \/ LinkBreaks \/ LinkOpens
  \/ EventArrives \/ ListJobs \/ ReadingFails
  \/ \E k \in DOMAIN answers : Refresh(k)
  \/ \E r \in Requests, to \in Places : Drag(r, to)
  \/ \E r \in Requests : DragServed(r)
  \/ \E r \in Requests : DragRefused(r)
  \/ \E r \in Requests : DragDone(r)
  \/ \E r \in Requests : RollBack(r)
  \/ \E r \in Requests : DragUnheard(r)

ScreenSpec == ScreenInit /\ [][ScreenNext]_screenVars
-----------------------------------------------------------------------------
(* Every card, answer and drag is one the page can have. *)
ScreenTypeOK ==
  /\ assigned \in Places /\ open \in BOOLEAN /\ listed \in BOOLEAN
  /\ shown \in Places \cup {Hidden}
  /\ linked \in BOOLEAN /\ heard \in 0..MaxHeard /\ readings \in 0..MaxReadings
  /\ answers \in Seq(Answers) /\ drags \in [Requests -> {Idle} \cup Drags]
  /\ doubts \subseteq Reasons
  /\ changes \in 0..MaxChanges

(* A card that says what the row says; or, of a job that is no longer among *)
(* the newest, no card.                                                     *)
Right(card) == card = RowAsCard \/ (~listed /\ card = Hidden)

(* Once nothing is under way the board shows the row as it is, or no card   *)
(* because there are 200 newer jobs, whatever other boards did at the same  *)
(* time, unless since the last good reading (the page's own, or of other    *)
(* days' jobs none) the row changed without an event, an event was lost or  *)
(* came before the stream was open, a reading was lost, an older answer     *)
(* came in after a newer one, a failed drag was taken back after the board  *)
(* had moved on, or a drag's answer never came.                             *)
BoardShowsRow ==
  heard = 0 /\ readings = 0 /\ answers = <<>> /\ drags = NoRequests /\ doubts = {} =>
    Right(shown)
=============================================================================
