------------------------------ MODULE Dispatch ------------------------------
(***************************************************************************)
(* The dispatch board: staff assign, unassign, edit and transition jobs     *)
(* while the AI dispatcher captures proposals, checks each against the      *)
(* technician's day and applies it or queues it for a person to approve or  *)
(* reject.  The agent of a run also holds a tool that schedules a job at    *)
(* once, with no check and no record.  Every handler reads in a READ        *)
(* COMMITTED transaction and writes by id; a run checks and applies each    *)
(* proposal in a transaction of its own.  Times are in quarters of an hour. *)
(***************************************************************************)
EXTENDS Platform

CONSTANTS
  BoardJobs,      \* jobs of the branch
  Techs,          \* users with an active technician membership
  Skilled,        \* technicians with the skill a proposal may require
  Slots,          \* windows [start, end] a job may be given; end may be None
  Travel,         \* [BoardJobs -> [BoardJobs -> quarters, None: no coordinates]]
  Proposals,      \* what the model may propose
  MaxCaptured,    \* proposals of one run
  MaxSuggestions, \* bound on the ai_suggestions rows
  MaxActs         \* bound on the requests of a behaviour

VARIABLES
  board,        \* [BoardJobs -> the jobs row]
  logged,       \* [BoardJobs -> the status its last job_status_log row says]
  setBy,        \* [BoardJobs -> the auto-applied suggestion its row is as left by]
  unrecorded,   \* [BoardJobs -> times an agent's tool scheduled the job]
  suggestions,  \* the ai_suggestions rows, oldest first
  dispatcher,   \* [Requests -> the request in flight]
  crossed,      \* jobs, technicians and suggestions worked on by two requests
  acts          \* requests begun

dispatchVars ==
  <<board, logged, setBy, unrecorded, suggestions, dispatcher, crossed, acts>>

BoardStatus ==
  {"unassigned", "scheduled", "en_route", "arrived", "in_progress",
   "completed", "canceled"}

BoardMatrix ==
  [unassigned  |-> {"scheduled", "canceled"},
   scheduled   |-> {"en_route", "unassigned", "canceled"},
   en_route    |-> {"arrived", "canceled"},
   arrived     |-> {"in_progress", "canceled"},
   in_progress |-> {"completed", "canceled"},
   completed   |-> {},
   canceled    |-> {}]

Unscheduled == [start |-> None, end |-> None]

BoardRows ==
  [status : BoardStatus, tech : Techs \cup {None}, slot : Slots \cup {Unscheduled}]

Suggestions ==
  [job : BoardJobs, tech : Techs, slot : Slots,
   status : {"pending", "applied", "rejected", "expired"}]

(* What the model may propose names a job, a technician and a window of the *)
(* branch: the agent's tools refuse others.                                 *)
ASSUME DispatchAssumption ==
  /\ MaxSuggestions \in Nat /\ MaxActs \in Nat
  /\ Proposals \subseteq [job : BoardJobs, tech : Techs, slot : Slots,
                          needsSkill : BOOLEAN, confident : BOOLEAN]

DispatcherStates ==
  {Idle}
  \cup [step : {"assign", "unassign"}, row : BoardJobs, from : BoardRows]
  \cup [step : {"transition"}, row : BoardJobs, to : BoardStatus]
  \cup [step : {"approve", "reject"}, row : 1..MaxSuggestions]
  \cup [step : {"capture", "next"}, row : {None}, todo : Seq(Proposals)]
  \cup [step : {"decide"}, row : Techs, todo : Seq(Proposals), auto : BOOLEAN]

(* POST /jobs: a new job may name its technician and stay unassigned. *)
DispatchInit ==
  /\ board \in [BoardJobs -> [status : {"unassigned"}, tech : Techs \cup {None},
                              slot : {Unscheduled}]]
  /\ logged = [j \in BoardJobs |-> "unassigned"]
  /\ setBy = [j \in BoardJobs |-> 0]
  /\ unrecorded = [j \in BoardJobs |-> 0]
  /\ suggestions = <<>> /\ dispatcher = NoRequests /\ crossed = {}
  /\ acts = 0

Begin(r, state) ==
  /\ dispatcher[r] = Idle /\ acts < MaxActs /\ acts' = acts + 1
  /\ dispatcher' = [dispatcher EXCEPT ![r] = state]
  /\ UNCHANGED <<board, logged, setBy, unrecorded, suggestions, crossed>>

(* What the request in flight has read and relies on. *)
ReliesOn(q) ==
  CASE dispatcher[q] = Idle -> {}
    [] dispatcher[q].step = "approve" ->
         {dispatcher[q].row, suggestions[dispatcher[q].row].job}
    [] dispatcher[q].step = "decide" ->
         {dispatcher[q].row, Head(dispatcher[q].todo).job}
    [] OTHER -> {dispatcher[q].row}

(* Request r writes these rows under the eyes of others. *)
Crosses(r, rows) ==
  crossed' = crossed \cup (rows \cap UNION {ReliesOn(q) : q \in Requests \ {r}})

End(r) == dispatcher' = [dispatcher EXCEPT ![r] = Idle]

-----------------------------------------------------------------------------
(* jobs-routes.ts and assignment-routes.ts *)

(* The reflow subscriber expires the pending suggestions of a job it hears  *)
(* was canceled; only assigning and unassigning publish anything.           *)
AfterEvents(j, heard) ==
  [k \in DOMAIN suggestions |->
     IF "canceled" \in heard /\ suggestions[k].job = j
        /\ suggestions[k].status = "pending"
     THEN [suggestions[k] EXCEPT !.status = "expired"] ELSE suggestions[k]]

AssignJobRead(r, j) ==
  Begin(r, [step |-> "assign", row |-> j, from |-> board[j]])

AssignJobWrite(r) ==
  /\ dispatcher[r].step = "assign"
  /\ LET j == dispatcher[r].row
         scheduling == dispatcher[r].from.status = "unassigned"
     IN \E t \in Techs, s \in Slots \cup {board[j].slot} :
          /\ board' = [board EXCEPT ![j] =
               [status |-> IF scheduling THEN "scheduled" ELSE @.status,
                tech |-> t, slot |-> s]]
          /\ logged' = IF scheduling THEN [logged EXCEPT ![j] = "scheduled"]
                       ELSE logged
          /\ suggestions' =
               AfterEvents(j, IF scheduling THEN {"scheduled"} ELSE {})
          /\ setBy' = [setBy EXCEPT ![j] = 0]
          /\ Crosses(r, {j, t})
  /\ End(r) /\ UNCHANGED <<unrecorded, acts>>

UnassignRead(r, j) ==
  Begin(r, [step |-> "unassign", row |-> j, from |-> board[j]])

UnassignWrite(r) ==
  /\ dispatcher[r].step = "unassign"
  /\ LET j == dispatcher[r].row
         from == dispatcher[r].from
         reverting == from.status = "scheduled" /\ from.slot = Unscheduled
     IN /\ board' = [board EXCEPT ![j].tech = None,
                       ![j].status = IF reverting THEN "unassigned" ELSE @]
        /\ logged' = IF reverting THEN [logged EXCEPT ![j] = "unassigned"]
                     ELSE logged
        /\ suggestions' =
             AfterEvents(j, IF reverting THEN {"unassigned"} ELSE {})
        /\ setBy' = [setBy EXCEPT ![j] = 0]
        /\ Crosses(r, {j})
  /\ End(r) /\ UNCHANGED <<unrecorded, acts>>

(* PATCH /jobs/:id writes what it is given, whatever it read. *)
PatchJob(r, j) ==
  /\ dispatcher[r] = Idle /\ acts < MaxActs /\ acts' = acts + 1
  /\ \E t \in {None, board[j].tech}, s \in {Unscheduled, board[j].slot} :
       board' = [board EXCEPT ![j].tech = t, ![j].slot = s]
  /\ setBy' = [setBy EXCEPT ![j] = 0]
  /\ Crosses(r, {j})
  /\ UNCHANGED <<logged, unrecorded, suggestions, dispatcher>>

(* Mutant: any status may follow any other. *)
Mutant_TransitionReadAny(r, j) ==
  \E to \in BoardStatus :
    Begin(r, [step |-> "transition", row |-> j, to |-> to])

(* What a completion does besides is QuoteFulfilment's CompleteWrite. *)
TransitionRead(r, j) ==
  \E to \in BoardMatrix[board[j].status] :
    Begin(r, [step |-> "transition", row |-> j, to |-> to])

(* Mutant: the change is not logged. *)
Mutant_TransitionUnlogged(r) ==
  /\ dispatcher[r].step = "transition"
  /\ LET j == dispatcher[r].row IN
       /\ board' = [board EXCEPT ![j].status = dispatcher[r].to]
       /\ Crosses(r, {j})
  /\ End(r)
  /\ UNCHANGED <<logged, setBy, unrecorded, suggestions, acts>>

TransitionWrite(r) ==
  /\ dispatcher[r].step = "transition"
  /\ LET j == dispatcher[r].row IN
       /\ board' = [board EXCEPT ![j].status = dispatcher[r].to]
       /\ logged' = [logged EXCEPT ![j] = dispatcher[r].to]
       /\ Crosses(r, {j})
  /\ End(r)
  /\ UNCHANGED <<setBy, unrecorded, suggestions, acts>>

-----------------------------------------------------------------------------
(* POST /dispatch/suggest: dispatcher-runner.ts *)

DefaultEnd(s) == IF s.end = None THEN s.start + 4 ELSE s.end

(* A row without an end overlaps nothing, and touching counts as overlap. *)
Overlaps(row, s) ==
  /\ row.start # None /\ row.end # None
  /\ row.start < DefaultEnd(s) /\ row.end >= s.start

BookedBy(t) == {j \in BoardJobs : board[j].tech = t}

(* The technician's last job to start before the slot. *)
PriorJobs(t, s) ==
  LET before == {j \in BookedBy(t) : /\ board[j].slot.start # None
                                     /\ board[j].slot.start < s.start}
  IN  {j \in before : \A i \in before : board[i].slot.start <= board[j].slot.start}

Buffer == 1

ReachableFrom(i, p) ==
  \/ board[i].slot.end = None \/ Travel[i][p.job] = None
  \/ p.slot.start - board[i].slot.end >= Travel[i][p.job] + Buffer

(* Mutant: the technician's day is not looked at. *)
Mutant_InvariantsPassOverlap(p) ==
  /\ p.needsSkill => p.tech \in Skilled
  /\ \A i \in PriorJobs(p.tech, p.slot) : ReachableFrom(i, p)

InvariantsPass(p) ==
  /\ \A j \in BookedBy(p.tech) : ~Overlaps(board[j].slot, p.slot)
  /\ p.needsSkill => p.tech \in Skilled
  /\ \A i \in PriorJobs(p.tech, p.slot) : ReachableFrom(i, p)

(* The agent lists jobs and technicians; listing and proposing write nothing. *)
RunStart(r) == Begin(r, [step |-> "capture", row |-> None, todo |-> <<>>])

RunCapture(r) ==
  /\ dispatcher[r].step = "capture"
  /\ Len(dispatcher[r].todo) < MaxCaptured
  /\ \E p \in Proposals :
       dispatcher' = [dispatcher EXCEPT ![r].todo = Append(@, p)]
  /\ UNCHANGED <<board, logged, setBy, unrecorded, suggestions, crossed, acts>>

(* One proposal's transaction: its checks, then its writes. *)
RunCheck(r) ==
  /\ dispatcher[r].step \in {"capture", "next"} /\ dispatcher[r].todo # <<>>
  /\ LET p == Head(dispatcher[r].todo) IN
       dispatcher' = [dispatcher EXCEPT ![r] =
         [step |-> "decide", row |-> p.tech, todo |-> @.todo,
          auto |-> InvariantsPass(p) /\ p.confident]]
  /\ UNCHANGED <<board, logged, setBy, unrecorded, suggestions, crossed, acts>>

(* Mutant: the status is named after the route. *)
Mutant_ScheduledAssigned(row, t, s) ==
  [row EXCEPT !.status = "assigned", !.tech = t, !.slot = s]

Scheduled(row, t, s) == [row EXCEPT !.status = "scheduled", !.tech = t, !.slot = s]

(* The agent calls applyAssignment, which the runner offers it with the     *)
(* other tools: one transaction finds the job and the technician and writes *)
(* the job, whatever its status, and nothing beside it.                     *)
RunApplies(r) ==
  /\ dispatcher[r].step = "capture" /\ acts < MaxActs /\ acts' = acts + 1
  /\ \E p \in Proposals :
       /\ board' = [board EXCEPT ![p.job] = Scheduled(@, p.tech, p.slot)]
       /\ setBy' = [setBy EXCEPT ![p.job] = 0]
       /\ unrecorded' = [unrecorded EXCEPT ![p.job] = @ + 1]
       /\ Crosses(r, {p.job, p.tech})
  /\ UNCHANGED <<logged, suggestions, dispatcher>>

RunPersist(r) ==
  /\ dispatcher[r].step = "decide" /\ Len(suggestions) < MaxSuggestions
  /\ LET p == Head(dispatcher[r].todo)
         auto == dispatcher[r].auto
         rest == Tail(dispatcher[r].todo)
     IN /\ suggestions' = Append(suggestions,
             [job |-> p.job, tech |-> p.tech, slot |-> p.slot,
              status |-> IF auto THEN "applied" ELSE "pending"])
        /\ board' = IF auto
                    THEN [board EXCEPT ![p.job] = Scheduled(@, p.tech, p.slot)]
                    ELSE board
        /\ setBy' = IF auto THEN [setBy EXCEPT ![p.job] = Len(suggestions) + 1]
                    ELSE setBy
        /\ Crosses(r, IF auto THEN {p.job, p.tech} ELSE {})
        /\ dispatcher' = [dispatcher EXCEPT ![r] =
             IF rest = <<>> THEN Idle
             ELSE [step |-> "next", row |-> None, todo |-> rest]]
  /\ UNCHANGED <<logged, unrecorded, acts>>

(* The model answers nothing more, or the process stops. *)
RunEnds(r) ==
  /\ dispatcher[r].step \in {"capture", "next"}
  /\ End(r)
  /\ UNCHANGED <<board, logged, setBy, unrecorded, suggestions, crossed, acts>>

-----------------------------------------------------------------------------
(* suggestion-routes.ts *)

(* Mutant: the job is not looked at. *)
Mutant_ApproveStale(r, k) ==
  /\ suggestions[k].status = "pending"
  /\ Begin(r, [step |-> "approve", row |-> k])

(* Mutant: a suggestion somebody decided may be approved. *)
Mutant_ApproveDecided(r, k) ==
  /\ suggestions[k].status # "applied"
  /\ LET j == board[suggestions[k].job] IN
       j.status = "unassigned" \/ j.tech = None
  /\ Begin(r, [step |-> "approve", row |-> k])

(* Stale only when the job is both not unassigned and has a technician. *)
ApproveSuggestionRead(r, k) ==
  /\ suggestions[k].status = "pending"
  /\ LET j == board[suggestions[k].job] IN
       j.status = "unassigned" \/ j.tech = None
  /\ Begin(r, [step |-> "approve", row |-> k])

ApproveSuggestionWrite(r) ==
  /\ dispatcher[r].step = "approve"
  /\ LET k == dispatcher[r].row
         g == suggestions[k]
     IN /\ board' = [board EXCEPT ![g.job] = Scheduled(@, g.tech, g.slot)]
        /\ setBy' = [setBy EXCEPT ![g.job] = 0]
        /\ suggestions' = [suggestions EXCEPT ![k].status = "applied"]
        /\ Crosses(r, {k, g.job, g.tech})
  /\ End(r)
  /\ UNCHANGED <<logged, unrecorded, acts>>

RejectSuggestionRead(r, k) ==
  /\ suggestions[k].status = "pending"
  /\ Begin(r, [step |-> "reject", row |-> k])

RejectSuggestionWrite(r) ==
  /\ dispatcher[r].step = "reject"
  /\ suggestions' = [suggestions EXCEPT ![dispatcher[r].row].status = "rejected"]
  /\ Crosses(r, {dispatcher[r].row})
  /\ End(r)
  /\ UNCHANGED <<board, logged, setBy, unrecorded, acts>>

DispatchNext ==
  \E r \in Requests :
    \/ \E j \in BoardJobs : \/ AssignJobRead(r, j) \/ UnassignRead(r, j)
                            \/ PatchJob(r, j) \/ TransitionRead(r, j)
    \/ AssignJobWrite(r) \/ UnassignWrite(r) \/ TransitionWrite(r)
    \/ RunStart(r) \/ RunCapture(r) \/ RunApplies(r) \/ RunCheck(r) \/ RunPersist(r)
    \/ RunEnds(r)
    \/ \E k \in DOMAIN suggestions :
         ApproveSuggestionRead(r, k) \/ RejectSuggestionRead(r, k)
    \/ ApproveSuggestionWrite(r) \/ RejectSuggestionWrite(r)

DispatchSpec == DispatchInit /\ [][DispatchNext]_dispatchVars

-----------------------------------------------------------------------------
(* Rows and requests have the shapes of the schema. *)
DispatchTypeOK ==
  /\ board \in [BoardJobs -> BoardRows]
  /\ logged \in [BoardJobs -> BoardStatus]
  /\ setBy \in [BoardJobs -> 0..MaxSuggestions]
  /\ unrecorded \in [BoardJobs -> 0..MaxActs]
  /\ \A j \in BoardJobs : unrecorded[j] <= acts
  /\ suggestions \in Seq(Suggestions) /\ Len(suggestions) <= MaxSuggestions
  /\ dispatcher \in [Requests -> DispatcherStates]
  /\ crossed \subseteq BoardJobs \cup Techs \cup 1..MaxSuggestions
  /\ acts \in 0..MaxActs

(* Two jobs the dispatcher gave one technician on its own never overlap, as *)
(* long as nobody moved them since and no other request wrote to the        *)
(* technician's day between a proposal's checks and its writes.             *)
NoDoubleBooking ==
  \A i, j \in BoardJobs \ crossed :
    /\ 0 < setBy[i] /\ setBy[i] < setBy[j]
    /\ board[i].tech = board[j].tech /\ board[i].tech \notin crossed
    => ~Overlaps(board[i].slot, board[j].slot)

AppliedTo(j) ==
  {k \in DOMAIN suggestions :
     suggestions[k].job = j /\ suggestions[k].status = "applied"}

(* A completed or canceled job is never worked on again, except that        *)
(* applying a suggestion and the agent's own tool, which do not look at the *)
(* status, schedule it, and that a handler may write what it decided before *)
(* another finished the job.                                                *)
FinishedJobsStay ==
  \A j \in BoardJobs :
     /\ BoardMatrix[board[j].status] = {}
     /\ board'[j].status # board[j].status
     => \/ AppliedTo(j)' # AppliedTo(j)
        \/ unrecorded'[j] # unrecorded[j]
        \/ j \in crossed'

(* Approving a suggestion takes no scheduled job from the technician who has *)
(* it, unless the job was assigned while the approval was in flight.         *)
ApprovalTakesNobodysJob ==
  \A k \in DOMAIN suggestions :
     /\ suggestions[k].status = "pending" /\ suggestions'[k].status = "applied"
     => LET j == suggestions[k].job IN
          \/ board[j].tech = None \/ board[j].status = "unassigned"
          \/ j \in crossed

(* A rejected suggestion is never applied afterwards, unless it was being   *)
(* approved when it was rejected.                                           *)
RejectedStaysRejected ==
  \A k \in DOMAIN suggestions \ crossed :
     suggestions[k].status = "rejected" => suggestions'[k].status = "rejected"

(* The status log ends with the job's status: every handler logs the change *)
(* it makes, but for the ones that apply a suggestion, the agent's tool,    *)
(* and changes made across each other.                                      *)
LogTellsStatus ==
  \A j \in BoardJobs \ crossed :
    /\ AppliedTo(j) = {} /\ unrecorded[j] = 0
    /\ \A k \in DOMAIN suggestions \cap crossed : suggestions[k].job # j
    => logged[j] = board[j].status

(* The board the technicians work from: nobody in two places, and a log     *)
(* that tells where each job stands.                                        *)
BoardSound ==
  /\ NoDoubleBooking
  /\ LogTellsStatus
=============================================================================
