------------------------------ MODULE VoiceCall ------------------------------
(***************************************************************************)
(* The voice agent.  A stream that starts opens a conversation and a call   *)
(* session, then a language model takes turns: it speaks, which ends the    *)
(* loop, or asks for a tool.  A tool that changes the branch's books is     *)
(* run only when the turn is confident enough; otherwise the caller is      *)
(* handed to a human.  What the model says is arbitrary.  An error between  *)
(* the tools is caught by nobody and stops the process, with every call     *)
(* that is in flight.  Hanging up stops the speech and nothing else.        *)
(***************************************************************************)
EXTENDS Platform

CONSTANTS
  Calls,          \* Twilio call ids
  Confidences, Totals, DollarCap,
  MaxSteps,       \* turns of one loop
  MaxConversations, MaxVoiceQuotes, MaxStaff   \* bounds on rows and on staff

VARIABLES
  sessions,       \* [Calls -> call_sessions row, or None]
  conversations,  \* ai_conversations rows and their messages, oldest first
  agent,          \* [Requests -> the stream's orchestrator]
  voiceQuotes,    \* quotes the agents configured, oldest first
  deeds,          \* what tools that write did
  staff           \* what staff did to those quotes, so far

voiceVars == <<sessions, conversations, agent, voiceQuotes, deeds, staff>>

CallStatus == {"in_progress", "completed", "transferred"}
Outcomes == {"booked", "transferred", "abandoned", "none"}

Sessions ==
  [conv : 1..MaxConversations, status : CallStatus, outcome : Outcomes]

Conversations ==
  [said : Outcomes, handed : BOOLEAN, kept : BOOLEAN, ended : BOOLEAN]

VoiceQuotes ==
  [total : Totals, status : {"priced", "committed", "accepted", "void"},
   sent : Totals \cup {0},
   torn : BOOLEAN]   \* was ever repriced between a commit's read of it and of its lines

(* Of the eight tools, those that write the branch's books, with the floors *)
(* that call-context lists for them (the default is 80), and the three that *)
(* buildCsrToolSet has the loop hold to theirs.  The voice process of this  *)
(* commit hands its loops neither tools nor floors yet.                     *)
Floor == [createCustomer |-> 80, bookJob |-> 80, quoteConfigurator |-> 70,
          commitQuote |-> 90]

Gated == {"createCustomer", "bookJob", "commitQuote"}

Deeds ==
  [conv : 1..MaxConversations, tool : DOMAIN Floor, confidence : Confidences]

(* Amounts in cents, confidences in hundredths. *)
ASSUME VoiceAssumption ==
  /\ Totals \subseteq Nat /\ DollarCap \in Nat /\ Confidences \subseteq Nat
  /\ MaxSteps \in Nat /\ MaxConversations \in Nat /\ MaxVoiceQuotes \in Nat
  /\ MaxStaff \in Nat /\ None \notin Sessions

AgentSteps == {"opening", "thinking", "reading", "shipping", "ending", "closing"}

AgentStates ==
  {Idle} \cup
  [step : AgentSteps, call : Calls, conv : 1..MaxConversations, turns : 0..MaxSteps,
   quote : 0..MaxVoiceQuotes, said : Outcomes, handed : BOOLEAN, ships : 0..MaxVoiceQuotes,
   total : Totals \cup {0}, confidence : Confidences \cup {0}]

VoiceInit ==
  /\ sessions = [c \in Calls |-> None] /\ conversations = <<>>
  /\ agent = NoRequests /\ voiceQuotes = <<>> /\ deeds = {} /\ staff = 0

-----------------------------------------------------------------------------
(* start() *)

Opened(call) ==
  [step |-> "opening", call |-> call, conv |-> Len(conversations) + 1, turns |-> 0,
   quote |-> 0, said |-> "none", handed |-> FALSE,
   ships |-> 0, total |-> 0, confidence |-> 0]

(* A start event; Twilio may send one for a call it already streams. *)
StreamStarts(r, call) ==
  /\ agent[r] = Idle /\ Len(conversations) < MaxConversations
  /\ conversations' = Append(conversations, [said |-> "none", handed |-> FALSE,
                                             kept |-> FALSE, ended |-> FALSE])
  /\ agent' = [agent EXCEPT ![r] = Opened(call)]
  /\ UNCHANGED <<sessions, voiceQuotes, deeds, staff>>

Now(r, step) == agent' = [agent EXCEPT ![r].step = step]

(* Mutant: the call id is not unique. *)
Mutant_SessionOverwritten(r) ==
  LET call == agent[r].call IN
  /\ agent[r].step = "opening"
  /\ sessions' = [sessions EXCEPT ![call] =
                    [conv |-> agent[r].conv, status |-> "in_progress",
                     outcome |-> "none"]]
  /\ Now(r, "thinking")
  /\ UNCHANGED <<conversations, voiceQuotes, deeds, staff>>

(* call_sessions_twilio_sid_unique: the second session of a call is refused, *)
(* and the error, which nobody catches, stops the process.                  *)
SessionOpens(r) ==
  LET call == agent[r].call IN
  /\ agent[r].step = "opening"
  /\ IF sessions[call] = None
     THEN /\ sessions' = [sessions EXCEPT ![call] =
                            [conv |-> agent[r].conv, status |-> "in_progress",
                             outcome |-> "none"]]
          /\ Now(r, "thinking")
     ELSE agent' = NoRequests /\ UNCHANGED sessions
  /\ UNCHANGED <<conversations, voiceQuotes, deeds, staff>>

-----------------------------------------------------------------------------
(* runAgentLoop: one action a kind of turn *)

Thinks(r) == agent[r].step = "thinking" /\ agent[r].turns < MaxSteps

Turned(r) == [agent[r] EXCEPT !.turns = @ + 1]

Becomes(r, state) == agent' = [agent EXCEPT ![r] = state]

Reply(r) ==
  /\ Thinks(r)
  /\ Becomes(r, [Turned(r) EXCEPT !.step = "ending"])
  /\ UNCHANGED <<sessions, conversations, voiceQuotes, deeds, staff>>

OutOfSteps(r) ==
  /\ agent[r].step = "thinking" /\ agent[r].turns = MaxSteps
  /\ Becomes(r, [agent[r] EXCEPT !.step = "ending"])
  /\ UNCHANGED <<sessions, conversations, voiceQuotes, deeds, staff>>

(* An unknown tool, one that refuses its input, one that throws and one that *)
(* only reads: the model is told, and the loop goes on.                     *)
ToolTells(r) ==
  /\ Thinks(r) /\ Becomes(r, Turned(r))
  /\ UNCHANGED <<sessions, conversations, voiceQuotes, deeds, staff>>

(* Mutant: the loop goes on after a transfer. *)
Mutant_TransferGoesOn(r) ==
  /\ Thinks(r)
  /\ conversations' = [conversations EXCEPT ![agent[r].conv].handed = TRUE]
  /\ Becomes(r, [Turned(r) EXCEPT !.handed = TRUE])
  /\ UNCHANGED <<sessions, voiceQuotes, deeds, staff>>

TransferToHuman(r) ==
  /\ Thinks(r)
  /\ conversations' = [conversations EXCEPT ![agent[r].conv].handed = TRUE]
  /\ Becomes(r, [Turned(r) EXCEPT !.step = "ending", !.handed = TRUE])
  /\ UNCHANGED <<sessions, voiceQuotes, deeds, staff>>

(* Mutant: one floor for every tool. *)
Mutant_ConfidentAnyTool(tool, confidence) == confidence >= 80

Confident(tool, confidence) == tool \in Gated => confidence >= Floor[tool]

(* A gated tool on an unsure turn becomes a transfer; if even that fails,   *)
(* the loop goes on.                                                        *)
Redirected(r, tool, confidence) ==
  ~Confident(tool, confidence) /\ TransferToHuman(r)

Done(r, tool, confidence) ==
  deeds' = deeds \cup {[conv |-> agent[r].conv, tool |-> tool,
                        confidence |-> confidence]}

CreateVoiceCustomer(r, confidence) ==
  /\ Thinks(r) /\ Confident("createCustomer", confidence)
  /\ Done(r, "createCustomer", confidence)
  /\ Becomes(r, Turned(r))
  /\ UNCHANGED <<sessions, conversations, voiceQuotes, staff>>

(* For a customer of the branch, the one the call resolved or any other. *)
BookJob(r, confidence) ==
  /\ Thinks(r) /\ Confident("bookJob", confidence)
  /\ Done(r, "bookJob", confidence)
  /\ Becomes(r, Turned(r))
  /\ UNCHANGED <<sessions, conversations, voiceQuotes, staff>>

(* Lines and total are written together; a commit may have read the one.    *)
Priced(q, total) ==
  [voiceQuotes EXCEPT ![q].total = total, ![q].status = "priced",
     ![q].torn = @ \/ \E r \in Requests :
                         agent[r] # Idle /\ agent[r].step = "reading" /\ agent[r].ships = q]

(* quoteConfigurator: a fresh quote, or new prices for the call's quote even *)
(* when staff committed it; void and accepted ones are left alone.          *)
Configure(r, total, confidence) ==
  LET q == agent[r].quote
      again == q # 0 /\ voiceQuotes[q].status \notin {"void", "accepted"}
  IN
  /\ Thinks(r) /\ Confident("quoteConfigurator", confidence)
  /\ Done(r, "quoteConfigurator", confidence)
  /\ IF again
     THEN voiceQuotes' = Priced(q, total) /\ Becomes(r, Turned(r))
     ELSE /\ Len(voiceQuotes) < MaxVoiceQuotes
          /\ voiceQuotes' = Append(voiceQuotes,
                              [total |-> total, status |-> "priced", sent |-> 0,
                               torn |-> FALSE])
          /\ Becomes(r, [Turned(r) EXCEPT !.quote = Len(voiceQuotes) + 1])
  /\ UNCHANGED <<sessions, conversations, staff>>

(* Mutant: the cap is not looked at. *)
Mutant_WithinAnyCap(total) == TRUE

WithinCap(total) == total <= DollarCap

(* commitQuote: the confidence the model writes into the input is compared  *)
(* once more; the quote is any of the branch that the model names.          *)
CommitQuoteRead(r, confidence, claimed, q) ==
  /\ Thinks(r) /\ Confident("commitQuote", confidence)
  /\ claimed >= Floor.commitQuote
  /\ voiceQuotes[q].status = "priced" /\ WithinCap(voiceQuotes[q].total)
  /\ Becomes(r, [Turned(r) EXCEPT !.step = "reading", !.ships = q,
                 !.confidence = confidence])
  /\ UNCHANGED <<sessions, conversations, voiceQuotes, deeds, staff>>

(* The second SELECT of the same READ COMMITTED transaction.  The checks    *)
(* come after it and look at the row the first one read.                    *)
CommitQuoteLines(r) ==
  /\ agent[r].step = "reading"
  /\ Becomes(r, [agent[r] EXCEPT !.step = "shipping",
                 !.total = voiceQuotes[agent[r].ships].total])
  /\ UNCHANGED <<sessions, conversations, voiceQuotes, deeds, staff>>

(* The supplier has the lines that were read, once for each quote; then the *)
(* tool finds that a voice call has no user, and refuses.                   *)
CommitQuoteCall(r) ==
  LET q == agent[r].ships IN
  /\ agent[r].step = "shipping"
  /\ voiceQuotes' = IF voiceQuotes[q].sent # 0 THEN voiceQuotes
                    ELSE [voiceQuotes EXCEPT ![q].sent = agent[r].total]
  /\ Done(r, "commitQuote", agent[r].confidence)
  /\ Becomes(r, [agent[r] EXCEPT !.step = "thinking", !.ships = 0, !.total = 0,
                 !.confidence = 0])
  /\ UNCHANGED <<sessions, conversations, staff>>

(* The supplier refuses, or is not reached. *)
CommitQuoteRefused(r) ==
  /\ agent[r].step = "shipping"
  /\ Becomes(r, [agent[r] EXCEPT !.step = "thinking", !.ships = 0, !.total = 0,
                 !.confidence = 0])
  /\ UNCHANGED <<sessions, conversations, voiceQuotes, deeds, staff>>

(* What the model reports counts even when the report cannot be stored. *)
LogCallSummary(r, outcome) ==
  /\ Thinks(r) /\ Becomes(r, [Turned(r) EXCEPT !.said = outcome])
  /\ UNCHANGED <<sessions, conversations, voiceQuotes, deeds, staff>>

-----------------------------------------------------------------------------
(* The end of run() *)

PersistTranscript(r) ==
  /\ agent[r].step = "ending"
  /\ conversations' = [conversations EXCEPT ![agent[r].conv].said = agent[r].said,
                                            ![agent[r].conv].kept = TRUE]
  /\ Now(r, "closing")
  /\ UNCHANGED <<sessions, voiceQuotes, deeds, staff>>

(* Mutant: the agent's report outranks the transfer. *)
Mutant_OutcomeReported(handed, said) ==
  IF said \in {"booked", "transferred"} THEN said
  ELSE IF handed THEN "transferred" ELSE "none"

OutcomeOf(handed, said) ==
  IF handed THEN "transferred"
  ELSE IF said \in {"booked", "transferred"} THEN said ELSE "none"

CloseSession(r) ==
  LET outcome == OutcomeOf(agent[r].handed, agent[r].said) IN
  /\ agent[r].step = "closing" /\ sessions[agent[r].call].status = "in_progress"
  /\ sessions' = [sessions EXCEPT ![agent[r].call] =
       [@ EXCEPT !.outcome = outcome,
                 !.status = IF outcome = "transferred" THEN "transferred"
                            ELSE "completed"]]
  /\ UNCHANGED <<conversations, agent, voiceQuotes, deeds, staff>>

(* Mutant: the conversation may end before the session closes. *)
Mutant_EndConversationEarly(r) ==
  /\ agent[r].step = "closing"
  /\ conversations' = [conversations EXCEPT ![agent[r].conv].ended = TRUE]
  /\ Becomes(r, Idle)
  /\ UNCHANGED <<sessions, voiceQuotes, deeds, staff>>

EndConversation(r) ==
  /\ agent[r].step = "closing" /\ sessions[agent[r].call].status # "in_progress"
  /\ conversations' = [conversations EXCEPT ![agent[r].conv].ended = TRUE]
  /\ Becomes(r, Idle)
  /\ UNCHANGED <<sessions, voiceQuotes, deeds, staff>>

(* The model, the database or the speech fails outside a tool, or the       *)
(* process is stopped.                                                      *)
VoiceProcessStops ==
  /\ agent # NoRequests /\ agent' = NoRequests
  /\ UNCHANGED <<sessions, conversations, voiceQuotes, deeds, staff>>

(* Staff price a quote the agent is still talking about: the write goes by   *)
(* id, whatever became of the status that the request read.                 *)
StaffReprices(q, total) ==
  /\ staff < MaxStaff /\ staff' = staff + 1
  /\ voiceQuotes' = Priced(q, total)
  /\ UNCHANGED <<sessions, conversations, agent, deeds>>

(* They commit, accept or void it. *)
StaffMoves(q, status) ==
  /\ staff < MaxStaff /\ staff' = staff + 1
  /\ voiceQuotes[q].status = "priced" \/ (voiceQuotes[q].status = "committed"
                                          /\ status # "committed")
  /\ voiceQuotes' = [voiceQuotes EXCEPT ![q].status = status]
  /\ UNCHANGED <<sessions, conversations, agent, deeds>>

VoiceNext ==
  \/ \E r \in Requests, call \in Calls : StreamStarts(r, call)
  \/ \E r \in Requests : SessionOpens(r)
  \/ \E r \in Requests : Reply(r)
  \/ \E r \in Requests : OutOfSteps(r)
  \/ \E r \in Requests : ToolTells(r)
  \/ \E r \in Requests : TransferToHuman(r)
  \/ \E r \in Requests, tool \in DOMAIN Floor, confidence \in Confidences :
       Redirected(r, tool, confidence)
  \/ \E r \in Requests, confidence \in Confidences : CreateVoiceCustomer(r, confidence)
  \/ \E r \in Requests, confidence \in Confidences : BookJob(r, confidence)
  \/ \E r \in Requests, total \in Totals, confidence \in Confidences :
       Configure(r, total, confidence)
  \/ \E r \in Requests, confidence, claimed \in Confidences, q \in DOMAIN voiceQuotes :
       CommitQuoteRead(r, confidence, claimed, q)
  \/ \E r \in Requests : CommitQuoteLines(r)
  \/ \E r \in Requests : CommitQuoteCall(r)
  \/ \E r \in Requests : CommitQuoteRefused(r)
  \/ \E r \in Requests, outcome \in Outcomes : LogCallSummary(r, outcome)
  \/ \E r \in Requests : PersistTranscript(r)
  \/ \E r \in Requests : CloseSession(r)
  \/ \E r \in Requests : EndConversation(r)
  \/ VoiceProcessStops
  \/ \E q \in DOMAIN voiceQuotes, status \in {"committed", "accepted", "void"} :
       StaffMoves(q, status)
  \/ \E q \in DOMAIN voiceQuotes, total \in Totals : StaffReprices(q, total)

VoiceSpec == VoiceInit /\ [][VoiceNext]_voiceVars
-----------------------------------------------------------------------------
(* Every row and orchestrator is one the code can produce. *)
VoiceTypeOK ==
  /\ sessions \in [Calls -> Sessions \cup {None}]
  /\ conversations \in Seq(Conversations) /\ Len(conversations) <= MaxConversations
  /\ agent \in [Requests -> AgentStates]
  /\ voiceQuotes \in Seq(VoiceQuotes) /\ Len(voiceQuotes) <= MaxVoiceQuotes
  /\ deeds \subseteq Deeds /\ staff \in 0..MaxStaff

(* A call is answered once: whatever streams start for it, only the one     *)
(* conversation its session names talks or does anything.                   *)
CallAnsweredOnce ==
  /\ \A r \in Requests :
       agent[r] # Idle /\ agent[r].step # "opening" =>
         /\ sessions[agent[r].call] # None
         /\ sessions[agent[r].call].conv = agent[r].conv
  /\ \A d \in deeds : \E c \in Calls : sessions[c] # None /\ sessions[c].conv = d.conv

(* The three gated tools write only on a turn confident enough for that one, *)
(* and the supplier holds no quote of the agent's above the cap, although   *)
(* staff and the other calls reprice while it is sent; the exception is a   *)
(* price that came between the two reads of a commit.                       *)
AgentKeepsBounds ==
  /\ \A d \in deeds : d.tool \in Gated => d.confidence >= Floor[d.tool]
  /\ \A q \in DOMAIN voiceQuotes : voiceQuotes[q].sent <= DollarCap \/ voiceQuotes[q].torn

(* A closed session says what its stored transcript says: a transfer always, *)
(* else what the agent last reported; and a conversation that ended has its *)
(* session closed, wherever the process stopped.                            *)
SessionTellsCall ==
  \A c \in Calls : sessions[c] # None =>
    LET conv == conversations[sessions[c].conv] IN
    IF sessions[c].status = "in_progress" THEN ~conv.ended
    ELSE /\ conv.kept
         /\ (sessions[c].status = "transferred") = (sessions[c].outcome = "transferred")
         /\ conv.handed => sessions[c].outcome = "transferred"
         /\ sessions[c].outcome # "transferred" =>
              sessions[c].outcome = IF conv.said = "booked" THEN "booked" ELSE "none"

(* The voice agent answers each call once, within its bounds, and leaves a  *)
(* record that says so.                                                     *)
CallsSound ==
  /\ CallAnsweredOnce
  /\ AgentKeepsBounds
  /\ SessionTellsCall

(* After a call was handed to a human the agent does nothing more in it, and *)
(* a closed session stays as it was closed.                                 *)
HandedOverIsOver ==
  /\ \A d \in deeds' \ deeds : ~conversations[d.conv].handed
  /\ \A c \in Calls :
       sessions[c] # None /\ sessions[c].status # "in_progress" =>
         sessions'[c] = sessions[c]

(* However events of a call and turns of the model follow each other, what   *)
(* was handed over or closed is over (call-orchestrator).                   *)
CallsHandedOver == [][HandedOverIsOver]_voiceVars
=============================================================================
