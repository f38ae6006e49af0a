---------------------------- MODULE Collections ----------------------------
(***************************************************************************)
(* Reminders for unpaid invoices: a sweep drafts one for each aged invoice, *)
(* with the tone its age calls for, and staff edit, reject or approve the   *)
(* draft.  An approval reads the draft, sends the mail outside the          *)
(* transaction, and then records the outcome in another.                    *)
(***************************************************************************)
EXTENDS Platform

CONSTANTS
  Debts,       \* invoices of the branch that are finalized or sent
  MaxDrafts,   \* drafts a behaviour may create
  MaxEdits,    \* bound on the edits of all drafts
  MaxMails,    \* bound on the deliveries of one draft
  MaxClerks    \* bound on the requests of a behaviour

VARIABLES
  owing,       \* invoices still finalized or sent
  overdue,     \* [Debts -> days since it was sent, or else finalized]
  restarted,   \* invoices first sent after they were finalized
  drafts,      \* the collections_drafts rows, oldest first
  mailed,      \* [1..MaxDrafts -> the texts its customer received]
  clerk,       \* [Requests -> the request in flight]
  mixed,       \* drafts, or Sweep, whose requests were mixed
  clerks       \* requests so far

invoiceState == <<owing, overdue, restarted>>
collectionsVars == <<owing, overdue, restarted, drafts, mailed, clerk, mixed, clerks>>

(* Stands for the sweep where requests name the row they work on. *)
Sweep == 0

Cadence == [friendly |-> 7, firm |-> 14, final |-> 30]
Tones == DOMAIN Cadence

ASSUME CollectionsAssumption ==
  /\ MaxDrafts \in Nat /\ MaxEdits \in Nat /\ MaxMails \in Nat /\ MaxClerks \in Nat
  /\ None \notin Tones

DayMarks == {0} \cup {Cadence[t] : t \in Tones}

(* The most severe tone whose threshold the days have crossed. *)
ToneFor(days) ==
  LET crossed == {t \in Tones : days >= Cadence[t]}
  IN  IF crossed = {} THEN None
      ELSE CHOOSE t \in crossed : \A u \in crossed : Cadence[u] <= Cadence[t]

DraftStatus == {"pending", "edited", "rejected", "sent", "failed"}

(* "text": 0 as drafted, else the edit it is from. *)
Drafts ==
  [invoice : Debts, tone : Tones, status : DraftStatus, text : 0..MaxEdits]

DraftIds == DOMAIN drafts

Reminders == [invoice : Debts, tone : Tones]

ClerkStates ==
  {Idle}
  \cup [step : {"drafting"}, row : {Sweep}, todo : SUBSET Reminders]
  \cup [step : {"asking"}, row : {Sweep}, todo : SUBSET Reminders,
        now : Reminders]
  \cup [step : {"sending"}, row : 1..MaxDrafts, text : 0..MaxEdits]
  \cup [step : {"recording"}, row : 1..MaxDrafts, text : 0..MaxEdits,
        ok : BOOLEAN]
  \cup [step : {"editing", "rejecting"}, row : 1..MaxDrafts]

CollectionsInit ==
  /\ owing = Debts /\ overdue = [i \in Debts |-> 0] /\ restarted = {}
  /\ drafts = <<>> /\ mailed = [d \in 1..MaxDrafts |-> <<>>]
  /\ clerk = NoRequests /\ mixed = {} /\ clerks = 0

(* A request begins on a row. *)
Open(r, row, state) ==
  /\ clerk[r] = Idle /\ clerks < MaxClerks /\ clerks' = clerks + 1
  /\ mixed' = MixedBy(mixed, clerk, row)
  /\ clerk' = [clerk EXCEPT ![r] = state]
  /\ UNCHANGED <<invoiceState, drafts, mailed>>

-----------------------------------------------------------------------------
(* What happens to the invoices meanwhile. *)

DaysPass(i) ==
  /\ i \in owing
  /\ \E n \in DayMarks : n > overdue[i] /\ overdue' = [overdue EXCEPT ![i] = n]
  /\ UNCHANGED <<owing, restarted, drafts, mailed, clerk, mixed, clerks>>

(* Its first sending starts the days again; a later one keeps sent_at. *)
InvoiceSent(i) ==
  /\ i \in owing \ restarted
  /\ restarted' = restarted \cup {i} /\ overdue' = [overdue EXCEPT ![i] = 0]
  /\ UNCHANGED <<owing, drafts, mailed, clerk, mixed, clerks>>

(* Paid, void or deleted. *)
InvoiceSettled(i) ==
  /\ i \in owing
  /\ owing' = owing \ {i} /\ overdue' = [overdue EXCEPT ![i] = 0]
  /\ UNCHANGED <<restarted, drafts, mailed, clerk, mixed, clerks>>

-----------------------------------------------------------------------------
(* POST /collections/run *)

DraftsOf(i, t) == {d \in DraftIds : drafts[d].invoice = i /\ drafts[d].tone = t}

(* Mutant: a reminder that was sent does not count. *)
Mutant_BlockedByPending(i, t) ==
  \E d \in DraftsOf(i, t) : drafts[d].status = "pending"

Blocked(i, t) ==
  \E d \in DraftsOf(i, t) : drafts[d].status \in {"pending", "sent"}

(* Mutant: the sweep does not look for a draft that waits. *)
Mutant_PendingIgnored(m) == {}

PendingFor(m) ==
  {d \in DraftsOf(m.invoice, m.tone) : drafts[d].status = "pending"}

(* Mutant: where the tone was sent already, a milder one is drafted. *)
Mutant_SelectAgedMilder ==
  {m \in Reminders : /\ m.invoice \in owing
                     /\ Cadence[m.tone] <= overdue[m.invoice]
                     /\ ~Blocked(m.invoice, m.tone)}

SelectAged ==
  {m \in Reminders : /\ m.invoice \in owing
                     /\ m.tone = ToneFor(overdue[m.invoice])
                     /\ ~Blocked(m.invoice, m.tone)}

SweepSelect(r) ==
  /\ SelectAged # {}
  /\ Open(r, Sweep, [step |-> "drafting", row |-> Sweep, todo |-> SelectAged])

(* The loop goes on, or the request is answered. *)
SweepRest(todo) ==
  IF todo = {} THEN Idle
  ELSE [step |-> "drafting", row |-> Sweep, todo |-> todo]

(* A pending draft is returned as it is; else the model writes the text. *)
SweepRead(r) ==
  /\ clerk[r].step = "drafting"
  /\ \E m \in clerk[r].todo :
       clerk' = [clerk EXCEPT ![r] =
                   IF PendingFor(m) # {} THEN SweepRest(@.todo \ {m})
                   ELSE [step |-> "asking", row |-> Sweep,
                         todo |-> @.todo \ {m}, now |-> m]]
  /\ UNCHANGED <<invoiceState, drafts, mailed, mixed, clerks>>

(* The unique index on pending drafts fails the request. *)
SweepInsert(r) ==
  /\ clerk[r].step = "asking"
  /\ LET m == clerk[r].now IN
     IF PendingFor(m) # {}
     THEN clerk' = [clerk EXCEPT ![r] = Idle] /\ UNCHANGED drafts
     ELSE /\ Len(drafts) < MaxDrafts
          /\ clerk' = [clerk EXCEPT ![r] = SweepRest(@.todo)]
          /\ drafts' = Append(drafts,
               [invoice |-> m.invoice, tone |-> m.tone, status |-> "pending",
                text |-> 0])
  /\ UNCHANGED <<invoiceState, mailed, mixed, clerks>>

SweepFails(r) ==
  /\ clerk[r].step = "asking"
  /\ clerk' = [clerk EXCEPT ![r] = Idle]
  /\ UNCHANGED <<invoiceState, drafts, mailed, mixed, clerks>>

-----------------------------------------------------------------------------
(* POST /collections/drafts/:id/approve, /edit and /reject *)

Actionable(d) == drafts[d].status \in {"pending", "edited"}

ApproveRead(r, d) ==
  /\ Actionable(d)
  /\ Open(r, d, [step |-> "sending", row |-> d, text |-> drafts[d].text])

(* Email, then SMS: delivered when one of them is. *)
ApproveSend(r) ==
  /\ clerk[r].step = "sending"
  /\ \E ok \in BOOLEAN :
       /\ ok => Len(mailed[clerk[r].row]) < MaxMails
       /\ clerk' = [clerk EXCEPT ![r] =
                      [step |-> "recording", row |-> @.row, text |-> @.text,
                       ok |-> ok]]
       /\ mailed' = IF ok
                    THEN [mailed EXCEPT ![clerk[r].row] =
                            Append(@, clerk[r].text)]
                    ELSE mailed
  /\ UNCHANGED <<invoiceState, drafts, mixed, clerks>>

Write(r, row) ==
  /\ drafts' = [drafts EXCEPT ![clerk[r].row] = row]
  /\ clerk' = [clerk EXCEPT ![r] = Idle]
  /\ UNCHANGED <<invoiceState, mailed, mixed, clerks>>

(* Mutant: the outcome of the mail is not looked at. *)
Mutant_ApproveWriteSent(r) ==
  /\ clerk[r].step = "recording"
  /\ Write(r, [drafts[clerk[r].row] EXCEPT !.status = "sent"])

ApproveWrite(r) ==
  /\ clerk[r].step = "recording"
  /\ Write(r, [drafts[clerk[r].row] EXCEPT
                 !.status = IF clerk[r].ok THEN "sent" ELSE "failed"])

(* The process stops after the sends, or the second transaction fails. *)
ApproveStops(r) ==
  /\ clerk[r].step = "recording"
  /\ mixed' = mixed \cup {clerk[r].row}
  /\ clerk' = [clerk EXCEPT ![r] = Idle]
  /\ UNCHANGED <<invoiceState, drafts, mailed, clerks>>

Edits == {n \in 1..MaxEdits : \E d \in DraftIds : drafts[d].text >= n}

EditRead(r, d) == Actionable(d) /\ Open(r, d, [step |-> "editing", row |-> d])

EditWrite(r) ==
  /\ clerk[r].step = "editing"
  /\ \E t \in Tones, n \in 1..MaxEdits :
       /\ n = Cardinality(Edits) + 1
       /\ Write(r, [drafts[clerk[r].row] EXCEPT
                      !.status = "edited", !.tone = t, !.text = n])

RejectRead(r, d) == Actionable(d) /\ Open(r, d, [step |-> "rejecting", row |-> d])

RejectWrite(r) ==
  /\ clerk[r].step = "rejecting"
  /\ Write(r, [drafts[clerk[r].row] EXCEPT !.status = "rejected"])

CollectionsNext ==
  \/ \E i \in Debts : DaysPass(i) \/ InvoiceSent(i) \/ InvoiceSettled(i)
  \/ \E r \in Requests :
       \/ SweepSelect(r) \/ SweepRead(r) \/ SweepInsert(r) \/ SweepFails(r)
       \/ \E d \in DraftIds :
            ApproveRead(r, d) \/ EditRead(r, d) \/ RejectRead(r, d)
       \/ ApproveSend(r) \/ ApproveWrite(r) \/ ApproveStops(r)
       \/ EditWrite(r) \/ RejectWrite(r)

CollectionsSpec == CollectionsInit /\ [][CollectionsNext]_collectionsVars

-----------------------------------------------------------------------------
(* Rows, requests and mailboxes have the shapes of the schema. *)
CollectionsTypeOK ==
  /\ owing \subseteq Debts /\ restarted \subseteq Debts
  /\ overdue \in [Debts -> DayMarks]
  /\ drafts \in Seq(Drafts) /\ Len(drafts) <= MaxDrafts
  /\ mailed \in [1..MaxDrafts -> Seq(0..MaxEdits)]
  /\ clerk \in [Requests -> ClerkStates]
  /\ mixed \subseteq {Sweep} \cup 1..MaxDrafts /\ clerks \in 0..MaxClerks

(* However sweeps race, an invoice never has two pending drafts of one tone: *)
(* no edit, rejection or approval makes a draft pending again.              *)
OnePendingReminder ==
  \A d, e \in DraftIds :
    /\ drafts[d].status = "pending" /\ drafts[e].status = "pending"
    /\ drafts[d].invoice = drafts[e].invoice /\ drafts[d].tone = drafts[e].tone
    => d = e

(* What the row says is what the customer got: a sent draft was delivered   *)
(* once, with the text the row shows, and any other draft not at all.       *)
(* Overlapping requests on the draft, or an approval that stops, break it.  *)
ReminderMatchesMail ==
  \A d \in DraftIds \ mixed :
    WorkingOn(clerk, d) = {} =>
      mailed[d] = IF drafts[d].status = "sent" THEN <<drafts[d].text>> ELSE <<>>

(* Sweeps that do not overlap draft no tone again that waits for a decision  *)
(* or was sent.  An edited draft does not count as waiting.                 *)
ToneDraftedOnce ==
  Sweep \in mixed \/
  \A d, e \in DraftIds \ mixed :
    /\ d # e /\ drafts[d].invoice = drafts[e].invoice
    /\ drafts[d].tone = drafts[e].tone
    /\ drafts[d].text = 0 /\ drafts[e].text = 0
    => ~({drafts[d].status, drafts[e].status} \subseteq {"pending", "sent"})

(* Until the invoice is sent and its days restart, reminders get no milder, unless *)
(* an overlapping sweep still works on the list it read earlier.            *)
ReminderEscalates ==
  Sweep \in mixed \/
  \A d, e \in DraftIds :
    /\ d < e /\ drafts[d].invoice = drafts[e].invoice
    /\ drafts[d].invoice \notin restarted
    /\ drafts[d].text = 0 /\ drafts[e].text = 0
    => Cadence[drafts[d].tone] <= Cadence[drafts[e].tone]

(* What a customer is told about an overdue invoice, whatever sweeps,       *)
(* approvals, edits and rejections race.                                    *)
RemindersSound ==
  /\ OnePendingReminder
  /\ ReminderMatchesMail
  /\ ToneDraftedOnce
  /\ ReminderEscalates
=============================================================================
