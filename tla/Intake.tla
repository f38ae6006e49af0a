------------------------------- MODULE Intake -------------------------------
(***************************************************************************)
(* How customers and what is said of them reach the books: staff and the    *)
(* voice agent create, edit and delete customers, write notes and book      *)
(* jobs; other systems deliver notes, again and again, which are matched to *)
(* a customer of any branch or wait to be linked by hand; and the door      *)
(* designer on the web submits leads for the intake branch.  Every handler  *)
(* looks before it writes and locks nothing.                                *)
(***************************************************************************)
EXTENDS Platform

CONSTANTS
  Towns, IntakeTown,     \* branches, and the one that receives leads
  Contacts,              \* e-mail addresses or phone numbers
  SourceRefs,            \* what other systems call their notes
  Designs,               \* door configurations
  MaxClients, MaxNotes, MaxLeads, MaxErrands  \* bounds on rows and requests

(* Leads go to a branch there is. *)
ASSUME IntakeAssumption ==
  /\ IntakeTown \in Towns
  /\ MaxClients \in Nat /\ MaxNotes \in Nat /\ MaxLeads \in Nat /\ MaxErrands \in Nat

VARIABLES
  clients,     \* customers rows, oldest first
  notes,       \* customer_notes rows, oldest first
  leads,       \* quotes rows the widget made, oldest first
  bookings,    \* the clients jobs were booked for, oldest first
  desk,        \* [Requests -> the request in flight]
  blurred,     \* clients deleted under a request, contacts two leads share
  errands

intakeVars == <<clients, notes, leads, bookings, desk, blurred, errands>>

ClientRows == [town : Towns, contact : Contacts, gone : BOOLEAN]
NoteRows ==
  [town : Towns, client : 0..MaxClients, ref : SourceRefs \cup {None}]
LeadRows ==
  [client : 1..MaxClients, design : Designs, recent : BOOLEAN, draft : BOOLEAN]

ClientIds == DOMAIN clients
Living == {c \in ClientIds : ~clients[c].gone}
NoClient == 0

DeskStates ==
  {Idle}
  \cup [step : {"noting", "booking"}, client : 1..MaxClients]
  \cup [step : {"matched", "looked"}, client : 0..MaxClients,
        ref : SourceRefs \cup {None}, town : Towns]
  \cup [step : {"linking"}, client : 1..MaxClients, note : 1..MaxNotes]
  \cup [step : {"found", "fresh"}, client : 0..MaxClients, contact : Contacts,
        design : Designs]

IntakeInit ==
  /\ clients = <<>> /\ notes = <<>> /\ leads = <<>> /\ bookings = <<>>
  /\ desk = NoRequests /\ blurred = {} /\ errands = 0

(* Mutant: the contact is not stored. *)
Mutant_NewClientBlank(town, contact) == [town |-> town, contact |-> None, gone |-> FALSE]

NewClient(town, contact) == [town |-> town, contact |-> contact, gone |-> FALSE]

Errand(r, state) ==
  /\ desk[r] = Idle /\ errands < MaxErrands /\ errands' = errands + 1
  /\ desk' = [desk EXCEPT ![r] = state]

Proceeds(r, state) == desk' = [desk EXCEPT ![r] = state] /\ UNCHANGED errands

-----------------------------------------------------------------------------
(* customers-routes.ts, and the voice agent's createCustomer *)

(* Nobody asks whether the contact is known. *)
CreateCustomer(town, contact) ==
  /\ Len(clients) < MaxClients
  /\ clients' = Append(clients, NewClient(town, contact))
  /\ UNCHANGED <<notes, leads, bookings, desk, blurred, errands>>

PatchCustomer(c, contact) ==
  /\ c \in Living /\ contact # clients[c].contact
  /\ errands < MaxErrands /\ errands' = errands + 1
  /\ clients' = [clients EXCEPT ![c].contact = contact]
  /\ UNCHANGED <<notes, leads, bookings, desk, blurred>>

(* What the requests in flight have read of customers. *)
ClientsInHand == {desk[r].client : r \in {q \in Requests : desk[q] # Idle}}

DeleteCustomer(c) ==
  /\ c \in Living
  /\ clients' = [clients EXCEPT ![c].gone = TRUE]
  /\ blurred' = blurred \cup ({c} \cap ClientsInHand)
  /\ UNCHANGED <<notes, leads, bookings, desk, errands>>

-----------------------------------------------------------------------------
(* crm-routes.ts *)

NoteRead(r, c) ==
  /\ c \in Living /\ Errand(r, [step |-> "noting", client |-> c])
  /\ UNCHANGED <<clients, notes, leads, bookings, blurred>>

NoteWrite(r) ==
  /\ desk[r].step = "noting" /\ Len(notes) < MaxNotes
  /\ notes' = Append(notes, [town |-> clients[desk[r].client].town,
                             client |-> desk[r].client, ref |-> None])
  /\ Proceeds(r, Idle)
  /\ UNCHANGED <<clients, leads, bookings, blurred>>

Matching(contact) == {c \in Living : clients[c].contact = contact}

(* The newest customer with the contact, in whichever branch. *)
Match(contact) ==
  IF Matching(contact) = {} THEN NoClient
  ELSE CHOOSE c \in Matching(contact) : \A b \in Matching(contact) : b <= c

IngestMatch(r, ref, contact) ==
  /\ LET c == Match(contact) IN
     Errand(r, [step |-> "matched", client |-> c, ref |-> ref,
                town |-> IF c = NoClient THEN IntakeTown ELSE clients[c].town])
  /\ UNCHANGED <<clients, notes, leads, bookings, blurred>>

(* A delivery without a reference is never known. *)
Recorded(ref) == {n \in DOMAIN notes : ref # None /\ notes[n].ref = ref}

(* Mutant: a repeated delivery matches the note again. *)
Mutant_IngestRematches(r) ==
  /\ desk[r].step = "matched"
  /\ LET seen == Recorded(desk[r].ref) IN
     \/ /\ seen # {} /\ Proceeds(r, Idle)
        /\ notes' = [n \in DOMAIN notes |->
                       IF n \in seen THEN [notes[n] EXCEPT !.client = desk[r].client]
                       ELSE notes[n]]
     \/ /\ seen = {} /\ Proceeds(r, [desk[r] EXCEPT !.step = "looked"])
        /\ UNCHANGED notes
  /\ UNCHANGED <<clients, leads, bookings, blurred>>

(* A note that is there is returned, and the request is done; but row       *)
(* security, where the connection is subject to it, hides a note that went  *)
(* to another branch.                                                       *)
IngestLook(r) ==
  /\ desk[r].step = "matched"
  /\ LET seen == Recorded(desk[r].ref) IN
     \/ seen # {} /\ Proceeds(r, Idle)
     \/ /\ \A n \in seen : notes[n].town # desk[r].town
        /\ Proceeds(r, [desk[r] EXCEPT !.step = "looked"])
  /\ UNCHANGED <<clients, notes, leads, bookings, blurred>>

(* Mutant: the index is per branch. *)
Mutant_IngestInsertPerTown(r) ==
  /\ desk[r].step = "looked"
  /\ IF \A n \in Recorded(desk[r].ref) : notes[n].town # desk[r].town
     THEN /\ Len(notes) < MaxNotes
          /\ notes' = Append(notes, [town |-> desk[r].town,
                                     client |-> desk[r].client, ref |-> desk[r].ref])
     ELSE UNCHANGED notes
  /\ Proceeds(r, Idle)
  /\ UNCHANGED <<clients, leads, bookings, blurred>>

(* customer_notes_source_ref_unique: the second of two fails. *)
IngestInsert(r) ==
  /\ desk[r].step = "looked"
  /\ IF Recorded(desk[r].ref) = {}
     THEN /\ Len(notes) < MaxNotes
          /\ notes' = Append(notes, [town |-> desk[r].town,
                                     client |-> desk[r].client, ref |-> desk[r].ref])
     ELSE UNCHANGED notes
  /\ Proceeds(r, Idle)
  /\ UNCHANGED <<clients, leads, bookings, blurred>>

(* Mutant: a deleted customer is found. *)
Mutant_LinkReadDeleted(r, n, c) ==
  /\ Errand(r, [step |-> "linking", client |-> c, note |-> n])
  /\ UNCHANGED <<clients, notes, leads, bookings, blurred>>

(* Whether the note is linked already is not looked at. *)
LinkRead(r, n, c) ==
  /\ c \in Living
  /\ Errand(r, [step |-> "linking", client |-> c, note |-> n])
  /\ UNCHANGED <<clients, notes, leads, bookings, blurred>>

(* Mutant: the note stays in the branch that received it. *)
Mutant_LinkInPlace(r) ==
  /\ desk[r].step = "linking"
  /\ notes' = [notes EXCEPT ![desk[r].note].client = desk[r].client]
  /\ Proceeds(r, Idle)
  /\ UNCHANGED <<clients, leads, bookings, blurred>>

(* The note moves to the customer's branch. *)
LinkWrite(r) ==
  /\ desk[r].step = "linking"
  /\ LET c == desk[r].client IN
     notes' = [notes EXCEPT ![desk[r].note].client = c,
                            ![desk[r].note].town = clients[c].town]
  /\ Proceeds(r, Idle)
  /\ UNCHANGED <<clients, leads, bookings, blurred>>

-----------------------------------------------------------------------------
(* The voice agent's bookJob, for the customer it looked up or created. *)

BookRead(r, c) ==
  /\ c \in Living /\ Errand(r, [step |-> "booking", client |-> c])
  /\ UNCHANGED <<clients, notes, leads, bookings, blurred>>

BookWrite(r) ==
  /\ desk[r].step = "booking"
  /\ bookings' = Append(bookings, desk[r].client)
  /\ Proceeds(r, Idle)
  /\ UNCHANGED <<clients, notes, leads, blurred>>

-----------------------------------------------------------------------------
(* public-widget-routes.ts *)

Leading(c, contact) ==
  {r \in Requests : /\ desk[r] # Idle /\ "design" \in DOMAIN desk[r]
                    /\ desk[r].contact = contact \/ desk[r].client = c}

LocalClients(contact) ==
  {c \in Matching(contact) : clients[c].town = IntakeTown}

LeadFind(r, contact, design) ==
  /\ \E c \in IF LocalClients(contact) = {} THEN {NoClient} ELSE LocalClients(contact) :
       /\ Errand(r, [step |-> "found", client |-> c, contact |-> contact,
                     design |-> design])
       /\ blurred' = IF Leading(c, contact) = {} THEN blurred
                     ELSE blurred \cup {contact}
  /\ UNCHANGED <<clients, notes, leads, bookings>>

(* Mutant: drafts older than ten minutes are compared. *)
Mutant_RepeatsOld(c, design) ==
  {k \in DOMAIN leads : /\ leads[k].client = c /\ leads[k].design = design
                        /\ ~leads[k].recent /\ leads[k].draft}

(* An open draft of the last ten minutes for the same door. *)
Repeats(c, design) ==
  {k \in DOMAIN leads : /\ leads[k].client = c /\ leads[k].design = design
                        /\ leads[k].recent /\ leads[k].draft}

LeadLook(r) ==
  /\ desk[r].step = "found"
  /\ Proceeds(r, IF Repeats(desk[r].client, desk[r].design) = {}
                 THEN [desk[r] EXCEPT !.step = "fresh"] ELSE Idle)
  /\ UNCHANGED <<clients, notes, leads, bookings, blurred>>

(* The customer, if there was none, and the draft commit together. *)
LeadCommit(r) ==
  /\ desk[r].step = "fresh" /\ Len(leads) < MaxLeads
  /\ LET new == desk[r].client = NoClient
         c == IF new THEN Len(clients) + 1 ELSE desk[r].client
     IN /\ clients' = IF new
                      THEN Append(clients, NewClient(IntakeTown, desk[r].contact))
                      ELSE clients
        /\ Len(clients') <= MaxClients
        /\ leads' = Append(leads, [client |-> c, design |-> desk[r].design,
                                   recent |-> TRUE, draft |-> TRUE])
  /\ Proceeds(r, Idle)
  /\ UNCHANGED <<notes, bookings, blurred>>

(* The age matters only of a draft. *)
LeadAges(k) ==
  /\ leads[k].recent /\ leads[k].draft
  /\ leads' = [leads EXCEPT ![k].recent = FALSE]
  /\ UNCHANGED <<clients, notes, bookings, desk, blurred, errands>>

(* Staff price the draft. *)
LeadPriced(k) ==
  /\ leads[k].draft /\ leads' = [leads EXCEPT ![k].draft = FALSE]
  /\ UNCHANGED <<clients, notes, bookings, desk, blurred, errands>>

(* The process stops, or the transaction fails. *)
DeskStops(r) ==
  /\ desk[r] # Idle /\ Proceeds(r, Idle)
  /\ UNCHANGED <<clients, notes, leads, bookings, blurred>>

IntakeNext ==
  \/ \E town \in Towns, contact \in Contacts : CreateCustomer(town, contact)
  \/ \E c \in ClientIds, contact \in Contacts : PatchCustomer(c, contact)
  \/ \E c \in ClientIds : DeleteCustomer(c)
  \/ \E r \in Requests, c \in ClientIds : NoteRead(r, c)
  \/ \E r \in Requests : NoteWrite(r)
  \/ \E r \in Requests, ref \in SourceRefs \cup {None}, contact \in Contacts \cup {None} :
       IngestMatch(r, ref, contact)
  \/ \E r \in Requests : IngestLook(r)
  \/ \E r \in Requests : IngestInsert(r)
  \/ \E r \in Requests, n \in DOMAIN notes, c \in ClientIds : LinkRead(r, n, c)
  \/ \E r \in Requests : LinkWrite(r)
  \/ \E r \in Requests, c \in ClientIds : BookRead(r, c)
  \/ \E r \in Requests : BookWrite(r)
  \/ \E r \in Requests, contact \in Contacts, design \in Designs :
       LeadFind(r, contact, design)
  \/ \E r \in Requests : LeadLook(r)
  \/ \E r \in Requests : LeadCommit(r)
  \/ \E k \in DOMAIN leads : LeadAges(k)
  \/ \E k \in DOMAIN leads : LeadPriced(k)
  \/ \E r \in Requests : DeskStops(r)

IntakeSpec == IntakeInit /\ [][IntakeNext]_intakeVars
-----------------------------------------------------------------------------
(* Every row and request in flight is one the code can produce. *)
IntakeTypeOK ==
  /\ clients \in Seq(ClientRows) /\ Len(clients) <= MaxClients
  /\ notes \in Seq(NoteRows) /\ leads \in Seq(LeadRows)
  /\ bookings \in Seq(ClientIds)
  /\ desk \in [Requests -> DeskStates] /\ errands \in 0..MaxErrands

(* A note is recorded once, however often its delivery is repeated, races    *)
(* another or finds the note moved to another branch meanwhile.             *)
NoteOnce ==
  \A ref \in SourceRefs : Cardinality(Recorded(ref)) <= 1

(* A note is in its customer's branch, whoever matched or linked it and      *)
(* from whichever branch: a branch never reads of a customer of another.    *)
NoteFollowsClient ==
  \A n \in DOMAIN notes :
    notes[n].client # NoClient => notes[n].town = clients[notes[n].client].town

(* What staff linked stays linked: no repeated delivery, and no change to    *)
(* the customer's contact, gives a note to somebody else.                   *)
TriageStands ==
  \A n \in DOMAIN notes :
     notes'[n].client # notes[n].client =>
       \E r \in Requests : desk[r].step = "linking" /\ desk[r].note = n

(* A lead submitted twice makes one draft, unless the two overlapped. *)
LeadOnce ==
  \A k, l \in DOMAIN leads :
    /\ k # l /\ leads[k].client = leads[l].client
    /\ leads[k].design = leads[l].design
    /\ leads[k].recent /\ leads[k].draft /\ leads[l].recent /\ leads[l].draft
    => \E contact \in Contacts : contact \in blurred

(* Nothing new is written for a customer who is deleted, unless the deletion *)
(* came between a request's look and its write.                             *)
DeletedStaysQuiet ==
  \A c \in ClientIds \ Living :
     c \in blurred \/
       /\ \A n \in DOMAIN notes' :
            notes'[n].client = c => n \in DOMAIN notes /\ notes[n].client = c
       /\ \A k \in DOMAIN leads' : leads'[k].client = c => k \in DOMAIN leads
       /\ \A b \in DOMAIN bookings' : bookings'[b] = c => b \in DOMAIN bookings

(* Notes and leads are recorded once, where their customer is. *)
IntakeSound ==
  /\ NoteOnce
  /\ NoteFollowsClient
  /\ LeadOnce
=============================================================================
