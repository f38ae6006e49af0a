------------------------------ MODULE FieldWork ------------------------------
(***************************************************************************)
(* A technician's telephone.  What is written while the browser is offline  *)
(* goes to an outbox and is promised; when the browser comes online, or the *)
(* page is opened, a drain sends what the outbox lists, by ascending id, and *)
(* deletes each entry once the server has answered.  Nothing keeps two drains       *)
(* apart.  A photo is uploaded in three calls, of which the last, and the   *)
(* removal of a photo, may go by way of the outbox.                         *)
(***************************************************************************)
EXTENDS Platform, FiniteSetsExt

CONSTANTS
  Photos,                \* storage keys, one an upload
  MaxWrites, MaxTrips    \* bounds on the outbox and on what starts a drain

ASSUME FieldAssumption == MaxWrites \in Nat /\ MaxTrips \in Nat

VARIABLES
  online,
  saving,      \* writes on their way to the outbox, not yet promised
  writes,      \* the writes that were promised, by id
  outbox,      \* the ids of those that wait
  drains,      \* [Requests -> the drain in progress]
  late,        \* writes a page sent and did not live to hear about
  carried,     \* what the server carried out, in order
  refused,     \* what it answered with an error below 500
  photoRows,   \* the keys in job_photos
  stored,      \* the keys in the object store
  upload,      \* the upload in progress
  removed,     \* photos deleted since they were finalised
  unsure,      \* writes whose answer was not heard or that two drains held
  trips

fieldVars ==
  <<online, saving, writes, outbox, drains, late, carried, refused, photoRows,
    stored, upload, removed, unsure, trips>>

Writes ==
  {[does |-> "edit", photo |-> None]}
  \cup [does : {"finalise", "remove"}, photo : Photos]

Drains ==
  {Idle} \cup [step : {"sending", "settled"}, copy : SUBSET (1..MaxWrites)]

FieldInit ==
  /\ online = TRUE /\ saving = <<>> /\ writes = <<>> /\ outbox = {}
  /\ drains = NoRequests /\ late = {} /\ carried = <<>> /\ refused = {}
  /\ photoRows = {} /\ stored = {} /\ upload = None /\ removed = {}
  /\ unsure = {} /\ trips = 0

-----------------------------------------------------------------------------
(* apiClientFetch while offline, and enqueue *)

Save(write) ==
  /\ ~online /\ Len(writes) + Len(saving) < MaxWrites
  /\ saving' = Append(saving, write)

SaveEdit ==
  /\ Save([does |-> "edit", photo |-> None])
  /\ UNCHANGED <<online, writes, outbox, drains, late, carried, refused, photoRows,
                 stored, upload, removed, unsure, trips>>

(* The page says that the write is queued. *)
Enqueue ==
  /\ saving # <<>> /\ saving' = Tail(saving)
  /\ writes' = Append(writes, Head(saving)) /\ outbox' = outbox \cup {Len(writes')}
  /\ UNCHANGED <<online, drains, late, carried, refused, photoRows, stored, upload,
                 removed, unsure, trips>>

(* The quota is exceeded, and the page says that the write failed. *)
EnqueueFails ==
  /\ saving # <<>> /\ saving' = Tail(saving)
  /\ UNCHANGED <<online, writes, outbox, drains, late, carried, refused, photoRows,
                 stored, upload, removed, unsure, trips>>

-----------------------------------------------------------------------------
(* drain *)

GoOffline ==
  /\ online /\ online' = FALSE
  /\ UNCHANGED <<saving, writes, outbox, drains, late, carried, refused, photoRows,
                 stored, upload, removed, unsure, trips>>

InHand == UNION {drains[r].copy : r \in {q \in Requests : drains[q] # Idle}}

Starts(r) ==
  /\ trips < MaxTrips /\ trips' = trips + 1
  /\ IF outbox = {} THEN UNCHANGED <<drains, unsure>>
     ELSE /\ drains[r] = Idle
          /\ drains' = [drains EXCEPT ![r] = [step |-> "sending", copy |-> outbox]]
          /\ unsure' = unsure \cup (InHand \cap outbox)

(* The online event. *)
GoOnline(r) ==
  /\ ~online /\ online' = TRUE /\ Starts(r)
  /\ UNCHANGED <<saving, writes, outbox, late, carried, refused, photoRows, stored,
                 upload, removed>>

Sends(r) == drains[r].step = "sending" /\ online

(* The list is in the order of the ids. *)
Entry(r) == Min(drains[r].copy)

Settled(r) == drains' = [drains EXCEPT ![r].step = "settled"]

Breaks(r) == drains' = [drains EXCEPT ![r] = Idle]

GoesOn(r) ==
  LET left == drains[r].copy \ {Entry(r)} IN
  drains' = [drains EXCEPT ![r] =
    IF left = {} THEN Idle ELSE [step |-> "sending", copy |-> left]]

(* job_photos_storage_key_unique: a key that is there makes the server fail. *)
Possible(w) ==
  CASE writes[w].does = "edit"     -> TRUE
    [] writes[w].does = "finalise" -> writes[w].photo \notin photoRows
    [] writes[w].does = "remove"   -> writes[w].photo \in photoRows

CarryOut(w) ==
  LET p == writes[w].photo IN
  /\ Possible(w) /\ carried' = Append(carried, w)
  /\ photoRows' = IF writes[w].does = "finalise" THEN photoRows \cup {p}
                  ELSE photoRows \ {p}
  /\ removed' = IF writes[w].does = "remove" THEN removed \cup {p} ELSE removed

Carried(r) ==
  /\ Sends(r) /\ CarryOut(Entry(r)) /\ Settled(r)
  /\ UNCHANGED <<online, saving, writes, outbox, late, refused, stored, upload, unsure,
                 trips>>

(* An answer below 500 is final, whatever it says: the session expired, too *)
(* many requests, no such photo.                                            *)
Refused(r) ==
  /\ Sends(r) /\ refused' = refused \cup {Entry(r)} /\ Settled(r)
  /\ UNCHANGED <<online, saving, writes, outbox, late, carried, photoRows, stored,
                 upload, removed, unsure, trips>>

(* Mutant: the drain goes on with the next entry. *)
Mutant_NotCarriedGoesOn(r) ==
  /\ drains[r].step = "sending"
  /\ GoesOn(r)
  /\ UNCHANGED <<online, saving, writes, outbox, late, carried, refused, photoRows,
                 stored, upload, removed, unsure, trips>>

(* Mutant: any answer settles the entry. *)
Mutant_NotCarriedSettles(r) ==
  /\ drains[r].step = "sending" /\ Settled(r)
  /\ UNCHANGED <<online, saving, writes, outbox, late, carried, refused, photoRows,
                 stored, upload, removed, unsure, trips>>

(* The server fails, or is not reached: the drain stops there. *)
NotCarried(r) ==
  /\ drains[r].step = "sending" /\ Breaks(r)
  /\ UNCHANGED <<online, saving, writes, outbox, late, carried, refused, photoRows,
                 stored, upload, removed, unsure, trips>>

(* The server carries the write out, and the answer is lost or is a failure. *)
AnswerLost(r) ==
  /\ Sends(r) /\ CarryOut(Entry(r)) /\ Breaks(r)
  /\ unsure' = unsure \cup {Entry(r)}
  /\ UNCHANGED <<online, saving, writes, outbox, late, refused, stored, upload, trips>>

(* Mutant: the entry stays. *)
Mutant_RemoveNothing(r) ==
  /\ drains[r].step = "settled"
  /\ GoesOn(r)
  /\ UNCHANGED <<online, saving, writes, outbox, late, carried, refused, photoRows,
                 stored, upload, removed, unsure, trips>>

RemoveSettled(r) ==
  /\ drains[r].step = "settled" /\ outbox' = outbox \ {Entry(r)}
  /\ GoesOn(r)
  /\ UNCHANGED <<online, saving, writes, late, carried, refused, photoRows, stored,
                 upload, removed, unsure, trips>>

(* The outbox cannot be written. *)
RemoveFails(r) ==
  /\ drains[r].step = "settled" /\ Breaks(r)
  /\ unsure' = unsure \cup {Entry(r)}
  /\ UNCHANGED <<online, saving, writes, outbox, late, carried, refused, photoRows,
                 stored, upload, removed, trips>>

(* The page closes under its drains and is opened again, which starts one if *)
(* the browser is online.                                                   *)
Reopen(r) ==
  LET cut == {Entry(q) : q \in {p \in Requests : drains[p] # Idle}} IN
  /\ trips < MaxTrips /\ trips' = trips + 1
  /\ saving' = <<>> /\ upload' = None
  /\ drains' = IF online /\ outbox # {}
               THEN [NoRequests EXCEPT ![r] = [step |-> "sending", copy |-> outbox]]
               ELSE NoRequests
  /\ unsure' = unsure \cup cut
  /\ late' = late \cup {Entry(q) : q \in {p \in Requests : drains[p].step = "sending"}}
  /\ UNCHANGED <<online, writes, outbox, carried, refused, photoRows, stored, removed>>

LateCarried(w) ==
  /\ w \in late /\ late' = late \ {w} /\ CarryOut(w)
  /\ UNCHANGED <<online, saving, writes, outbox, drains, refused, stored, upload,
                 unsure, trips>>

-----------------------------------------------------------------------------
(* JobPhotos.tsx and job-photos-routes.ts *)

Stage(step, p) == upload' = [step |-> step, photo |-> p]

UploadUrl(p) ==
  /\ online /\ upload = None /\ p \notin stored
  /\ Stage("putting", p)
  /\ UNCHANGED <<online, saving, writes, outbox, drains, late, carried, refused,
                 photoRows, stored, removed, unsure, trips>>

(* Mutant: the answer of the object store is not looked at. *)
Mutant_PutObjectUnheard ==
  /\ upload # None /\ upload.step = "putting" /\ Stage("finalising", upload.photo)
  /\ UNCHANGED <<online, saving, writes, outbox, drains, late, carried, refused,
                 photoRows, stored, removed, unsure, trips>>

PutObject ==
  /\ upload # None /\ upload.step = "putting" /\ online
  /\ stored' = stored \cup {upload.photo} /\ Stage("finalising", upload.photo)
  /\ UNCHANGED <<online, saving, writes, outbox, drains, late, carried, refused,
                 photoRows, removed, unsure, trips>>

(* A call of the upload fails; what is in the store stays there. *)
UploadFails ==
  /\ upload # None /\ upload' = None
  /\ UNCHANGED <<online, saving, writes, outbox, drains, late, carried, refused,
                 photoRows, stored, removed, unsure, trips>>

Finalise ==
  /\ upload # None /\ upload.step = "finalising" /\ upload' = None
  /\ online /\ photoRows' = photoRows \cup {upload.photo}
  /\ UNCHANGED <<online, saving, writes, outbox, drains, late, carried, refused, stored,
                 removed, unsure, trips>>

(* The page says that the photo failed, since 202 is not 201. *)
FinaliseQueued ==
  /\ upload # None /\ upload.step = "finalising" /\ upload' = None
  /\ Save([does |-> "finalise", photo |-> upload.photo])
  /\ UNCHANGED <<online, writes, outbox, drains, late, carried, refused, photoRows,
                 stored, removed, unsure, trips>>

(* From this telephone or from the office. *)
RemovePhoto(p) ==
  /\ p \in photoRows /\ photoRows' = photoRows \ {p} /\ removed' = removed \cup {p}
  /\ UNCHANGED <<online, saving, writes, outbox, drains, late, carried, refused, stored,
                 upload, unsure, trips>>

RemoveQueued(p) ==
  /\ p \in photoRows /\ Save([does |-> "remove", photo |-> p])
  /\ UNCHANGED <<online, writes, outbox, drains, late, carried, refused, photoRows,
                 stored, upload, removed, unsure, trips>>

FieldNext ==
  \/ SaveEdit \/ Enqueue \/ EnqueueFails \/ GoOffline
  \/ \E r \in Requests : GoOnline(r)
  \/ \E r \in Requests : Carried(r)
  \/ \E r \in Requests : Refused(r)
  \/ \E r \in Requests : NotCarried(r)
  \/ \E r \in Requests : AnswerLost(r)
  \/ \E r \in Requests : RemoveSettled(r)
  \/ \E r \in Requests : RemoveFails(r)
  \/ \E r \in Requests : Reopen(r)
  \/ \E w \in late : LateCarried(w)
  \/ \E p \in Photos : UploadUrl(p)
  \/ PutObject \/ UploadFails \/ Finalise \/ FinaliseQueued
  \/ \E p \in Photos : RemovePhoto(p)
  \/ \E p \in Photos : RemoveQueued(p)

FieldSpec == FieldInit /\ [][FieldNext]_fieldVars
-----------------------------------------------------------------------------
(* Every write, drain and upload is one the page can make. *)
FieldTypeOK ==
  /\ online \in BOOLEAN /\ saving \in Seq(Writes) /\ writes \in Seq(Writes)
  /\ Len(writes) + Len(saving) <= MaxWrites
  /\ outbox \subseteq DOMAIN writes /\ drains \in [Requests -> Drains]
  /\ late \subseteq DOMAIN writes /\ carried \in Seq(DOMAIN writes)
  /\ refused \subseteq DOMAIN writes
  /\ photoRows \subseteq Photos /\ stored \subseteq Photos /\ removed \subseteq Photos
  /\ upload \in {None} \cup [step : {"putting", "finalising"}, photo : Photos]
  /\ unsure \subseteq DOMAIN writes /\ trips \in 0..MaxTrips

Times(w) == Cardinality({k \in DOMAIN carried : carried[k] = w})

First(w) == CHOOSE k \in DOMAIN carried :
              carried[k] = w /\ \A l \in 1..(k - 1) : carried[l] # w

(* A promised write waits until the server carried it out or refused it,    *)
(* through drains that overlap, pages that close and answers that are lost. *)
OutboxLosesNothing ==
  \A w \in DOMAIN writes :
    w \in outbox \/ Times(w) > 0 \/ w \in refused

(* The server first carries out the promised writes in the order they were  *)
(* made, but for those it refused.                                          *)
SentInOrder ==
  \A v, w \in DOMAIN writes :
    v < w /\ Times(w) > 0 /\ v \notin refused =>
      Times(v) > 0 /\ First(v) < First(w)

(* A write is carried out twice only if two drains held it or its answer was *)
(* not heard.                                                               *)
SentOnce ==
  \A w \in DOMAIN writes : Times(w) > 1 => w \in unsure

(* The entry the next drain begins with can be settled, unless it is a photo *)
(* whose answer was not heard: the server fails on that one every time, and *)
(* everything behind it waits for good.                                     *)
OutboxMoves ==
  outbox # {} /\ (\A r \in Requests : drains[r] = Idle) =>
    LET w == Min(outbox) IN
    writes[w].does = "finalise" /\ writes[w].photo \in photoRows => w \in unsure

(* A photo on record has its bytes, however the upload was cut short. *)
PhotoHasBytes == photoRows \subseteq stored

(* A deleted photo does not come back, unless the finalising write was sent *)
(* twice.                                                                   *)
RemovedStaysAway ==
  \A p \in photoRows \cap removed :
    \E w \in unsure : writes[w] = [does |-> "finalise", photo |-> p]

(* What a technician does without a network arrives, in order and once. *)
FieldWorkSound ==
  /\ OutboxLosesNothing
  /\ SentInOrder
  /\ SentOnce
  /\ OutboxMoves
  /\ PhotoHasBytes
  /\ RemovedStaysAway
=============================================================================
