--------------------------- MODULE SupplierClient ---------------------------
(***************************************************************************)
(* How the quote routes talk to their supplier.  A registry binds one       *)
(* provider per supplier for the life of the process: the BC AI Agent over  *)
(* HTTP, with retries, or a mock that keeps its documents in memory.  A     *)
(* request that timed out may still be carried out later, the process may   *)
(* restart, and an operator may switch the kind of provider in the database.*)
(* The supplier files a quote under the idempotency key of the commit, which *)
(* is the quote's id unless the caller sends another; voids and conversions *)
(* ask for the quote's id.  Every route reads the status and writes by id.  *)
(***************************************************************************)
EXTENDS Platform

CONSTANTS
  Documents,   \* quotes
  CallerKeys,  \* idempotency keys that are no quote's id
  MaxTries,    \* maxRetries + 1
  MaxSerial,   \* bound on the serial numbers the mock hands out
  MaxCalls     \* bound on the requests of a behaviour

VARIABLES
  kind,        \* suppliers.provider_kind
  bound,       \* the provider the registry has cached, or None
  standing,    \* [Documents -> quotes.status; a draft counts as priced]
  atBc,        \* [ExternalIds -> what the BC AI Agent did for it]
  atMock,      \* [ExternalIds -> the mock's serial for it, or 0]
  serial,      \* the mock's last serial
  network,     \* requests the client gave up on, still on their way
  caller,      \* [Requests -> the request in flight]
  ref,         \* [Documents -> the reference its row records, or None]
  ordered,     \* [Documents -> the provider its order is from, or None]
  moved,       \* documents that the provider bound since a restart does not hold
  rekeyed,     \* documents committed under a key that is not their id
  calls

supplierVars ==
  <<kind, bound, standing, atBc, atMock, serial, network, caller, ref, ordered,
    moved, rekeyed, calls>>

Kinds == {"bc_ai_agent", "mock"}
Operations == {"commit", "convert", "void"}
Routes == Operations \cup {"price"}
Standings == {"priced", "committed", "accepted", "void"}
ExternalIds == Documents \cup CallerKeys
Refs == [via : {"bc_ai_agent"}, number : ExternalIds]
        \cup [via : {"mock"}, number : 1..MaxSerial]

(* A call is tried at least once; no reference is not one. *)
ASSUME SupplierAssumption ==
  /\ MaxTries \in Nat \ {0} /\ MaxSerial \in Nat
  /\ None \notin Kinds /\ None \notin Refs

CallerStates ==
  {Idle}
  \cup [step : {"read"}, row : Documents, op : Routes, asks : BOOLEAN]
  \cup [step : {"calling"}, row : Documents, op : Operations, via : Kinds,
        key : ExternalIds, tries : 1..MaxTries]
  \cup [step : {"answered"}, row : Documents, op : Operations, via : Kinds,
        key : ExternalIds, outcome : {"done", "not_found", "failed"},
        given : Refs \cup {None}]

SupplierInit ==
  /\ kind \in Kinds /\ bound = None
  /\ standing = [d \in Documents |-> "priced"]
  /\ atBc = [k \in ExternalIds |-> {}] /\ atMock = [k \in ExternalIds |-> 0]
  /\ serial = 0 /\ network = {} /\ caller = NoRequests
  /\ ref = [d \in Documents |-> None] /\ ordered = [d \in Documents |-> None]
  /\ moved = {} /\ rekeyed = {} /\ calls = 0

(* UPDATE suppliers SET provider_kind: seen after the next restart. *)
SwitchKind ==
  /\ kind' \in Kinds \ {kind} /\ calls < MaxCalls /\ calls' = calls + 1
  /\ UNCHANGED <<bound, standing, atBc, atMock, serial, network, caller, ref,
                 ordered, moved, rekeyed>>

(* The mock forgets, and its serials start again. *)
RestartProcess ==
  /\ bound # None
  /\ bound' = None /\ atMock' = [k \in ExternalIds |-> 0] /\ serial' = 0
  /\ caller' = NoRequests
  /\ moved' = {d \in Documents : ref[d] # None /\ ref[d].via = "mock"}
  /\ UNCHANGED <<kind, standing, atBc, network, ref, ordered, rekeyed, calls>>

(* Mutant: a quote may be accepted before it is committed. *)
Mutant_ComesFromPriced(op) ==
  CASE op = "price" -> {"priced", "committed"}
    [] op = "commit" -> {"priced"}
    [] op = "convert" -> {"priced", "committed"}
    [] op = "void" -> Standings \ {"void"}

(* Where the routes let a quote come from; the voice agent prices again what *)
(* staff committed.                                                         *)
ComesFrom(op) ==
  CASE op = "price" -> {"priced", "committed"}
    [] op = "commit" -> {"priced"}
    [] op = "convert" -> {"committed"}
    [] op = "void" -> Standings \ {"void"}

(* The request reads the row, and whether the supplier has to be asked.     *)
StatusRead(r, d, op) ==
  /\ caller[r] = Idle /\ calls < MaxCalls /\ calls' = calls + 1
  /\ standing[d] \in ComesFrom(op)
  /\ caller' = [caller EXCEPT ![r] =
       [step |-> "read", row |-> d, op |-> op,
        asks |-> CASE op = "price" -> FALSE
                   [] op = "commit" -> TRUE
                   [] op = "convert" -> ordered[d] = None
                   [] op = "void" -> ref[d] # None]]
  /\ UNCHANGED <<kind, bound, standing, atBc, atMock, serial, network, ref,
                 ordered, moved, rekeyed>>

(* What the request writes before it asks the supplier, if it does: a commit *)
(* asks inside its transaction, and writes at the end.                      *)
Written(d, op) ==
  CASE op = "price" -> [standing EXCEPT ![d] = "priced"]
    [] op = "commit" -> standing
    [] op = "convert" -> [standing EXCEPT ![d] = "accepted"]
    [] op = "void" -> [standing EXCEPT ![d] = "void"]

WritesAlone(r) ==
  /\ caller[r].step = "read" /\ ~caller[r].asks
  /\ standing' = Written(caller[r].row, caller[r].op)
  /\ caller' = [caller EXCEPT ![r] = Idle]
  /\ UNCHANGED <<kind, bound, atBc, atMock, serial, network, ref, ordered, moved,
                 rekeyed, calls>>

(* Mutant: the registry reads the row each time. *)
Mutant_BindingFresh == kind

(* ProviderRegistry.bind *)
Binding == IF bound # None THEN bound ELSE kind

(* The Idempotency-Key header or the body's key, else the quote's id. *)
KeyFor(d, op) == IF op = "commit" THEN ExternalIds ELSE {d}

CallBegins(r, key) ==
  LET d == caller[r].row  op == caller[r].op IN
  /\ caller[r].step = "read" /\ caller[r].asks
  /\ key \in KeyFor(d, op)
  /\ standing' = Written(d, op)
  /\ bound' = Binding
  /\ moved' = moved \cup {e \in Documents : ref[e] # None /\ ref[e].via # Binding}
  /\ caller' = [caller EXCEPT ![r] =
       [step |-> "calling", row |-> d, op |-> op, via |-> Binding, key |-> key,
        tries |-> 1]]
  /\ UNCHANGED <<kind, atBc, atMock, serial, network, ref, ordered, rekeyed, calls>>

Answered(r, outcome, given) ==
  caller' = [caller EXCEPT ![r] =
    [step |-> "answered", row |-> @.row, op |-> @.op, via |-> @.via,
     key |-> @.key, outcome |-> outcome, given |-> given]]

(* The mock returns what it has under the key, else it numbers a new        *)
(* document.                                                                *)
MockAnswers(r) ==
  LET k == caller[r].key IN
  /\ caller[r].step = "calling" /\ caller[r].via = "mock"
  /\ IF caller[r].op = "commit"
     THEN /\ atMock' = [atMock EXCEPT ![k] = IF @ = 0 THEN serial + 1 ELSE @]
          /\ serial' = IF atMock[k] = 0 THEN serial + 1 ELSE serial
          /\ serial' <= MaxSerial
          /\ Answered(r, "done", [via |-> "mock", number |-> atMock'[k]])
     ELSE /\ Answered(r, IF caller[r].op = "convert" /\ atMock[k] = 0
                         THEN "not_found" ELSE "done", None)
          /\ UNCHANGED <<atMock, serial>>
  /\ UNCHANGED <<kind, bound, standing, atBc, network, ref, ordered, moved, rekeyed,
                 calls>>

(* The BC AI Agent carries a request out at most once for a key.            *)
CarriedOut(k, op) ==
  IF op = "convert" /\ "commit" \notin atBc[k] THEN atBc
  ELSE [atBc EXCEPT ![k] = @ \cup {op}]

BcAnswers(r) ==
  LET k == caller[r].key  op == caller[r].op IN
  /\ caller[r].step = "calling" /\ caller[r].via = "bc_ai_agent"
  /\ atBc' = CarriedOut(k, op)
  /\ Answered(r, IF op \in atBc'[k] THEN "done" ELSE "not_found",
               IF op = "commit" THEN [via |-> "bc_ai_agent", number |-> k] ELSE None)
  /\ UNCHANGED <<kind, bound, standing, atMock, serial, network, ref, ordered, moved,
                 rekeyed, calls>>

(* Mutant: an error is taken for an answer. *)
Mutant_BcRefusesGiven(r) ==
  /\ caller[r].step = "calling" /\ caller[r].via = "bc_ai_agent"
  /\ Answered(r, "failed",
       IF caller[r].op = "commit" THEN [via |-> "bc_ai_agent", number |-> caller[r].key]
       ELSE None)
  /\ UNCHANGED <<kind, bound, standing, atBc, atMock, serial, network, ref, ordered,
                 moved, rekeyed, calls>>

(* 4xx: reported at once. *)
BcRefuses(r) ==
  /\ caller[r].step = "calling" /\ caller[r].via = "bc_ai_agent"
  /\ Answered(r, "failed", None)
  /\ UNCHANGED <<kind, bound, standing, atBc, atMock, serial, network, ref, ordered,
                 moved, rekeyed, calls>>

(* Mutant: one try too many. *)
Mutant_BcTimesOutLater(r) ==
  /\ caller[r].step = "calling" /\ caller[r].via = "bc_ai_agent"
  /\ network' = network \cup {[key |-> caller[r].key, op |-> caller[r].op]}
  /\ IF caller[r].tries <= MaxTries
     THEN caller' = [caller EXCEPT ![r].tries = @ + 1]
     ELSE Answered(r, "failed", None)
  /\ UNCHANGED <<kind, bound, standing, atBc, atMock, serial, ref, ordered, moved,
                 rekeyed, calls>>

(* 429, 5xx, a timeout or a lost answer: tried again while tries are left,  *)
(* and what was sent may yet be carried out.                                *)
BcTimesOut(r) ==
  /\ caller[r].step = "calling" /\ caller[r].via = "bc_ai_agent"
  /\ network' = network \cup {[key |-> caller[r].key, op |-> caller[r].op]}
  /\ IF caller[r].tries < MaxTries
     THEN caller' = [caller EXCEPT ![r].tries = @ + 1]
     ELSE Answered(r, "failed", None)
  /\ UNCHANGED <<kind, bound, standing, atBc, atMock, serial, ref, ordered, moved,
                 rekeyed, calls>>

LateRequest(n) ==
  /\ network' = network \ {n}
  /\ atBc' = CarriedOut(n.key, n.op)
  /\ UNCHANGED <<kind, bound, standing, atMock, serial, caller, ref, ordered, moved,
                 rekeyed, calls>>

(* Mutant: no unique index on references. *)
Mutant_UnusedAlways(d, n) == TRUE

(* quotes_supplier_quote_ref_unique *)
Unused(d, n) == \A e \in Documents \ {d} : ref[e] # n

(* A commit's transaction ends: it writes whatever status it finds, and a    *)
(* reference in use rolls it back.  A conversion's answer is written in a   *)
(* transaction of its own.  A failed call writes nothing.                   *)
CallRecorded(r) ==
  LET d == caller[r].row
      given == caller[r].given
      stands == given # None /\ Unused(d, given)
  IN
  /\ caller[r].step = "answered"
  /\ ref' = IF stands THEN [ref EXCEPT ![d] = given] ELSE ref
  /\ standing' = IF stands THEN [standing EXCEPT ![d] = "committed"] ELSE standing
  /\ rekeyed' = IF stands /\ caller[r].key # d THEN rekeyed \cup {d} ELSE rekeyed
  /\ ordered' = IF caller[r].op = "convert" /\ caller[r].outcome = "done"
                THEN [ordered EXCEPT ![d] = caller[r].via] ELSE ordered
  /\ caller' = [caller EXCEPT ![r] = Idle]
  /\ UNCHANGED <<kind, bound, atBc, atMock, serial, network, moved, calls>>

(* The transaction fails, or the call was the voice agent's, who has no user *)
(* to credit and writes nothing.                                            *)
AnswerDropped(r) ==
  /\ caller[r].step = "answered"
  /\ caller' = [caller EXCEPT ![r] = Idle]
  /\ UNCHANGED <<kind, bound, standing, atBc, atMock, serial, network, ref, ordered,
                 moved, rekeyed, calls>>

SupplierNext ==
  \/ SwitchKind
  \/ RestartProcess
  \/ \E r \in Requests, d \in Documents, op \in Routes : StatusRead(r, d, op)
  \/ \E r \in Requests : WritesAlone(r)
  \/ \E r \in Requests, key \in ExternalIds : CallBegins(r, key)
  \/ \E r \in Requests : MockAnswers(r)
  \/ \E r \in Requests : BcAnswers(r)
  \/ \E r \in Requests : BcRefuses(r)
  \/ \E r \in Requests : BcTimesOut(r)
  \/ \E n \in network : LateRequest(n)
  \/ \E r \in Requests : CallRecorded(r)
  \/ \E r \in Requests : AnswerDropped(r)

SupplierSpec == SupplierInit /\ [][SupplierNext]_supplierVars
-----------------------------------------------------------------------------
(* Calls, references and documents have the shapes of the provider types. *)
SupplierTypeOK ==
  /\ kind \in Kinds /\ bound \in Kinds \cup {None}
  /\ standing \in [Documents -> Standings]
  /\ atBc \in [ExternalIds -> SUBSET Operations]
  /\ atMock \in [ExternalIds -> 0..MaxSerial] /\ serial \in 0..MaxSerial
  /\ network \subseteq [key : ExternalIds, op : Operations]
  /\ caller \in [Requests -> CallerStates]
  /\ ref \in [Documents -> Refs \cup {None}]
  /\ ordered \in [Documents -> Kinds \cup {None}]
  /\ moved \subseteq Documents /\ rekeyed \subseteq Documents

(* A recorded reference is replaced only by a commit under another key, or  *)
(* after a restart onto a provider without the document: a quote committed  *)
(* twice at once, or again because it was priced again, keeps it, even      *)
(* while an operator switches the supplier's kind.                          *)
ReferenceStands ==
  \A d \in Documents :
    ref[d] # None /\ ref'[d] # ref[d] => d \in moved \cup rekeyed'

(* No two rows share a reference, although a caller may send one key for two *)
(* quotes and the mock numbers from the start again after a restart.        *)
ReferencesDiffer ==
  \A d, e \in Documents : d # e /\ ref[d] = ref[e] => ref[d] = None

(* What a row records, its supplier has: no retry, timeout, late request or *)
(* second commit leaves a reference without a document behind it.           *)
ReferenceIsKnown ==
  \A d \in Documents \ moved : ref[d] # None =>
    IF ref[d].via = "mock" THEN \E k \in ExternalIds : atMock[k] = ref[d].number
    ELSE "commit" \in atBc[ref[d].number]

(* An accepted quote's conversion finds the document it committed, unless   *)
(* that was committed under another key, or the process restarted onto a    *)
(* mock that forgot it or onto the other kind.                              *)
ConversionFindsQuote ==
  \A r \in Requests :
    caller[r].step = "answered" =>
      (caller[r].outcome = "not_found" => caller[r].row \in moved \cup rekeyed)

(* Quotes and the documents their supplier holds belong together. *)
ReferencesSound ==
  /\ ReferencesDiffer
  /\ ReferenceIsKnown
  /\ ConversionFindsQuote
=============================================================================
