--------------------------- MODULE PaymentRetries ---------------------------
(***************************************************************************)
(* What follows a failed payment: the webhook schedules a retry with the    *)
(* next attempt number, from a read and an insert that no transaction       *)
(* joins, and staff run a scheduled retry, which asks Stripe for a new      *)
(* PaymentIntent between two transactions.                                  *)
(***************************************************************************)
EXTENDS Platform

CONSTANTS
  Failing,     \* invoices whose payment may fail
  MaxAttempts, \* 4 in the code
  MaxRetries   \* bound on the rows a behaviour creates

ASSUME RetriesAssumption == MaxAttempts \in Nat /\ MaxRetries \in Nat

VARIABLES
  retries,     \* the payment_retries rows, oldest first
  intents,     \* [1..MaxRetries -> PaymentIntents Stripe made for the row]
  runner,      \* [Requests -> the webhook or staff request in flight]
  tangled      \* retries, or None for the scheduling, that were mixed

retriesVars == <<retries, intents, runner, tangled>>

(* payment_intent.payment_failed for one invoice; 0 is no retry's number. *)
Scheduling == 0

Retries ==
  [invoice : Failing, attempt : 1..MaxAttempts,
   status : {"scheduled", "succeeded", "failed"}]

RunnerStates ==
  {Idle}
  \cup [step : {"scheduling"}, row : {Scheduling}, invoice : Failing,
        attempt : 1..MaxAttempts]
  \cup [step : {"charging"}, row : 1..MaxRetries]
  \cup [step : {"recording"}, row : 1..MaxRetries, ok : BOOLEAN]

PaymentRetriesInit ==
  /\ retries = <<>> /\ intents = [k \in 1..MaxRetries |-> 0]
  /\ runner = NoRequests /\ tangled = {}

RetriesOf(i) == {k \in DOMAIN retries : retries[k].invoice = i}

(* Mutant: only the retries still scheduled are counted. *)
Mutant_NextAttemptScheduled(i) ==
  CHOOSE n \in 1..MaxAttempts + 1 :
    n = 1 + Cardinality({k \in RetriesOf(i) : retries[k].status = "scheduled"})

(* One more than the highest attempt so far. *)
NextAttempt(i) ==
  CHOOSE n \in 1..MaxAttempts + 1 :
    /\ \A k \in RetriesOf(i) : retries[k].attempt < n
    /\ n = 1 \/ \E k \in RetriesOf(i) : retries[k].attempt = n - 1

(* After the last attempt the failure is left to people. *)
ScheduleRead(r, i) ==
  /\ runner[r] = Idle /\ NextAttempt(i) <= MaxAttempts
  /\ tangled' = MixedBy(tangled, runner, Scheduling)
  /\ runner' = [runner EXCEPT ![r] =
                  [step |-> "scheduling", row |-> Scheduling, invoice |-> i,
                   attempt |-> NextAttempt(i)]]
  /\ UNCHANGED <<retries, intents>>

ScheduleInsert(r) ==
  /\ runner[r].step = "scheduling" /\ Len(retries) < MaxRetries
  /\ retries' = Append(retries,
       [invoice |-> runner[r].invoice, attempt |-> runner[r].attempt,
        status |-> "scheduled"])
  /\ runner' = [runner EXCEPT ![r] = Idle]
  /\ UNCHANGED <<intents, tangled>>

(* Mutant: a retry that was run may be run again. *)
Mutant_RunReadAny(r, k) ==
  /\ runner[r] = Idle
  /\ tangled' = MixedBy(tangled, runner, k)
  /\ runner' = [runner EXCEPT ![r] = [step |-> "charging", row |-> k]]
  /\ UNCHANGED <<retries, intents>>

(* POST /payments/retries/:id/run: the invoice's status is not looked at. *)
RunRead(r, k) ==
  /\ runner[r] = Idle /\ retries[k].status = "scheduled"
  /\ tangled' = MixedBy(tangled, runner, k)
  /\ runner' = [runner EXCEPT ![r] = [step |-> "charging", row |-> k]]
  /\ UNCHANGED <<retries, intents>>

(* createPaymentIntent without an idempotency key. *)
RunCharge(r) ==
  /\ runner[r].step = "charging"
  /\ \E ok \in BOOLEAN :
       /\ runner' = [runner EXCEPT ![r] =
                       [step |-> "recording", row |-> @.row, ok |-> ok]]
       /\ intents' = IF ok THEN [intents EXCEPT ![runner[r].row] = @ + 1]
                     ELSE intents
  /\ UNCHANGED <<retries, tangled>>

(* The intent is made, but its answer does not arrive. *)
RunAnswerLost(r) ==
  /\ runner[r].step = "charging"
  /\ intents' = [intents EXCEPT ![runner[r].row] = @ + 1]
  /\ runner' = [runner EXCEPT ![r] =
                  [step |-> "recording", row |-> @.row, ok |-> FALSE]]
  /\ tangled' = tangled \cup {runner[r].row}
  /\ UNCHANGED retries

RunWrite(r) ==
  /\ runner[r].step = "recording"
  /\ retries' = [retries EXCEPT ![runner[r].row].status =
                   IF runner[r].ok THEN "succeeded" ELSE "failed"]
  /\ runner' = [runner EXCEPT ![r] = Idle]
  /\ UNCHANGED <<intents, tangled>>

(* The process stops between the call and the second transaction. *)
RunStops(r) ==
  /\ runner[r].step = "recording"
  /\ runner' = [runner EXCEPT ![r] = Idle]
  /\ tangled' = tangled \cup {runner[r].row}
  /\ UNCHANGED <<retries, intents>>

PaymentRetriesNext ==
  \E r \in Requests :
    \/ \E i \in Failing : ScheduleRead(r, i)
    \/ \E k \in DOMAIN retries : intents[k] < 2 /\ RunRead(r, k)
    \/ ScheduleInsert(r) \/ RunCharge(r) \/ RunAnswerLost(r)
    \/ RunWrite(r) \/ RunStops(r)

PaymentRetriesSpec == PaymentRetriesInit /\ [][PaymentRetriesNext]_retriesVars

-----------------------------------------------------------------------------
(* Retries and requests have the shapes of the schema. *)
PaymentRetriesTypeOK ==
  /\ retries \in Seq(Retries) /\ Len(retries) <= MaxRetries
  /\ intents \in [1..MaxRetries -> Nat]
  /\ runner \in [Requests -> RunnerStates]
  /\ tangled \subseteq 0..MaxRetries

(* While failures are handled one at a time an invoice's retries are         *)
(* numbered 1, 2, ... in the order they were made and stop at the fourth;   *)
(* two failures at once share a number, for no index forbids it.            *)
AttemptsNumbered ==
  Scheduling \in tangled \/
  \A k \in DOMAIN retries :
    retries[k].attempt = Cardinality({j \in RetriesOf(retries[k].invoice) : j <= k})

(* A retry is charged once when it succeeded and never otherwise, unless two *)
(* runs of it overlap, Stripe's answer is lost or the run stops half way.   *)
RetryChargedOnce ==
  \A k \in DOMAIN retries \ tangled :
    WorkingOn(runner, k) = {} =>
      intents[k] = IF retries[k].status = "succeeded" THEN 1 ELSE 0

(* Failed payments are retried in order and charged once. *)
RetriesSound ==
  /\ AttemptsNumbered
  /\ RetryChargedOnce
=============================================================================
