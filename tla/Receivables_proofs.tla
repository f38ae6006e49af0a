------------------------ MODULE Receivables_proofs ------------------------
(***************************************************************************)
(* Proofs about what follows an unpaid invoice, for any sets of requests    *)
(* and invoices and any bounds: the retries of a failed payment, and the    *)
(* reminders.                                                               *)
(***************************************************************************)
EXTENDS Collections, PaymentRetries, FiniteSetTheorems, TLAPS

-----------------------------------------------------------------------------
(* Rows are only appended and changed in place. *)

LEMMA AppendRow ==
  ASSUME NEW S, NEW s \in Seq(S), NEW x \in S
  PROVE  /\ Append(s, x) \in Seq(S)
         /\ Len(Append(s, x)) = Len(s) + 1
         /\ DOMAIN Append(s, x) = DOMAIN s \cup {Len(s) + 1}
         /\ Len(s) + 1 \notin DOMAIN s
         /\ \A k \in DOMAIN s : Append(s, x)[k] = s[k]
         /\ Append(s, x)[Len(s) + 1] = x
  OBVIOUS

LEMMA ChangeRow ==
  ASSUME NEW S, NEW s \in Seq(S), NEW k \in DOMAIN s, NEW x \in S
  PROVE  /\ [s EXCEPT ![k] = x] \in Seq(S)
         /\ Len([s EXCEPT ![k] = x]) = Len(s)
         /\ DOMAIN [s EXCEPT ![k] = x] = DOMAIN s
         /\ \A j \in DOMAIN s :
              [s EXCEPT ![k] = x][j] = IF j = k THEN x ELSE s[j]
  OBVIOUS

(* A row one request works on when another begins is mixed. *)
LEMMA MixedByBegin ==
  ASSUME NEW marked, NEW flight, NEW row
  PROVE  /\ marked \subseteq MixedBy(marked, flight, row)
         /\ MixedBy(marked, flight, row) \subseteq marked \cup {row}
         /\ row \in MixedBy(marked, flight, row)
            \/ \A r \in DOMAIN flight : flight[r] = Idle \/ flight[r].row # row
  BY DEF MixedBy, WorkingOn

-----------------------------------------------------------------------------
(* The retries of failed payments. *)

(* The attempts of an invoice have a highest, so that the next one exists.   *)
HighestAttempt ==
  \A i \in Failing : RetriesOf(i) # {} =>
    \E k \in RetriesOf(i) :
      \A j \in RetriesOf(i) : retries[j].attempt <= retries[k].attempt

(* A run works on a row, and a row that does not exist yet has no history.   *)
RunsOnRows ==
  /\ \A r \in Requests :
       runner[r].step \in {"charging", "recording"} =>
         runner[r].row \in DOMAIN retries
  /\ \A k \in 1..MaxRetries \ DOMAIN retries : intents[k] = 0 /\ k \notin tangled

RetriesTypeInv == PaymentRetriesTypeOK /\ HighestAttempt /\ RunsOnRows

(* On a row that was never mixed one run works at a time, the row is still   *)
(* scheduled, and Stripe has made the intent exactly if the run knows it.    *)
RunsAlone ==
  \A k \in DOMAIN retries \ tangled : \A r \in WorkingOn(runner, k) :
    /\ \A s \in WorkingOn(runner, k) : s = r
    /\ retries[k].status = "scheduled"
    /\ intents[k] = IF runner[r].step = "recording" /\ runner[r].ok THEN 1 ELSE 0

(* While failures are handled one at a time, the one that is being handled   *)
(* has the number that the row it inserts must have.                         *)
SchedulesAlone ==
  Scheduling \in tangled \/
  \A r \in WorkingOn(runner, Scheduling) :
    /\ \A s \in WorkingOn(runner, Scheduling) : s = r
    /\ runner[r].attempt = Cardinality(RetriesOf(runner[r].invoice)) + 1

RetriesInv ==
  /\ RetriesTypeInv
  /\ RunsAlone /\ RetryChargedOnce
  /\ SchedulesAlone /\ AttemptsNumbered

LEMMA RetryRows ==
  ASSUME RetriesTypeInv
  PROVE  /\ MaxAttempts \in Nat /\ MaxRetries \in Nat /\ Len(retries) \in Nat
         /\ DOMAIN retries = 1..Len(retries) /\ Len(retries) <= MaxRetries
         /\ \A k \in DOMAIN retries :
              /\ retries[k] \in Retries /\ retries[k].invoice \in Failing
              /\ retries[k].attempt \in 1..MaxAttempts
<1>1. retries \in Seq(Retries) /\ Len(retries) <= MaxRetries
  BY DEF RetriesTypeInv, PaymentRetriesTypeOK
<1>2. \A k \in DOMAIN retries : retries[k] \in Retries
  BY <1>1
<1> QED
  BY <1>1, <1>2, RetriesAssumption DEF RetriesAssumption, Retries

LEMMA NextAttemptType ==
  ASSUME RetriesTypeInv, NEW i \in Failing
  PROVE  /\ NextAttempt(i) \in 1..MaxAttempts + 1
         /\ \A k \in RetriesOf(i) : retries[k].attempt < NextAttempt(i)
         /\ NextAttempt(i) = 1
            \/ \E k \in RetriesOf(i) : retries[k].attempt = NextAttempt(i) - 1
<1> DEFINE P(n) == /\ \A k \in RetriesOf(i) : retries[k].attempt < n
                   /\ n = 1 \/ \E k \in RetriesOf(i) : retries[k].attempt = n - 1
<1>1. MaxAttempts \in Nat /\ \A k \in RetriesOf(i) : retries[k].attempt \in 1..MaxAttempts
  BY RetryRows DEF RetriesOf
<1>2. \E n \in 1..MaxAttempts + 1 : P(n)
  <2>1. CASE RetriesOf(i) = {}
    <3>1. 1 \in 1..MaxAttempts + 1 /\ P(1)
      BY <1>1, <2>1
    <3> QED
      BY <3>1
  <2>2. CASE RetriesOf(i) # {}
    <3>1. PICK k \in RetriesOf(i) :
            \A j \in RetriesOf(i) : retries[j].attempt <= retries[k].attempt
      BY <2>2 DEF RetriesTypeInv, HighestAttempt
    <3> DEFINE m == retries[k].attempt
    <3>2. m + 1 \in 1..MaxAttempts + 1 /\ P(m + 1)
      BY <1>1, <3>1
    <3> HIDE DEF P, m
    <3> QED
      BY <3>2
  <2> QED
    BY <2>1, <2>2
<1>3. NextAttempt(i) = CHOOSE n \in 1..MaxAttempts + 1 : P(n)
  BY DEF NextAttempt
<1> HIDE DEF P
<1>4. NextAttempt(i) \in 1..MaxAttempts + 1 /\ P(NextAttempt(i))
  BY <1>2, <1>3
<1> QED
  BY <1>4 DEF P

(* The rows of an invoice are finitely many. *)
LEMMA RetriesFinite ==
  ASSUME RetriesTypeInv, NEW i
  PROVE  /\ IsFiniteSet(RetriesOf(i)) /\ Cardinality(RetriesOf(i)) \in Nat
         /\ RetriesOf(i) \subseteq 1..Len(retries)
<1>1. Len(retries) \in Nat /\ DOMAIN retries = 1..Len(retries)
  BY DEF RetriesTypeInv, PaymentRetriesTypeOK
<1>2. RetriesOf(i) \subseteq 1..Len(retries) /\ IsFiniteSet(1..Len(retries))
  BY <1>1, FS_Interval DEF RetriesOf
<1> QED
  BY <1>2, FS_Subset, FS_CardinalityType

(* The next number is one more than the rows there are. *)
LEMMA NextAttemptCounts ==
  ASSUME RetriesTypeInv, AttemptsNumbered, Scheduling \notin tangled,
         NEW i \in Failing
  PROVE  NextAttempt(i) = Cardinality(RetriesOf(i)) + 1
<1> DEFINE R == RetriesOf(i)
           UpTo(k) == {j \in R : j <= k}
           n == NextAttempt(i)
<1>1. IsFiniteSet(R) /\ Cardinality(R) \in Nat /\ R \subseteq 1..Len(retries)
      /\ Len(retries) \in Nat
  BY RetriesFinite DEF RetriesTypeInv, PaymentRetriesTypeOK
<1>2. /\ n \in 1..MaxAttempts + 1 /\ \A k \in R : retries[k].attempt < n
      /\ n = 1 \/ \E k \in R : retries[k].attempt = n - 1
  BY NextAttemptType
<1>3. \A k \in R : /\ retries[k].invoice = i /\ retries[k].attempt = Cardinality(UpTo(k))
                   /\ retries[k].attempt \in Nat /\ retries[k].attempt >= 1
  <2>1. \A k \in R : k \in DOMAIN retries /\ retries[k].invoice = i
    BY DEF RetriesOf
  <2>2. \A k \in R : retries[k].attempt \in 1..MaxAttempts
    BY <2>1, RetryRows
  <2> QED
    BY <2>1, <2>2, RetryRows DEF AttemptsNumbered
<1>4. CASE R = {}
  BY <1>2, <1>4, FS_EmptySet
<1>5. CASE R # {}
  <2>1. PICK k \in R : \A j \in R : retries[j].attempt <= retries[k].attempt
    BY <1>5 DEF RetriesTypeInv, HighestAttempt
  <2> HIDE DEF n, UpTo, R
  <2>2. retries[k].attempt = n - 1
    <3>1. n \in Int /\ \A j \in R : retries[j].attempt \in Int
      <4>1. n \in Int
        BY <1>2, RetryRows
      <4>2. \A j \in R : retries[j].attempt \in Int
        BY <1>3
      <4> QED
        BY <4>1, <4>2
    <3>2. n # 1
      BY <1>2, <1>3, <2>1
    <3>3. PICK j \in R : retries[j].attempt = n - 1
      BY <1>2, <3>2
    <3>4. retries[k].attempt < n /\ retries[j].attempt <= retries[k].attempt
      BY <1>2, <2>1
    <3> QED
      BY <3>1, <3>3, <3>4
  <2>3. ASSUME NEW j \in R, j > k PROVE FALSE
    <3> USE DEF R, UpTo
    <3>1. UpTo(k) \subseteq UpTo(j) /\ j \in UpTo(j) /\ j \notin UpTo(k)
      BY <1>1, <2>3
    <3>2. IsFiniteSet(UpTo(j))
      BY <1>1, FS_Subset
    <3>3. Cardinality(UpTo(k)) <= Cardinality(UpTo(j))
          /\ Cardinality(UpTo(k)) # Cardinality(UpTo(j))
      BY <3>1, <3>2, FS_Subset
    <3> QED
      BY <1>3, <2>1, <3>3
  <2>4. UpTo(k) = R
    BY <1>1, <2>3 DEF R, UpTo
  <2> QED
    <3>1. n - 1 = Cardinality(R) /\ n \in Int
      BY <1>2, <1>3, <2>2, <2>4, RetryRows
    <3> QED
      BY <1>1, <3>1 DEF n, R
<1> QED
  BY <1>4, <1>5

(* The runner of a request is any of the shapes of its step. *)
LEMMA RunnerShapes ==
  ASSUME RetriesTypeInv, NEW r \in Requests
  PROVE  /\ runner[r] \in RunnerStates
         /\ runner[r].step \in {"idle", "scheduling", "charging", "recording"}
         /\ runner[r].step = "idle" <=> runner[r] = Idle
         /\ runner[r].step = "scheduling" =>
              runner[r].row = Scheduling /\ runner[r].invoice \in Failing
              /\ runner[r].attempt \in 1..MaxAttempts
         /\ runner[r].step = "charging" => runner[r].row \in 1..MaxRetries
         /\ runner[r].step = "recording" =>
              runner[r].row \in 1..MaxRetries /\ runner[r].ok \in BOOLEAN
<1>1. runner[r] \in RunnerStates
  BY DEF RetriesTypeInv, PaymentRetriesTypeOK
<1> QED
  BY <1>1 DEF RunnerStates, Idle

LEMMA RetriesInitInv == PaymentRetriesInit => RetriesInv
<1> SUFFICES ASSUME PaymentRetriesInit PROVE RetriesInv
  OBVIOUS
<1>1. /\ retries = <<>> /\ DOMAIN retries = {} /\ Len(retries) = 0
      /\ intents = [k \in 1..MaxRetries |-> 0] /\ tangled = {}
      /\ runner = [r \in Requests |-> Idle]
  BY DEF PaymentRetriesInit, NoRequests
<1>2. PaymentRetriesTypeOK
  BY <1>1, RetriesAssumption DEF RetriesAssumption, PaymentRetriesTypeOK, RunnerStates
<1>3. HighestAttempt /\ RunsOnRows
  BY <1>1 DEF HighestAttempt, RetriesOf, RunsOnRows, Idle
<1>4. RunsAlone /\ RetryChargedOnce /\ AttemptsNumbered /\ SchedulesAlone
  BY <1>1 DEF RunsAlone, RetryChargedOnce, AttemptsNumbered, SchedulesAlone, WorkingOn
<1> QED
  BY <1>2, <1>3, <1>4 DEF RetriesInv, RetriesTypeInv

(* No step but an insert changes which rows there are and how they are      *)
(* numbered.                                                                *)
SameAttempts ==
  /\ DOMAIN retries' = DOMAIN retries
  /\ \A k \in DOMAIN retries :
       retries'[k].invoice = retries[k].invoice /\ retries'[k].attempt = retries[k].attempt

LEMMA SameAttemptsHighest ==
  ASSUME RetriesTypeInv, SameAttempts
  PROVE  HighestAttempt' /\ \A i : RetriesOf(i)' = RetriesOf(i)
<1>1. \A i : RetriesOf(i)' = RetriesOf(i)
  BY DEF SameAttempts, RetriesOf
<1>2. \A i : \A k \in RetriesOf(i) : retries'[k].attempt = retries[k].attempt
  BY DEF SameAttempts, RetriesOf
<1> QED
  BY <1>1, <1>2 DEF RetriesTypeInv, HighestAttempt

LEMMA SameAttemptsNumbered ==
  ASSUME RetriesTypeInv, SameAttempts, AttemptsNumbered, tangled \subseteq tangled'
  PROVE  AttemptsNumbered'
<1> SUFFICES ASSUME Scheduling \notin tangled', NEW k \in DOMAIN retries'
             PROVE  retries'[k].attempt =
                      Cardinality({j \in RetriesOf(retries[k].invoice)' : j <= k})
  BY DEF AttemptsNumbered, SameAttempts
<1>1. k \in DOMAIN retries /\ retries'[k].invoice = retries[k].invoice
      /\ retries'[k].attempt = retries[k].attempt
  BY DEF SameAttempts
<1>2. RetriesOf(retries[k].invoice)' = RetriesOf(retries[k].invoice)
  BY <1>1 DEF SameAttempts, RetriesOf
<1> QED
  BY <1>1, <1>2 DEF AttemptsNumbered

(* Every step keeps the shapes of rows and requests. *)
LEMMA RetriesStepType ==
  ASSUME RetriesTypeInv, PaymentRetriesNext
  PROVE  RetriesTypeInv'
<1>1. PICK r \in Requests :
        \/ \E i \in Failing : ScheduleRead(r, i)
        \/ \E k \in DOMAIN retries : intents[k] < 2 /\ RunRead(r, k)
        \/ ScheduleInsert(r) \/ RunCharge(r) \/ RunAnswerLost(r)
        \/ RunWrite(r) \/ RunStops(r)
  BY DEF PaymentRetriesNext
<1>2. /\ retries \in Seq(Retries) /\ Len(retries) <= MaxRetries
      /\ intents \in [1..MaxRetries -> Nat] /\ runner \in [Requests -> RunnerStates]
      /\ tangled \subseteq 0..MaxRetries /\ RunsOnRows
  BY DEF RetriesTypeInv, PaymentRetriesTypeOK
<1>3. /\ MaxAttempts \in Nat /\ MaxRetries \in Nat /\ Len(retries) \in Nat
      /\ DOMAIN retries = 1..Len(retries)
  BY RetryRows
<1>4. Idle \in RunnerStates /\ Idle.step = "idle"
  BY DEF RunnerStates, Idle
<1>5. ASSUME UNCHANGED retries
      PROVE  SameAttempts /\ HighestAttempt'
  BY <1>5, SameAttemptsHighest DEF SameAttempts
<1>6. ASSUME NEW i \in Failing, ScheduleRead(r, i)
      PROVE  RetriesTypeInv'
  <2>1. NextAttempt(i) \in 1..MaxAttempts
    BY <1>3, <1>6, NextAttemptType DEF ScheduleRead
  <2> DEFINE new == [step |-> "scheduling", row |-> Scheduling, invoice |-> i,
                     attempt |-> NextAttempt(i)]
  <2>2. new \in RunnerStates
    BY <2>1 DEF RunnerStates
  <2>3. runner' = [runner EXCEPT ![r] = new] /\ UNCHANGED <<retries, intents>>
        /\ tangled' = MixedBy(tangled, runner, Scheduling)
    BY <1>6 DEF ScheduleRead
  <2>4. new.step = "scheduling"
    OBVIOUS
  <2> HIDE DEF new
  <2>5. runner' \in [Requests -> RunnerStates]
    BY <1>2, <2>2, <2>3
  <2>6. tangled' \subseteq tangled \cup {0} /\ tangled' \subseteq 0..MaxRetries
    <3>1. tangled' \subseteq tangled \cup {0} /\ 0 \in 0..MaxRetries
      BY <1>3, <2>3, MixedByBegin DEF Scheduling
    <3> QED
      BY <1>2, <3>1
  <2>7. PaymentRetriesTypeOK'
    BY <1>2, <2>3, <2>5, <2>6 DEF PaymentRetriesTypeOK
  <2>8. RunsOnRows'
    BY <1>2, <1>3, <2>3, <2>4, <2>6 DEF RunsOnRows
  <2> QED
    BY <1>5, <2>3, <2>7, <2>8 DEF RetriesTypeInv
<1>7. ASSUME NEW k \in DOMAIN retries, RunRead(r, k)
      PROVE  RetriesTypeInv'
  <2> DEFINE new == [step |-> "charging", row |-> k]
  <2>1. k \in 1..MaxRetries
    BY <1>2, <1>3
  <2>2. new \in RunnerStates /\ new.row = k
    BY <2>1 DEF RunnerStates
  <2>3. runner' = [runner EXCEPT ![r] = new] /\ UNCHANGED <<retries, intents>>
        /\ tangled' = MixedBy(tangled, runner, k)
    BY <1>7 DEF RunRead
  <2> HIDE DEF new
  <2>4. runner' \in [Requests -> RunnerStates]
    BY <1>2, <2>2, <2>3
  <2>5. tangled' \subseteq tangled \cup {k} /\ tangled' \subseteq 0..MaxRetries
    <3>1. tangled' \subseteq tangled \cup {k} /\ k \in 0..MaxRetries
      BY <1>3, <2>1, <2>3, MixedByBegin
    <3> QED
      BY <1>2, <3>1
  <2>6. PaymentRetriesTypeOK'
    BY <1>2, <2>3, <2>4, <2>5 DEF PaymentRetriesTypeOK
  <2>7. RunsOnRows'
    BY <1>2, <1>3, <2>2, <2>3, <2>5 DEF RunsOnRows
  <2> QED
    BY <1>5, <2>3, <2>6, <2>7 DEF RetriesTypeInv
<1>8. CASE ScheduleInsert(r)
  <2> DEFINE row == [invoice |-> runner[r].invoice, attempt |-> runner[r].attempt,
                     status |-> "scheduled"]
  <2>1. row \in Retries
    BY <1>8, RunnerShapes DEF ScheduleInsert, Retries
  <2>2. /\ retries' = Append(retries, row) /\ Len(retries) < MaxRetries
        /\ runner' = [runner EXCEPT ![r] = Idle] /\ UNCHANGED <<intents, tangled>>
    BY <1>8 DEF ScheduleInsert
  <2>3. row.invoice = runner[r].invoice /\ row.attempt = runner[r].attempt
        /\ row.attempt \in 1..MaxAttempts
    BY <1>8, RunnerShapes DEF ScheduleInsert
  <2> HIDE DEF row
  <2>4. /\ retries' \in Seq(Retries) /\ Len(retries') = Len(retries) + 1
        /\ DOMAIN retries' = DOMAIN retries \cup {Len(retries) + 1}
        /\ \A k \in DOMAIN retries : retries'[k] = retries[k]
        /\ retries'[Len(retries) + 1] = row
    BY <1>2, <2>1, <2>2, AppendRow
  <2>5. PaymentRetriesTypeOK'
    BY <1>2, <1>3, <1>4, <2>2, <2>4 DEF PaymentRetriesTypeOK
  <2>6. RunsOnRows'
    BY <1>2, <1>3, <1>4, <2>2, <2>4 DEF RunsOnRows
  <2>7. HighestAttempt'
    <3> SUFFICES ASSUME NEW i \in Failing, RetriesOf(i)' # {}
                 PROVE  \E k \in RetriesOf(i)' : \A j \in RetriesOf(i)' :
                          retries'[j].attempt <= retries'[k].attempt
      BY DEF HighestAttempt
    <3> DEFINE n == Len(retries) + 1
    <3>1. RetriesOf(i)' = IF row.invoice = i THEN RetriesOf(i) \cup {n} ELSE RetriesOf(i)
      BY <2>4 DEF RetriesOf
    <3>2. \A j \in RetriesOf(i) : retries'[j].attempt = retries[j].attempt
                                  /\ retries[j].attempt \in 1..MaxAttempts
      BY <2>4, RetryRows DEF RetriesOf
    <3>3. CASE RetriesOf(i) = {}
      BY <2>3, <2>4, <3>1, <3>3, <1>3
    <3>4. CASE RetriesOf(i) # {}
      <4>1. PICK k \in RetriesOf(i) :
              \A j \in RetriesOf(i) : retries[j].attempt <= retries[k].attempt
        BY <3>4 DEF RetriesTypeInv, HighestAttempt
      <4>2. CASE row.attempt <= retries[k].attempt
        BY <2>4, <3>1, <3>2, <4>1, <4>2
      <4>3. CASE row.invoice = i /\ ~(row.attempt <= retries[k].attempt)
        <5>1. \A j \in RetriesOf(i)' : retries'[j].attempt <= retries'[n].attempt
          BY <1>3, <2>3, <2>4, <3>1, <3>2, <4>1, <4>3
        <5> QED
          BY <3>1, <4>3, <5>1
      <4>4. CASE row.invoice # i
        BY <3>1, <3>2, <4>1, <4>4
      <4> QED
        BY <4>2, <4>3, <4>4
    <3> QED
      BY <3>3, <3>4
  <2> QED
    BY <2>5, <2>6, <2>7 DEF RetriesTypeInv
<1>9. CASE RunCharge(r) \/ RunAnswerLost(r)
  <2> DEFINE k == runner[r].row
  <2>1. PICK ok \in BOOLEAN :
          /\ runner' = [runner EXCEPT ![r] = [step |-> "recording", row |-> k, ok |-> ok]]
          /\ intents' \in {intents, [intents EXCEPT ![k] = @ + 1]}
          /\ tangled \subseteq tangled' /\ tangled' \subseteq tangled \cup {k}
          /\ UNCHANGED retries
    BY <1>9 DEF RunCharge, RunAnswerLost
  <2>2. k \in 1..MaxRetries /\ k \in DOMAIN retries
    BY <1>2, <1>9, RunnerShapes DEF RunCharge, RunAnswerLost, RunsOnRows
  <2> DEFINE new == [step |-> "recording", row |-> k, ok |-> ok]
  <2>3. new \in RunnerStates /\ new.row = k
    BY <2>2 DEF RunnerStates
  <2>4. runner' = [runner EXCEPT ![r] = new]
    BY <2>1
  <2> HIDE DEF new, k
  <2>5. runner' \in [Requests -> RunnerStates]
    BY <1>2, <2>3, <2>4
  <2>6. intents' \in [1..MaxRetries -> Nat]
        /\ \A j \in 1..MaxRetries \ DOMAIN retries : intents'[j] = intents[j]
    <3>1. CASE intents' = intents
      BY <1>2, <3>1
    <3>2. CASE intents' = [intents EXCEPT ![k] = @ + 1]
      BY <1>2, <2>2, <3>2
    <3> QED
      BY <2>1, <3>1, <3>2
  <2>7. PaymentRetriesTypeOK'
    <3>1. tangled' \subseteq 0..MaxRetries
      BY <1>2, <1>3, <2>1, <2>2
    <3> QED
      BY <1>2, <2>1, <2>5, <2>6, <3>1 DEF PaymentRetriesTypeOK
  <2>8. RunsOnRows'
    BY <1>2, <1>3, <2>1, <2>2, <2>3, <2>4, <2>6 DEF RunsOnRows
  <2> QED
    BY <1>5, <2>1, <2>7, <2>8 DEF RetriesTypeInv
<1>10. CASE RunWrite(r)
  <2> DEFINE k == runner[r].row
             row == [retries[k] EXCEPT !.status = IF runner[r].ok THEN "succeeded" ELSE "failed"]
  <2>1. k \in DOMAIN retries
    BY <1>2, <1>10 DEF RunWrite, RunsOnRows
  <2>2. retries' = [retries EXCEPT ![k] = row]
        /\ runner' = [runner EXCEPT ![r] = Idle] /\ UNCHANGED <<intents, tangled>>
    BY <1>10 DEF RunWrite
  <2>3. row \in Retries /\ row.invoice = retries[k].invoice
        /\ row.attempt = retries[k].attempt
    BY <2>1, RetryRows DEF Retries
  <2> HIDE DEF row, k
  <2>4. /\ retries' \in Seq(Retries) /\ Len(retries') = Len(retries)
        /\ DOMAIN retries' = DOMAIN retries
        /\ \A j \in DOMAIN retries : retries'[j] = IF j = k THEN row ELSE retries[j]
    BY <1>2, <2>1, <2>2, <2>3, ChangeRow
  <2>5. PaymentRetriesTypeOK'
    BY <1>2, <1>4, <2>2, <2>4 DEF PaymentRetriesTypeOK
  <2>6. RunsOnRows'
    BY <1>2, <1>4, <2>2, <2>4 DEF RunsOnRows
  <2>7. HighestAttempt'
    BY <2>3, <2>4, SameAttemptsHighest DEF SameAttempts
  <2> QED
    BY <2>5, <2>6, <2>7 DEF RetriesTypeInv
<1>11. CASE RunStops(r)
  <2>1. /\ runner' = [runner EXCEPT ![r] = Idle] /\ UNCHANGED <<retries, intents>>
        /\ tangled' = tangled \cup {runner[r].row}
    BY <1>11 DEF RunStops
  <2>2. runner[r].row \in DOMAIN retries
    BY <1>2, <1>11 DEF RunStops, RunsOnRows
  <2>3. PaymentRetriesTypeOK'
    <3>1. tangled' \subseteq 0..MaxRetries
      <4>1. runner[r].row \in 0..MaxRetries
        BY <1>2, <1>3, <2>2
      <4> QED
        BY <1>2, <2>1, <4>1
    <3> QED
      BY <1>2, <1>4, <2>1, <3>1 DEF PaymentRetriesTypeOK
  <2>4. RunsOnRows'
    BY <1>2, <1>3, <1>4, <2>1, <2>2 DEF RunsOnRows
  <2> QED
    BY <1>5, <2>1, <2>3, <2>4 DEF RetriesTypeInv
<1> QED
  BY <1>1, <1>6, <1>7, <1>8, <1>9, <1>10, <1>11

(* Every step keeps what is known of the runs of one row. *)
LEMMA RetriesStepRuns ==
  ASSUME RetriesTypeInv, RunsAlone, RetryChargedOnce, PaymentRetriesNext
  PROVE  RunsAlone' /\ RetryChargedOnce'
<1>1. PICK r \in Requests :
        \/ \E i \in Failing : ScheduleRead(r, i)
        \/ \E k \in DOMAIN retries : intents[k] < 2 /\ RunRead(r, k)
        \/ ScheduleInsert(r) \/ RunCharge(r) \/ RunAnswerLost(r)
        \/ RunWrite(r) \/ RunStops(r)
  BY DEF PaymentRetriesNext
<1>2. /\ retries \in Seq(Retries) /\ DOMAIN retries = 1..Len(retries)
      /\ Len(retries) \in Nat /\ Len(retries) <= MaxRetries /\ MaxRetries \in Nat
      /\ intents \in [1..MaxRetries -> Nat]
      /\ runner \in [Requests -> RunnerStates] /\ DOMAIN runner = Requests
  BY RetryRows DEF RetriesTypeInv, PaymentRetriesTypeOK
<1>3. DOMAIN runner' = Requests
  BY <1>1, <1>2 DEF ScheduleRead, RunRead, ScheduleInsert, RunCharge, RunAnswerLost,
     RunWrite, RunStops
<1>4. 0 \notin DOMAIN retries /\ tangled \subseteq tangled'
  BY <1>1, <1>2, MixedByBegin DEF ScheduleRead, RunRead, ScheduleInsert, RunCharge,
     RunAnswerLost, RunWrite, RunStops
<1>5. SUFFICES ASSUME NEW k \in DOMAIN retries', k \notin tangled'
      PROVE  /\ \A q \in WorkingOn(runner', k) :
                  /\ \A s \in WorkingOn(runner', k) : s = q
                  /\ retries'[k].status = "scheduled"
                  /\ intents'[k] = IF runner'[q].step = "recording" /\ runner'[q].ok
                                   THEN 1 ELSE 0
             /\ WorkingOn(runner', k) = {} =>
                  intents'[k] = IF retries'[k].status = "succeeded" THEN 1 ELSE 0
  BY DEF RunsAlone, RetryChargedOnce
<1>6. k \notin tangled
  BY <1>4, <1>5
<1>7. k \in DOMAIN retries =>
        /\ \A q \in WorkingOn(runner, k) :
             /\ \A s \in WorkingOn(runner, k) : s = q
             /\ retries[k].status = "scheduled"
             /\ intents[k] = IF runner[q].step = "recording" /\ runner[q].ok
                             THEN 1 ELSE 0
        /\ WorkingOn(runner, k) = {} =>
             intents[k] = IF retries[k].status = "succeeded" THEN 1 ELSE 0
  BY <1>6 DEF RunsAlone, RetryChargedOnce
<1>8. Idle.step = "idle"
  BY DEF Idle
<1>9. ASSUME NEW i \in Failing, ScheduleRead(r, i)
      PROVE  /\ WorkingOn(runner', k) = WorkingOn(runner, k)
             /\ UNCHANGED <<retries, intents>>
             /\ \A q \in WorkingOn(runner, k) : runner'[q] = runner[q]
  BY <1>2, <1>4, <1>5, <1>9 DEF ScheduleRead, WorkingOn, Scheduling
<1>10. ASSUME NEW j \in DOMAIN retries, RunRead(r, j), j # k
       PROVE  /\ WorkingOn(runner', k) = WorkingOn(runner, k)
              /\ UNCHANGED <<retries, intents>>
              /\ \A q \in WorkingOn(runner, k) : runner'[q] = runner[q]
  BY <1>2, <1>10 DEF RunRead, WorkingOn
<1>11. ASSUME RunRead(r, k)
       PROVE  /\ WorkingOn(runner, k) = {} /\ retries[k].status = "scheduled"
              /\ WorkingOn(runner', k) = {r} /\ runner'[r].step = "charging"
              /\ UNCHANGED <<retries, intents>>
  <2>1. runner' = [runner EXCEPT ![r] = [step |-> "charging", row |-> k]]
        /\ tangled' = MixedBy(tangled, runner, k) /\ UNCHANGED <<retries, intents>>
        /\ retries[k].status = "scheduled"
    BY <1>11 DEF RunRead
  <2>2. WorkingOn(runner, k) = {}
    BY <1>5, <2>1 DEF MixedBy
  <2>3. [step |-> "charging", row |-> k] # Idle
    BY DEF Idle
  <2>4. WorkingOn(runner', k) = {r}
    BY <1>2, <2>1, <2>2, <2>3 DEF WorkingOn
  <2> QED
    BY <1>2, <2>1, <2>2, <2>4
<1>12. CASE ScheduleInsert(r)
  <2>1. PICK row : /\ retries' = Append(retries, row) /\ row.status = "scheduled"
                   /\ row \in Retries
                   /\ runner[r].step = "scheduling" /\ runner[r].row = Scheduling
                   /\ runner' = [runner EXCEPT ![r] = Idle] /\ UNCHANGED intents
    <3>1. runner[r].step = "scheduling"
      BY <1>12 DEF ScheduleInsert
    <3> DEFINE row == [invoice |-> runner[r].invoice, attempt |-> runner[r].attempt,
                       status |-> "scheduled"]
    <3>2. row \in Retries /\ runner[r].row = Scheduling
      BY <3>1, RunnerShapes DEF Retries
    <3> QED
      BY <1>12, <3>1, <3>2 DEF ScheduleInsert
  <2>2. /\ DOMAIN retries' = DOMAIN retries \cup {Len(retries) + 1}
        /\ \A j \in DOMAIN retries : retries'[j] = retries[j]
        /\ retries'[Len(retries) + 1] = row
    BY <1>2, <2>1, AppendRow
  <2>3. /\ WorkingOn(runner', k) = WorkingOn(runner, k)
        /\ \A q \in WorkingOn(runner, k) : runner'[q] = runner[q]
    BY <1>2, <1>4, <1>5, <2>1, <2>2 DEF WorkingOn, Scheduling
  <2>4. CASE k \in DOMAIN retries
    <3>1. retries'[k] = retries[k] /\ intents'[k] = intents[k]
      BY <2>1, <2>2, <2>4
    <3> QED
      BY <1>7, <2>3, <2>4, <3>1
  <2>5. CASE k = Len(retries) + 1
    <3>1. k \in 1..MaxRetries \ DOMAIN retries
      BY <1>2, <1>12, <2>5 DEF ScheduleInsert
    <3>2. intents[k] = 0
      BY <3>1 DEF RetriesTypeInv, RunsOnRows
    <3>3. WorkingOn(runner, k) = {}
      BY <1>2, <3>1, RunnerShapes DEF WorkingOn, RetriesTypeInv, RunsOnRows, Scheduling
    <3> QED
      BY <2>1, <2>2, <2>3, <2>5, <3>2, <3>3
  <2> QED
    BY <1>5, <2>2, <2>4, <2>5
<1>13. CASE RunCharge(r) \/ RunAnswerLost(r) \/ RunWrite(r) \/ RunStops(r)
  <2> DEFINE j == runner[r].row
  <2>1. runner[r].step \in {"charging", "recording"} /\ j \in DOMAIN retries
        /\ runner[r] # Idle /\ r \in WorkingOn(runner, j)
    BY <1>2, <1>8, <1>13 DEF RunCharge, RunAnswerLost, RunWrite, RunStops,
       RetriesTypeInv, RunsOnRows, WorkingOn
  <2>2. DOMAIN retries' = DOMAIN retries
        /\ \A i \in DOMAIN retries \ {j} : retries'[i] = retries[i] /\ intents'[i] = intents[i]
    BY <1>2, <1>13, <2>1 DEF RunCharge, RunAnswerLost, RunWrite, RunStops
  <2>3. CASE k # j
    <3>1. /\ WorkingOn(runner', k) = WorkingOn(runner, k)
          /\ \A q \in WorkingOn(runner, k) : runner'[q] = runner[q]
      BY <1>2, <1>13, <2>1, <2>3 DEF WorkingOn, RunCharge, RunAnswerLost, RunWrite, RunStops
    <3> QED
      BY <1>5, <1>7, <2>2, <2>3, <3>1
  <2>4. CASE k = j
    <3>1. WorkingOn(runner, k) = {r} /\ retries[k].status = "scheduled"
          /\ intents[k] = IF runner[r].step = "recording" /\ runner[r].ok THEN 1 ELSE 0
      BY <1>7, <2>1, <2>4
    <3>2. CASE RunCharge(r)
      <4>1. PICK ok \in BOOLEAN :
              /\ runner' = [runner EXCEPT ![r] = [step |-> "recording", row |-> k, ok |-> ok]]
              /\ intents' = IF ok THEN [intents EXCEPT ![k] = @ + 1] ELSE intents
              /\ UNCHANGED retries /\ runner[r].step = "charging"
        BY <2>4, <3>2 DEF RunCharge
      <4>2. WorkingOn(runner', k) = {r}
        BY <1>2, <2>1, <3>1, <4>1 DEF WorkingOn, Idle
      <4>3. runner'[r].step = "recording" /\ runner'[r].ok = ok
            /\ intents'[k] = IF ok THEN 1 ELSE 0
        BY <1>2, <2>1, <2>4, <3>1, <4>1
      <4> QED
        BY <3>1, <4>1, <4>2, <4>3
    <3>3. CASE RunAnswerLost(r) \/ RunStops(r)
      BY <1>5, <2>4, <3>3 DEF RunAnswerLost, RunStops
    <3>4. CASE RunWrite(r)
      <4>1. runner' = [runner EXCEPT ![r] = Idle] /\ UNCHANGED intents
            /\ runner[r].step = "recording"
            /\ retries' = [retries EXCEPT ![k].status =
                              IF runner[r].ok THEN "succeeded" ELSE "failed"]
        BY <2>4, <3>4 DEF RunWrite
      <4>2. WorkingOn(runner', k) = {}
        BY <1>2, <3>1, <4>1 DEF WorkingOn
      <4>3. retries'[k].status = IF runner[r].ok THEN "succeeded" ELSE "failed"
        BY <2>1, <2>4, <4>1, RetryRows DEF Retries
      <4>4. intents'[k] = IF retries'[k].status = "succeeded" THEN 1 ELSE 0
        <5>1. intents'[k] = IF runner[r].ok THEN 1 ELSE 0
          BY <3>1, <4>1
        <5>2. CASE runner[r].ok
          BY <4>3, <5>1, <5>2
        <5>3. CASE ~runner[r].ok
          BY <4>3, <5>1, <5>3
        <5> QED
          BY <5>2, <5>3
      <4> QED
        BY <4>2, <4>4
    <3> QED
      BY <1>13, <3>2, <3>3, <3>4
  <2> QED
    BY <2>3, <2>4
<1>14. CASE \E i \in Failing : ScheduleRead(r, i)
  BY <1>5, <1>7, <1>9, <1>14
<1>15. CASE \E j \in DOMAIN retries : intents[j] < 2 /\ RunRead(r, j)
  <2>1. PICK j \in DOMAIN retries : intents[j] < 2 /\ RunRead(r, j)
    BY <1>15
  <2>2. CASE j = k
    <3>1. k \in DOMAIN retries
      BY <2>2
    <3> QED
      BY <1>7, <1>11, <2>1, <2>2, <3>1
  <2>3. CASE j # k
    BY <1>5, <1>7, <1>10, <2>1, <2>3
  <2> QED
    BY <2>2, <2>3
<1> QED
  BY <1>1, <1>12, <1>13, <1>14, <1>15

(* Every step keeps the numbering of the attempts. *)
LEMMA RetriesStepNumbers ==
  ASSUME RetriesTypeInv, SchedulesAlone, AttemptsNumbered, PaymentRetriesNext
  PROVE  SchedulesAlone' /\ AttemptsNumbered'
<1>1. PICK r \in Requests :
        \/ \E i \in Failing : ScheduleRead(r, i)
        \/ \E k \in DOMAIN retries : intents[k] < 2 /\ RunRead(r, k)
        \/ ScheduleInsert(r) \/ RunCharge(r) \/ RunAnswerLost(r)
        \/ RunWrite(r) \/ RunStops(r)
  BY DEF PaymentRetriesNext
<1>2. /\ retries \in Seq(Retries) /\ DOMAIN retries = 1..Len(retries)
      /\ Len(retries) \in Nat /\ runner \in [Requests -> RunnerStates]
      /\ DOMAIN runner = Requests
  BY RetryRows DEF RetriesTypeInv, PaymentRetriesTypeOK
<1>3. tangled \subseteq tangled' /\ DOMAIN runner' = Requests
  BY <1>1, <1>2, MixedByBegin DEF ScheduleRead, RunRead, ScheduleInsert, RunCharge,
     RunAnswerLost, RunWrite, RunStops
<1>4. Idle.step = "idle"
  BY DEF Idle
<1>5. CASE Scheduling \in tangled'
  BY <1>5 DEF SchedulesAlone, AttemptsNumbered
<1>6. ASSUME Scheduling \notin tangled'
      PROVE  /\ Scheduling \notin tangled
             /\ \A q \in WorkingOn(runner, Scheduling) :
                  /\ \A s \in WorkingOn(runner, Scheduling) : s = q
                  /\ runner[q].attempt = Cardinality(RetriesOf(runner[q].invoice)) + 1
  BY <1>3, <1>6 DEF SchedulesAlone
<1>7. ASSUME Scheduling \notin tangled', NEW i \in Failing, ScheduleRead(r, i)
      PROVE  SchedulesAlone' /\ AttemptsNumbered'
  <2> DEFINE new == [step |-> "scheduling", row |-> Scheduling, invoice |-> i,
                     attempt |-> NextAttempt(i)]
  <2>1. runner' = [runner EXCEPT ![r] = new] /\ UNCHANGED <<retries, intents>>
        /\ tangled' = MixedBy(tangled, runner, Scheduling)
    BY <1>7 DEF ScheduleRead
  <2>2. WorkingOn(runner, Scheduling) = {}
    BY <1>7, <2>1 DEF MixedBy
  <2>3. new # Idle /\ new.row = Scheduling /\ new.invoice = i
        /\ new.attempt = NextAttempt(i)
    BY <1>4
  <2> HIDE DEF new
  <2>4. WorkingOn(runner', Scheduling) = {r} /\ runner'[r] = new
    BY <1>2, <2>1, <2>2, <2>3 DEF WorkingOn
  <2>5. SameAttempts /\ RetriesOf(i)' = RetriesOf(i)
    BY <2>1, SameAttemptsHighest DEF SameAttempts
  <2>6. NextAttempt(i) = Cardinality(RetriesOf(i)) + 1
    BY <1>6, <1>7, NextAttemptCounts
  <2>7. SchedulesAlone'
    BY <2>3, <2>4, <2>5, <2>6 DEF SchedulesAlone
  <2> QED
    BY <1>3, <2>5, <2>7, SameAttemptsNumbered
<1>8. ASSUME Scheduling \notin tangled', ScheduleInsert(r)
      PROVE  SchedulesAlone' /\ AttemptsNumbered'
  <2> DEFINE row == [invoice |-> runner[r].invoice, attempt |-> runner[r].attempt,
                     status |-> "scheduled"]
  <2>0. PICK n, i : n = Len(retries) + 1 /\ n \in Nat /\ i = runner[r].invoice
    BY <1>2
  <2>1. runner[r].step = "scheduling" /\ runner[r].row = Scheduling /\ row \in Retries
        /\ row.invoice = i /\ row.attempt = runner[r].attempt
    BY <1>8, <2>0, RunnerShapes DEF ScheduleInsert, Retries
  <2>2. retries' = Append(retries, row) /\ runner' = [runner EXCEPT ![r] = Idle]
    BY <1>8 DEF ScheduleInsert
  <2> HIDE DEF row
  <2>3. /\ DOMAIN retries' = DOMAIN retries \cup {n} /\ n \notin DOMAIN retries
        /\ \A j \in DOMAIN retries : retries'[j] = retries[j]
        /\ retries'[n] = row
    BY <1>2, <2>0, <2>1, <2>2, AppendRow
  <2>4. r \in WorkingOn(runner, Scheduling)
    BY <1>2, <1>4, <2>1 DEF WorkingOn
  <2>5. WorkingOn(runner', Scheduling) = {}
        /\ row.attempt = Cardinality(RetriesOf(i)) + 1
    BY <1>2, <1>6, <1>8, <2>0, <2>1, <2>2, <2>4 DEF WorkingOn
  <2>6. SchedulesAlone'
    BY <2>5 DEF SchedulesAlone
  <2> DEFINE UpTo(k) == {j \in RetriesOf(retries[k].invoice) : j <= k}
  <2>7. ASSUME NEW k \in DOMAIN retries
        PROVE  retries'[k].attempt = Cardinality(UpTo(k)')
    <3>1. RetriesOf(retries[k].invoice)' =
            {j \in DOMAIN retries \cup {n} : retries'[j].invoice = retries[k].invoice}
      BY <2>3 DEF RetriesOf
    <3>2. n > k
      BY <1>2, <2>0
    <3>3. UpTo(k)' = UpTo(k)
      BY <1>2, <2>3, <3>1, <3>2 DEF RetriesOf
    <3> HIDE DEF UpTo
    <3>4. retries[k].attempt = Cardinality(UpTo(k))
      BY <1>6, <1>8 DEF AttemptsNumbered, UpTo
    <3> QED
      BY <2>3, <3>3, <3>4
  <2>8. retries'[n].attempt = Cardinality(UpTo(n)')
    <3>1. RetriesOf(retries[n].invoice)' =
            {j \in DOMAIN retries \cup {n} : retries'[j].invoice = i}
      BY <2>1, <2>3 DEF RetriesOf
    <3>2. RetriesOf(retries[n].invoice)' = RetriesOf(i) \cup {n}
      BY <2>1, <2>3, <3>1 DEF RetriesOf
    <3>3. \A j \in RetriesOf(i) \cup {n} : j <= n
      BY <1>2, <2>0 DEF RetriesOf
    <3>4. UpTo(n)' = RetriesOf(i) \cup {n}
      BY <3>2, <3>3
    <3>5. n \notin RetriesOf(i) /\ IsFiniteSet(RetriesOf(i))
      BY <2>3, RetriesFinite DEF RetriesOf
    <3> HIDE DEF UpTo
    <3>6. Cardinality(UpTo(n)') = Cardinality(RetriesOf(i)) + 1
      BY <3>4, <3>5, FS_AddElement
    <3> QED
      BY <2>3, <2>5, <3>6
  <2> QED
    BY <2>3, <2>6, <2>7, <2>8 DEF AttemptsNumbered
<1>9. ASSUME Scheduling \notin tangled',
             \/ \E k \in DOMAIN retries : RunRead(r, k)
             \/ RunCharge(r) \/ RunAnswerLost(r) \/ RunWrite(r) \/ RunStops(r)
      PROVE  SchedulesAlone' /\ AttemptsNumbered'
  <2>1. SameAttempts
    <3>1. CASE retries' = retries
      BY <3>1 DEF SameAttempts
    <3>2. CASE RunWrite(r)
      <4>1. runner[r].row \in DOMAIN retries
        BY <3>2 DEF RunWrite, RetriesTypeInv, RunsOnRows
      <4> QED
        BY <3>2, <4>1, RetryRows DEF RunWrite, SameAttempts, Retries
    <3> QED
      BY <1>9, <3>1, <3>2 DEF RunRead, RunCharge, RunAnswerLost, RunStops
  <2>2. PICK new : runner' = [runner EXCEPT ![r] = new] /\ (new = Idle \/ new.row # Scheduling)
                   /\ r \notin WorkingOn(runner, Scheduling)
    <3>1. runner[r].step \in {"charging", "recording"} =>
            runner[r].row # Scheduling
      BY <1>2 DEF RetriesTypeInv, RunsOnRows, Scheduling
    <3> QED
      BY <1>2, <1>4, <1>9, <3>1 DEF RunRead, RunCharge, RunAnswerLost, RunWrite, RunStops,
         WorkingOn, Scheduling
  <2>3. WorkingOn(runner', Scheduling) = WorkingOn(runner, Scheduling)
        /\ \A q \in WorkingOn(runner, Scheduling) : runner'[q] = runner[q]
    BY <1>2, <2>2 DEF WorkingOn
  <2>4. \A i : RetriesOf(i)' = RetriesOf(i)
    BY <2>1, SameAttemptsHighest
  <2>5. SchedulesAlone'
    BY <1>6, <1>9, <2>3, <2>4 DEF SchedulesAlone
  <2> QED
    BY <1>3, <2>1, <2>5, SameAttemptsNumbered
<1> QED
  BY <1>1, <1>5, <1>7, <1>8, <1>9

LEMMA RetriesStepInv ==
  ASSUME RetriesInv, [PaymentRetriesNext]_retriesVars
  PROVE  RetriesInv'
<1>1. CASE PaymentRetriesNext
  BY <1>1, RetriesStepType, RetriesStepRuns, RetriesStepNumbers DEF RetriesInv
<1>2. CASE UNCHANGED retriesVars
  <2>1. UNCHANGED <<retries, intents, runner, tangled>>
    BY <1>2 DEF retriesVars
  <2> QED
    <3>1. RetriesTypeInv'
      BY <2>1 DEF RetriesInv, RetriesTypeInv, PaymentRetriesTypeOK, HighestAttempt,
         RunsOnRows, RetriesOf
    <3>2. RunsAlone' /\ RetryChargedOnce'
      BY <2>1 DEF RetriesInv, RunsAlone, RetryChargedOnce, WorkingOn
    <3>3. SameAttempts /\ AttemptsNumbered'
      BY <2>1, SameAttemptsNumbered DEF RetriesInv, SameAttempts
    <3>4. SchedulesAlone'
      BY <2>1 DEF RetriesInv, SchedulesAlone, WorkingOn, RetriesOf
    <3> QED
      BY <3>1, <3>2, <3>3, <3>4 DEF RetriesInv
<1> QED
  BY <1>1, <1>2

(* Retries are numbered without a gap or a repetition while failures come    *)
(* one at a time, and a retry is charged exactly when its row says so,      *)
(* whatever runs, failures and crashes interleave.                          *)
THEOREM RetriesAlwaysSound == PaymentRetriesSpec => []RetriesSound
<1>1. RetriesInv => RetriesSound
  BY DEF RetriesInv, RetriesSound
<1> QED
  BY <1>1, RetriesInitInv, RetriesStepInv, PTL DEF PaymentRetriesSpec

-----------------------------------------------------------------------------
(* The reminders. *)

(* A request works on a draft that exists, and a draft that does not exist   *)
(* yet has no history.                                                      *)
ClerksOnDrafts ==
  /\ \A r \in Requests :
       clerk[r].step \in {"sending", "recording", "editing", "rejecting"} =>
         clerk[r].row \in DraftIds
  /\ \A d \in 1..MaxDrafts \ DraftIds : mailed[d] = <<>> /\ d \notin mixed

CollectionsTypeInv == CollectionsTypeOK /\ ClerksOnDrafts

(* On a draft that was never mixed one request works at a time: the draft is *)
(* still undecided, the customer got what the request sent and no more, and *)
(* the request has the text of the row.                                     *)
ClerksAlone ==
  \A d \in DraftIds \ mixed : \A r \in WorkingOn(clerk, d) :
    /\ \A s \in WorkingOn(clerk, d) : s = r
    /\ Actionable(d)
    /\ clerk[r].step \in {"sending", "recording"} => clerk[r].text = drafts[d].text
    /\ mailed[d] = IF clerk[r].step = "recording" /\ clerk[r].ok
                   THEN <<drafts[d].text>> ELSE <<>>

(* Only a text of its own makes a draft edited. *)
EditedHasText == \A d \in DraftIds : drafts[d].status = "edited" => drafts[d].text # 0

(* The reminders that a sweep still has to draft. *)
Ahead(r) ==
  IF clerk[r].step = "asking" THEN clerk[r].todo \cup {clerk[r].now} ELSE clerk[r].todo

(* A sweep that is alone drafts one reminder for an invoice, which none of   *)
(* its drafts stands in the way of, and which is no milder than they are    *)
(* and no more severe than its age calls for.                               *)
SweepIsRight(r) ==
  /\ clerk[r].step = "asking" => clerk[r].now \notin clerk[r].todo
  /\ \A m, n \in Ahead(r) : m.invoice = n.invoice => m = n
  /\ \A m \in Ahead(r), d \in DraftIds :
       drafts[d].invoice = m.invoice /\ drafts[d].text = 0 =>
         /\ drafts[d].tone = m.tone /\ d \notin mixed =>
              drafts[d].status \notin {"pending", "sent"}
         /\ m.invoice \notin restarted => Cadence[drafts[d].tone] <= Cadence[m.tone]
  /\ \A m \in Ahead(r) :
       m.invoice \in owing \ restarted => Cadence[m.tone] <= overdue[m.invoice]

(* No draft is more severe than the age of its invoice, and sweeps that do   *)
(* not overlap are right.                                                   *)
SweepsAlone ==
  Sweep \in mixed \/
  /\ \A d \in DraftIds :
       drafts[d].text = 0 /\ drafts[d].invoice \in owing \ restarted =>
         Cadence[drafts[d].tone] <= overdue[drafts[d].invoice]
  /\ \A r \in WorkingOn(clerk, Sweep) :
       SweepIsRight(r) /\ \A s \in WorkingOn(clerk, Sweep) : s = r

CollectionsInv ==
  /\ CollectionsTypeInv
  /\ OnePendingReminder
  /\ ClerksAlone /\ ReminderMatchesMail
  /\ EditedHasText /\ SweepsAlone
  /\ ToneDraftedOnce /\ ReminderEscalates

LEMMA CadenceType ==
  /\ Tones = {"friendly", "firm", "final"}
  /\ \A t \in Tones : Cadence[t] \in Nat
  /\ Cadence["friendly"] = 7 /\ Cadence["firm"] = 14 /\ Cadence["final"] = 30
  /\ DayMarks = {0, 7, 14, 30}
  BY DEF Tones, Cadence, DayMarks

(* A sweep takes the most severe tone that the age has reached. *)
LEMMA ToneForAge ==
  ASSUME NEW days \in DayMarks, NEW t \in Tones, t = ToneFor(days)
  PROVE  /\ Cadence[t] <= days
         /\ \A u \in Tones : Cadence[u] <= days => Cadence[u] <= Cadence[t]
<1> DEFINE crossed == {u \in Tones : days >= Cadence[u]}
<1>1. crossed # {}
  BY CollectionsAssumption DEF CollectionsAssumption, ToneFor
<1>2. \E u \in crossed : \A v \in crossed : Cadence[v] <= Cadence[u]
  <2>1. CASE "final" \in crossed
    BY <2>1, CadenceType
  <2>2. CASE "final" \notin crossed /\ "firm" \in crossed
    BY <2>2, CadenceType
  <2>3. CASE "final" \notin crossed /\ "firm" \notin crossed
    BY <1>1, <2>3, CadenceType
  <2> QED
    BY <2>1, <2>2, <2>3
<1>3. t = CHOOSE u \in crossed : \A v \in crossed : Cadence[v] <= Cadence[u]
  BY <1>1 DEF ToneFor
<1>4. t \in crossed /\ \A v \in crossed : Cadence[v] <= Cadence[t]
  <2> HIDE DEF crossed
  <2> QED
    BY <1>2, <1>3
<1> QED
  BY <1>4, CadenceType DEF DayMarks

LEMMA DraftRows ==
  ASSUME CollectionsTypeInv
  PROVE  /\ MaxDrafts \in Nat /\ MaxEdits \in Nat /\ Len(drafts) \in Nat
         /\ drafts \in Seq(Drafts)
         /\ DraftIds = 1..Len(drafts) /\ Len(drafts) <= MaxDrafts
         /\ \A d \in DraftIds :
              /\ drafts[d] \in Drafts /\ drafts[d].invoice \in Debts
              /\ drafts[d].tone \in Tones /\ drafts[d].text \in 0..MaxEdits
              /\ drafts[d].status \in DraftStatus
<1>1. drafts \in Seq(Drafts) /\ Len(drafts) <= MaxDrafts
  BY DEF CollectionsTypeInv, CollectionsTypeOK
<1>2. \A d \in DraftIds : drafts[d] \in Drafts
  BY <1>1 DEF DraftIds
<1> QED
  BY <1>1, <1>2, CollectionsAssumption DEF CollectionsAssumption, Drafts, DraftIds

LEMMA ClerkShapes ==
  ASSUME CollectionsTypeInv, NEW r \in Requests
  PROVE  /\ clerk[r] \in ClerkStates
         /\ clerk[r].step \in {"idle", "drafting", "asking", "sending", "recording",
                               "editing", "rejecting"}
         /\ clerk[r].step = "idle" <=> clerk[r] = Idle
         /\ clerk[r].step \in {"drafting", "asking"} =>
              clerk[r].row = Sweep /\ clerk[r].todo \subseteq Reminders
         /\ clerk[r].step = "asking" => clerk[r].now \in Reminders
         /\ clerk[r].step \in {"sending", "recording", "editing", "rejecting"} =>
              clerk[r].row \in 1..MaxDrafts /\ clerk[r].row \in DraftIds
         /\ clerk[r].step \in {"sending", "recording"} => clerk[r].text \in 0..MaxEdits
         /\ clerk[r].step = "recording" => clerk[r].ok \in BOOLEAN
<1>1. clerk[r] \in ClerkStates /\ ClerksOnDrafts
  BY DEF CollectionsTypeInv, CollectionsTypeOK
<1>2. Idle.step = "idle"
  BY DEF Idle
<1> QED
  BY <1>1, <1>2 DEF ClerkStates, Idle, ClerksOnDrafts

LEMMA CollectionsInitInv == CollectionsInit => CollectionsInv
<1> SUFFICES ASSUME CollectionsInit PROVE CollectionsInv
  OBVIOUS
<1>1. /\ drafts = <<>> /\ DraftIds = {} /\ Len(drafts) = 0 /\ mixed = {}
      /\ mailed = [d \in 1..MaxDrafts |-> <<>>] /\ clerk = [r \in Requests |-> Idle]
      /\ owing = Debts /\ restarted = {} /\ overdue = [i \in Debts |-> 0] /\ clerks = 0
  BY DEF CollectionsInit, NoRequests, DraftIds
<1>2. CollectionsTypeOK
  BY <1>1, CollectionsAssumption, CadenceType DEF CollectionsAssumption, CollectionsTypeOK, ClerkStates
<1>3. ClerksOnDrafts
  BY <1>1 DEF ClerksOnDrafts, Idle
<1>4. OnePendingReminder /\ ClerksAlone /\ ReminderMatchesMail /\ EditedHasText
      /\ ToneDraftedOnce /\ ReminderEscalates
  BY <1>1 DEF OnePendingReminder, ClerksAlone, ReminderMatchesMail, EditedHasText,
     ToneDraftedOnce, ReminderEscalates
<1>5. SweepsAlone
  BY <1>1 DEF SweepsAlone, WorkingOn
<1> QED
  BY <1>2, <1>3, <1>4, <1>5 DEF CollectionsInv, CollectionsTypeInv

(* A request that begins keeps the shapes. *)
LEMMA OpenType ==
  ASSUME CollectionsTypeInv, NEW r \in Requests, NEW row \in {Sweep} \cup DraftIds,
         NEW state \in ClerkStates, Open(r, row, state),
         state.step \in {"sending", "recording", "editing", "rejecting"} =>
           state.row \in DraftIds
  PROVE  CollectionsTypeInv'
<1>1. CollectionsTypeOK /\ ClerksOnDrafts
  BY DEF CollectionsTypeInv
<1>2. /\ clerk' = [clerk EXCEPT ![r] = state] /\ mixed' = MixedBy(mixed, clerk, row)
      /\ clerks < MaxClerks /\ clerks' = clerks + 1
      /\ UNCHANGED <<owing, overdue, restarted, drafts, mailed>>
  BY DEF Open, invoiceState
<1>3. MaxClerks \in Nat /\ clerks \in 0..MaxClerks
  BY <1>1, CollectionsAssumption DEF CollectionsAssumption, CollectionsTypeOK
<1>4. clerks' \in 0..MaxClerks
  BY <1>2, <1>3
<1>5. clerk' \in [Requests -> ClerkStates]
  BY <1>1, <1>2 DEF CollectionsTypeOK
<1>6. row \in {Sweep} \cup 1..MaxDrafts
  BY DraftRows
<1>7. mixed' \subseteq mixed \cup {row}
  BY <1>2, MixedByBegin
<1>8. CollectionsTypeOK'
  BY <1>1, <1>2, <1>4, <1>5, <1>6, <1>7 DEF CollectionsTypeOK
<1>9. ASSUME NEW q \in Requests,
             clerk'[q].step \in {"sending", "recording", "editing", "rejecting"}
      PROVE  clerk'[q].row \in DraftIds
  BY <1>1, <1>2, <1>9 DEF CollectionsTypeOK, ClerksOnDrafts
<1>10. DraftIds' = DraftIds
  BY <1>2 DEF DraftIds
<1>11. \A d \in 1..MaxDrafts \ DraftIds : d # Sweep
  BY DEF Sweep
<1>12. ClerksOnDrafts'
  BY <1>1, <1>2, <1>7, <1>9, <1>10, <1>11 DEF ClerksOnDrafts
<1> QED
  BY <1>8, <1>12 DEF CollectionsTypeInv

(* So does a write of a draft. *)
LEMMA WriteType ==
  ASSUME CollectionsTypeInv, NEW r \in Requests, NEW row \in Drafts,
         clerk[r].row \in DraftIds, Write(r, row)
  PROVE  CollectionsTypeInv'
<1>1. CollectionsTypeOK /\ ClerksOnDrafts
  BY DEF CollectionsTypeInv
<1>2. /\ clerk' = [clerk EXCEPT ![r] = Idle] /\ drafts' = [drafts EXCEPT ![clerk[r].row] = row]
      /\ UNCHANGED <<owing, overdue, restarted, mailed, mixed, clerks>>
  BY DEF Write, invoiceState
<1>3. drafts' \in Seq(Drafts) /\ Len(drafts') = Len(drafts) /\ DraftIds' = DraftIds
  BY <1>2, DraftRows, ChangeRow DEF DraftIds
<1>4. Idle \in ClerkStates /\ Idle.step = "idle"
  BY DEF ClerkStates, Idle
<1>5. CollectionsTypeOK'
  BY <1>1, <1>2, <1>3, <1>4 DEF CollectionsTypeOK
<1>6. ClerksOnDrafts'
  BY <1>1, <1>2, <1>3, <1>4 DEF ClerksOnDrafts, CollectionsTypeOK
<1> QED
  BY <1>5, <1>6 DEF CollectionsTypeInv

(* So does a step of a request that writes no draft. *)
LEMMA GoType ==
  ASSUME CollectionsTypeInv, NEW r \in Requests, NEW state \in ClerkStates,
         clerk' = [clerk EXCEPT ![r] = state],
         UNCHANGED <<owing, overdue, restarted, drafts, mailed, mixed, clerks>>,
         state.step \in {"sending", "recording", "editing", "rejecting"} =>
           state.row \in DraftIds
  PROVE  CollectionsTypeInv'
<1>1. CollectionsTypeOK /\ ClerksOnDrafts /\ DraftIds' = DraftIds
  BY DEF CollectionsTypeInv, DraftIds
<1>2. CollectionsTypeOK'
  BY <1>1 DEF CollectionsTypeOK
<1>3. ClerksOnDrafts'
  BY <1>1 DEF ClerksOnDrafts, CollectionsTypeOK
<1> QED
  BY <1>2, <1>3 DEF CollectionsTypeInv

InvoiceStep == \E i \in Debts : DaysPass(i) \/ InvoiceSent(i) \/ InvoiceSettled(i)

SweepStep(r) == SweepSelect(r) \/ SweepRead(r) \/ SweepInsert(r) \/ SweepFails(r)

StaffStep(r) ==
  \/ \E d \in DraftIds : ApproveRead(r, d) \/ EditRead(r, d) \/ RejectRead(r, d)
  \/ ApproveSend(r) \/ ApproveWrite(r) \/ ApproveStops(r)
  \/ EditWrite(r) \/ RejectWrite(r)

LEMMA CollectionsSteps ==
  CollectionsNext <=> InvoiceStep \/ \E r \in Requests : SweepStep(r) \/ StaffStep(r)
BY DEF CollectionsNext, InvoiceStep, SweepStep, StaffStep

LEMMA InvoiceStepType ==
  ASSUME CollectionsTypeInv, InvoiceStep
  PROVE  CollectionsTypeInv'
<1>1. CollectionsTypeOK /\ ClerksOnDrafts
  BY DEF CollectionsTypeInv
<1>2. PICK i \in Debts : DaysPass(i) \/ InvoiceSent(i) \/ InvoiceSettled(i)
  BY DEF InvoiceStep
<1>3. /\ owing' \subseteq Debts /\ restarted' \subseteq Debts
      /\ overdue' \in [Debts -> DayMarks]
      /\ UNCHANGED <<drafts, mailed, clerk, mixed, clerks>>
  BY <1>1, <1>2 DEF CollectionsTypeOK, DaysPass, InvoiceSent, InvoiceSettled, DayMarks
<1>4. CollectionsTypeOK'
  BY <1>1, <1>3 DEF CollectionsTypeOK
<1>5. ClerksOnDrafts'
  BY <1>1, <1>3 DEF ClerksOnDrafts, DraftIds
<1> QED
  BY <1>4, <1>5 DEF CollectionsTypeInv

LEMMA SweepRestType ==
  ASSUME NEW todo \in SUBSET Reminders
  PROVE  SweepRest(todo) \in ClerkStates /\ SweepRest(todo).step \in {"idle", "drafting"}
BY DEF SweepRest, ClerkStates, Idle

LEMMA SweepStepType ==
  ASSUME CollectionsTypeInv, NEW r \in Requests, SweepStep(r)
  PROVE  CollectionsTypeInv'
<1>1. CollectionsTypeOK /\ ClerksOnDrafts
  BY DEF CollectionsTypeInv
<1>2. Idle \in ClerkStates /\ Idle.step = "idle"
  BY DEF ClerkStates, Idle
<1>3. CASE SweepSelect(r)
  <2>1. SelectAged \in SUBSET Reminders
    BY DEF SelectAged
  <2> DEFINE state == [step |-> "drafting", row |-> Sweep, todo |-> SelectAged]
  <2>2. state \in ClerkStates /\ state.step = "drafting"
    BY <2>1 DEF ClerkStates
  <2>3. Open(r, Sweep, state)
    BY <1>3 DEF SweepSelect
  <2> HIDE DEF state
  <2> QED
    BY <2>2, <2>3, OpenType
<1>4. CASE SweepRead(r)
  <2>1. PICK m \in clerk[r].todo :
          clerk' = [clerk EXCEPT ![r] =
                      IF PendingFor(m) # {} THEN SweepRest(@.todo \ {m})
                      ELSE [step |-> "asking", row |-> Sweep,
                            todo |-> @.todo \ {m}, now |-> m]]
    BY <1>4 DEF SweepRead
  <2> DEFINE rest == clerk[r].todo \ {m}
             ask == [step |-> "asking", row |-> Sweep, todo |-> rest, now |-> m]
             state == IF PendingFor(m) # {} THEN SweepRest(rest) ELSE ask
  <2>2. clerk[r].todo \subseteq Reminders
    BY <1>4, ClerkShapes DEF SweepRead
  <2>3. ask \in ClerkStates /\ ask.step = "asking"
    BY <2>2 DEF ClerkStates
  <2>4. SweepRest(rest) \in ClerkStates /\ SweepRest(rest).step \in {"idle", "drafting"}
    BY <2>2, SweepRestType
  <2>5. clerk' = [clerk EXCEPT ![r] = state]
    BY <2>1
  <2> HIDE DEF ask
  <2>6. state \in ClerkStates /\ state.step \in {"idle", "drafting", "asking"}
    BY <2>3, <2>4
  <2> HIDE DEF state
  <2> QED
    BY <1>4, <2>5, <2>6, GoType DEF SweepRead, invoiceState
<1>5. CASE SweepInsert(r) /\ PendingFor(clerk[r].now) # {}
  BY <1>2, <1>5, GoType DEF SweepInsert, invoiceState
<1>6. CASE SweepFails(r)
  BY <1>2, <1>6, GoType DEF SweepFails, invoiceState
<1>7. CASE SweepInsert(r) /\ PendingFor(clerk[r].now) = {}
  <2> DEFINE m == clerk[r].now
             row == [invoice |-> m.invoice, tone |-> m.tone, status |-> "pending", text |-> 0]
             state == SweepRest(clerk[r].todo)
  <2>1. clerk[r].todo \subseteq Reminders /\ m \in Reminders
    BY <1>7, ClerkShapes DEF SweepInsert
  <2>2. /\ clerk' = [clerk EXCEPT ![r] = state] /\ drafts' = Append(drafts, row)
        /\ Len(drafts) < MaxDrafts
        /\ UNCHANGED <<owing, overdue, restarted, mailed, mixed, clerks>>
    BY <1>7 DEF SweepInsert, invoiceState
  <2>3. row \in Drafts
    BY <2>1, DraftRows DEF Reminders, Drafts, DraftStatus
  <2>4. state \in ClerkStates /\ state.step \in {"idle", "drafting"}
    BY <2>1, SweepRestType
  <2> HIDE DEF row, state, m
  <2>5. /\ drafts' \in Seq(Drafts) /\ Len(drafts') = Len(drafts) + 1
        /\ DraftIds' = DraftIds \cup {Len(drafts) + 1}
    BY <2>2, <2>3, DraftRows, AppendRow DEF DraftIds
  <2>6. CollectionsTypeOK'
    BY <1>1, <2>2, <2>4, <2>5, DraftRows DEF CollectionsTypeOK
  <2>7. ClerksOnDrafts'
    BY <1>1, <2>2, <2>4, <2>5 DEF ClerksOnDrafts, CollectionsTypeOK
  <2> QED
    BY <2>6, <2>7 DEF CollectionsTypeInv
<1> QED
  BY <1>3, <1>4, <1>5, <1>6, <1>7 DEF SweepStep

LEMMA EditedRow ==
  ASSUME NEW old \in Drafts, NEW t \in Tones, NEW n \in 1..MaxEdits,
         NEW row, row = [old EXCEPT !.status = "edited", !.tone = t, !.text = n]
  PROVE  row \in Drafts /\ row.invoice = old.invoice /\ row.text # 0 /\ row.status = "edited"
<1> DEFINE c == [invoice |-> old.invoice, tone |-> t, status |-> "edited", text |-> n]
<1>1. MaxEdits \in Nat
  BY CollectionsAssumption DEF CollectionsAssumption
<1>2. n \in 0..MaxEdits /\ n # 0
  BY <1>1
<1>3. c \in Drafts
  BY <1>2 DEF Drafts, DraftStatus
<1> DEFINE a == [invoice |-> old.invoice, tone |-> old.tone, status |-> "edited",
                 text |-> old.text]
           b == [invoice |-> old.invoice, tone |-> t, status |-> "edited", text |-> old.text]
<1>4. [old EXCEPT !.status = "edited"] = a
  BY DEF Drafts
<1>5. [a EXCEPT !.tone = t] = b
  OBVIOUS
<1>6. [b EXCEPT !.text = n] = c
  OBVIOUS
<1>7. row = c
  BY <1>4, <1>5, <1>6
<1> QED
  BY <1>2, <1>3, <1>7

LEMMA StaffStepType ==
  ASSUME CollectionsTypeInv, NEW r \in Requests, StaffStep(r)
  PROVE  CollectionsTypeInv'
<1>1. CollectionsTypeOK /\ ClerksOnDrafts
  BY DEF CollectionsTypeInv
<1>2. Idle \in ClerkStates /\ Idle.step = "idle"
  BY DEF ClerkStates, Idle
<1>3. ASSUME NEW d \in DraftIds, ApproveRead(r, d) \/ EditRead(r, d) \/ RejectRead(r, d)
      PROVE  CollectionsTypeInv'
  <2>1. d \in 1..MaxDrafts /\ drafts[d].text \in 0..MaxEdits
    BY DraftRows
  <2>2. PICK state : /\ Open(r, d, state) /\ state.row = d
                     /\ state \in ClerkStates
    BY <1>3, <2>1 DEF ApproveRead, EditRead, RejectRead, ClerkStates
  <2> QED
    BY <2>2, OpenType
<1>4. CASE ApproveSend(r)
  <2>1. PICK ok \in BOOLEAN :
          /\ ok => Len(mailed[clerk[r].row]) < MaxMails
          /\ clerk' = [clerk EXCEPT ![r] =
                         [step |-> "recording", row |-> @.row, text |-> @.text, ok |-> ok]]
          /\ mailed' = IF ok THEN [mailed EXCEPT ![clerk[r].row] = Append(@, clerk[r].text)]
                       ELSE mailed
    BY <1>4 DEF ApproveSend
  <2> DEFINE d == clerk[r].row
             state == [step |-> "recording", row |-> d, text |-> clerk[r].text, ok |-> ok]
  <2>2. d \in 1..MaxDrafts /\ d \in DraftIds /\ clerk[r].text \in 0..MaxEdits
    BY <1>4, ClerkShapes DEF ApproveSend
  <2>3. state \in ClerkStates /\ state.row = d
    BY <2>2 DEF ClerkStates
  <2>4. clerk' = [clerk EXCEPT ![r] = state]
    BY <2>1
  <2> HIDE DEF d, state
  <2>5. UNCHANGED <<owing, overdue, restarted, drafts, mixed, clerks>> /\ DraftIds' = DraftIds
    BY <1>4 DEF ApproveSend, invoiceState, DraftIds
  <2>6. mailed' \in [1..MaxDrafts -> Seq(0..MaxEdits)]
        /\ \A e \in 1..MaxDrafts \ DraftIds : mailed'[e] = mailed[e]
    <3>1. mailed \in [1..MaxDrafts -> Seq(0..MaxEdits)] /\ mailed[d] \in Seq(0..MaxEdits)
      BY <1>1, <2>2 DEF CollectionsTypeOK
    <3>2. Append(mailed[d], clerk[r].text) \in Seq(0..MaxEdits)
      BY <2>2, <3>1, AppendRow
    <3>3. mailed' = [mailed EXCEPT ![d] = Append(mailed[d], clerk[r].text)] \/ mailed' = mailed
      BY <2>1 DEF d
    <3> QED
      BY <2>2, <3>1, <3>2, <3>3
  <2>7. CollectionsTypeOK'
    BY <1>1, <2>3, <2>4, <2>5, <2>6 DEF CollectionsTypeOK
  <2>8. ClerksOnDrafts'
    BY <1>1, <2>2, <2>3, <2>4, <2>5, <2>6 DEF ClerksOnDrafts, CollectionsTypeOK
  <2> QED
    BY <2>7, <2>8 DEF CollectionsTypeInv
<1>5. CASE ApproveWrite(r) \/ EditWrite(r) \/ RejectWrite(r)
  <2>1. clerk[r].row \in DraftIds /\ drafts[clerk[r].row] \in Drafts
    BY <1>5, ClerkShapes, DraftRows DEF ApproveWrite, EditWrite, RejectWrite
  <2>2. PICK row \in Drafts : Write(r, row)
    <3> DEFINE old == drafts[clerk[r].row]
    <3>1. \A status \in DraftStatus : [old EXCEPT !.status = status] \in Drafts
      BY <2>1 DEF Drafts
    <3>2. \A t \in Tones, n \in 1..MaxEdits :
            [old EXCEPT !.status = "edited", !.tone = t, !.text = n] \in Drafts
      BY <2>1, EditedRow
    <3>3. CASE ApproveWrite(r)
      BY <3>1, <3>3 DEF ApproveWrite, DraftStatus
    <3>4. CASE EditWrite(r)
      BY <3>2, <3>4 DEF EditWrite
    <3>5. CASE RejectWrite(r)
      BY <3>1, <3>5 DEF RejectWrite, DraftStatus
    <3> QED
      BY <1>5, <3>3, <3>4, <3>5
  <2> QED
    BY <2>1, <2>2, WriteType
<1>6. CASE ApproveStops(r)
  <2>1. clerk[r].row \in DraftIds /\ clerk[r].row \in 1..MaxDrafts
    BY <1>6, ClerkShapes DEF ApproveStops
  <2>2. /\ clerk' = [clerk EXCEPT ![r] = Idle] /\ mixed' = mixed \cup {clerk[r].row}
        /\ UNCHANGED <<owing, overdue, restarted, drafts, mailed, clerks>>
    BY <1>6 DEF ApproveStops, invoiceState
  <2>3. CollectionsTypeOK'
    BY <1>1, <1>2, <2>1, <2>2 DEF CollectionsTypeOK
  <2>4. ClerksOnDrafts'
    BY <1>1, <1>2, <2>1, <2>2 DEF ClerksOnDrafts, CollectionsTypeOK, DraftIds
  <2> QED
    BY <2>3, <2>4 DEF CollectionsTypeInv
<1> QED
  BY <1>3, <1>4, <1>5, <1>6 DEF StaffStep

(* What a step does to the drafts: it appends a pending one where no other   *)
(* of the same invoice and tone is pending, or it writes one, whose status   *)
(* is then anything but pending.                                            *)
DraftsGrow(row) ==
  /\ drafts' = Append(drafts, row) /\ row \in Drafts
  /\ row.status = "pending" /\ row.text = 0
  /\ \A d \in DraftIds :
       drafts[d].invoice = row.invoice /\ drafts[d].tone = row.tone =>
         drafts[d].status # "pending"

DraftChanges(d, row) ==
  /\ drafts' = [drafts EXCEPT ![d] = row] /\ row \in Drafts
  /\ row.status # "pending" /\ row.invoice = drafts[d].invoice
  /\ row.status = "edited" => row.text # 0
  /\ row.text = 0 => row.text = drafts[d].text /\ row.tone = drafts[d].tone

LEMMA SweepStepDrafts ==
  ASSUME CollectionsTypeInv, NEW r \in Requests, SweepStep(r)
  PROVE  \/ UNCHANGED drafts
         \/ /\ SweepInsert(r) /\ clerk' = [clerk EXCEPT ![r] = SweepRest(clerk[r].todo)]
            /\ \E row : DraftsGrow(row) /\ row.invoice = clerk[r].now.invoice
                        /\ row.tone = clerk[r].now.tone
<1>1. CASE SweepInsert(r) /\ PendingFor(clerk[r].now) = {}
  <2> DEFINE m == clerk[r].now
             row == [invoice |-> m.invoice, tone |-> m.tone, status |-> "pending", text |-> 0]
  <2>1. m \in Reminders
    BY <1>1, ClerkShapes DEF SweepInsert
  <2>2. drafts' = Append(drafts, row) /\ clerk' = [clerk EXCEPT ![r] = SweepRest(clerk[r].todo)]
    BY <1>1 DEF SweepInsert
  <2>3. row \in Drafts /\ row.status = "pending" /\ row.text = 0
        /\ row.invoice = m.invoice /\ row.tone = m.tone
    BY <2>1, DraftRows DEF Reminders, Drafts, DraftStatus
  <2>4. \A d \in DraftIds :
          drafts[d].invoice = m.invoice /\ drafts[d].tone = m.tone =>
            drafts[d].status # "pending"
    BY <1>1 DEF PendingFor, DraftsOf
  <2> HIDE DEF row, m
  <2>5. DraftsGrow(row)
    BY <2>2, <2>3, <2>4 DEF DraftsGrow
  <2> QED
    BY <1>1, <2>2, <2>3, <2>5 DEF m
<1>2. CASE SweepInsert(r) /\ PendingFor(clerk[r].now) # {}
  BY <1>2 DEF SweepInsert
<1> QED
  BY <1>1, <1>2 DEF SweepStep, SweepSelect, SweepRead, SweepFails, Open

LEMMA StaffWrites ==
  ASSUME CollectionsTypeInv, NEW r \in Requests,
         ApproveWrite(r) \/ EditWrite(r) \/ RejectWrite(r)
  PROVE  /\ clerk[r].row \in DraftIds /\ clerk' = [clerk EXCEPT ![r] = Idle]
         /\ UNCHANGED <<owing, overdue, restarted, mailed, mixed>>
         /\ \E row : /\ DraftChanges(clerk[r].row, row)
                     /\ ApproveWrite(r) =>
                          /\ row.text = drafts[clerk[r].row].text
                          /\ row.status = IF clerk[r].ok THEN "sent" ELSE "failed"
                     /\ ~ApproveWrite(r) => row.status \in {"edited", "rejected"}
<1> DEFINE old == drafts[clerk[r].row]
<1>1. ASSUME ApproveWrite(r) \/ EditWrite(r) \/ RejectWrite(r)
      PROVE  clerk[r].row \in DraftIds /\ old \in Drafts
  BY <1>1, ClerkShapes, DraftRows DEF ApproveWrite, EditWrite, RejectWrite
<1>2. CASE ApproveWrite(r)
  <2> DEFINE row == [old EXCEPT !.status = IF clerk[r].ok THEN "sent" ELSE "failed"]
  <2>1. row \in Drafts /\ row.invoice = old.invoice /\ row.text = old.text
        /\ row.tone = old.tone /\ row.status = IF clerk[r].ok THEN "sent" ELSE "failed"
    BY <1>1, <1>2 DEF Drafts, DraftStatus
  <2>2. Write(r, row)
    BY <1>2 DEF ApproveWrite
  <2> HIDE DEF row
  <2>3. DraftChanges(clerk[r].row, row)
    BY <2>1, <2>2 DEF Write, DraftChanges
  <2> QED
    BY <1>1, <1>2, <2>1, <2>2, <2>3 DEF Write, invoiceState
<1>3. CASE RejectWrite(r)
  <2> DEFINE row == [old EXCEPT !.status = "rejected"]
  <2>1. row \in Drafts /\ row.invoice = old.invoice /\ row.text = old.text
        /\ row.tone = old.tone /\ row.status = "rejected"
    BY <1>1, <1>3 DEF Drafts, DraftStatus
  <2>2. Write(r, row) /\ ~ApproveWrite(r)
    BY <1>3 DEF RejectWrite, ApproveWrite
  <2> HIDE DEF row
  <2>3. DraftChanges(clerk[r].row, row)
    BY <2>1, <2>2 DEF Write, DraftChanges
  <2> QED
    BY <1>1, <1>3, <2>1, <2>2, <2>3 DEF Write, invoiceState
<1>4. CASE EditWrite(r)
  <2>1. old \in Drafts
    BY <1>1, <1>4
  <2>2. \A t \in Tones, n \in 1..MaxEdits : \A row :
          row = [old EXCEPT !.status = "edited", !.tone = t, !.text = n] =>
            row \in Drafts /\ row.invoice = old.invoice /\ row.text # 0
            /\ row.status = "edited"
    BY <2>1, EditedRow
  <2>3. PICK t \in Tones, n \in 1..MaxEdits :
          Write(r, [old EXCEPT !.status = "edited", !.tone = t, !.text = n])
    BY <1>4 DEF EditWrite
  <2>4. PICK row : Write(r, row) /\ row \in Drafts /\ row.invoice = old.invoice
                   /\ row.text # 0 /\ row.status = "edited"
    BY <2>2, <2>3
  <2>5. ~ApproveWrite(r)
    BY <1>4 DEF EditWrite, ApproveWrite
  <2>6. DraftChanges(clerk[r].row, row)
    BY <2>4 DEF Write, DraftChanges
  <2> QED
    BY <1>1, <1>4, <2>4, <2>5, <2>6 DEF Write, invoiceState
<1> QED
  BY <1>2, <1>3, <1>4

LEMMA StaffStepDrafts ==
  ASSUME CollectionsTypeInv, NEW r \in Requests, StaffStep(r)
  PROVE  UNCHANGED drafts \/ \E row : DraftChanges(clerk[r].row, row) /\ clerk[r].row \in DraftIds
<1>1. CASE ApproveWrite(r) \/ EditWrite(r) \/ RejectWrite(r)
  BY <1>1, StaffWrites
<1>2. CASE \E d \in DraftIds : ApproveRead(r, d) \/ EditRead(r, d) \/ RejectRead(r, d)
  BY <1>2 DEF ApproveRead, EditRead, RejectRead, Open
<1> QED
  BY <1>1, <1>2 DEF StaffStep, ApproveSend, ApproveStops

LEMMA GrowFacts ==
  ASSUME CollectionsTypeInv, NEW row, DraftsGrow(row)
  PROVE  /\ DraftIds' = DraftIds \cup {Len(drafts) + 1}
         /\ Len(drafts) + 1 \notin DraftIds
         /\ \A d \in DraftIds : drafts'[d] = drafts[d] /\ d < Len(drafts) + 1
         /\ drafts'[Len(drafts) + 1] = row
<1>1. drafts \in Seq(Drafts) /\ row \in Drafts /\ drafts' = Append(drafts, row)
      /\ DraftIds = 1..Len(drafts) /\ Len(drafts) \in Nat
  BY DraftRows DEF DraftsGrow
<1> QED
  BY <1>1, AppendRow DEF DraftIds

LEMMA ChangeFacts ==
  ASSUME CollectionsTypeInv, NEW d \in DraftIds, NEW row, DraftChanges(d, row)
  PROVE  /\ DraftIds' = DraftIds
         /\ \A e \in DraftIds : drafts'[e] = IF e = d THEN row ELSE drafts[e]
<1>1. drafts \in Seq(Drafts) /\ row \in Drafts /\ drafts' = [drafts EXCEPT ![d] = row]
  BY DraftRows DEF DraftChanges
<1> QED
  BY <1>1, ChangeRow DEF DraftIds

LEMMA CollectionsStepPending ==
  ASSUME CollectionsTypeInv, OnePendingReminder, EditedHasText, CollectionsNext
  PROVE  OnePendingReminder' /\ EditedHasText'
<1>1. ASSUME UNCHANGED drafts
      PROVE  OnePendingReminder' /\ EditedHasText'
  BY <1>1 DEF OnePendingReminder, EditedHasText, DraftIds
<1>2. ASSUME NEW row, DraftsGrow(row)
      PROVE  OnePendingReminder' /\ EditedHasText'
  <2>1. /\ row.status = "pending"
        /\ \A d \in DraftIds :
             drafts[d].invoice = row.invoice /\ drafts[d].tone = row.tone =>
               drafts[d].status # "pending"
    BY <1>2 DEF DraftsGrow
  <2> QED
    BY <1>2, <2>1, GrowFacts DEF OnePendingReminder, EditedHasText
<1>3. ASSUME NEW d \in DraftIds, NEW row, DraftChanges(d, row)
      PROVE  OnePendingReminder' /\ EditedHasText'
  <2>1. row.status # "pending" /\ (row.status = "edited" => row.text # 0)
    BY <1>3 DEF DraftChanges
  <2> QED
    BY <1>3, <2>1, ChangeFacts DEF OnePendingReminder, EditedHasText
<1>4. CASE InvoiceStep
  BY <1>1, <1>4 DEF InvoiceStep, DaysPass, InvoiceSent, InvoiceSettled
<1> QED
  BY <1>1, <1>2, <1>3, <1>4, CollectionsSteps, SweepStepDrafts, StaffStepDrafts

(* What ClerksAlone and ReminderMatchesMail say of one draft. *)
AloneOn(d) ==
  /\ \A r \in WorkingOn(clerk, d) :
       /\ \A s \in WorkingOn(clerk, d) : s = r
       /\ Actionable(d)
       /\ clerk[r].step \in {"sending", "recording"} => clerk[r].text = drafts[d].text
       /\ mailed[d] = IF clerk[r].step = "recording" /\ clerk[r].ok
                      THEN <<drafts[d].text>> ELSE <<>>
  /\ WorkingOn(clerk, d) = {} =>
       mailed[d] = IF drafts[d].status = "sent" THEN <<drafts[d].text>> ELSE <<>>

LEMMA AloneOnEach ==
  ClerksAlone /\ ReminderMatchesMail <=> \A d \in DraftIds \ mixed : AloneOn(d)
BY DEF ClerksAlone, ReminderMatchesMail, AloneOn

LEMMA AloneOnEachAfter ==
  ASSUME \A d \in DraftIds' \ mixed' : AloneOn(d)'
  PROVE  ClerksAlone' /\ ReminderMatchesMail'
BY DEF ClerksAlone, ReminderMatchesMail, AloneOn

(* A step elsewhere leaves a draft as it is. *)
SameOn(d) ==
  /\ WorkingOn(clerk, d)' = WorkingOn(clerk, d)
  /\ \A r \in WorkingOn(clerk, d) : clerk'[r] = clerk[r]
  /\ drafts'[d] = drafts[d] /\ mailed'[d] = mailed[d]

LEMMA SameStaysAlone ==
  ASSUME NEW d, AloneOn(d), SameOn(d)
  PROVE  AloneOn(d)'
BY DEF AloneOn, SameOn, Actionable

LEMMA SweepStepAlone ==
  ASSUME CollectionsTypeInv, ClerksAlone, ReminderMatchesMail,
         NEW r \in Requests, SweepStep(r)
  PROVE  ClerksAlone' /\ ReminderMatchesMail'
<1>1. /\ DOMAIN clerk = Requests /\ MaxDrafts \in Nat /\ Len(drafts) \in Nat
      /\ DraftIds = 1..Len(drafts) /\ Sweep \notin DraftIds /\ Len(drafts) + 1 # Sweep
  BY DraftRows DEF CollectionsTypeInv, CollectionsTypeOK, Sweep
<1>2. Idle.step = "idle"
  BY DEF Idle
<1>3. PICK state : /\ clerk' = [clerk EXCEPT ![r] = state]
                   /\ state = Idle \/ state.row = Sweep
                   /\ clerk[r] = Idle \/ clerk[r].row = Sweep
  <2>1. CASE SweepSelect(r)
    BY <2>1 DEF SweepSelect, Open
  <2>2. CASE SweepRead(r)
    <3>1. clerk[r].row = Sweep
      BY <2>2, ClerkShapes DEF SweepRead
    <3> QED
      BY <2>2, <3>1 DEF SweepRead, SweepRest
  <2>3. CASE SweepInsert(r)
    <3>1. clerk[r].row = Sweep
      BY <2>3, ClerkShapes DEF SweepInsert
    <3> QED
      BY <2>3, <3>1 DEF SweepInsert, SweepRest
  <2>4. CASE SweepFails(r)
    <3>1. clerk[r].row = Sweep
      BY <2>4, ClerkShapes DEF SweepFails
    <3> QED
      BY <2>4, <3>1 DEF SweepFails
  <2> QED
    BY <2>1, <2>2, <2>3, <2>4 DEF SweepStep
<1>4. mixed \subseteq mixed' /\ UNCHANGED mailed
  BY MixedByBegin DEF SweepStep, SweepSelect, SweepRead, SweepInsert, SweepFails, Open
<1>5. ASSUME NEW d, d # Sweep
      PROVE  /\ WorkingOn(clerk, d)' = WorkingOn(clerk, d)
             /\ \A q \in WorkingOn(clerk, d) : clerk'[q] = clerk[q]
  BY <1>1, <1>3, <1>5 DEF WorkingOn
<1>6. ASSUME NEW d \in DraftIds \ mixed, drafts'[d] = drafts[d]
      PROVE  AloneOn(d)'
  <2>1. SameOn(d)
    BY <1>1, <1>4, <1>5, <1>6 DEF SameOn
  <2> QED
    BY <2>1, AloneOnEach, SameStaysAlone
<1>7. CASE UNCHANGED drafts
  BY <1>4, <1>6, <1>7, AloneOnEachAfter DEF DraftIds
<1>8. ASSUME NEW row, DraftsGrow(row)
      PROVE  \A d \in DraftIds' \ mixed' : AloneOn(d)'
  <2>1. PICK n : n = Len(drafts) + 1
    OBVIOUS
  <2>2. /\ DraftIds' = DraftIds \cup {n} /\ n \notin DraftIds /\ drafts'[n] = row
        /\ \A d \in DraftIds : drafts'[d] = drafts[d]
    BY <1>8, <2>1, GrowFacts
  <2>3. ASSUME n \in 1..MaxDrafts
        PROVE  AloneOn(n)'
    <3>1. mailed[n] = <<>>
      BY <2>2, <2>3 DEF CollectionsTypeInv, ClerksOnDrafts
    <3>2. WorkingOn(clerk, n) = {}
      BY <1>1, <2>1, <2>2, ClerkShapes DEF WorkingOn
    <3>3. WorkingOn(clerk', n) = {}
      BY <1>1, <1>5, <2>1, <3>2
    <3>4. drafts'[n].status # "sent"
      BY <1>8, <2>2 DEF DraftsGrow
    <3> QED
      BY <1>4, <3>1, <3>3, <3>4 DEF AloneOn
  <2>4. n \in 1..MaxDrafts
    <3>1. CollectionsTypeInv'
      BY SweepStepType
    <3>2. DraftIds' = 1..Len(drafts') /\ Len(drafts') <= MaxDrafts /\ Len(drafts') \in Nat
      BY <3>1, DraftRows DEF CollectionsTypeInv, CollectionsTypeOK, DraftIds
    <3> QED
      BY <1>1, <2>2, <3>2
  <2> QED
    BY <1>4, <1>6, <2>2, <2>3, <2>4
<1> QED
  BY <1>7, <1>8, SweepStepDrafts, AloneOnEachAfter

LEMMA StaffStepAlone ==
  ASSUME CollectionsTypeInv, ClerksAlone, ReminderMatchesMail,
         NEW r \in Requests, StaffStep(r)
  PROVE  ClerksAlone' /\ ReminderMatchesMail'
<1>1. /\ DOMAIN clerk = Requests /\ DraftIds = 1..Len(drafts) /\ Len(drafts) \in Nat
      /\ DraftIds \subseteq 1..MaxDrafts /\ MaxDrafts \in Nat
      /\ mailed \in [1..MaxDrafts -> Seq(0..MaxEdits)]
  BY DraftRows DEF CollectionsTypeInv, CollectionsTypeOK
<1>2. Idle.step = "idle"
  BY DEF Idle
<1>4. \A d \in DraftIds \ mixed : AloneOn(d)
  BY AloneOnEach
<1>5. ASSUME NEW d \in DraftIds, ApproveRead(r, d) \/ EditRead(r, d) \/ RejectRead(r, d)
      PROVE  \A e \in DraftIds' \ mixed' : AloneOn(e)'
  <2>1. PICK state : /\ Open(r, d, state) /\ state.row = d /\ Actionable(d)
                     /\ state.step \in {"sending", "editing", "rejecting"}
                     /\ state.step = "sending" => state.text = drafts[d].text
    BY <1>5 DEF ApproveRead, EditRead, RejectRead
  <2>2. /\ clerk[r] = Idle /\ mixed' = MixedBy(mixed, clerk, d) /\ UNCHANGED <<drafts, mailed>>
        /\ clerk' = [clerk EXCEPT ![r] = state] /\ state # Idle /\ DraftIds' = DraftIds
    BY <1>2, <2>1 DEF Open, DraftIds
  <2>3. ASSUME NEW e \in DraftIds \ mixed, e # d
        PROVE  AloneOn(e)'
    <3>1. SameOn(e)
      BY <1>1, <2>1, <2>2, <2>3 DEF SameOn, WorkingOn
    <3> QED
      BY <1>4, <3>1, SameStaysAlone
  <2>4. ASSUME d \notin mixed'
        PROVE  AloneOn(d)'
    <3>1. d \notin mixed /\ WorkingOn(clerk, d) = {}
      BY <2>2, <2>4 DEF MixedBy
    <3>2. mailed[d] = <<>>
      BY <1>4, <2>1, <3>1 DEF AloneOn, Actionable
    <3>3. WorkingOn(clerk', d) = {r} /\ clerk'[r] = state
      BY <1>1, <2>1, <2>2, <3>1 DEF WorkingOn
    <3>4. Actionable(d)'
      BY <2>1, <2>2 DEF Actionable
    <3> QED
      BY <2>1, <2>2, <3>2, <3>3, <3>4 DEF AloneOn
  <2> QED
    BY <2>2, <2>3, <2>4, MixedByBegin
<1>12. PICK d : d = clerk[r].row
  OBVIOUS
<1>6. ASSUME ApproveSend(r) \/ ApproveWrite(r) \/ ApproveStops(r) \/ EditWrite(r) \/ RejectWrite(r)
      PROVE  /\ d \in DraftIds /\ r \in WorkingOn(clerk, d)
             /\ clerk[r].step \in {"sending", "recording", "editing", "rejecting"}
  BY <1>1, <1>2, <1>6, <1>12, ClerkShapes DEF WorkingOn, ApproveSend, ApproveWrite, ApproveStops,
     EditWrite, RejectWrite
<1>7. ASSUME ApproveSend(r) \/ ApproveWrite(r) \/ ApproveStops(r) \/ EditWrite(r) \/ RejectWrite(r),
             d \notin mixed
      PROVE  /\ WorkingOn(clerk, d) = {r} /\ Actionable(d)
             /\ clerk[r].step \in {"sending", "recording"} => clerk[r].text = drafts[d].text
             /\ mailed[d] = IF clerk[r].step = "recording" /\ clerk[r].ok
                            THEN <<drafts[d].text>> ELSE <<>>
  BY <1>4, <1>6, <1>7 DEF AloneOn
<1>8. ASSUME NEW state, clerk' = [clerk EXCEPT ![r] = state],
             r \in WorkingOn(clerk, d), state = Idle \/ state.row = d,
             NEW e \in DraftIds \ mixed, e # d,
             drafts'[e] = drafts[e], mailed'[e] = mailed[e]
      PROVE  AloneOn(e)'
  <2>1. SameOn(e)
    BY <1>1, <1>8 DEF SameOn, WorkingOn
  <2> QED
    BY <1>4, <2>1, SameStaysAlone
<1>9. ASSUME ApproveSend(r) PROVE \A e \in DraftIds' \ mixed' : AloneOn(e)'
  <2>6. PICK ok \in BOOLEAN :
          /\ clerk' = [clerk EXCEPT ![r] =
                         [step |-> "recording", row |-> @.row, text |-> @.text, ok |-> ok]]
          /\ mailed' = IF ok THEN [mailed EXCEPT ![clerk[r].row] = Append(@, clerk[r].text)]
                       ELSE mailed
    BY <1>9 DEF ApproveSend
  <2>7. PICK state : state = [step |-> "recording", row |-> d, text |-> clerk[r].text,
                              ok |-> ok]
    OBVIOUS
  <2>1. /\ clerk' = [clerk EXCEPT ![r] = state]
        /\ state.step = "recording" /\ state.row = d /\ state.text = clerk[r].text
        /\ state.ok = ok
        /\ mailed' = IF ok THEN [mailed EXCEPT ![d] = Append(@, clerk[r].text)] ELSE mailed
    BY <1>12, <2>6, <2>7
  <2>2. UNCHANGED <<drafts, mixed>> /\ DraftIds' = DraftIds /\ state # Idle
    BY <1>2, <1>9, <2>1 DEF ApproveSend, DraftIds
  <2>3. d \in DraftIds /\ r \in WorkingOn(clerk, d) /\ clerk[r].step = "sending"
    BY <1>6, <1>9 DEF ApproveSend
  <2>4. ASSUME NEW e \in DraftIds \ mixed, e # d
        PROVE  AloneOn(e)'
    <3>1. drafts'[e] = drafts[e] /\ mailed'[e] = mailed[e]
      BY <1>1, <2>1, <2>2, <2>4
    <3> QED
      BY <1>8, <2>1, <2>3, <2>4, <3>1
  <2>5. ASSUME d \notin mixed
        PROVE  AloneOn(d)'
    <3>1. /\ WorkingOn(clerk, d) = {r} /\ Actionable(d)
          /\ clerk[r].text = drafts[d].text /\ mailed[d] = <<>>
      BY <1>7, <1>9, <2>3, <2>5
    <3>2. WorkingOn(clerk', d) = {r} /\ clerk'[r] = state
      BY <1>1, <2>1, <2>2, <2>3, <3>1 DEF WorkingOn
    <3>3. mailed'[d] = IF ok THEN <<drafts[d].text>> ELSE <<>>
      BY <1>1, <2>1, <2>3, <3>1
    <3>4. Actionable(d)'
      BY <2>2, <3>1 DEF Actionable
    <3> QED
      BY <2>1, <2>2, <3>1, <3>2, <3>3, <3>4 DEF AloneOn
  <2> QED
    BY <2>2, <2>4, <2>5
<1>10. ASSUME ApproveWrite(r) \/ EditWrite(r) \/ RejectWrite(r)
       PROVE  \A e \in DraftIds' \ mixed' : AloneOn(e)'
  <2>1. /\ d \in DraftIds /\ r \in WorkingOn(clerk, d)
        /\ clerk' = [clerk EXCEPT ![r] = Idle] /\ UNCHANGED <<mailed, mixed>>
    BY <1>6, <1>10, <1>12, StaffWrites
  <2>2. PICK row : /\ DraftChanges(d, row)
                   /\ ApproveWrite(r) =>
                        /\ row.text = drafts[d].text
                        /\ row.status = IF clerk[r].ok THEN "sent" ELSE "failed"
                   /\ ~ApproveWrite(r) => row.status \in {"edited", "rejected"}
    BY <1>10, <1>12, StaffWrites
  <2>3. DraftIds' = DraftIds
        /\ \A e \in DraftIds : drafts'[e] = IF e = d THEN row ELSE drafts[e]
    BY <2>1, <2>2, ChangeFacts
  <2>4. /\ ApproveWrite(r) => clerk[r].step = "recording"
        /\ ~ApproveWrite(r) => clerk[r].step \in {"editing", "rejecting"}
    BY <1>10 DEF ApproveWrite, EditWrite, RejectWrite
  <2>5. ASSUME d \notin mixed
        PROVE  AloneOn(d)'
    <3>1. /\ WorkingOn(clerk, d) = {r} /\ Actionable(d)
          /\ clerk[r].step = "recording" => clerk[r].text = drafts[d].text
          /\ mailed[d] = IF clerk[r].step = "recording" /\ clerk[r].ok
                         THEN <<drafts[d].text>> ELSE <<>>
      BY <1>7, <1>10, <2>5
    <3>2. WorkingOn(clerk', d) = {}
      BY <1>1, <2>1, <3>1 DEF WorkingOn
    <3>3. mailed'[d] = IF drafts'[d].status = "sent" THEN <<drafts'[d].text>> ELSE <<>>
      BY <2>1, <2>2, <2>3, <2>4, <3>1
    <3> QED
      BY <3>2, <3>3 DEF AloneOn
  <2>6. ASSUME NEW e \in DraftIds \ mixed, e # d
        PROVE  AloneOn(e)'
    BY <1>8, <2>1, <2>3, <2>6
  <2> QED
    BY <2>1, <2>3, <2>5, <2>6
<1>11. ASSUME ApproveStops(r) PROVE \A e \in DraftIds' \ mixed' : AloneOn(e)'
  <2>1. /\ mixed' = mixed \cup {d} /\ clerk' = [clerk EXCEPT ![r] = Idle]
        /\ UNCHANGED <<drafts, mailed>> /\ r \in WorkingOn(clerk, d) /\ DraftIds' = DraftIds
    BY <1>6, <1>11, <1>12 DEF ApproveStops, DraftIds
  <2> QED
    BY <1>8, <2>1
<1> QED
  BY <1>5, <1>9, <1>10, <1>11, AloneOnEachAfter DEF StaffStep

(* A step that adds no reminder and starts no sweep: no draft comes to wait  *)
(* or to be sent that did not wait or was sent before, an invoice that has  *)
(* not been sent again only gets older, and a sweep has no more ahead of it *)
(* than before.                                                             *)
QuietStep ==
  /\ DraftIds' = DraftIds /\ mixed \subseteq mixed'
  /\ \A d \in DraftIds :
       /\ drafts'[d].invoice = drafts[d].invoice
       /\ drafts'[d].text = 0 =>
            /\ drafts[d].text = 0 /\ drafts'[d].tone = drafts[d].tone
            /\ d \notin mixed' /\ drafts'[d].status \in {"pending", "sent"} =>
                 drafts[d].status \in {"pending", "sent"}
  /\ restarted \subseteq restarted'
  /\ \A i \in owing' \ restarted' : i \in owing \ restarted /\ overdue[i] <= overdue'[i]
  /\ \A r \in WorkingOn(clerk', Sweep) :
       /\ r \in WorkingOn(clerk, Sweep) /\ Ahead(r)' \subseteq Ahead(r)
       /\ clerk'[r].step = "asking" => clerk'[r].now \notin clerk'[r].todo

LEMMA AheadType ==
  ASSUME CollectionsTypeInv
  PROVE  /\ \A r \in WorkingOn(clerk, Sweep) :
              /\ clerk[r].step \in {"drafting", "asking"}
              /\ Ahead(r) \subseteq Reminders
         /\ \A i \in Debts : overdue[i] \in Nat /\ overdue[i] \in DayMarks
         /\ \A m \in Reminders : m.invoice \in Debts /\ m.tone \in Tones
<1>1. DOMAIN clerk = Requests /\ overdue \in [Debts -> DayMarks]
  BY DEF CollectionsTypeInv, CollectionsTypeOK
<1>2. ASSUME NEW r \in WorkingOn(clerk, Sweep)
      PROVE  clerk[r].step \in {"drafting", "asking"} /\ Ahead(r) \subseteq Reminders
  <2>1. r \in Requests /\ clerk[r] # Idle /\ clerk[r].row = Sweep
    BY <1>1, <1>2 DEF WorkingOn
  <2>2. Sweep \notin 1..MaxDrafts
    BY DraftRows DEF Sweep
  <2> QED
    BY <2>1, <2>2, ClerkShapes DEF Ahead
<1>3. DayMarks \subseteq Nat
  BY CadenceType
<1> QED
  BY <1>1, <1>2, <1>3 DEF Reminders

LEMMA QuietKeepsSweeps ==
  ASSUME CollectionsTypeInv, CollectionsTypeInv', SweepsAlone, ToneDraftedOnce,
         ReminderEscalates, QuietStep, Sweep \notin mixed'
  PROVE  SweepsAlone' /\ ToneDraftedOnce' /\ ReminderEscalates'
<1>1. Sweep \notin mixed /\ mixed \subseteq mixed' /\ DraftIds' = DraftIds
  BY DEF QuietStep
<1>2. /\ \A d \in DraftIds :
           drafts[d].text = 0 /\ drafts[d].invoice \in owing \ restarted =>
             Cadence[drafts[d].tone] <= overdue[drafts[d].invoice]
      /\ \A r \in WorkingOn(clerk, Sweep) :
           SweepIsRight(r) /\ \A s \in WorkingOn(clerk, Sweep) : s = r
  BY <1>1 DEF SweepsAlone
<1>3. \A i \in Debts : overdue[i] \in Nat /\ overdue'[i] \in Nat
  <2>1. overdue \in [Debts -> DayMarks] /\ overdue' \in [Debts -> DayMarks]
    BY DEF CollectionsTypeInv, CollectionsTypeOK
  <2>2. DayMarks \subseteq Nat
    BY CadenceType
  <2> QED
    BY <2>1, <2>2
<1>4. \A d \in DraftIds : drafts[d].tone \in Tones /\ drafts[d].invoice \in Debts
  BY DraftRows
<1>5. \A t \in Tones : Cadence[t] \in Nat
  BY CadenceType
<1>6. ASSUME NEW d \in DraftIds, drafts'[d].text = 0,
             drafts'[d].invoice \in owing' \ restarted'
      PROVE  Cadence[drafts'[d].tone] <= overdue'[drafts'[d].invoice]
  <2>1. /\ drafts[d].text = 0 /\ drafts'[d].tone = drafts[d].tone
        /\ drafts'[d].invoice = drafts[d].invoice
        /\ drafts[d].invoice \in owing \ restarted
        /\ overdue[drafts[d].invoice] <= overdue'[drafts[d].invoice]
    BY <1>6 DEF QuietStep
  <2>2. PICK i, t : i = drafts[d].invoice /\ t = drafts[d].tone
    OBVIOUS
  <2>3. Cadence[t] <= overdue[i] /\ overdue[i] <= overdue'[i]
    BY <1>2, <2>1, <2>2
  <2>4. Cadence[t] \in Nat /\ overdue[i] \in Nat /\ overdue'[i] \in Nat
    BY <1>3, <1>4, <1>5, <2>2
  <2> QED
    BY <2>1, <2>2, <2>3, <2>4
<1>7. ASSUME NEW r \in WorkingOn(clerk', Sweep)
      PROVE  SweepIsRight(r)' /\ \A s \in WorkingOn(clerk', Sweep) : s = r
  <2>1. /\ r \in WorkingOn(clerk, Sweep) /\ Ahead(r)' \subseteq Ahead(r)
        /\ clerk'[r].step = "asking" => clerk'[r].now \notin clerk'[r].todo
    BY <1>7 DEF QuietStep
  <2>2. SweepIsRight(r) /\ Ahead(r) \subseteq Reminders
    BY <1>2, <2>1, AheadType
  <2>3. \A m, n \in Ahead(r)' : m.invoice = n.invoice => m = n
    BY <2>1, <2>2 DEF SweepIsRight
  <2>4. ASSUME NEW m \in Ahead(r)', NEW d \in DraftIds,
               drafts'[d].invoice = m.invoice, drafts'[d].text = 0
        PROVE  /\ drafts'[d].tone = m.tone /\ d \notin mixed' =>
                    drafts'[d].status \notin {"pending", "sent"}
               /\ m.invoice \notin restarted' => Cadence[drafts'[d].tone] <= Cadence[m.tone]
    <3>1. m \in Ahead(r) /\ drafts[d].invoice = m.invoice /\ drafts[d].text = 0
          /\ drafts'[d].tone = drafts[d].tone
          /\ (d \notin mixed' /\ drafts'[d].status \in {"pending", "sent"} =>
                drafts[d].status \in {"pending", "sent"})
          /\ restarted \subseteq restarted'
      BY <2>1, <2>4 DEF QuietStep
    <3>2. /\ drafts[d].tone = m.tone /\ d \notin mixed =>
               drafts[d].status \notin {"pending", "sent"}
          /\ m.invoice \notin restarted => Cadence[drafts[d].tone] <= Cadence[m.tone]
      BY <2>2, <3>1 DEF SweepIsRight
    <3> QED
      BY <1>1, <3>1, <3>2
  <2>5. ASSUME NEW m \in Ahead(r)', m.invoice \in owing' \ restarted'
        PROVE  Cadence[m.tone] <= overdue'[m.invoice]
    <3>1. m \in Ahead(r) /\ m \in Reminders
      BY <2>1, <2>2
    <3>2. m.invoice \in owing \ restarted /\ overdue[m.invoice] <= overdue'[m.invoice]
      BY <2>5 DEF QuietStep
    <3>3. Cadence[m.tone] <= overdue[m.invoice]
      BY <2>2, <3>1, <3>2 DEF SweepIsRight
    <3>4. Cadence[m.tone] \in Nat /\ overdue[m.invoice] \in Nat /\ overdue'[m.invoice] \in Nat
      BY <1>3, <1>5, <3>1, AheadType
    <3> QED
      BY <3>2, <3>3, <3>4
  <2>6. SweepIsRight(r)'
    BY <1>1, <2>1, <2>3, <2>4, <2>5 DEF SweepIsRight
  <2>7. \A s \in WorkingOn(clerk', Sweep) : s = r
    BY <1>2, <2>1 DEF QuietStep
  <2> QED
    BY <2>6, <2>7
<1>8. SweepsAlone'
  BY <1>1, <1>6, <1>7 DEF SweepsAlone
<1>9. ToneDraftedOnce'
  <2>1. ASSUME NEW d \in DraftIds \ mixed', NEW e \in DraftIds \ mixed',
               d # e, drafts'[d].invoice = drafts'[e].invoice,
               drafts'[d].tone = drafts'[e].tone,
               drafts'[d].text = 0, drafts'[e].text = 0,
               drafts'[d].status \in {"pending", "sent"},
               drafts'[e].status \in {"pending", "sent"}
        PROVE  FALSE
    <3>1. /\ drafts[d].text = 0 /\ drafts[e].text = 0
          /\ drafts[d].invoice = drafts[e].invoice /\ drafts[d].tone = drafts[e].tone
          /\ drafts[d].status \in {"pending", "sent"}
          /\ drafts[e].status \in {"pending", "sent"}
      BY <2>1 DEF QuietStep
    <3>2. d \in DraftIds \ mixed /\ e \in DraftIds \ mixed
      BY <1>1
    <3> QED
      BY <1>1, <2>1, <3>1, <3>2 DEF ToneDraftedOnce
  <2> QED
    BY <1>1, <2>1 DEF ToneDraftedOnce
<1>10. ReminderEscalates'
  <2>1. ASSUME NEW d \in DraftIds, NEW e \in DraftIds, d < e,
               drafts'[d].invoice = drafts'[e].invoice,
               drafts'[d].invoice \notin restarted',
               drafts'[d].text = 0, drafts'[e].text = 0
        PROVE  Cadence[drafts'[d].tone] <= Cadence[drafts'[e].tone]
    <3>1. /\ drafts[d].text = 0 /\ drafts[e].text = 0
          /\ drafts[d].invoice = drafts[e].invoice /\ drafts[d].invoice \notin restarted
          /\ drafts'[d].tone = drafts[d].tone /\ drafts'[e].tone = drafts[e].tone
      BY <2>1 DEF QuietStep
    <3> QED
      BY <1>1, <2>1, <3>1 DEF ReminderEscalates
  <2> QED
    BY <1>1, <2>1 DEF ReminderEscalates
<1> QED
  BY <1>8, <1>9, <1>10

LEMMA InvoiceStepQuiet ==
  ASSUME CollectionsTypeInv, SweepsAlone, Sweep \notin mixed, InvoiceStep
  PROVE  QuietStep
<1>1. PICK i \in Debts : DaysPass(i) \/ InvoiceSent(i) \/ InvoiceSettled(i)
  BY DEF InvoiceStep
<1>2. UNCHANGED <<drafts, clerk, mixed>> /\ DraftIds' = DraftIds
  BY <1>1 DEF DaysPass, InvoiceSent, InvoiceSettled, DraftIds
<1>3. overdue \in [Debts -> DayMarks] /\ (\A n \in DayMarks : n \in Nat) /\ owing \subseteq Debts
  BY CadenceType DEF CollectionsTypeInv, CollectionsTypeOK
<1>4. \A j \in Debts : overdue[j] \in Nat
  BY <1>3
<1>5. ASSUME NEW j \in owing' \ restarted'
      PROVE  j \in owing \ restarted /\ overdue[j] <= overdue'[j]
  <2>1. CASE DaysPass(i)
    <3>1. PICK n \in DayMarks : n > overdue[i] /\ overdue' = [overdue EXCEPT ![i] = n]
      BY <2>1 DEF DaysPass
    <3>2. UNCHANGED <<owing, restarted>> /\ j \in Debts
      BY <1>3, <1>5, <2>1 DEF DaysPass
    <3>3. overdue'[j] = IF j = i THEN n ELSE overdue[j]
      BY <1>3, <3>1, <3>2
    <3>4. overdue[j] \in Nat /\ overdue[i] \in Nat /\ n \in Nat
      BY <1>3, <1>4, <3>2
    <3> QED
      BY <1>5, <3>1, <3>2, <3>3, <3>4
  <2>2. CASE InvoiceSent(i) \/ InvoiceSettled(i)
    <3>1. /\ overdue' = [overdue EXCEPT ![i] = 0] /\ j # i /\ j \in owing \ restarted
      BY <1>5, <2>2 DEF InvoiceSent, InvoiceSettled
    <3> QED
      BY <1>3, <1>4, <3>1
  <2> QED
    BY <1>1, <2>1, <2>2
<1>6. restarted \subseteq restarted'
  BY <1>1 DEF DaysPass, InvoiceSent, InvoiceSettled
<1>7. \A r \in WorkingOn(clerk, Sweep) : clerk[r].step = "asking" => clerk[r].now \notin clerk[r].todo
  BY DEF SweepsAlone, SweepIsRight
<1>8. \A r \in WorkingOn(clerk', Sweep) :
        /\ r \in WorkingOn(clerk, Sweep) /\ Ahead(r)' \subseteq Ahead(r)
        /\ clerk'[r].step = "asking" => clerk'[r].now \notin clerk'[r].todo
  BY <1>2, <1>7 DEF Ahead
<1> QED
  BY <1>2, <1>5, <1>6, <1>8 DEF QuietStep

(* A request that works on a draft does not touch the sweeps. *)
LEMMA StaffStepQuiet ==
  ASSUME CollectionsTypeInv, SweepsAlone, ClerksAlone, EditedHasText,
         Sweep \notin mixed, NEW r \in Requests, StaffStep(r)
  PROVE  QuietStep
<1>1. /\ DOMAIN clerk = Requests /\ Sweep \notin DraftIds
  BY DraftRows DEF CollectionsTypeInv, CollectionsTypeOK, Sweep
<1>2. Idle.step = "idle"
  BY DEF Idle
<1>3. PICK state : /\ clerk' = [clerk EXCEPT ![r] = state]
                   /\ state = Idle \/ state.row # Sweep
                   /\ clerk[r] = Idle \/ clerk[r].row # Sweep
  <2>1. CASE \E d \in DraftIds : ApproveRead(r, d) \/ EditRead(r, d) \/ RejectRead(r, d)
    BY <1>1, <2>1 DEF ApproveRead, EditRead, RejectRead, Open
  <2>2. CASE ApproveSend(r)
    <3>1. clerk[r].row # Sweep
      BY <1>1, <2>2, ClerkShapes DEF ApproveSend
    <3>2. PICK ok \in BOOLEAN : clerk' = [clerk EXCEPT ![r] =
            [step |-> "recording", row |-> @.row, text |-> @.text, ok |-> ok]]
      BY <2>2 DEF ApproveSend
    <3> DEFINE go == [step |-> "recording", row |-> clerk[r].row, text |-> clerk[r].text,
                      ok |-> ok]
    <3>3. clerk' = [clerk EXCEPT ![r] = go] /\ go.row = clerk[r].row
      BY <3>2
    <3> HIDE DEF go
    <3> QED
      BY <3>1, <3>3
  <2>3. CASE ApproveWrite(r) \/ EditWrite(r) \/ RejectWrite(r) \/ ApproveStops(r)
    <3>1. clerk[r].row # Sweep
      BY <1>1, <2>3, ClerkShapes DEF ApproveWrite, EditWrite, RejectWrite, ApproveStops
    <3> QED
      BY <2>3, <3>1 DEF ApproveWrite, EditWrite, RejectWrite, ApproveStops, Write
  <2> QED
    BY <2>1, <2>2, <2>3 DEF StaffStep
<1>4. /\ WorkingOn(clerk', Sweep) = WorkingOn(clerk, Sweep)
      /\ \A q \in WorkingOn(clerk, Sweep) : clerk'[q] = clerk[q]
  BY <1>1, <1>3 DEF WorkingOn
<1>5. \A q \in WorkingOn(clerk, Sweep) : clerk[q].step = "asking" => clerk[q].now \notin clerk[q].todo
  BY DEF SweepsAlone, SweepIsRight
<1>6. \A q \in WorkingOn(clerk', Sweep) :
        /\ q \in WorkingOn(clerk, Sweep) /\ Ahead(q)' \subseteq Ahead(q)
        /\ clerk'[q].step = "asking" => clerk'[q].now \notin clerk'[q].todo
  BY <1>4, <1>5 DEF Ahead
<1>7. /\ UNCHANGED <<owing, overdue, restarted>> /\ mixed \subseteq mixed'
  <2>1. CASE \E d \in DraftIds : ApproveRead(r, d) \/ EditRead(r, d) \/ RejectRead(r, d)
    BY <2>1, MixedByBegin DEF ApproveRead, EditRead, RejectRead, Open, invoiceState
  <2>2. CASE ApproveSend(r) \/ ApproveStops(r)
    BY <2>2 DEF ApproveSend, ApproveStops, invoiceState
  <2> QED
    BY <2>1, <2>2, StaffWrites DEF StaffStep
<1>8. owing \subseteq Debts /\ \A i \in Debts : overdue[i] \in Nat
  BY AheadType DEF CollectionsTypeInv, CollectionsTypeOK
<1>9. /\ restarted \subseteq restarted'
      /\ \A i \in owing' \ restarted' : i \in owing \ restarted /\ overdue[i] <= overdue'[i]
  BY <1>7, <1>8
<1>10. /\ DraftIds' = DraftIds
       /\ \A d \in DraftIds :
            /\ drafts'[d].invoice = drafts[d].invoice
            /\ drafts'[d].text = 0 =>
                 /\ drafts[d].text = 0 /\ drafts'[d].tone = drafts[d].tone
                 /\ d \notin mixed' /\ drafts'[d].status \in {"pending", "sent"} =>
                      drafts[d].status \in {"pending", "sent"}
  <2>1. CASE UNCHANGED drafts
    BY <2>1 DEF DraftIds
  <2>2. CASE ApproveWrite(r) \/ EditWrite(r) \/ RejectWrite(r)
    <3>1. PICK k, row :
            /\ k = clerk[r].row /\ k \in DraftIds /\ DraftChanges(k, row)
            /\ ApproveWrite(r) => clerk[r].step = "recording"
            /\ ~ApproveWrite(r) => row.status \in {"edited", "rejected"}
            /\ UNCHANGED mixed
      BY <2>2, StaffWrites DEF ApproveWrite
    <3>2. /\ DraftIds' = DraftIds
          /\ \A e \in DraftIds : drafts'[e] = IF e = k THEN row ELSE drafts[e]
      BY <3>1, ChangeFacts
    <3>3. row.invoice = drafts[k].invoice
          /\ (row.text = 0 => row.text = drafts[k].text /\ row.tone = drafts[k].tone)
      BY <3>1 DEF DraftChanges
    <3>4. ASSUME row.text = 0, k \notin mixed', row.status \in {"pending", "sent"}
          PROVE  drafts[k].status \in {"pending", "sent"}
      <4>1. ApproveWrite(r) /\ k \notin mixed /\ k \in DraftIds
        BY <3>1, <3>4
      <4>2. r \in WorkingOn(clerk, k)
        BY <1>1, <1>2, <3>1, <4>1 DEF WorkingOn
      <4>3. Actionable(k)
        BY <4>1, <4>2 DEF ClerksAlone
      <4>4. drafts[k].status # "edited"
        BY <3>3, <3>4, <4>1 DEF EditedHasText
      <4> QED
        BY <4>3, <4>4 DEF Actionable
    <3> QED
      BY <3>2, <3>3, <3>4
  <2>3. CASE \E d \in DraftIds : ApproveRead(r, d) \/ EditRead(r, d) \/ RejectRead(r, d)
    BY <2>1, <2>3 DEF ApproveRead, EditRead, RejectRead, Open
  <2> QED
    BY <2>1, <2>2, <2>3 DEF StaffStep, ApproveSend, ApproveStops
<1> QED
  BY <1>6, <1>7, <1>9, <1>10 DEF QuietStep

(* So does a sweep that reads, gives up or finds the draft there. *)
LEMMA SweepStepQuiet ==
  ASSUME CollectionsTypeInv, SweepsAlone, Sweep \notin mixed, NEW r \in Requests,
         \/ SweepRead(r) \/ SweepFails(r)
         \/ SweepInsert(r) /\ PendingFor(clerk[r].now) # {}
  PROVE  QuietStep
<1>1. DOMAIN clerk = Requests
  BY DEF CollectionsTypeInv, CollectionsTypeOK
<1>2. Idle.step = "idle"
  BY DEF Idle
<1>3. /\ UNCHANGED <<owing, overdue, restarted, drafts, mixed>> /\ DraftIds' = DraftIds
  BY DEF SweepRead, SweepFails, SweepInsert, invoiceState, DraftIds
<1>4. r \in WorkingOn(clerk, Sweep)
  BY <1>1, <1>2, ClerkShapes DEF SweepRead, SweepFails, SweepInsert, WorkingOn
<1>5. \A q \in WorkingOn(clerk, Sweep) : q = r
  BY <1>4 DEF SweepsAlone
<1>6. PICK state : /\ clerk' = [clerk EXCEPT ![r] = state]
                   /\ state # Idle =>
                        /\ state.step \in {"asking", "drafting"}
                        /\ state.todo \subseteq Ahead(r)
                        /\ state.step = "asking" =>
                             state.now \in Ahead(r) /\ state.now \notin state.todo
  <2>1. CASE SweepRead(r)
    <3>1. PICK m \in clerk[r].todo :
            clerk' = [clerk EXCEPT ![r] =
                        IF PendingFor(m) # {} THEN SweepRest(@.todo \ {m})
                        ELSE [step |-> "asking", row |-> Sweep,
                              todo |-> @.todo \ {m}, now |-> m]]
      BY <2>1 DEF SweepRead
    <3>2. clerk[r].todo = Ahead(r)
      BY <2>1 DEF SweepRead, Ahead
    <3> DEFINE rest == clerk[r].todo \ {m}
    <3>3. CASE PendingFor(m) # {} /\ rest # {}
      <4> DEFINE go == [step |-> "drafting", row |-> Sweep, todo |-> rest]
      <4>1. clerk' = [clerk EXCEPT ![r] = go]
        BY <3>1, <3>3 DEF SweepRest
      <4>2. go.step = "drafting" /\ go.todo \subseteq Ahead(r)
        BY <3>2
      <4> HIDE DEF go
      <4> QED
        BY <4>1, <4>2
    <3>4. CASE PendingFor(m) # {} /\ rest = {}
      BY <3>1, <3>4 DEF SweepRest
    <3>5. CASE PendingFor(m) = {}
      <4> DEFINE go == [step |-> "asking", row |-> Sweep, todo |-> rest, now |-> m]
      <4>1. clerk' = [clerk EXCEPT ![r] = go]
        BY <3>1, <3>5
      <4>2. /\ go.step = "asking" /\ go.todo \subseteq Ahead(r)
            /\ go.now \in Ahead(r) /\ go.now \notin go.todo
        BY <3>2
      <4> HIDE DEF go
      <4> QED
        BY <4>1, <4>2
    <3> QED
      BY <3>3, <3>4, <3>5
  <2>2. CASE SweepFails(r) \/ (SweepInsert(r) /\ PendingFor(clerk[r].now) # {})
    BY <2>2 DEF SweepFails, SweepInsert
  <2> QED
    BY <2>1, <2>2
<1>7. \A q \in WorkingOn(clerk', Sweep) :
        /\ q \in WorkingOn(clerk, Sweep) /\ Ahead(q)' \subseteq Ahead(q)
        /\ clerk'[q].step = "asking" => clerk'[q].now \notin clerk'[q].todo
  <2>1. ASSUME NEW q \in WorkingOn(clerk', Sweep)
        PROVE  q = r /\ clerk'[r] = state /\ state # Idle
    BY <1>1, <1>5, <1>6, <2>1 DEF WorkingOn
  <2> QED
    BY <1>4, <1>6, <2>1 DEF Ahead
<1>8. owing \subseteq Debts /\ \A i \in Debts : overdue[i] \in Nat
  BY AheadType DEF CollectionsTypeInv, CollectionsTypeOK
<1>9. \A i \in owing' \ restarted' : i \in owing \ restarted /\ overdue[i] <= overdue'[i]
  BY <1>3, <1>8
<1> QED
  BY <1>3, <1>7, <1>9 DEF QuietStep

(* A sweep that begins alone picks for each invoice the tone of its age.     *)
LEMMA SweepSelectRight ==
  ASSUME CollectionsTypeInv, SweepsAlone, ToneDraftedOnce, ReminderEscalates,
         NEW r \in Requests, SweepSelect(r), Sweep \notin mixed'
  PROVE  SweepsAlone' /\ ToneDraftedOnce' /\ ReminderEscalates'
<1> DEFINE go == [step |-> "drafting", row |-> Sweep, todo |-> SelectAged]
<1>1. /\ clerk' = [clerk EXCEPT ![r] = go] /\ mixed' = MixedBy(mixed, clerk, Sweep)
      /\ UNCHANGED <<owing, overdue, restarted, drafts>>
  BY DEF SweepSelect, Open, invoiceState
<1>2. WorkingOn(clerk, Sweep) = {} /\ mixed' = mixed
  BY <1>1 DEF MixedBy
<1>3. DOMAIN clerk = Requests /\ go # Idle /\ go.row = Sweep /\ go.todo = SelectAged
      /\ go.step = "drafting"
  BY DEF CollectionsTypeInv, CollectionsTypeOK, Idle
<1> HIDE DEF go
<1>4. WorkingOn(clerk', Sweep) = {r} /\ clerk'[r] = go
  BY <1>1, <1>2, <1>3 DEF WorkingOn
<1>5. \A d \in DraftIds :
        drafts[d].text = 0 /\ drafts[d].invoice \in owing \ restarted =>
          Cadence[drafts[d].tone] <= overdue[drafts[d].invoice]
  BY <1>2 DEF SweepsAlone
<1>6. ASSUME NEW m \in SelectAged
      PROVE  /\ m \in Reminders /\ m.invoice \in owing
             /\ m.tone \in Tones /\ m.tone = ToneFor(overdue[m.invoice])
             /\ overdue[m.invoice] \in DayMarks
             /\ Cadence[m.tone] <= overdue[m.invoice]
             /\ ~Blocked(m.invoice, m.tone)
  <2>1. /\ m \in Reminders /\ m.invoice \in owing /\ ~Blocked(m.invoice, m.tone)
        /\ m.tone = ToneFor(overdue[m.invoice])
    BY DEF SelectAged
  <2>2. m.tone \in Tones /\ overdue[m.invoice] \in DayMarks
    BY <2>1, AheadType
  <2>3. Cadence[m.tone] <= overdue[m.invoice]
    BY <2>1, <2>2, ToneForAge
  <2> QED
    BY <2>1, <2>2, <2>3
<1>7. \A m, n \in SelectAged : m.invoice = n.invoice => m = n
  BY <1>6 DEF Reminders
<1>8. ASSUME NEW m \in SelectAged, NEW d \in DraftIds,
             drafts[d].invoice = m.invoice, drafts[d].text = 0
      PROVE  /\ drafts[d].tone = m.tone => drafts[d].status \notin {"pending", "sent"}
             /\ m.invoice \notin restarted => Cadence[drafts[d].tone] <= Cadence[m.tone]
  <2>1. drafts[d].tone = m.tone => drafts[d].status \notin {"pending", "sent"}
    BY <1>6, <1>8 DEF Blocked, DraftsOf
  <2>2. ASSUME m.invoice \notin restarted
        PROVE  Cadence[drafts[d].tone] <= Cadence[m.tone]
    <3>1. Cadence[drafts[d].tone] <= overdue[m.invoice] /\ drafts[d].tone \in Tones
      BY <1>5, <1>6, <1>8, <2>2, DraftRows
    <3> QED
      BY <1>6, <3>1, ToneForAge
  <2> QED
    BY <2>1, <2>2
<1>9. SweepIsRight(r)'
  <2>1. DraftIds' = DraftIds /\ Ahead(r)' = SelectAged
    BY <1>1, <1>3, <1>4 DEF DraftIds, Ahead
  <2> QED
    BY <1>1, <1>3, <1>4, <1>6, <1>7, <1>8, <2>1 DEF SweepIsRight
<1>10. SweepsAlone'
  BY <1>1, <1>4, <1>5, <1>9 DEF SweepsAlone, DraftIds
<1> QED
  BY <1>1, <1>2, <1>10 DEF ToneDraftedOnce, ReminderEscalates, DraftIds

(* What such a sweep drafts repeats no reminder and is no milder.            *)
LEMMA SweepInsertRight ==
  ASSUME CollectionsTypeInv, SweepsAlone, ToneDraftedOnce, ReminderEscalates,
         Sweep \notin mixed, NEW r \in Requests, SweepInsert(r),
         clerk' = [clerk EXCEPT ![r] = SweepRest(clerk[r].todo)],
         NEW row, DraftsGrow(row), row.invoice = clerk[r].now.invoice,
         row.tone = clerk[r].now.tone
  PROVE  SweepsAlone' /\ ToneDraftedOnce' /\ ReminderEscalates'
<1>1. PICK n, m, rest : n = Len(drafts) + 1 /\ m = clerk[r].now /\ rest = clerk[r].todo
  OBVIOUS
<1>2. /\ DraftIds' = DraftIds \cup {n} /\ n \notin DraftIds /\ drafts'[n] = row
      /\ \A d \in DraftIds : drafts'[d] = drafts[d] /\ d < n
      /\ DraftIds = 1..Len(drafts) /\ Len(drafts) \in Nat
  BY <1>1, GrowFacts, DraftRows
<1>3. /\ row.text = 0 /\ row.status = "pending" /\ row.invoice = m.invoice /\ row.tone = m.tone
  BY <1>1 DEF DraftsGrow
<1>4. /\ UNCHANGED <<owing, overdue, restarted, mixed>> /\ clerk[r].step = "asking"
  BY DEF SweepInsert, invoiceState
<1>5. DOMAIN clerk = Requests /\ Idle.step = "idle"
  BY DEF CollectionsTypeInv, CollectionsTypeOK, Idle
<1>6. r \in WorkingOn(clerk, Sweep)
  BY <1>4, <1>5, ClerkShapes DEF WorkingOn
<1>7. /\ SweepIsRight(r) /\ \A s \in WorkingOn(clerk, Sweep) : s = r
      /\ \A d \in DraftIds :
           drafts[d].text = 0 /\ drafts[d].invoice \in owing \ restarted =>
             Cadence[drafts[d].tone] <= overdue[drafts[d].invoice]
  BY <1>6 DEF SweepsAlone
<1>8. m \in Reminders /\ m \in Ahead(r) /\ rest \subseteq Ahead(r) /\ m \notin rest
  BY <1>1, <1>4, <1>6, <1>7, AheadType DEF Ahead, SweepIsRight
<1>9. \A k \in rest : k.invoice # m.invoice
  BY <1>7, <1>8 DEF SweepIsRight
<1>10. \A d \in DraftIds :
         drafts[d].invoice = m.invoice /\ drafts[d].text = 0 =>
           /\ drafts[d].tone = m.tone /\ d \notin mixed =>
                drafts[d].status \notin {"pending", "sent"}
           /\ m.invoice \notin restarted => Cadence[drafts[d].tone] <= Cadence[m.tone]
  BY <1>7, <1>8 DEF SweepIsRight
<1>11. \A d \in DraftIds' :
         drafts'[d].text = 0 /\ drafts'[d].invoice \in owing' \ restarted' =>
           Cadence[drafts'[d].tone] <= overdue'[drafts'[d].invoice]
  <2>1. m.invoice \in owing \ restarted => Cadence[m.tone] <= overdue[m.invoice]
    BY <1>7, <1>8 DEF SweepIsRight
  <2> QED
    BY <1>2, <1>3, <1>4, <1>7, <2>1
<1>12. \A q \in WorkingOn(clerk', Sweep) :
         q = r /\ Ahead(q)' = rest /\ clerk'[q].step = "drafting"
  BY <1>1, <1>5, <1>7 DEF WorkingOn, SweepRest, Ahead
<1>13. ASSUME r \in WorkingOn(clerk', Sweep)
       PROVE  SweepIsRight(r)'
  <2>1. Ahead(r)' = rest /\ clerk'[r].step = "drafting"
    BY <1>12, <1>13
  <2>2. \A j, k \in rest : j.invoice = k.invoice => j = k
    BY <1>7, <1>8 DEF SweepIsRight
  <2>3. ASSUME NEW k \in rest, NEW d \in DraftIds', drafts'[d].invoice = k.invoice,
               drafts'[d].text = 0
        PROVE  /\ drafts'[d].tone = k.tone /\ d \notin mixed =>
                    drafts'[d].status \notin {"pending", "sent"}
               /\ k.invoice \notin restarted => Cadence[drafts'[d].tone] <= Cadence[k.tone]
    <3>1. d \in DraftIds /\ drafts'[d] = drafts[d]
      BY <1>2, <1>3, <1>9, <2>3
    <3> QED
      BY <1>7, <1>8, <2>3, <3>1 DEF SweepIsRight
  <2>4. \A k \in rest :
          k.invoice \in owing \ restarted => Cadence[k.tone] <= overdue[k.invoice]
    BY <1>7, <1>8 DEF SweepIsRight
  <2> QED
    BY <1>4, <2>1, <2>2, <2>3, <2>4 DEF SweepIsRight
<1>14. SweepsAlone'
  BY <1>11, <1>12, <1>13 DEF SweepsAlone
<1>15. ToneDraftedOnce'
  <2>1. \A d, e \in DraftIds \ mixed :
          /\ d # e /\ drafts[d].invoice = drafts[e].invoice /\ drafts[d].tone = drafts[e].tone
          /\ drafts[d].text = 0 /\ drafts[e].text = 0
          => ~({drafts[d].status, drafts[e].status} \subseteq {"pending", "sent"})
    BY DEF ToneDraftedOnce
  <2>2. ASSUME NEW d \in DraftIds' \ mixed', NEW e \in DraftIds' \ mixed',
               d # e, drafts'[d].invoice = drafts'[e].invoice,
               drafts'[d].tone = drafts'[e].tone,
               drafts'[d].text = 0, drafts'[e].text = 0
        PROVE  ~({drafts'[d].status, drafts'[e].status} \subseteq {"pending", "sent"})
    <3>1. CASE d # n /\ e # n
      BY <1>2, <1>4, <2>1, <2>2, <3>1
    <3>2. CASE d = n
      BY <1>2, <1>3, <1>4, <1>10, <2>2, <3>2
    <3>3. CASE e = n
      BY <1>2, <1>3, <1>4, <1>10, <2>2, <3>3
    <3> QED
      BY <3>1, <3>2, <3>3
  <2> QED
    BY <2>2 DEF ToneDraftedOnce
<1>16. ReminderEscalates'
  <2>1. \A d, e \in DraftIds :
          /\ d < e /\ drafts[d].invoice = drafts[e].invoice
          /\ drafts[d].invoice \notin restarted
          /\ drafts[d].text = 0 /\ drafts[e].text = 0
          => Cadence[drafts[d].tone] <= Cadence[drafts[e].tone]
    BY DEF ReminderEscalates
  <2>2. ASSUME NEW d \in DraftIds', NEW e \in DraftIds', d < e,
               drafts'[d].invoice = drafts'[e].invoice,
               drafts'[d].invoice \notin restarted',
               drafts'[d].text = 0, drafts'[e].text = 0
        PROVE  Cadence[drafts'[d].tone] <= Cadence[drafts'[e].tone]
    <3>1. CASE e # n
      <4>1. d \in DraftIds /\ e \in DraftIds
        BY <1>1, <1>2, <2>2, <3>1
      <4> QED
        BY <1>2, <1>4, <2>1, <2>2, <4>1
    <3>2. CASE e = n
      <4>1. d \in DraftIds
        BY <1>1, <1>2, <2>2, <3>2
      <4> QED
        BY <1>2, <1>3, <1>4, <1>10, <2>2, <3>2, <4>1
    <3> QED
      BY <3>1, <3>2
  <2> QED
    BY <2>2 DEF ReminderEscalates
<1> QED
  BY <1>14, <1>15, <1>16

LEMMA CollectionsStepSweeps ==
  ASSUME CollectionsTypeInv, CollectionsTypeInv', SweepsAlone, ToneDraftedOnce,
         ReminderEscalates, ClerksAlone, EditedHasText, CollectionsNext
  PROVE  SweepsAlone' /\ ToneDraftedOnce' /\ ReminderEscalates'
<1>1. CASE Sweep \in mixed'
  BY <1>1 DEF SweepsAlone, ToneDraftedOnce, ReminderEscalates
<1>2. CASE Sweep \notin mixed'
  <2>1. CASE InvoiceStep
    <3>1. Sweep \notin mixed
      BY <1>2, <2>1 DEF InvoiceStep, DaysPass, InvoiceSent, InvoiceSettled
    <3> QED
      BY <1>2, <2>1, <3>1, InvoiceStepQuiet, QuietKeepsSweeps
  <2>2. ASSUME NEW r \in Requests, StaffStep(r)
        PROVE  SweepsAlone' /\ ToneDraftedOnce' /\ ReminderEscalates'
    <3>1. Sweep \notin mixed
      <4>1. mixed \subseteq mixed'
        <5>1. CASE \E d \in DraftIds : ApproveRead(r, d) \/ EditRead(r, d) \/ RejectRead(r, d)
          BY <5>1, MixedByBegin DEF ApproveRead, EditRead, RejectRead, Open
        <5> QED
          BY <2>2, <5>1, StaffWrites DEF StaffStep, ApproveSend, ApproveStops
      <4> QED
        BY <1>2, <4>1
    <3> QED
      BY <1>2, <2>2, <3>1, StaffStepQuiet, QuietKeepsSweeps
  <2>3. ASSUME NEW r \in Requests, SweepStep(r)
        PROVE  SweepsAlone' /\ ToneDraftedOnce' /\ ReminderEscalates'
    <3>1. CASE SweepSelect(r)
      BY <1>2, <3>1, SweepSelectRight
    <3>2. CASE \/ SweepRead(r) \/ SweepFails(r)
               \/ SweepInsert(r) /\ PendingFor(clerk[r].now) # {}
      <4>1. Sweep \notin mixed
        BY <1>2, <3>2 DEF SweepRead, SweepFails, SweepInsert
      <4> QED
        BY <1>2, <3>2, <4>1, SweepStepQuiet, QuietKeepsSweeps
    <3>3. CASE SweepInsert(r) /\ PendingFor(clerk[r].now) = {}
      <4>1. Sweep \notin mixed /\ drafts' # drafts
        <5>1. Len(drafts) \in Nat /\ drafts \in Seq(Drafts)
          BY DraftRows
        <5>2. PICK row : drafts' = Append(drafts, row)
          BY <3>3 DEF SweepInsert
        <5> QED
          BY <1>2, <3>3, <5>1, <5>2 DEF SweepInsert
      <4> QED
        BY <2>3, <3>3, <4>1, SweepStepDrafts, SweepInsertRight
    <3> QED
      BY <2>3, <3>1, <3>2, <3>3 DEF SweepStep
  <2> QED
    BY <2>1, <2>2, <2>3, CollectionsSteps
<1> QED
  BY <1>1, <1>2

LEMMA CollectionsStepInv ==
  ASSUME CollectionsInv, [CollectionsNext]_collectionsVars
  PROVE  CollectionsInv'
<1>1. CASE CollectionsNext
  <2>1. CollectionsTypeInv'
    BY <1>1, CollectionsSteps, InvoiceStepType, SweepStepType, StaffStepType DEF CollectionsInv
  <2>2. OnePendingReminder' /\ EditedHasText'
    BY <1>1, CollectionsStepPending DEF CollectionsInv
  <2>3. SweepsAlone' /\ ToneDraftedOnce' /\ ReminderEscalates'
    BY <1>1, <2>1, CollectionsStepSweeps DEF CollectionsInv
  <2>4. CASE InvoiceStep
    <3>1. UNCHANGED <<drafts, mailed, clerk, mixed>>
      BY <2>4 DEF InvoiceStep, DaysPass, InvoiceSent, InvoiceSettled
    <3> QED
      BY <2>1, <2>2, <2>3, <3>1 DEF CollectionsInv, ClerksAlone, ReminderMatchesMail,
         DraftIds, Actionable
  <2>5. CASE \E r \in Requests : SweepStep(r) \/ StaffStep(r)
    BY <2>1, <2>2, <2>3, <2>5, SweepStepAlone, StaffStepAlone DEF CollectionsInv
  <2> QED
    BY <1>1, <2>4, <2>5, CollectionsSteps
<1>2. CASE UNCHANGED collectionsVars
  <2>1. UNCHANGED <<owing, overdue, restarted, drafts, mailed, clerk, mixed, clerks>>
    BY <1>2 DEF collectionsVars
  <2>2. CollectionsTypeInv'
    BY <2>1 DEF CollectionsInv, CollectionsTypeInv, CollectionsTypeOK, ClerksOnDrafts, DraftIds
  <2>3. OnePendingReminder' /\ EditedHasText' /\ ClerksAlone' /\ ReminderMatchesMail'
    BY <2>1 DEF CollectionsInv, OnePendingReminder, EditedHasText, ClerksAlone,
       ReminderMatchesMail, DraftIds, Actionable
  <2>4. SweepsAlone'
    BY <2>1 DEF CollectionsInv, SweepsAlone, SweepIsRight, Ahead, DraftIds
  <2>5. ToneDraftedOnce' /\ ReminderEscalates'
    BY <2>1 DEF CollectionsInv, ToneDraftedOnce, ReminderEscalates, DraftIds
  <2> QED
    BY <2>2, <2>3, <2>4, <2>5 DEF CollectionsInv
<1> QED
  BY <1>1, <1>2

(* An invoice never has two pending reminders of one tone, a reminder that   *)
(* one request at a time decided went out exactly when its row says sent,   *)
(* and sweeps that do not overlap neither repeat a tone nor get milder,     *)
(* whatever sweeps, decisions, payments and days interleave.                *)
THEOREM RemindersAlwaysSound == CollectionsSpec => []RemindersSound
<1>1. CollectionsInv => RemindersSound
  BY DEF CollectionsInv, RemindersSound
<1> QED
  BY <1>1, CollectionsInitInv, CollectionsStepInv, PTL DEF CollectionsSpec
=============================================================================
