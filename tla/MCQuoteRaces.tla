--------------------------- MODULE MCQuoteRaces ---------------------------
(***************************************************************************)
(* Two requests at a time on one quote, failures included.  A behaviour     *)
(* keeps to one plan, chosen at the start: what races for jobs and          *)
(* invoices, for the deposit, for the supplier's document and for the       *)
(* commission is told apart, so the states add up and do not multiply.      *)
(***************************************************************************)
EXTENDS MCQuoteFulfilment

VARIABLE plan   \* which rows, payments, keys, closers and totals there are

Plan(jobCount, completions, payments, closers, keys, totals) ==
  [jobs |-> jobCount, completions |-> completions, payments |-> payments,
   closers |-> closers, keys |-> keys, totals |-> totals]

Plans ==
  {Plan(2, TRUE, 0, 1, {QuoteKey}, {100}),
   Plan(1, FALSE, 2, 1, {QuoteKey}, {100}),
   Plan(1, FALSE, 0, 2, Keys, {200}),
   Plan(1, FALSE, 0, 2, {QuoteKey}, {200, 300})}

ClosersAtWork == {req[r].user : r \in Requests} \cup {quote.closer}
                 \cup {row.user : row \in ledger}

WithinPlan ==
  /\ Cardinality({j \in Jobs : jobs[j] # NoJob}) <= plan.jobs
  /\ plan.completions \/ \A r \in Requests : ~At(r, "completeWrite")
  /\ Cardinality({p \in Intents : intents[p] # "none"}) <= plan.payments
  /\ Cardinality(ClosersAtWork \ {None}) <= plan.closers
  /\ {req[r].key : r \in Requests} \subseteq plan.keys \cup {None}
  /\ {quote.total} \cup {invoices[j].total : j \in Jobs}
       \subseteq plan.totals \cup {0}

RacesInit == Init /\ plan \in Plans

RacesNext == Next /\ UNCHANGED plan /\ WithinPlan'

RacesSpec == RacesInit /\ [][RacesNext]_<<vars, plan>>
=============================================================================
