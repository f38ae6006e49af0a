--------------------------- MODULE QuoteContract ---------------------------
(***************************************************************************)
(* What the quote API promises its users, with every operation one atomic   *)
(* step: the status moves along the transition matrix of                    *)
(* src/apps/api/src/quote-status-machine.ts, a commit may earn the closer a *)
(* commission, an acceptance puts exactly one job on the dispatch board,    *)
(* and a void leaves no commission owed.                                    *)
(***************************************************************************)
EXTENDS Naturals

VARIABLES
  status,    \* quotes.status
  owed,      \* some commission credited for the quote is not reversed
  jobCount   \* jobs created for the quote

Init == status = "draft" /\ owed = FALSE /\ jobCount = 0

Price ==
  /\ status \in {"draft", "priced"}
  /\ status' = "priced"
  /\ UNCHANGED <<owed, jobCount>>

Commit ==
  /\ status = "priced"
  /\ status' = "committed"
  /\ owed' \in BOOLEAN
  /\ UNCHANGED jobCount

Accept ==
  /\ status = "committed"
  /\ status' = "accepted"
  /\ jobCount' = jobCount + 1
  /\ UNCHANGED owed

Void ==
  /\ status # "void"
  /\ status' = "void"
  /\ owed' = FALSE
  /\ UNCHANGED jobCount

Next == Price \/ Commit \/ Accept \/ Void

Spec == Init /\ [][Next]_<<status, owed, jobCount>>
=============================================================================
