------------------------------ MODULE Platform ------------------------------
(***************************************************************************)
(* What the components of the back office share: the HTTP requests that may *)
(* be in flight at once, and the way interference between them is recorded. *)
(*                                                                         *)
(* No handler locks the row it reads, so what most of them promise, they    *)
(* promise for rows that one request at a time has worked on.  Each         *)
(* component keeps the set of its rows that were "mixed": two requests were *)
(* in flight on the row together, or one stopped half way.  Its properties  *)
(* say exactly which rows they hold for; the interleavings and the crashes  *)
(* are in every behaviour all the same.                                     *)
(***************************************************************************)
EXTENDS Integers, Sequences, FiniteSets

CONSTANTS
  Requests,    \* requests that may be in flight at once
  None

Idle == [step |-> "idle"]

(* The requests of a component in flight on a row. *)
WorkingOn(flight, row) ==
  {r \in DOMAIN flight : flight[r] # Idle /\ flight[r].row = row}

(* The mixed rows once a request more starts on this one. *)
MixedBy(mixed, flight, row) ==
  IF WorkingOn(flight, row) = {} THEN mixed ELSE mixed \cup {row}

NoRequests == [r \in Requests |-> Idle]
=============================================================================
