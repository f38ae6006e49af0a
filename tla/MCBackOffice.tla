---------------------------- MODULE MCBackOffice ----------------------------
(***************************************************************************)
(* The components that share no rows, each on a small instance of its own:  *)
(* a behaviour is one component's, chosen at the start, while the others    *)
(* stay as they begin, so the states add up and do not multiply.            *)
(***************************************************************************)
EXTENDS Collections, PaymentRetries, Dispatch, Memberships, CorporateHub,
        Pricing, SupplierClient, Intake, VoiceCall, FieldWork,
        QuoteEditor, BoardScreen, PushSubscriptions, TLC

CONSTANTS
  r1, r2, i1, i2, ja, jb, tech, other, boss, ann, bob, o1, o2, q1, q2, t1, t2,
  ca, cb,
  Components   \* those that may run

VARIABLE focus   \* the component that runs

ASSUME ComponentsAssumption ==
  Components \subseteq
    {"collections", "retries", "dispatch", "memberships", "hub", "pricing",
     "supplier", "intake", "voice", "field", "editor", "screen", "push"}

MCFounders == <<[user |-> boss, scope |-> Corporate, invitation |-> 0]>>
MCSales == (i1 :> o1) @@ (i2 :> o1)
MCPolicy == [min |-> 20, default |-> 60, max |-> 200]

Morning == [start |-> 0, end |-> 4]
Later == [start |-> 6, end |-> 10]
MCSlots == {Morning, Later}
MCTravel == [i \in BoardJobs |-> [j \in BoardJobs |-> IF i = ja THEN 1 ELSE 2]]

Proposal(j, t, s, skill, confident) ==
  [job |-> j, tech |-> t, slot |-> s, needsSkill |-> skill, confident |-> confident]

MCSignIns == [user : {ann, bob}, town : {o1, o2}]

MCProposals ==
  {Proposal(ja, tech, Morning, FALSE, TRUE), Proposal(jb, tech, Morning, TRUE, TRUE),
   Proposal(jb, tech, Later, FALSE, TRUE), Proposal(jb, tech, Later, FALSE, FALSE)}

MCInit ==
  /\ focus \in Components
  /\ CollectionsInit /\ PaymentRetriesInit /\ DispatchInit /\ MembershipsInit
  /\ HubInit /\ PricingInit /\ SupplierInit /\ IntakeInit
  /\ VoiceInit /\ FieldInit /\ EditorInit
  /\ ScreenInit /\ PushInit
  /\ focus # "dispatch" => \A j \in BoardJobs : board[j].tech = None
  /\ focus # "supplier" => kind = "mock"
  /\ focus # "editor" => form = "office"
  /\ focus # "screen" => assigned = None /\ shown = None /\ listed

backOfficeVars ==
  <<collectionsVars, retriesVars, dispatchVars, membershipsVars,
    hubVars, pricingVars, supplierVars, intakeVars,
    voiceVars, fieldVars, editorVars, screenVars, pushVars, focus>>

MCNext ==
  /\ IF focus = "collections" THEN CollectionsNext ELSE UNCHANGED collectionsVars
  /\ IF focus = "retries" THEN PaymentRetriesNext ELSE UNCHANGED retriesVars
  /\ IF focus = "dispatch" THEN DispatchNext ELSE UNCHANGED dispatchVars
  /\ IF focus = "memberships" THEN MembershipsNext ELSE UNCHANGED membershipsVars
  /\ IF focus = "hub" THEN HubNext ELSE UNCHANGED hubVars
  /\ IF focus = "pricing" THEN PricingNext ELSE UNCHANGED pricingVars
  /\ IF focus = "supplier" THEN SupplierNext ELSE UNCHANGED supplierVars
  /\ IF focus = "intake" THEN IntakeNext ELSE UNCHANGED intakeVars
  /\ IF focus = "voice" THEN VoiceNext ELSE UNCHANGED voiceVars
  /\ IF focus = "field" THEN FieldNext ELSE UNCHANGED fieldVars
  /\ IF focus = "editor" THEN EditorNext ELSE UNCHANGED editorVars
  /\ IF focus = "screen" THEN ScreenNext ELSE UNCHANGED screenVars
  /\ IF focus = "push" THEN PushNext ELSE UNCHANGED pushVars
  /\ UNCHANGED focus

MCSpec == MCInit /\ [][MCNext]_backOfficeVars

(* Nobody starts as ann or bob, and no formula tells them, or the quotes     *)
(* that only the supplier's client has, or the voice agent's calls, apart.  *)
Swaps(twins) ==
  {f @@ g @@ h : f \in Permutations(Requests), g \in Permutations({ann, bob}),
                 h \in Permutations(twins)}

OfficeSymmetry == Swaps({q1, q2})
CallersSymmetry == Swaps({ca, cb})
-----------------------------------------------------------------------------
(* Whatever component runs, its rows and requests are ones the code can      *)
(* produce.                                                                 *)
BackOfficeTypeOK ==
  CASE focus = "collections" -> CollectionsTypeOK
    [] focus = "retries"     -> PaymentRetriesTypeOK
    [] focus = "dispatch"    -> DispatchTypeOK
    [] focus = "memberships" -> MembershipsTypeOK
    [] focus = "hub"         -> HubTypeOK
    [] focus = "pricing"     -> PricingTypeOK
    [] focus = "supplier"    -> SupplierTypeOK
    [] focus = "intake"      -> IntakeTypeOK
    [] focus = "voice"       -> VoiceTypeOK
    [] focus = "field"       -> FieldTypeOK
    [] focus = "editor"      -> EditorTypeOK
    [] focus = "screen"      -> ScreenTypeOK
    [] focus = "push"        -> PushTypeOK

(* What is owed is asked for as the rows say: reminders of overdue invoices *)
(* and payments that are tried again.                                       *)
ReceivablesSound == RemindersSound /\ RetriesSound

(* What pages show of the server's rows, and what they send on what they    *)
(* show, is right once they have heard of it: the quote editors and the     *)
(* dispatch board.                                                          *)
PagesSound == EditorSound /\ BoardShowsRow

(* What a technician's telephone was promised happens: writes in its outbox *)
(* and photos, and its subscription to push messages.                       *)
TelephoneSound == FieldWorkSound /\ PushSound

(* What somebody decided or finished is not undone by a request that read   *)
(* the rows before, whichever component it belongs to: rejected suggestions, *)
(* decided price proposals, revoked invitations, finished jobs and notes    *)
(* that staff linked.                                                       *)
DecisionsStand ==
  [][/\ RejectedStaysRejected /\ DecidedOnce /\ RevokedKeepsOut
     /\ FinishedJobsStay /\ TriageStands]_backOfficeVars

(* What others already rely on is not rewritten by a late or overlapping    *)
(* write: closed months, published prices, supplier references, the other   *)
(* field of a plan, the technician of a job and the record of a deleted     *)
(* customer.                                                                *)
RecordsStand ==
  [][/\ ClosedMonthStands /\ PublishedPricesStand /\ ReferenceStands /\ EditsOneField
     /\ ApprovalTakesNobodysJob /\ DeletedStaysQuiet]_backOfficeVars
=============================================================================
