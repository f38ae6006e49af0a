------------------------------- MODULE Pricing -------------------------------
(***************************************************************************)
(* What things cost the customer: the catalog templates corporate drafts,   *)
(* publishes and archives, the price changes branch managers propose, and   *)
(* the margin policy with its per-category overrides.  Publishing archives  *)
(* the template that was published in the same transaction, but locks       *)
(* nothing it has not yet seen.                                             *)
(***************************************************************************)
EXTENDS Platform

CONSTANTS
  Templates, Items, Prices,
  Catalog, Policy,  \* the rows requests on the catalog, on the policy work on
  Categories, Margins,
  InitialPolicy,
  MaxProposals, MaxPricing   \* bounds on proposals and on requests

VARIABLES
  template,    \* [Templates -> status], absent before it is created
  items,       \* [Templates -> [Items -> price, or None]]
  policy,      \* the corporate row's min, default and max margin
  overrides,   \* [Categories -> margin, or None]
  proposals,   \* pricebook_suggestions rows, oldest first
  pricer,      \* [Requests -> the request in flight]
  collided,    \* Catalog, Policy and proposals that were mixed
  priced       \* requests so far, at most MaxPricing

pricingVars ==
  <<template, items, policy, overrides, proposals, pricer, collided, priced>>

(* Margins in hundredths of a per cent; the seeded policy is in order.      *)
ASSUME PricingAssumption ==
  /\ Margins \subseteq Int /\ MaxPricing \in Nat /\ MaxProposals \in Nat
  /\ InitialPolicy \in [{"min", "default", "max"} -> Int]
  /\ InitialPolicy.min <= InitialPolicy.default
  /\ InitialPolicy.default <= InitialPolicy.max

PricerStates ==
  {Idle}
  \cup [step : {"adding", "changing", "deleting"}, row : {Catalog},
        template : Templates, item : Items, price : Prices \cup {None}]
  \cup [step : {"publishing"}, row : {Catalog}, template : Templates,
        live : SUBSET Templates]
  \cup [step : {"tuning"}, row : {Policy}, field : DOMAIN InitialPolicy, to : Margins]
  \cup [step : {"resolving"}, row : 1..MaxProposals, to : {"approved", "rejected"}]

PricingInit ==
  /\ template = [t \in Templates |-> "absent"]
  /\ items = [t \in Templates |-> [i \in Items |-> None]]
  /\ policy = InitialPolicy /\ overrides = [c \in Categories |-> None]
  /\ proposals = <<>> /\ pricer = NoRequests /\ collided = {} /\ priced = 0

Takes(r, state) ==
  /\ pricer[r] = Idle /\ priced < MaxPricing /\ priced' = priced + 1
  /\ collided' = MixedBy(collided, pricer, state.row)
  /\ pricer' = [pricer EXCEPT ![r] = state]

Returns(r) ==
  /\ pricer' = [pricer EXCEPT ![r] = Idle] /\ UNCHANGED <<collided, priced>>

(* Mutant: a template begins in a status of its own. *)
Mutant_CreateTemplateNew(t) ==
  /\ template[t] = "absent" /\ priced < MaxPricing /\ priced' = priced + 1
  /\ template' = [template EXCEPT ![t] = "new"]
  /\ UNCHANGED <<items, policy, overrides, proposals, pricer, collided>>

CreateTemplate(t) ==
  /\ template[t] = "absent" /\ priced < MaxPricing /\ priced' = priced + 1
  /\ template' = [template EXCEPT ![t] = "draft"]
  /\ UNCHANGED <<items, policy, overrides, proposals, pricer, collided>>

EditsItem(r, step, t, i, price) ==
  Takes(r, [step |-> step, row |-> Catalog, template |-> t, item |-> i,
            price |-> price])

(* Mutant: items are added to any template. *)
Mutant_AddItemAnywhere(r, t, i, price) ==
  /\ template[t] # "absent" /\ items[t][i] = None
  /\ EditsItem(r, "adding", t, i, price)
  /\ UNCHANGED <<template, items, policy, overrides, proposals>>

(* Only a draft's items may be added, changed or deleted. *)
AddItemRead(r, t, i, price) ==
  /\ template[t] = "draft" /\ items[t][i] = None
  /\ EditsItem(r, "adding", t, i, price)
  /\ UNCHANGED <<template, items, policy, overrides, proposals>>

AddItemWrite(r) ==
  /\ pricer[r].step = "adding"
  /\ items' = [items EXCEPT ![pricer[r].template][pricer[r].item] = pricer[r].price]
  /\ Returns(r)
  /\ UNCHANGED <<template, policy, overrides, proposals>>

(* Mutant: items change in any template. *)
Mutant_ChangeItemAnywhere(r, t, i, price) ==
  /\ items[t][i] # None /\ EditsItem(r, "changing", t, i, price)
  /\ UNCHANGED <<template, items, policy, overrides, proposals>>

ChangeItemRead(r, t, i, price) ==
  /\ template[t] = "draft" /\ items[t][i] # None
  /\ EditsItem(r, "changing", t, i, price)
  /\ UNCHANGED <<template, items, policy, overrides, proposals>>

(* An item deleted meanwhile stays deleted. *)
ChangeItemWrite(r) ==
  LET t == pricer[r].template i == pricer[r].item IN
  /\ pricer[r].step = "changing"
  /\ items' = IF items[t][i] = None THEN items
              ELSE [items EXCEPT ![t][i] = pricer[r].price]
  /\ Returns(r)
  /\ UNCHANGED <<template, policy, overrides, proposals>>

(* Mutant: items are deleted from any template. *)
Mutant_DeleteItemAnywhere(r, t, i) ==
  /\ items[t][i] # None /\ EditsItem(r, "deleting", t, i, None)
  /\ UNCHANGED <<template, items, policy, overrides, proposals>>

DeleteItemRead(r, t, i) ==
  /\ template[t] = "draft" /\ items[t][i] # None
  /\ EditsItem(r, "deleting", t, i, None)
  /\ UNCHANGED <<template, items, policy, overrides, proposals>>

DeleteItemWrite(r) ==
  /\ pricer[r].step = "deleting"
  /\ items' = [items EXCEPT ![pricer[r].template][pricer[r].item] = None]
  /\ Returns(r)
  /\ UNCHANGED <<template, policy, overrides, proposals>>

Published == {t \in Templates : template[t] = "published"}

PublishRead(r, t) ==
  /\ template[t] \in {"draft", "published"}
  /\ Takes(r, [step |-> "publishing", row |-> Catalog, template |-> t,
               live |-> Published])
  /\ UNCHANGED <<template, items, policy, overrides, proposals>>

(* Mutant: the template that was published stays. *)
Mutant_PublishBeside(r) ==
  /\ pricer[r].step = "publishing"
  /\ template' = [template EXCEPT ![pricer[r].template] = "published"]
  /\ Returns(r)
  /\ UNCHANGED <<items, policy, overrides, proposals>>

PublishCommit(r) ==
  /\ pricer[r].step = "publishing"
  /\ template' = [t \in Templates |->
                    IF t = pricer[r].template THEN "published"
                    ELSE IF t \in pricer[r].live \cap Published THEN "archived"
                    ELSE template[t]]
  /\ Returns(r)
  /\ UNCHANGED <<items, policy, overrides, proposals>>

(* Whatever its status. *)
ArchiveTemplate(t) ==
  /\ template[t] # "absent" /\ priced < MaxPricing /\ priced' = priced + 1
  /\ template' = [template EXCEPT ![t] = "archived"]
  /\ UNCHANGED <<items, policy, overrides, proposals, pricer, collided>>

Ordered(p) == p.min <= p.default /\ p.default <= p.max

(* Mutant: the table compares the default with the ceiling only. *)
Mutant_MarginBoundsAbove(p) == 0 <= p.min /\ p.min < p.max /\ p.default <= p.max

(* corporate_margin_bounds_chk: the table refuses a row out of order, and   *)
(* the request that writes it fails.                                        *)
MarginBounds(p) == 0 <= p.min /\ p.min < p.max /\ Ordered(p)

(* PATCH /margins/policy checks the bounds its body and the row it read     *)
(* give together, and writes only what the body names.                      *)
PatchPolicyRead(r, field, to) ==
  /\ Ordered([policy EXCEPT ![field] = to])
  /\ Takes(r, [step |-> "tuning", row |-> Policy, field |-> field, to |-> to])
  /\ UNCHANGED <<template, items, policy, overrides, proposals>>

PatchPolicyWrite(r) ==
  LET row == [policy EXCEPT ![pricer[r].field] = pricer[r].to] IN
  /\ pricer[r].step = "tuning"
  /\ policy' = IF MarginBounds(row) THEN row ELSE policy
  /\ Returns(r)
  /\ UNCHANGED <<template, items, overrides, proposals>>

SetsOverride(c, to) ==
  /\ priced < MaxPricing /\ priced' = priced + 1
  /\ overrides' = [overrides EXCEPT ![c] = to]
  /\ UNCHANGED <<template, items, policy, proposals, pricer, collided>>

(* One override a category, never compared with the policy's bounds. *)
CreateOverride(c, to) == overrides[c] = None /\ SetsOverride(c, to)

PatchOverride(c, to) == overrides[c] # None /\ SetsOverride(c, to)

DeleteOverride(c) == overrides[c] # None /\ SetsOverride(c, None)

(* A manager proposes a price for an item that is there or ever was: items  *)
(* are deleted softly and the proposal does not ask.                        *)
Propose ==
  /\ \E t \in Templates : template[t] # "absent"
  /\ Len(proposals) < MaxProposals
  /\ proposals' = Append(proposals, "pending")
  /\ UNCHANGED <<template, items, policy, overrides, pricer, collided, priced>>

ResolveRead(r, k, to) ==
  /\ proposals[k] = "pending"
  /\ Takes(r, [step |-> "resolving", row |-> k, to |-> to])
  /\ UNCHANGED <<template, items, policy, overrides, proposals>>

(* Mutant: the UPDATE goes by id alone. *)
Mutant_ResolveById(r) ==
  /\ pricer[r].step = "resolving"
  /\ proposals' = [proposals EXCEPT ![pricer[r].row] = pricer[r].to]
  /\ Returns(r)
  /\ UNCHANGED <<template, items, policy, overrides>>

(* The UPDATE asks once more that the row be pending. *)
ResolveWrite(r) ==
  LET k == pricer[r].row IN
  /\ pricer[r].step = "resolving"
  /\ proposals' = IF proposals[k] = "pending"
                  THEN [proposals EXCEPT ![k] = pricer[r].to] ELSE proposals
  /\ Returns(r)
  /\ UNCHANGED <<template, items, policy, overrides>>

(* The process stops before the write. *)
PricerStops(r) ==
  /\ pricer[r] # Idle /\ Returns(r)
  /\ UNCHANGED <<template, items, policy, overrides, proposals>>

PricingNext ==
  \/ \E t \in Templates : CreateTemplate(t)
  \/ \E r \in Requests, t \in Templates, i \in Items, price \in Prices :
       AddItemRead(r, t, i, price)
  \/ \E r \in Requests : AddItemWrite(r)
  \/ \E r \in Requests, t \in Templates, i \in Items, price \in Prices :
       ChangeItemRead(r, t, i, price)
  \/ \E r \in Requests : ChangeItemWrite(r)
  \/ \E r \in Requests, t \in Templates, i \in Items : DeleteItemRead(r, t, i)
  \/ \E r \in Requests : DeleteItemWrite(r)
  \/ \E r \in Requests, t \in Templates : PublishRead(r, t)
  \/ \E r \in Requests : PublishCommit(r)
  \/ \E t \in Templates : ArchiveTemplate(t)
  \/ \E r \in Requests, field \in DOMAIN InitialPolicy, to \in Margins :
       PatchPolicyRead(r, field, to)
  \/ \E r \in Requests : PatchPolicyWrite(r)
  \/ \E c \in Categories, to \in Margins : CreateOverride(c, to)
  \/ \E c \in Categories, to \in Margins : PatchOverride(c, to)
  \/ \E c \in Categories : DeleteOverride(c)
  \/ Propose
  \/ \E r \in Requests, k \in DOMAIN proposals, to \in {"approved", "rejected"} :
       ResolveRead(r, k, to)
  \/ \E r \in Requests : ResolveWrite(r)
  \/ \E r \in Requests : PricerStops(r)

PricingSpec == PricingInit /\ [][PricingNext]_pricingVars
-----------------------------------------------------------------------------
(* resolveSellingPrice: the margin of a line, the first of its own, its     *)
(* category's and the default; outside the bounds the line has no price.    *)
MarginOf(line, category) ==
  IF line # None THEN line
  ELSE IF category # None THEN category ELSE policy.default

InBounds(margin) == policy.min <= margin /\ margin <= policy.max

(* Every row and request in flight is one the code can produce. *)
PricingTypeOK ==
  /\ template \in [Templates -> {"absent", "draft", "published", "archived"}]
  /\ items \in [Templates -> [Items -> Prices \cup {None}]]
  /\ policy \in [DOMAIN InitialPolicy -> Int]
  /\ overrides \in [Categories -> Margins \cup {None}]
  /\ proposals \in Seq({"pending", "approved", "rejected"})
  /\ pricer \in [Requests -> PricerStates] /\ priced \in 0..MaxPricing

(* Branches see one price list: at most one template is published, however  *)
(* templates follow each other, unless two catalog requests overlapped.     *)
OnePriceList == Catalog \notin collided => Cardinality(Published) <= 1

(* A line with neither an override of its own nor one for its category      *)
(* always has a price, also when edits of the policy overlap.               *)
DefaultHasPrice == InBounds(MarginOf(None, None))

(* The prices a branch quotes from stand for as long as their template is   *)
(* published, unless two catalog requests overlapped.                       *)
PublishedPricesStand ==
  \A t \in Published :
     Catalog \notin collided' => items'[t] = items[t]

(* A proposal is decided once, even when it is approved and rejected at the *)
(* same time.                                                               *)
DecidedOnce ==
  \A k \in DOMAIN proposals :
     proposals[k] # "pending" => proposals'[k] = proposals[k]

(* What a branch quotes from: one list, and a margin for every line. *)
PriceListSound ==
  /\ OnePriceList
  /\ DefaultHasPrice
=============================================================================
