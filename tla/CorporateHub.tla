---------------------------- MODULE CorporateHub ----------------------------
(***************************************************************************)
(* The corporate console and what it governs: branches and who manages      *)
(* them, compensation plans and who is on them, and the commission that     *)
(* paid invoices credit to the manager of the branch under the plan in      *)
(* force.  Assigning closes the open row and inserts the next in one        *)
(* transaction; neither row is locked, nor is a plan that is being edited.  *)
(* An index allows one open post a branch; nothing does so for plans.       *)
(*                                                                         *)
(* A day is a number, a month is MonthLength days, and every invoice is of  *)
(* the same amount, so a plan's rate is what one invoice credits.           *)
(***************************************************************************)
EXTENDS Platform

CONSTANTS
  Staff, Sites, PayPlans,
  Sales,       \* invoices a customer may pay, the branch of each
  MonthLength, LastDay,
  Rates, Bases,
  EndDays,        \* days a request may end an assignment on
  MaxRequests  \* bound on the console requests of a behaviour

VARIABLES
  today,
  sites,       \* branches that exist, with their status
  posts,       \* branch_managers rows, oldest first
  payPlans,    \* comp_plans rows
  onPlan,      \* user_comp_assignments rows, oldest first
  credits,     \* commission_ledger rows
  admin,       \* [Requests -> the corporate request in flight]
  overlapped,  \* sites, staff and plans that were mixed
  served       \* console requests so far, at most MaxRequests

hubVars ==
  <<today, sites, posts, payPlans, onPlan, credits, admin, overlapped, served>>

Days == 0..LastDay

(* A month has days, rates are whole numbers, and no day stands for an open *)
(* end.                                                                     *)
ASSUME HubAssumption ==
  /\ MonthLength \in Nat \ {0} /\ LastDay \in Nat /\ MaxRequests \in Nat
  /\ Rates \subseteq Int
  /\ None \notin Days /\ EndDays \subseteq Days

Month(day) == day \div MonthLength
FirstDay(month) == month * MonthLength
Terms == [base : Bases, rate : Rates]
SiteStatus == {"active", "paused", "closed"}

Posts == [site : Sites, user : Staff, from : Days, to : Days \cup {None}]

(* until is the end the request itself asked for, None for an open end. *)
Assignments ==
  [user : Staff, plan : PayPlans, from : Days, to : Days \cup {None},
   until : Days \cup {None}]
Credits ==
  [user : Staff, site : Sites, source : DOMAIN Sales, kind : {"paid", "reversed"},
   amount : Int, month : Nat, day : Days]

AdminStates ==
  {Idle}
  \cup [step : {"appointing"}, row : Sites, user : Staff, open : SUBSET (1..MaxRequests)]
  \cup [step : {"assigning"}, row : Staff, plan : PayPlans, from : Days,
        open : SUBSET (1..MaxRequests)]
  \cup [step : {"patching"}, row : PayPlans, read : Terms, field : {"base", "rate"}]

HubInit ==
  /\ today = 0 /\ sites = <<>> /\ posts = <<>> /\ onPlan = <<>>
  /\ payPlans = <<>> /\ credits = {} /\ admin = NoRequests
  /\ overlapped = {} /\ served = 0

(* One console request more. *)
Serve == served < MaxRequests /\ served' = served + 1

DayPasses ==
  /\ today < LastDay /\ today' = today + 1
  /\ UNCHANGED <<sites, posts, payPlans, onPlan, credits, admin, overlapped, served>>

(* The slug is unique, checked and indexed. *)
CreateBranch(b) ==
  /\ Serve
  /\ b \notin DOMAIN sites
  /\ sites' = [x \in DOMAIN sites \cup {b} |-> IF x = b THEN "active" ELSE sites[x]]
  /\ UNCHANGED <<today, posts, payPlans, onPlan, credits, admin, overlapped>>

(* Pausing an active branch must be confirmed. *)
PatchBranch(b, status, confirmation) ==
  /\ Serve
  /\ status = "paused" /\ sites[b] = "active" => confirmation
  /\ sites' = [sites EXCEPT ![b] = status]
  /\ UNCHANGED <<today, posts, payPlans, onPlan, credits, admin, overlapped>>

OpenPosts(b) == {k \in DOMAIN posts : posts[k].site = b /\ posts[k].to = None}
OpenPlans(u) == {k \in DOMAIN onPlan : onPlan[k].user = u /\ onPlan[k].to = None}

(* POST /branches/:id/managers: the UPDATE sees the rows open as it starts. *)
AppointRead(r, b, u) ==
  /\ Serve
  /\ admin[r] = Idle
  /\ overlapped' = MixedBy(overlapped, admin, b)
  /\ admin' = [admin EXCEPT ![r] =
                 [step |-> "appointing", row |-> b, user |-> u, open |-> OpenPosts(b)]]
  /\ UNCHANGED <<today, sites, posts, payPlans, onPlan, credits>>

(* Mutant: the row ends the day before. *)
Mutant_EndedBefore(rows, ks, day) ==
  [k \in DOMAIN rows |->
     IF k \in ks /\ rows[k].to = None THEN [rows[k] EXCEPT !.to = day - 1] ELSE rows[k]]

(* A row another transaction closed meanwhile is not closed again. *)
Ended(rows, ks, day) ==
  [k \in DOMAIN rows |->
     IF k \in ks /\ rows[k].to = None THEN [rows[k] EXCEPT !.to = day] ELSE rows[k]]

(* Mutant: the post begins the day after. *)
Mutant_AppointTomorrow(r) ==
  /\ admin[r].step = "appointing"
  /\ OpenPosts(admin[r].row) \subseteq admin[r].open
  /\ posts' = Append(Ended(posts, admin[r].open, today),
       [site |-> admin[r].row, user |-> admin[r].user, from |-> today + 1, to |-> None])
  /\ admin' = [admin EXCEPT ![r] = Idle]
  /\ UNCHANGED <<today, sites, payPlans, onPlan, credits, overlapped, served>>

(* branch_managers_active_one_per_branch refuses a second open post, so an  *)
(* appointment that another overtook rolls back (AdminStops).               *)
AppointCommit(r) ==
  /\ admin[r].step = "appointing"
  /\ OpenPosts(admin[r].row) \subseteq admin[r].open
  /\ posts' = Append(Ended(posts, admin[r].open, today),
       [site |-> admin[r].row, user |-> admin[r].user, from |-> today, to |-> None])
  /\ admin' = [admin EXCEPT ![r] = Idle]
  /\ UNCHANGED <<today, sites, payPlans, onPlan, credits, overlapped, served>>

CreatePlan(p, terms) ==
  /\ Serve
  /\ p \notin DOMAIN payPlans
  /\ payPlans' =
       [x \in DOMAIN payPlans \cup {p} |-> IF x = p THEN terms ELSE payPlans[x]]
  /\ UNCHANGED <<today, sites, posts, onPlan, credits, admin, overlapped>>

(* PATCH /comp-plans/:id merges the body into the row it read and writes    *)
(* every column back.                                                       *)
PatchPlanRead(r, p, field) ==
  /\ Serve
  /\ admin[r] = Idle
  /\ overlapped' = MixedBy(overlapped, admin, p)
  /\ admin' = [admin EXCEPT ![r] =
                 [step |-> "patching", row |-> p, read |-> payPlans[p], field |-> field]]
  /\ UNCHANGED <<today, sites, posts, payPlans, onPlan, credits>>

(* Mutant: a column the body does not name takes its default. *)
Mutant_PatchPlanResets(r) ==
  /\ admin[r].step = "patching"
  /\ \E base \in Bases, rate \in Rates :
       payPlans' = [payPlans EXCEPT ![admin[r].row] = [base |-> base, rate |-> rate]]
  /\ admin' = [admin EXCEPT ![r] = Idle]
  /\ UNCHANGED <<today, sites, posts, onPlan, credits, overlapped, served>>

PatchPlanWrite(r) ==
  /\ admin[r].step = "patching"
  /\ \E value \in IF admin[r].field = "base" THEN Bases ELSE Rates :
       payPlans' = [payPlans EXCEPT ![admin[r].row] =
                      [admin[r].read EXCEPT ![admin[r].field] = value]]
  /\ admin' = [admin EXCEPT ![r] = Idle]
  /\ UNCHANGED <<today, sites, posts, onPlan, credits, overlapped, served>>

(* POST /comp-plans/:id/assign, from any day, past or future. *)
AssignRead(r, u, p, from) ==
  /\ Serve
  /\ admin[r] = Idle
  /\ overlapped' = MixedBy(overlapped, admin, u)
  /\ admin' = [admin EXCEPT ![r] =
                 [step |-> "assigning", row |-> u, plan |-> p, from |-> from,
                  open |-> OpenPlans(u)]]
  /\ UNCHANGED <<today, sites, posts, payPlans, onPlan, credits>>

(* Mutant: the open assignment ends today, whenever the next begins. *)
Mutant_AssignEndsToday(r) ==
  /\ admin[r].step = "assigning"
  /\ \E until \in {None} \cup {day \in EndDays : admin[r].from <= day} :
       onPlan' = Append(Ended(onPlan, admin[r].open, today),
         [user |-> admin[r].row, plan |-> admin[r].plan, from |-> admin[r].from,
          to |-> until, until |-> until])
  /\ admin' = [admin EXCEPT ![r] = Idle]
  /\ UNCHANGED <<today, sites, posts, payPlans, credits, overlapped, served>>

(* Mutant: the open assignment stays open. *)
Mutant_AssignBeside(r) ==
  /\ admin[r].step = "assigning"
  /\ \E until \in {None} \cup {day \in EndDays : admin[r].from <= day} :
       onPlan' = Append(onPlan,
         [user |-> admin[r].row, plan |-> admin[r].plan, from |-> admin[r].from,
          to |-> until, until |-> until])
  /\ admin' = [admin EXCEPT ![r] = Idle]
  /\ UNCHANGED <<today, sites, posts, payPlans, credits, overlapped, served>>

(* user_comp_assignments_effective_range_chk: nothing ends before it began, *)
(* neither the row that is closed nor the new one, which may name its end.  *)
AssignCommit(r) ==
  /\ admin[r].step = "assigning"
  /\ \A k \in admin[r].open : onPlan[k].to = None => onPlan[k].from <= admin[r].from
  /\ \E until \in {None} \cup {day \in EndDays : admin[r].from <= day} :
       onPlan' = Append(Ended(onPlan, admin[r].open, admin[r].from),
         [user |-> admin[r].row, plan |-> admin[r].plan, from |-> admin[r].from,
          to |-> until, until |-> until])
  /\ admin' = [admin EXCEPT ![r] = Idle]
  /\ UNCHANGED <<today, sites, posts, payPlans, credits, overlapped, served>>

(* The transaction rolls back, or the process stops. *)
AdminStops(r) ==
  /\ admin[r] # Idle
  /\ admin' = [admin EXCEPT ![r] = Idle]
  /\ UNCHANGED <<today, sites, posts, payPlans, onPlan, credits, overlapped, served>>

(* findActivePlan: of the assignments that cover the day, both ends         *)
(* included, the one that starts first.                                     *)
Covering(u, day) ==
  {k \in DOMAIN onPlan :
     /\ onPlan[k].user = u /\ onPlan[k].from <= day
     /\ onPlan[k].to = None \/ day <= onPlan[k].to}

PlanInForce(u, day) ==
  {k \in Covering(u, day) :
     \A n \in Covering(u, day) : onPlan[k].from <= onPlan[n].from}

(* Mutant: whoever had a post in any branch is credited. *)
Mutant_InvoicePaidAnyPost(i) ==
  LET b == Sales[i] IN
  /\ b \in DOMAIN sites /\ \A c \in credits : c.source # i
  /\ \E k \in DOMAIN posts : \E a \in PlanInForce(posts[k].user, today) :
       LET rate == payPlans[onPlan[a].plan].rate IN
       credits' = credits \cup
         {[user |-> posts[k].user, site |-> b, source |-> i, kind |-> "paid",
           amount |-> rate, month |-> Month(today), day |-> today]}
  /\ UNCHANGED <<today, sites, posts, payPlans, onPlan, admin, overlapped, served>>

(* onInvoicePaid: nobody managing, or no plan, credits nobody. *)
InvoicePaid(i) ==
  LET b == Sales[i] IN
  /\ b \in DOMAIN sites /\ \A c \in credits : c.source # i
  /\ \E k \in OpenPosts(b) : \E a \in PlanInForce(posts[k].user, today) :
       LET rate == payPlans[onPlan[a].plan].rate IN
       credits' = credits \cup
         {[user |-> posts[k].user, site |-> b, source |-> i, kind |-> "paid",
           amount |-> rate, month |-> Month(today), day |-> today]}
  /\ UNCHANGED <<today, sites, posts, payPlans, onPlan, admin, overlapped, served>>

(* Mutant: the claw-back falls in the month of the credit. *)
Mutant_RefundedInCreditMonth(i) ==
  /\ \E c \in credits : c.source = i
  /\ credits' = credits \cup
       {[c EXCEPT !.kind = "reversed", !.amount = -c.amount, !.day = today] :
          c \in {x \in credits : x.source = i /\ x.kind = "paid"}}
  /\ \A c \in credits : c.source = i => c.kind = "paid"
  /\ UNCHANGED <<today, sites, posts, payPlans, onPlan, admin, overlapped, served>>

(* writeReversals: the claw-back falls in the month it is made in. *)
InvoiceRefunded(i) ==
  /\ \E c \in credits : c.source = i
  /\ credits' = credits \cup
       {[c EXCEPT !.kind = "reversed", !.amount = -c.amount,
                  !.month = Month(today), !.day = today] :
          c \in {x \in credits : x.source = i /\ x.kind = "paid"}}
  /\ \A c \in credits : c.source = i => c.kind = "paid"
  /\ UNCHANGED <<today, sites, posts, payPlans, onPlan, admin, overlapped, served>>

HubNext ==
  \/ DayPasses
  \/ \E b \in Sites : CreateBranch(b)
  \/ \E b \in DOMAIN sites, status \in SiteStatus, confirmation \in BOOLEAN :
       PatchBranch(b, status, confirmation)
  \/ \E r \in Requests, b \in DOMAIN sites, u \in Staff : AppointRead(r, b, u)
  \/ \E r \in Requests : AppointCommit(r)
  \/ \E p \in PayPlans, terms \in Terms : CreatePlan(p, terms)
  \/ \E r \in Requests, p \in DOMAIN payPlans, field \in {"base", "rate"} :
       PatchPlanRead(r, p, field)
  \/ \E r \in Requests : PatchPlanWrite(r)
  \/ \E r \in Requests, u \in Staff, p \in DOMAIN payPlans, from \in Days :
       AssignRead(r, u, p, from)
  \/ \E r \in Requests : AssignCommit(r)
  \/ \E r \in Requests : AdminStops(r)
  \/ \E i \in DOMAIN Sales : InvoicePaid(i)
  \/ \E i \in DOMAIN Sales : InvoiceRefunded(i)

HubSpec == HubInit /\ [][HubNext]_hubVars
-----------------------------------------------------------------------------
(* computeCommission: the base salary of the plan in force on the first day *)
(* of the month, and the sum of the month's ledger rows.                    *)
BaseSalary(u, month) ==
  IF PlanInForce(u, FirstDay(month)) = {} THEN {0}
  ELSE {payPlans[onPlan[k].plan].base : k \in PlanInForce(u, FirstDay(month))}

RowsOf(u, month) == {c \in credits : c.user = u /\ c.month = month}

Commission(u, month) ==
  LET Sum[rows \in SUBSET RowsOf(u, month)] ==
        IF rows = {} THEN 0
        ELSE LET c == CHOOSE x \in rows : TRUE IN c.amount + Sum[rows \ {c}]
  IN  Sum[RowsOf(u, month)]

(* Every row and request in flight is one the code can produce. *)
HubTypeOK ==
  /\ today \in Days
  /\ DOMAIN sites \subseteq Sites /\ \A b \in DOMAIN sites : sites[b] \in SiteStatus
  /\ DOMAIN payPlans \subseteq PayPlans
  /\ \A p \in DOMAIN payPlans : payPlans[p] \in Terms
  /\ posts \in Seq(Posts) /\ onPlan \in Seq(Assignments)
  /\ credits \subseteq Credits
  /\ admin \in [Requests -> AdminStates] /\ served \in 0..MaxRequests

(* The managers of a branch follow one another without a gap or an overlap, *)
(* and the last appointed is the one in post, however appointments of the   *)
(* branch overlap (0016: branch_managers_active_one_per_branch).            *)
ManagersSucceed ==
  \A b \in DOMAIN sites :
    LET rows == {k \in DOMAIN posts : posts[k].site = b} IN
    \A k \in rows :
      LET later == {n \in rows : n > k} IN
      IF later = {} THEN posts[k].to = None
      ELSE \E n \in later : posts[k].to = posts[n].from /\ \A x \in later : n <= x

(* Who has been put on a plan and is on none some day later is past the end *)
(* an assignment was given, and was put on no other since: changing plans,  *)
(* for the past or the future and two at once, leaves nobody unpaid.        *)
NoPayGap ==
  \A k \in DOMAIN onPlan : \A day \in onPlan[k].from..LastDay :
    LET u == onPlan[k].user IN
    \/ Covering(u, day) # {}
    \/ \E n \in DOMAIN onPlan :
         /\ onPlan[n].user = u /\ onPlan[n].until # None /\ onPlan[n].until < day
         /\ \A m \in DOMAIN onPlan :
              onPlan[m].user = u /\ onPlan[m].from <= day =>
                onPlan[m].from <= onPlan[n].until

(* At most one assignment is open, unless two overlapped: who is listed on  *)
(* which plan never depends on which of two rows a query returns first.     *)
OneOpenPlan == \A u \in Staff \ overlapped : Cardinality(OpenPlans(u)) <= 1

(* A credit goes to somebody who managed the branch on the day the invoice  *)
(* was paid.                                                                *)
CreditIsEarned ==
  \A c \in credits : c.kind = "paid" =>
    \E k \in DOMAIN posts :
      /\ posts[k].site = c.site /\ posts[k].user = c.user
      /\ posts[k].from <= c.day /\ (posts[k].to = None \/ c.day <= posts[k].to)

(* The commission of a month that is over never changes: refunds are clawed *)
(* back from the month they are made in, and plan edits leave it alone.     *)
ClosedMonthStands ==
  \A u \in Staff, month \in 0..Month(LastDay) :
     month < Month(today) => Commission(u, month)' = Commission(u, month)

(* An edit of a plan's base leaves its rate as it was and the other way     *)
(* round, unless two edits of the plan overlapped.                          *)
EditsOneField ==
  \A p \in DOMAIN payPlans \ overlapped :
     \/ payPlans'[p].base = payPlans[p].base
     \/ payPlans'[p].rate = payPlans[p].rate

(* Managers, pay plans and the commissions that follow from them. *)
PostsAndPaySound ==
  /\ ManagersSucceed
  /\ NoPayGap
  /\ OneOpenPlan
  /\ CreditIsEarned
=============================================================================
