-------------------------- MODULE PushSubscriptions --------------------------
(***************************************************************************)
(* Which browser gets whose push messages.  A technician's page subscribes  *)
(* the browser once a tab; a browser that another user had subscribed is    *)
(* taken over.  A request finds the live row of the browser among the rows  *)
(* its scope may see, and writes by id in the same transaction; an index    *)
(* over all rows allows a browser one live row.                             *)
(***************************************************************************)
EXTENDS Platform

CONSTANTS
  Browsers,              \* endpoints
  SignIns,               \* [user, town]: who works at which branch
  MaxSubscriptions, MaxPushes  \* bounds on the rows and on the requests

(* Nobody is called None. *)
ASSUME PushAssumption ==
  /\ None \notin {s.user : s \in SignIns}
  /\ MaxSubscriptions \in Nat /\ MaxPushes \in Nat

VARIABLES
  seat,          \* [Browsers -> who is signed in, or None]
  asked,         \* browsers whose tab has asked once
  waiting,       \* browsers whose subscription waits in the outbox
  subscriptions, \* push_subscriptions rows, oldest first
  pushes,        \* [Requests -> the request in flight]
  told,          \* [Browsers -> the user last told that he is subscribed, or None]
  crowded,       \* browsers that two requests worked on at once
  begun

pushVars ==
  <<seat, asked, waiting, subscriptions, pushes, told, crowded, begun>>

Users == {s.user : s \in SignIns}

SubscriptionRows ==
  [browser : Browsers, user : Users, town : {s.town : s \in SignIns}, live : BOOLEAN]

PushStates ==
  {Idle} \cup [step : {"subscribing", "leaving"}, row : Browsers, who : SignIns,
               found : 0..MaxSubscriptions]

PushInit ==
  /\ seat = [b \in Browsers |-> None] /\ asked = {} /\ waiting = {}
  /\ subscriptions = <<>> /\ pushes = NoRequests
  /\ told = [b \in Browsers |-> None] /\ crowded = {} /\ begun = 0

(* The scoped policy and the policy of the user's own rows. *)
Sees(who, k) ==
  subscriptions[k].town = who.town \/ subscriptions[k].user = who.user

LiveRows(b) ==
  {k \in DOMAIN subscriptions : subscriptions[k].browser = b /\ subscriptions[k].live}

Found(rows) == IF rows = {} THEN 0 ELSE CHOOSE k \in rows : TRUE

PushBegins(r, step, b, who, rows) ==
  /\ pushes[r] = Idle /\ begun < MaxPushes /\ begun' = begun + 1
  /\ pushes' = [pushes EXCEPT ![r] =
                  [step |-> step, row |-> b, who |-> who, found |-> Found(rows)]]
  /\ crowded' = MixedBy(crowded, pushes, b)

PushEnds(r) == pushes' = [pushes EXCEPT ![r] = Idle]

Delete(k) == [subscriptions EXCEPT ![k].live = FALSE]
-----------------------------------------------------------------------------
(* The browser: PushSubscribe.tsx *)

SignIn(b, who) ==
  /\ seat[b] = None /\ seat' = [seat EXCEPT ![b] = who]
  /\ UNCHANGED <<asked, waiting, subscriptions, pushes, told, crowded, begun>>

(* The tab remembers that it has asked. *)
SignOut(b) ==
  /\ seat[b] # None /\ seat' = [seat EXCEPT ![b] = None]
  /\ UNCHANGED <<asked, waiting, subscriptions, pushes, told, crowded, begun>>

NewTab(b) ==
  /\ b \in asked /\ asked' = asked \ {b}
  /\ UNCHANGED <<seat, waiting, subscriptions, pushes, told, crowded, begun>>

(* Denied, no key, no worker, or the request failed on its way. *)
AskInVain(b) ==
  /\ seat[b] # None /\ b \notin asked /\ asked' = asked \cup {b}
  /\ UNCHANGED <<seat, waiting, subscriptions, pushes, told, crowded, begun>>

AskOffline(b) ==
  /\ seat[b] # None /\ b \notin asked
  /\ asked' = asked \cup {b} /\ waiting' = waiting \cup {b}
  /\ UNCHANGED <<seat, subscriptions, pushes, told, crowded, begun>>
-----------------------------------------------------------------------------
(* push-routes.ts *)

SubscribeReads(r, b) ==
  PushBegins(r, "subscribing", b, seat[b], {k \in LiveRows(b) : Sees(seat[b], k)})

Ask(r, b) ==
  /\ seat[b] # None /\ b \notin asked /\ SubscribeReads(r, b)
  /\ UNCHANGED <<seat, asked, waiting, subscriptions, told>>

(* The outbox drains under whoever is signed in by then. *)
AskLater(r, b) ==
  /\ seat[b] # None /\ b \in waiting /\ SubscribeReads(r, b)
  /\ waiting' = waiting \ {b}
  /\ UNCHANGED <<seat, asked, subscriptions, told>>

SaysSubscribed(r) ==
  /\ asked' = asked \cup {pushes[r].row}
  /\ told' = [told EXCEPT ![pushes[r].row] = pushes[r].who.user]

(* Mutant: any row of the browser is taken for one's own. *)
Mutant_OwnRowAny(p) == p.found # 0

OwnRow(p) == p.found # 0 /\ subscriptions[p.found].user = p.who.user

(* SaysSubscribed even if the row was deleted since it was read. *)
Renewed(r) ==
  LET p == pushes[r] IN
  /\ p.step = "subscribing" /\ OwnRow(p)
  /\ subscriptions' = [subscriptions EXCEPT ![p.found].town = p.who.town]
  /\ SaysSubscribed(r) /\ PushEnds(r)
  /\ UNCHANGED <<seat, waiting, crowded, begun>>

(* The other user's row that was read, if it may still be seen. *)
WithoutTheOthers(p) ==
  IF p.found # 0 /\ Sees(p.who, p.found) THEN Delete(p.found) ELSE subscriptions

NoneLive(b, rows) == \A k \in DOMAIN rows : rows[k].browser = b => ~rows[k].live

Subscribed(r) ==
  LET p == pushes[r]  rest == WithoutTheOthers(p) IN
  /\ p.step = "subscribing" /\ ~OwnRow(p)
  /\ Len(subscriptions) < MaxSubscriptions /\ NoneLive(p.row, rest)
  /\ subscriptions' = Append(rest, [browser |-> p.row, user |-> p.who.user,
                                    town |-> p.who.town, live |-> TRUE])
  /\ SaysSubscribed(r) /\ PushEnds(r)
  /\ UNCHANGED <<seat, waiting, crowded, begun>>

(* push_subscriptions_endpoint_unique: a live row is left that this user     *)
(* did not read, or may not see.                                            *)
SubscribeFails(r) ==
  LET p == pushes[r] IN
  /\ p.step = "subscribing" /\ ~OwnRow(p) /\ ~NoneLive(p.row, WithoutTheOthers(p))
  /\ asked' = asked \cup {p.row} /\ PushEnds(r)
  /\ UNCHANGED <<seat, waiting, subscriptions, told, crowded, begun>>

(* Mutant: anybody of the branch may end a subscription. *)
Mutant_OwnSeen(who, b) == {k \in LiveRows(b) : Sees(who, k)}

Own(who, b) == {k \in LiveRows(b) : subscriptions[k].user = who.user}

(* By endpoint or by id. *)
LeaveReads(r, b, who) ==
  /\ Own(who, b) # {} /\ PushBegins(r, "leaving", b, who, Own(who, b))
  /\ UNCHANGED <<seat, asked, waiting, subscriptions, told>>

Left(r) ==
  LET p == pushes[r] IN
  /\ p.step = "leaving" /\ subscriptions' = Delete(p.found)
  /\ told' = IF told[p.row] = p.who.user THEN [told EXCEPT ![p.row] = None] ELSE told
  /\ PushEnds(r) /\ UNCHANGED <<seat, asked, waiting, crowded, begun>>

PushNext ==
  \/ \E b \in Browsers, who \in SignIns : SignIn(b, who)
  \/ \E b \in Browsers : SignOut(b)
  \/ \E b \in Browsers : NewTab(b)
  \/ \E b \in Browsers : AskInVain(b)
  \/ \E b \in Browsers : AskOffline(b)
  \/ \E r \in Requests, b \in Browsers : Ask(r, b)
  \/ \E r \in Requests, b \in Browsers : AskLater(r, b)
  \/ \E r \in Requests : Renewed(r)
  \/ \E r \in Requests : Subscribed(r)
  \/ \E r \in Requests : SubscribeFails(r)
  \/ \E r \in Requests, b \in Browsers, who \in SignIns : LeaveReads(r, b, who)
  \/ \E r \in Requests : Left(r)

PushSpec == PushInit /\ [][PushNext]_pushVars
-----------------------------------------------------------------------------
(* Every row, tab and request is one the code can produce. *)
PushTypeOK ==
  /\ seat \in [Browsers -> SignIns \cup {None}]
  /\ asked \subseteq Browsers /\ waiting \subseteq Browsers
  /\ subscriptions \in Seq(SubscriptionRows)
  /\ Len(subscriptions) <= MaxSubscriptions
  /\ pushes \in [Requests -> PushStates] /\ told \in [Browsers -> Users \cup {None}]
  /\ crowded \subseteq Browsers /\ begun \in 0..MaxPushes

(* A browser gets the messages of the user who was last told that it does,  *)
(* and of nobody else, through sign-outs, take-overs, moves to another      *)
(* branch and subscriptions sent late, unless two requests worked on it at  *)
(* once.                                                                    *)
PushReachesWhoAsked ==
  \A b \in Browsers \ crowded :
    {subscriptions[k].user : k \in LiveRows(b)} = {told[b]} \ {None}

(* Even then it gets the messages of one user at most. *)
OnePersonABrowser == \A b \in Browsers : Cardinality(LiveRows(b)) <= 1

PushSound == PushReachesWhoAsked /\ OnePersonABrowser
=============================================================================
