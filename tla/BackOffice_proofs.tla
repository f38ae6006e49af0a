-------------------------- MODULE BackOffice_proofs --------------------------
(***************************************************************************)
(* What browsers and telephones hold of the server's rows: subscriptions to *)
(* push messages, the dispatch board, the quote editors, the outbox and the *)
(* photos, for any users, columns, lines and bounds; and what holds of the  *)
(* components of the back office together.                                  *)
(***************************************************************************)
EXTENDS Office_proofs, MCBackOffice

-----------------------------------------------------------------------------
(* Push subscriptions.                                                      *)

(* What a request found is a row of its browser, and to leave it found one. *)
FoundFits(p) ==
  /\ p # Idle /\ p.found # 0 =>
       p.found \in DOMAIN subscriptions /\ subscriptions[p.found].browser = p.row
  /\ p.step = "leaving" =>
       p.found # 0 /\ subscriptions[p.found].user = p.who.user

OneLiveRow ==
  \A k, l \in DOMAIN subscriptions :
    /\ subscriptions[k].browser = subscriptions[l].browser
    /\ subscriptions[k].live /\ subscriptions[l].live
    => k = l

(* On a browser that one request at a time worked on, what the request found *)
(* is still live.                                                           *)
FoundStands ==
  \A r \in Requests : pushes[r] # Idle /\ pushes[r].row \notin crowded =>
    /\ pushes[r].found # 0 => subscriptions[pushes[r].found].live
    /\ \A q \in Requests :
         pushes[q] # Idle /\ pushes[q].row = pushes[r].row => q = r

(* PushReachesWhoAsked, row by row. *)
LiveAsTold ==
  \A b \in Browsers \ crowded :
    /\ told[b] # None =>
         \E k \in DOMAIN subscriptions :
           subscriptions[k].browser = b /\ subscriptions[k].live
    /\ \A k \in DOMAIN subscriptions :
         subscriptions[k].browser = b /\ subscriptions[k].live =>
           subscriptions[k].user = told[b]

PushInv ==
  /\ PushTypeOK
  /\ \A r \in Requests : FoundFits(pushes[r])
  /\ OneLiveRow /\ FoundStands /\ LiveAsTold

LEMMA PushShapes ==
  ASSUME NEW p \in PushStates
  PROVE  /\ p # Idle => /\ p.row \in Browsers /\ p.who \in SignIns
                        /\ p.who.user \in Users
                        /\ p.found \in 0..MaxSubscriptions
         /\ p.step \in {"subscribing", "leaving"} <=> p # Idle
         /\ p = Idle => p.step = "idle"
  BY DEF PushStates, Idle, Users

LEMMA PushOf ==
  ASSUME PushInv, NEW r \in Requests
  PROVE  pushes[r] \in PushStates /\ FoundFits(pushes[r])
  BY DEF PushInv, PushTypeOK

LEMMA IdlePush == Idle \in PushStates /\ Idle.step = "idle"
  BY DEF PushStates, Idle

LEMMA PushInitInv == PushInit => PushInv
<1> SUFFICES ASSUME PushInit PROVE PushInv
  OBVIOUS
<1>1. /\ subscriptions = <<>> /\ pushes = [r \in Requests |-> Idle]
      /\ told = [b \in Browsers |-> None]
  BY DEF PushInit, NoRequests
<1>2. PushTypeOK
  BY <1>1, IdlePush, PushAssumption DEF PushInit, PushTypeOK
<1>3. DOMAIN subscriptions = {}
  BY <1>1
<1>4. \A r \in Requests : pushes[r] = Idle
  BY <1>1
<1>5. \A r \in Requests : FoundFits(pushes[r])
  BY <1>4, IdlePush DEF FoundFits
<1>6. OneLiveRow /\ FoundStands /\ LiveAsTold
  BY <1>1, <1>3, <1>4 DEF OneLiveRow, FoundStands, LiveAsTold
<1> QED
  BY <1>2, <1>5, <1>6 DEF PushInv

LEMMA SubscriptionsType ==
  ASSUME PushInv
  PROVE  /\ subscriptions \in Seq(SubscriptionRows)
         /\ Len(subscriptions) \in 0..MaxSubscriptions
         /\ DOMAIN subscriptions = 1..Len(subscriptions)
         /\ \A k \in DOMAIN subscriptions : subscriptions[k] \in SubscriptionRows
  BY PushAssumption DEF PushInv, PushTypeOK

(* What only the browser knows decides nothing here. *)
LEMMA BrowserKeepsPush ==
  ASSUME PushInv, UNCHANGED <<subscriptions, pushes, told, crowded, begun>>,
         seat' \in [Browsers -> SignIns \cup {None}],
         asked' \subseteq Browsers, waiting' \subseteq Browsers
  PROVE  PushInv'
<1>1. PushTypeOK'
  BY DEF PushInv, PushTypeOK
<1>2. ASSUME NEW r \in Requests PROVE FoundFits(pushes[r])'
  <2>1. FoundFits(pushes[r])
    BY PushOf
  <2> QED
    BY <2>1 DEF FoundFits
<1> QED
  BY <1>1, <1>2 DEF PushInv, OneLiveRow, FoundStands, LiveAsTold

(* A request begins with a live row of the browser that it may work on. *)
LEMMA BeginKeepsPush ==
  ASSUME PushInv, NEW r \in Requests, NEW b \in Browsers, NEW who \in SignIns,
         NEW step \in {"subscribing", "leaving"}, NEW rows, rows \subseteq LiveRows(b),
         step = "leaving" => rows # {} /\ \A k \in rows : subscriptions[k].user = who.user,
         PushBegins(r, step, b, who, rows),
         UNCHANGED <<seat, asked, subscriptions, told>>, waiting' \subseteq Browsers
  PROVE  PushInv'
<1>1. PICK found : found = Found(rows)
  OBVIOUS
<1>2. found = 0 \/ found \in rows
  BY <1>1 DEF Found
<1>3. step = "leaving" => found \in rows
  BY <1>1 DEF Found
<1>4. PICK p : p = [step |-> step, row |-> b, who |-> who, found |-> found]
  OBVIOUS
<1>5. /\ pushes[r] = Idle /\ begun < MaxPushes /\ begun' = begun + 1
      /\ pushes' = [pushes EXCEPT ![r] = p]
      /\ crowded' = MixedBy(crowded, pushes, b)
  BY <1>1, <1>4 DEF PushBegins
<1>6. \A k \in rows : /\ k \in DOMAIN subscriptions /\ k \in 1..MaxSubscriptions
                      /\ subscriptions[k].browser = b /\ subscriptions[k].live
  BY SubscriptionsType, PushAssumption DEF LiveRows
<1>7. p \in PushStates /\ p # Idle
  BY <1>2, <1>4, <1>6, PushAssumption DEF PushStates, Idle
<1>8. /\ pushes' \in [Requests -> PushStates] /\ pushes'[r] = p
      /\ \A q \in Requests \ {r} : pushes'[q] = pushes[q]
  BY <1>5, <1>7 DEF PushInv, PushTypeOK
<1>9. /\ crowded \subseteq crowded' /\ crowded' \subseteq crowded \cup {b}
      /\ b \in crowded' \/ \A q \in Requests : pushes[q] = Idle \/ pushes[q].row # b
  <2>1. DOMAIN pushes = Requests
    BY DEF PushInv, PushTypeOK
  <2> QED
    BY <1>5, <2>1, MixedByBegin
<1>10. PushTypeOK'
  BY <1>5, <1>8, <1>9, PushAssumption DEF PushInv, PushTypeOK
<1>11. ASSUME NEW q \in Requests PROVE FoundFits(pushes[q])'
  <2>1. CASE q = r
    <3>1. FoundFits(p)'
      BY <1>2, <1>3, <1>4, <1>6 DEF FoundFits
    <3> QED
      BY <1>8, <2>1, <3>1 DEF FoundFits
  <2>2. CASE q # r
    <3>1. FoundFits(pushes[q])
      BY PushOf
    <3> QED
      BY <1>8, <2>2, <3>1 DEF FoundFits
  <2> QED
    BY <2>1, <2>2
<1>12. FoundStands'
  <2>1. ASSUME NEW q \in Requests, pushes'[q] # Idle, pushes'[q].row \notin crowded'
        PROVE  /\ pushes'[q].found # 0 => subscriptions'[pushes'[q].found].live
               /\ \A s \in Requests :
                    pushes'[s] # Idle /\ pushes'[s].row = pushes'[q].row => s = q
    <3>1. CASE q = r
      BY <1>2, <1>4, <1>6, <1>8, <1>9, <2>1, <3>1
    <3>2. CASE q # r
      BY <1>4, <1>8, <1>9, <2>1, <3>2 DEF PushInv, FoundStands
    <3> QED
      BY <3>1, <3>2
  <2> QED
    BY <2>1 DEF FoundStands
<1>13. OneLiveRow' /\ LiveAsTold'
  BY <1>9 DEF PushInv, OneLiveRow, LiveAsTold
<1> QED
  BY <1>10, <1>11, <1>12, <1>13 DEF PushInv

LEMMA ReadsKeepPush ==
  ASSUME PushInv, NEW r \in Requests, NEW b \in Browsers,
         \/ Ask(r, b) \/ AskLater(r, b)
         \/ \E who \in SignIns : LeaveReads(r, b, who)
  PROVE  PushInv'
<1>1. /\ asked \subseteq Browsers /\ waiting \subseteq Browsers
      /\ seat[b] # None => seat[b] \in SignIns
  BY DEF PushInv, PushTypeOK
<1>2. CASE Ask(r, b) \/ AskLater(r, b)
  <2>1. PICK rows : rows = {k \in LiveRows(b) : Sees(seat[b], k)}
    OBVIOUS
  <2> QED
    BY <1>1, <1>2, <2>1, BeginKeepsPush DEF Ask, AskLater, SubscribeReads
<1>3. ASSUME NEW who \in SignIns, LeaveReads(r, b, who) PROVE PushInv'
  <2>1. PICK rows : rows = Own(who, b)
    OBVIOUS
  <2>2. rows \subseteq LiveRows(b) /\ \A k \in rows : subscriptions[k].user = who.user
    BY <2>1 DEF Own
  <2> QED
    BY <1>1, <1>3, <2>1, <2>2, BeginKeepsPush DEF LeaveReads
<1> QED
  BY <1>2, <1>3

(* The request of a browser ends; the rows of other browsers stay, its own   *)
(* keep browser and user.                                                   *)
LEMMA EndKeepsPush ==
  ASSUME PushInv, NEW r \in Requests, NEW p \in PushStates, p = pushes[r], p # Idle,
         PushEnds(r), UNCHANGED <<seat, waiting, crowded, begun>>,
         asked' \subseteq Browsers, told' \in [Browsers -> Users \cup {None}],
         \A b \in Browsers : b # p.row => told'[b] = told[b],
         subscriptions' \in Seq(SubscriptionRows),
         Len(subscriptions') <= MaxSubscriptions,
         \A k \in DOMAIN subscriptions :
           /\ k \in DOMAIN subscriptions'
           /\ subscriptions'[k].browser = subscriptions[k].browser
           /\ subscriptions'[k].user = subscriptions[k].user
           /\ subscriptions[k].browser # p.row => subscriptions'[k] = subscriptions[k],
         \A k \in DOMAIN subscriptions' :
           k \notin DOMAIN subscriptions => subscriptions'[k].browser = p.row,
         \A k, l \in DOMAIN subscriptions' :
           /\ subscriptions'[k].browser = p.row /\ subscriptions'[l].browser = p.row
           /\ subscriptions'[k].live /\ subscriptions'[l].live
           => k = l,
         p.row \notin crowded =>
           /\ told'[p.row] # None =>
                \E k \in DOMAIN subscriptions' :
                  subscriptions'[k].browser = p.row /\ subscriptions'[k].live
           /\ \A k \in DOMAIN subscriptions' :
                subscriptions'[k].browser = p.row /\ subscriptions'[k].live =>
                  subscriptions'[k].user = told'[p.row]
  PROVE  PushInv'
<1>1. /\ pushes' \in [Requests -> PushStates] /\ pushes'[r] = Idle
      /\ \A q \in Requests \ {r} : pushes'[q] = pushes[q]
  BY IdlePush DEF PushEnds, PushInv, PushTypeOK
<1>2. PushTypeOK'
  BY <1>1 DEF PushInv, PushTypeOK
<1>3. ASSUME NEW q \in Requests PROVE FoundFits(pushes[q])'
  <2>1. CASE q = r
    BY <1>1, <2>1, IdlePush DEF FoundFits
  <2>2. CASE q # r
    <3>1. PICK g \in PushStates : g = pushes[q] /\ FoundFits(g)
      BY PushOf
    <3>2. FoundFits(g)'
      BY <3>1, PushShapes DEF FoundFits
    <3> QED
      BY <1>1, <2>2, <3>1, <3>2 DEF FoundFits
  <2> QED
    BY <2>1, <2>2
<1>4. OneLiveRow'
  BY DEF PushInv, OneLiveRow
<1>5. FoundStands'
  <2>1. ASSUME NEW q \in Requests, pushes'[q] # Idle, pushes'[q].row \notin crowded'
        PROVE  /\ pushes'[q].found # 0 => subscriptions'[pushes'[q].found].live
               /\ \A s \in Requests :
                    pushes'[s] # Idle /\ pushes'[s].row = pushes'[q].row => s = q
    <3>1. q # r /\ pushes'[q] = pushes[q]
      BY <1>1, <2>1
    <3>2. pushes[q].row # p.row
      BY <2>1, <3>1 DEF PushInv, FoundStands
    <3>3. pushes[q].found # 0 =>
            /\ pushes[q].found \in DOMAIN subscriptions
            /\ subscriptions[pushes[q].found].browser = pushes[q].row
      BY <2>1, <3>1, PushOf DEF FoundFits
    <3> QED
      BY <1>1, <2>1, <3>1, <3>2, <3>3 DEF PushInv, FoundStands
  <2> QED
    BY <2>1 DEF FoundStands
<1>6. LiveAsTold'
  <2>1. ASSUME NEW b \in Browsers, b \notin crowded', b # p.row
        PROVE  /\ told'[b] # None =>
                    \E k \in DOMAIN subscriptions' :
                      subscriptions'[k].browser = b /\ subscriptions'[k].live
               /\ \A k \in DOMAIN subscriptions' :
                    subscriptions'[k].browser = b /\ subscriptions'[k].live =>
                      subscriptions'[k].user = told'[b]
    BY <2>1 DEF PushInv, LiveAsTold
  <2> QED
    BY <2>1 DEF LiveAsTold
<1> QED
  BY <1>2, <1>3, <1>4, <1>5, <1>6 DEF PushInv

LEMMA DeletedRow ==
  ASSUME PushInv, NEW k \in DOMAIN subscriptions
  PROVE  /\ Delete(k) \in Seq(SubscriptionRows) /\ Len(Delete(k)) = Len(subscriptions)
         /\ DOMAIN Delete(k) = DOMAIN subscriptions
         /\ \A l \in DOMAIN subscriptions :
              /\ Delete(k)[l].browser = subscriptions[l].browser
              /\ Delete(k)[l].user = subscriptions[l].user
              /\ Delete(k)[l].live <=> subscriptions[l].live /\ l # k
              /\ l # k => Delete(k)[l] = subscriptions[l]
<1>1. PICK row : row = [subscriptions[k] EXCEPT !.live = FALSE]
  OBVIOUS
<1>2. /\ row \in SubscriptionRows /\ row.browser = subscriptions[k].browser
      /\ row.user = subscriptions[k].user /\ row.live = FALSE
  BY <1>1, SubscriptionsType DEF SubscriptionRows
<1>3. Delete(k) = [subscriptions EXCEPT ![k] = row]
  BY <1>1, SubscriptionsType DEF Delete
<1>4. PICK changed : changed = [subscriptions EXCEPT ![k] = row]
  OBVIOUS
<1>5. /\ changed \in Seq(SubscriptionRows) /\ Len(changed) = Len(subscriptions)
      /\ DOMAIN changed = DOMAIN subscriptions
      /\ \A l \in DOMAIN subscriptions :
           changed[l] = IF l = k THEN row ELSE subscriptions[l]
  BY <1>2, <1>4, SubscriptionsType, ChangeRow
<1> QED
  BY <1>2, <1>3, <1>4, <1>5

LEMMA WritesKeepPush ==
  ASSUME PushInv, NEW r \in Requests,
         Renewed(r) \/ Subscribed(r) \/ SubscribeFails(r) \/ Left(r)
  PROVE  PushInv'
<1>1. PICK p \in PushStates : p = pushes[r] /\ FoundFits(p)
  BY PushOf
<1>2. /\ p # Idle /\ PushEnds(r) /\ UNCHANGED <<seat, waiting, crowded, begun>>
  BY <1>1, IdlePush DEF Renewed, Subscribed, SubscribeFails, Left
<1>3. p.row \in Browsers /\ p.who.user \in Users /\ p.who \in SignIns
  BY <1>2, PushShapes
<1>4. /\ told \in [Browsers -> Users \cup {None}] /\ asked \subseteq Browsers
      /\ Len(subscriptions) <= MaxSubscriptions
  BY DEF PushInv, PushTypeOK
<1>5. p.found # 0 => /\ p.found \in DOMAIN subscriptions
                     /\ subscriptions[p.found].browser = p.row
                     /\ subscriptions[p.found] \in SubscriptionRows
  BY <1>1, <1>2, SubscriptionsType DEF FoundFits
<1>6. p.row \notin crowded /\ p.found # 0 => subscriptions[p.found].live
  BY <1>1, <1>2 DEF PushInv, FoundStands
<1>7. /\ \A k, l \in DOMAIN subscriptions :
           /\ subscriptions[k].browser = p.row /\ subscriptions[l].browser = p.row
           /\ subscriptions[k].live /\ subscriptions[l].live
           => k = l
      /\ p.row \notin crowded =>
           /\ told[p.row] # None =>
                \E k \in DOMAIN subscriptions :
                  subscriptions[k].browser = p.row /\ subscriptions[k].live
           /\ \A k \in DOMAIN subscriptions :
                subscriptions[k].browser = p.row /\ subscriptions[k].live =>
                  subscriptions[k].user = told[p.row]
  <2>1. OneLiveRow /\ LiveAsTold
    BY DEF PushInv
  <2>2. PICK b \in Browsers : b = p.row
    BY <1>3
  <2> QED
    BY <2>1, <2>2 DEF OneLiveRow, LiveAsTold
<1>8. CASE Renewed(r)
  <2>1. /\ p.found # 0 /\ subscriptions[p.found].user = p.who.user
        /\ asked' = asked \cup {p.row} /\ told' = [told EXCEPT ![p.row] = p.who.user]
    BY <1>1, <1>8 DEF Renewed, OwnRow, SaysSubscribed
  <2>2. PICK row : row = [subscriptions[p.found] EXCEPT !.town = p.who.town]
    OBVIOUS
  <2>3. /\ row \in SubscriptionRows /\ row.browser = p.row
        /\ row.user = p.who.user /\ row.live = subscriptions[p.found].live
    BY <1>3, <1>5, <2>1, <2>2 DEF SubscriptionRows
  <2>4. subscriptions' = [subscriptions EXCEPT ![p.found] = row]
    BY <1>1, <1>5, <1>8, <2>1, <2>2, SubscriptionsType DEF Renewed
  <2>5. /\ subscriptions' \in Seq(SubscriptionRows) /\ Len(subscriptions') = Len(subscriptions)
        /\ DOMAIN subscriptions' = DOMAIN subscriptions
        /\ \A l \in DOMAIN subscriptions :
             subscriptions'[l] = IF l = p.found THEN row ELSE subscriptions[l]
    BY <1>5, <2>1, <2>3, <2>4, SubscriptionsType, ChangeRow
  <2>6. /\ asked' \subseteq Browsers /\ told' \in [Browsers -> Users \cup {None}]
        /\ \A b \in Browsers : b # p.row => told'[b] = told[b]
        /\ told'[p.row] = p.who.user
    BY <1>3, <1>4, <2>1
  <2>7. p.row \notin crowded =>
          /\ \E k \in DOMAIN subscriptions' :
               subscriptions'[k].browser = p.row /\ subscriptions'[k].live
          /\ \A k \in DOMAIN subscriptions' :
               subscriptions'[k].browser = p.row /\ subscriptions'[k].live =>
                 subscriptions'[k].user = told'[p.row]
    BY <1>5, <1>6, <1>7, <2>1, <2>3, <2>5, <2>6
  <2>8. /\ \A k \in DOMAIN subscriptions :
             /\ k \in DOMAIN subscriptions'
             /\ subscriptions'[k].browser = subscriptions[k].browser
             /\ subscriptions'[k].user = subscriptions[k].user
             /\ subscriptions[k].browser # p.row => subscriptions'[k] = subscriptions[k]
        /\ \A k, l \in DOMAIN subscriptions' :
             /\ subscriptions'[k].browser = p.row /\ subscriptions'[l].browser = p.row
             /\ subscriptions'[k].live /\ subscriptions'[l].live
             => k = l
    BY <1>5, <1>7, <2>1, <2>3, <2>5
  <2> QED
    BY <1>1, <1>2, <1>4, <2>5, <2>6, <2>7, <2>8, EndKeepsPush
<1>9. CASE Subscribed(r)
  <2>1. PICK rest : rest = WithoutTheOthers(p)
    OBVIOUS
  <2>2. PICK row : row = [browser |-> p.row, user |-> p.who.user,
                          town |-> p.who.town, live |-> TRUE]
    OBVIOUS
  <2>3. /\ Len(subscriptions) < MaxSubscriptions /\ NoneLive(p.row, rest)
        /\ subscriptions' = Append(rest, row)
        /\ asked' = asked \cup {p.row} /\ told' = [told EXCEPT ![p.row] = p.who.user]
    BY <1>1, <1>9, <2>1, <2>2 DEF Subscribed, SaysSubscribed
  <2>4. /\ rest \in Seq(SubscriptionRows) /\ Len(rest) = Len(subscriptions)
        /\ DOMAIN rest = DOMAIN subscriptions
        /\ \A l \in DOMAIN subscriptions :
             /\ rest[l].browser = subscriptions[l].browser
             /\ rest[l].user = subscriptions[l].user
             /\ subscriptions[l].browser # p.row => rest[l] = subscriptions[l]
    BY <1>5, <2>1, SubscriptionsType, DeletedRow DEF WithoutTheOthers
  <2>5. row \in SubscriptionRows
    BY <1>3, <2>2 DEF SubscriptionRows
  <2>6. /\ subscriptions' \in Seq(SubscriptionRows)
        /\ Len(subscriptions') = Len(subscriptions) + 1
        /\ DOMAIN subscriptions' = DOMAIN subscriptions \cup {Len(subscriptions) + 1}
        /\ Len(subscriptions) + 1 \notin DOMAIN subscriptions
        /\ \A k \in DOMAIN subscriptions : subscriptions'[k] = rest[k]
        /\ subscriptions'[Len(subscriptions) + 1] = row
    BY <2>3, <2>4, <2>5, AppendRow
  <2>7. /\ asked' \subseteq Browsers /\ told' \in [Browsers -> Users \cup {None}]
        /\ \A b \in Browsers : b # p.row => told'[b] = told[b]
        /\ told'[p.row] = p.who.user
    BY <1>3, <1>4, <2>3
  <2>8. \A k \in DOMAIN subscriptions' :
          subscriptions'[k].browser = p.row /\ subscriptions'[k].live =>
            k = Len(subscriptions) + 1
    BY <2>3, <2>4, <2>6 DEF NoneLive
  <2>9. /\ row.browser = p.row /\ row.user = p.who.user /\ row.live
    BY <2>2
  <2>10. /\ Len(subscriptions') <= MaxSubscriptions
         /\ \A k \in DOMAIN subscriptions :
              /\ k \in DOMAIN subscriptions'
              /\ subscriptions'[k].browser = subscriptions[k].browser
              /\ subscriptions'[k].user = subscriptions[k].user
              /\ subscriptions[k].browser # p.row => subscriptions'[k] = subscriptions[k]
         /\ \A k \in DOMAIN subscriptions' :
              k \notin DOMAIN subscriptions => subscriptions'[k].browser = p.row
    BY <2>3, <2>4, <2>6, <2>9, SubscriptionsType, PushAssumption
  <2>11. /\ \E k \in DOMAIN subscriptions' :
               subscriptions'[k].browser = p.row /\ subscriptions'[k].live
         /\ \A k \in DOMAIN subscriptions' :
               subscriptions'[k].browser = p.row /\ subscriptions'[k].live =>
                 subscriptions'[k].user = told'[p.row]
    BY <2>6, <2>7, <2>8, <2>9
  <2>12. \A k, l \in DOMAIN subscriptions' :
           /\ subscriptions'[k].browser = p.row /\ subscriptions'[l].browser = p.row
           /\ subscriptions'[k].live /\ subscriptions'[l].live
           => k = l
    BY <2>8
  <2> QED
    BY <1>1, <1>2, <2>6, <2>7, <2>10, <2>11, <2>12, EndKeepsPush
<1>10. CASE SubscribeFails(r)
  <2>1. asked' \subseteq Browsers /\ UNCHANGED <<subscriptions, told>>
    BY <1>1, <1>3, <1>4, <1>10 DEF SubscribeFails
  <2> QED
    BY <1>1, <1>2, <1>4, <1>7, <2>1, SubscriptionsType, EndKeepsPush
<1>11. CASE Left(r)
  <2>1. /\ p.found # 0 /\ subscriptions[p.found].user = p.who.user
        /\ subscriptions' = Delete(p.found) /\ asked' = asked
        /\ told' = IF told[p.row] = p.who.user THEN [told EXCEPT ![p.row] = None] ELSE told
    BY <1>1, <1>11 DEF Left, FoundFits
  <2>2. /\ told' \in [Browsers -> Users \cup {None}]
        /\ \A b \in Browsers : b # p.row => told'[b] = told[b]
        /\ told'[p.row] = IF told[p.row] = p.who.user THEN None ELSE told[p.row]
    BY <1>3, <1>4, <2>1
  <2>3. /\ subscriptions' \in Seq(SubscriptionRows) /\ Len(subscriptions') = Len(subscriptions)
        /\ DOMAIN subscriptions' = DOMAIN subscriptions
        /\ \A l \in DOMAIN subscriptions :
             /\ subscriptions'[l].browser = subscriptions[l].browser
             /\ subscriptions'[l].user = subscriptions[l].user
             /\ subscriptions'[l].live <=> subscriptions[l].live /\ l # p.found
             /\ l # p.found => subscriptions'[l] = subscriptions[l]
    BY <1>5, <2>1, DeletedRow
  <2>4. p.row \notin crowded =>
          /\ told'[p.row] = None
          /\ \A k \in DOMAIN subscriptions' :
               ~(subscriptions'[k].browser = p.row /\ subscriptions'[k].live)
    <3>1. SUFFICES ASSUME p.row \notin crowded
                   PROVE  /\ told[p.row] = p.who.user
                          /\ \A k \in DOMAIN subscriptions :
                               subscriptions[k].browser = p.row
                               /\ subscriptions[k].live => k = p.found
      BY <2>2, <2>3
    <3> QED
      BY <1>5, <1>6, <1>7, <2>1, <3>1
  <2>5. /\ \A k \in DOMAIN subscriptions :
             /\ k \in DOMAIN subscriptions'
             /\ subscriptions'[k].browser = subscriptions[k].browser
             /\ subscriptions'[k].user = subscriptions[k].user
             /\ subscriptions[k].browser # p.row => subscriptions'[k] = subscriptions[k]
        /\ \A k, l \in DOMAIN subscriptions' :
             /\ subscriptions'[k].browser = p.row /\ subscriptions'[l].browser = p.row
             /\ subscriptions'[k].live /\ subscriptions'[l].live
             => k = l
    BY <1>5, <1>7, <2>1, <2>3
  <2> QED
    BY <1>1, <1>2, <1>4, <2>1, <2>2, <2>3, <2>4, <2>5, EndKeepsPush
<1> QED
  BY <1>8, <1>9, <1>10, <1>11

LEMMA PushStepInv == PushInv /\ [PushNext]_pushVars => PushInv'
<1> SUFFICES ASSUME PushInv, [PushNext]_pushVars PROVE PushInv'
  OBVIOUS
<1>1. CASE UNCHANGED pushVars
  BY <1>1, BrowserKeepsPush DEF pushVars, PushInv, PushTypeOK
<1>2. /\ seat \in [Browsers -> SignIns \cup {None}]
      /\ asked \subseteq Browsers /\ waiting \subseteq Browsers
  BY DEF PushInv, PushTypeOK
<1>3. ASSUME NEW b \in Browsers,
             \/ \E who \in SignIns : SignIn(b, who)
             \/ SignOut(b) \/ NewTab(b) \/ AskInVain(b) \/ AskOffline(b)
      PROVE  PushInv'
  <2>1. /\ UNCHANGED <<subscriptions, pushes, told, crowded, begun>>
        /\ seat' \in [Browsers -> SignIns \cup {None}]
        /\ asked' \subseteq Browsers /\ waiting' \subseteq Browsers
    BY <1>2, <1>3 DEF SignIn, SignOut, NewTab, AskInVain, AskOffline
  <2> QED
    BY <2>1, BrowserKeepsPush
<1>4. CASE PushNext
  BY <1>3, <1>4, ReadsKeepPush, WritesKeepPush DEF PushNext
<1> QED
  BY <1>1, <1>4

LEMMA PushIsSound == PushInv => PushSound
<1> SUFFICES ASSUME PushInv PROVE PushSound
  OBVIOUS
<1>1. told \in [Browsers -> Users \cup {None}]
  BY DEF PushInv, PushTypeOK
<1>2. ASSUME NEW b \in Browsers PROVE Cardinality(LiveRows(b)) <= 1
  <2>1. CASE LiveRows(b) = {}
    BY <2>1, FS_EmptySet
  <2>2. ASSUME NEW k \in LiveRows(b) PROVE Cardinality(LiveRows(b)) <= 1
    <3>1. LiveRows(b) = {k}
      BY <2>2 DEF LiveRows, PushInv, OneLiveRow
    <3>2. Cardinality({k}) = 1
      BY FS_Singleton
    <3> QED
      BY <3>1, <3>2
  <2> QED
    BY <2>1, <2>2
<1>3. ASSUME NEW b \in Browsers \ crowded
      PROVE  {subscriptions[k].user : k \in LiveRows(b)} = {told[b]} \ {None}
  <2>1. \A k \in LiveRows(b) : /\ subscriptions[k].user = told[b]
                               /\ subscriptions[k].user # None
    BY SubscriptionsType, PushAssumption
       DEF LiveRows, PushInv, LiveAsTold, SubscriptionRows, Users
  <2>2. told[b] # None => LiveRows(b) # {}
    BY DEF LiveRows, PushInv, LiveAsTold
  <2> QED
    BY <2>1, <2>2
<1> QED
  BY <1>2, <1>3 DEF PushSound, PushReachesWhoAsked, OnePersonABrowser

(* A browser gets the messages of the user last told so and of nobody else, *)
(* unless requests worked on it at once, and then of one at most            *)
(* (push-routes, PushSubscribe).                                            *)
THEOREM PushAlwaysSound == PushSpec => []PushSound
<1> QED
  BY PushInitInv, PushStepInv, PushIsSound, PTL DEF PushSpec

-----------------------------------------------------------------------------
(* The dispatch board.                                                      *)

(* The answers a newer one overtook come first, those no doubt came up      *)
(* since come last; without a doubt all that count are such.                *)
AnswersInOrder ==
  /\ \A k, l \in DOMAIN answers : k < l =>
       /\ answers[l].overtaken => answers[k].overtaken
       /\ answers[k].current => answers[l].current
  /\ doubts = {} =>
       \A k \in DOMAIN answers : answers[k].overtaken \/ answers[k].current

Quiet == heard = 0 /\ readings = 0

(* The newest answer shows the row, unless it has changed with an event.     *)
NewestRight ==
  answers # <<>> /\ Quiet =>
    LET a == answers[Len(answers)] IN
    a.current /\ ~a.overtaken => Right(a.card)

(* A drag that is alone moved the card last, and no other is under way.      *)
AloneAsShown ==
  \A r \in Requests : drags[r] # Idle /\ drags[r].alone =>
    /\ shown = drags[r].to
    /\ \A q \in Requests \ {r} : drags[q] = Idle

Unserved(r) == drags[r].step \in {"sent", "refused"}

NothingToCome ==
  /\ doubts = {} /\ Quiet
  /\ \A k \in DOMAIN answers : answers[k].overtaken

(* Without a doubt and with nothing to come the card is right, or a drag     *)
(* that the server did not take is about to be taken back.                  *)
RightOrDragged ==
  NothingToCome =>
    /\ Right(shown) \/ \E r \in Requests : Unserved(r)
    /\ \A r \in Requests :
         Unserved(r) /\ drags[r].alone => drags[r].from = RowAsCard

ScreenInv ==
  ScreenTypeOK /\ AnswersInOrder /\ NewestRight /\ AloneAsShown /\ RightOrDragged

LEMMA AnswersType ==
  ASSUME ScreenInv
  PROVE  /\ answers \in Seq(Answers) /\ Len(answers) \in Nat
         /\ DOMAIN answers = 1..Len(answers)
         /\ \A k \in DOMAIN answers : answers[k] \in Answers
  BY DEF ScreenInv, ScreenTypeOK

LEMMA DragShapes ==
  /\ Idle.step = "idle"
  /\ \A d \in Drags : /\ d.step \in {"sent", "served", "refused"} /\ d # Idle
                      /\ d.to \in Places /\ d.from \in Places /\ d.alone \in BOOLEAN
  BY DEF Drags, Idle

LEMMA DragOf ==
  ASSUME ScreenInv, NEW r \in Requests
  PROVE  /\ drags[r] = Idle \/ drags[r] \in Drags
         /\ drags[r] # Idle <=> drags[r].step \in {"sent", "served", "refused"}
         /\ Unserved(r) => drags[r] \in Drags
  BY DragShapes DEF ScreenInv, ScreenTypeOK, Unserved

LEMMA ScreenInitInv == ScreenInit => ScreenInv
<1> SUFFICES ASSUME ScreenInit PROVE ScreenInv
  OBVIOUS
<1>0. /\ doubts \subseteq Reasons
      /\ shown \in Places \cup {Hidden} /\ (doubts = {} => Right(shown))
  <2>1. CASE shown = Listing /\ doubts = {}
    BY <2>1 DEF ScreenInit, Listing, RowAsCard, Right
  <2>2. CASE shown = Hidden /\ (doubts = {"unread"} \/ doubts = {"otherDay"})
    BY <2>2 DEF Reasons
  <2> QED
    BY <2>1, <2>2 DEF ScreenInit
<1>1. /\ answers = <<>> /\ drags = [r \in Requests |-> Idle]
      /\ assigned \in Places /\ open = TRUE /\ listed \in BOOLEAN
      /\ linked = FALSE /\ heard = 0 /\ readings = 0 /\ changes = 0
  BY DEF ScreenInit, NoRequests
<1>2. ScreenTypeOK
  <2>1. /\ heard \in 0..MaxHeard /\ readings \in 0..MaxReadings
        /\ changes \in 0..MaxChanges
    BY <1>1, ScreenAssumption
  <2>3. open \in BOOLEAN /\ linked \in BOOLEAN
    BY <1>1
  <2>2. answers \in Seq(Answers) /\ drags \in [Requests -> {Idle} \cup Drags]
    BY <1>1
  <2> QED
    BY <1>0, <1>1, <2>1, <2>2, <2>3 DEF ScreenTypeOK
<1>3. \A r \in Requests : drags[r] = Idle /\ ~Unserved(r)
  BY <1>1, DragShapes DEF Unserved
<1>4. DOMAIN answers = {}
  BY <1>1
<1> QED
  BY <1>0, <1>1, <1>2, <1>3, <1>4
     DEF ScreenInv, AnswersInOrder, NewestRight, AloneAsShown, RightOrDragged,
         NothingToCome

(* A doubt leaves the answers on their way, but none of them settles it.    *)
LEMMA DoubtAnswers ==
  ASSUME ScreenInv, NEW reason \in Reasons, Doubt(reason)
  PROVE  /\ doubts' # {} /\ doubts' \subseteq Reasons
         /\ answers' \in Seq(Answers) /\ Len(answers') = Len(answers)
         /\ DOMAIN answers' = DOMAIN answers
         /\ \A k \in DOMAIN answers :
              /\ answers'[k].overtaken = answers[k].overtaken
              /\ ~answers'[k].current
<1>1. answers' = [k \in 1..Len(answers) |-> [answers[k] EXCEPT !.current = FALSE]]
  BY AnswersType DEF Doubt
<1>2. \A k \in 1..Len(answers) :
        /\ [answers[k] EXCEPT !.current = FALSE] \in Answers
        /\ [answers[k] EXCEPT !.current = FALSE].current = FALSE
        /\ [answers[k] EXCEPT !.current = FALSE].overtaken = answers[k].overtaken
  BY AnswersType DEF Answers
<1>3. answers' \in Seq(Answers) /\ Len(answers') = Len(answers)
      /\ DOMAIN answers' = DOMAIN answers
  BY <1>1, <1>2, AnswersType
<1>4. doubts' # {} /\ doubts' \subseteq Reasons
  BY DEF Doubt, ScreenInv, ScreenTypeOK
<1> QED
  BY <1>1, <1>2, <1>3, <1>4, AnswersType

Doubted == \E reason \in Reasons : Doubt(reason)

LEMMA ComesWithDoubt ==
  ASSUME NEW reason \in {"silent", "missed", "unread", "rolledBack", "unheard"},
         Doubt(reason)
  PROVE  Doubted
<1>1. reason \in Reasons
  BY DEF Reasons
<1> QED
  BY <1>1 DEF Doubted

(* A step that reads nothing: it comes with a doubt, or something is to     *)
(* come, or the row and the card's rightness stay.                          *)
LEMMA ScreenStep ==
  ASSUME ScreenInv, Sure \/ Doubted,
         assigned' \in Places, open' \in BOOLEAN, listed' \in BOOLEAN,
         listed' => listed, shown' \in Places \cup {Hidden},
         linked' \in BOOLEAN, heard' \in 0..MaxHeard, readings' \in 0..MaxReadings,
         drags' \in [Requests -> {Idle} \cup Drags], changes' \in 0..MaxChanges,
         AloneAsShown',
         \/ Doubted
         \/ ~Quiet'
         \/ /\ RowAsCard' = RowAsCard /\ Quiet
            /\ NothingToCome =>
                 /\ Right(shown') \/ \E r \in Requests : Unserved(r)'
                 /\ \A r \in Requests :
                      Unserved(r)' /\ drags'[r].alone => drags'[r].from = RowAsCard
  PROVE  ScreenInv'
<1>1. CASE Doubted
  <2>1. ScreenTypeOK'
    BY <1>1, DoubtAnswers DEF Doubted, ScreenTypeOK
  <2>2. AnswersInOrder'
    BY <1>1, DoubtAnswers DEF Doubted, AnswersInOrder, ScreenInv
  <2>3. NewestRight'
    BY <1>1, DoubtAnswers, AnswersType DEF Doubted, NewestRight
  <2>4. RightOrDragged'
    BY <1>1, DoubtAnswers DEF Doubted, RightOrDragged, NothingToCome
  <2> QED
    BY <2>1, <2>2, <2>3, <2>4 DEF ScreenInv
<1>2. CASE Sure /\ ~Doubted
  <2>1. ScreenTypeOK' /\ AnswersInOrder'
    BY <1>2 DEF Sure, ScreenInv, ScreenTypeOK, AnswersInOrder
  <2>2. NewestRight' /\ RightOrDragged'
    BY <1>2 DEF Sure, ScreenInv, NewestRight, RightOrDragged, NothingToCome, Right
  <2> QED
    BY <2>1, <2>2 DEF ScreenInv
<1> QED
  BY <1>1, <1>2

LEMMA ScalarsType ==
  ASSUME ScreenInv
  PROVE  /\ assigned \in Places /\ open \in BOOLEAN /\ listed \in BOOLEAN
         /\ shown \in Places \cup {Hidden} /\ linked \in BOOLEAN /\ heard \in 0..MaxHeard /\ readings \in 0..MaxReadings
         /\ drags \in [Requests -> {Idle} \cup Drags] /\ changes \in 0..MaxChanges
  BY DEF ScreenInv, ScreenTypeOK

LEMMA RowChanges ==
  ASSUME ScreenInv, NEW to \in Places, Publish(to)
  PROVE  heard' \in 0..MaxHeard /\ (Doubted \/ (Sure /\ ~Quiet'))
<1>1. CASE linked
  <2>1. PICK n \in 1..2 : heard + n <= MaxHeard /\ heard' = heard + n /\ Sure
    BY <1>1 DEF Publish
  <2> QED
    BY <2>1, ScalarsType, ScreenAssumption DEF Quiet
<1>2. CASE ~linked
  BY <1>2, ScalarsType, ComesWithDoubt DEF Publish
<1> QED
  BY <1>1, <1>2

LEMMA ServerKeepsScreen ==
  ASSUME ScreenInv,
         \/ \E to \in Places : OtherAssigns(to)
         \/ ChangesSilently \/ JobsCome \/ LinkBreaks \/ LinkOpens
  PROVE  ScreenInv'
<1>1. AloneAsShown' /\ changes' \in 0..MaxChanges /\ UNCHANGED <<shown, readings, drags>>
  <2>1. UNCHANGED <<shown, readings, drags>> /\ (Change \/ UNCHANGED changes)
    BY DEF OtherAssigns, ChangesSilently, JobsCome, LinkBreaks, LinkOpens
  <2> QED
    BY <2>1, ScalarsType, ScreenAssumption DEF ScreenInv, AloneAsShown, Change
<1>2. ASSUME NEW to \in Places, OtherAssigns(to) PROVE ScreenInv'
  <2>1. assigned' = to /\ Publish(to) /\ UNCHANGED <<open, listed, linked>>
    BY <1>2 DEF OtherAssigns, Assign
  <2> QED
    BY <1>1, <2>1, RowChanges, ScalarsType, ScreenStep
<1>3. CASE ChangesSilently
  <2>1. /\ assigned' \in Places /\ open' \in BOOLEAN /\ Doubted
        /\ UNCHANGED <<listed, linked, heard>>
    BY <1>3, ScalarsType, ComesWithDoubt DEF ChangesSilently
  <2> QED
    BY <1>1, <2>1, ScalarsType, ScreenStep
<1>6. CASE JobsCome
  <2>1. listed' = FALSE /\ Sure /\ UNCHANGED <<assigned, open, linked, heard>>
    BY <1>6 DEF JobsCome
  <2>2. /\ RowAsCard' = RowAsCard /\ (Quiet' <=> Quiet)
        /\ \A r \in Requests : Unserved(r)' <=> Unserved(r)
    BY <1>1, <2>1 DEF RowAsCard, Unserved, Quiet
  <2> QED
    BY <1>1, <2>1, <2>2, ScalarsType, ScreenStep
       DEF ScreenInv, RightOrDragged, Quiet
<1>4. CASE LinkBreaks
  <2>1. /\ linked' = FALSE /\ heard' = 0 /\ UNCHANGED <<assigned, open, listed>>
        /\ Doubted \/ (heard = 0 /\ Sure)
    BY <1>4, ScalarsType, ScreenAssumption, ComesWithDoubt DEF LinkBreaks
  <2>2. RowAsCard' = RowAsCard /\ \A r \in Requests : Unserved(r)' <=> Unserved(r)
    BY <1>1, <2>1 DEF RowAsCard, Unserved
  <2>3. 0 \in 0..MaxHeard
    BY ScreenAssumption
  <2>4. CASE Doubted
    BY <1>1, <2>1, <2>3, <2>4, ScalarsType, ScreenStep
  <2>5. CASE heard = 0 /\ Sure
    BY <1>1, <2>1, <2>2, <2>3, <2>5, ScalarsType, ScreenStep
       DEF ScreenInv, RightOrDragged, Quiet
  <2> QED
    BY <2>1, <2>4, <2>5
<1>5. CASE LinkOpens
  <2>1. linked' = TRUE /\ Sure /\ UNCHANGED <<assigned, open, listed, heard>>
    BY <1>5 DEF LinkOpens
  <2>2. RowAsCard' = RowAsCard /\ \A r \in Requests : Unserved(r)' <=> Unserved(r)
    BY <1>1, <2>1 DEF RowAsCard, Unserved
  <2> QED
    BY <1>1, <2>1, <2>2, ScalarsType, ScreenStep
       DEF ScreenInv, RightOrDragged, Quiet
<1> QED
  BY <1>2, <1>3, <1>4, <1>5, <1>6

LEMMA ReadingsKeepScreen ==
  ASSUME ScreenInv, EventArrives \/ ReadingFails
  PROVE  ScreenInv'
<1>1. /\ UNCHANGED <<assigned, open, listed, shown, linked, drags, changes>>
      /\ heard' \in 0..MaxHeard /\ readings' \in 0..MaxReadings
      /\ Doubted \/ (Sure /\ ~Quiet')
  <2>1. CASE EventArrives
    BY <2>1, ScalarsType, AnswersType, ScreenAssumption DEF EventArrives, Quiet
  <2>2. CASE ReadingFails
    BY <2>2, ScalarsType, ScreenAssumption, ComesWithDoubt DEF ReadingFails
  <2> QED
    BY <2>1, <2>2
<1>2. AloneAsShown'
  BY <1>1 DEF ScreenInv, AloneAsShown
<1> QED
  BY <1>1, <1>2, ScalarsType, ScreenStep

(* A reading is answered with the row as it is, or without it. *)
LEMMA ListKeepsScreen ==
  ASSUME ScreenInv, ListJobs
  PROVE  ScreenInv'
<1>1. PICK a : a = [card |-> Listing, overtaken |-> FALSE, current |-> TRUE]
  OBVIOUS
<1>2. a \in Answers /\ Right(a.card) /\ ~a.overtaken /\ a.current
  BY <1>1, ScalarsType DEF Answers, Listing, RowAsCard, Right
<1>3. /\ readings' \in 0..MaxReadings /\ answers' = Append(answers, a)
      /\ UNCHANGED <<assigned, open, listed, shown, linked, heard, drags, doubts, changes>>
  BY <1>1, ScalarsType, ScreenAssumption DEF ListJobs
<1>4. /\ answers' \in Seq(Answers) /\ Len(answers') = Len(answers) + 1
      /\ DOMAIN answers' = DOMAIN answers \cup {Len(answers) + 1}
      /\ \A k \in DOMAIN answers : answers'[k] = answers[k] /\ k < Len(answers) + 1
      /\ answers'[Len(answers) + 1] = a
  BY <1>2, <1>3, AnswersType, AppendRow
<1>5. ScreenTypeOK'
  BY <1>3, <1>4 DEF ScreenInv, ScreenTypeOK
<1>6. AnswersInOrder'
  <2>1. ASSUME NEW k \in DOMAIN answers', NEW l \in DOMAIN answers', k < l
        PROVE  /\ answers'[l].overtaken => answers'[k].overtaken
               /\ answers'[k].current => answers'[l].current
    <3>1. k \in DOMAIN answers
      BY <1>4, <2>1, AnswersType
    <3> QED
      BY <1>2, <1>4, <2>1, <3>1 DEF ScreenInv, AnswersInOrder
  <2>2. doubts' = {} =>
          \A k \in DOMAIN answers' : answers'[k].overtaken \/ answers'[k].current
    BY <1>2, <1>3, <1>4 DEF ScreenInv, AnswersInOrder
  <2> QED
    BY <2>1, <2>2 DEF AnswersInOrder
<1>7. RowAsCard' = RowAsCard
  BY <1>3 DEF RowAsCard
<1>8. NewestRight'
  BY <1>2, <1>3, <1>4, <1>7 DEF NewestRight, Right
<1>9. RightOrDragged' /\ AloneAsShown'
  BY <1>2, <1>3, <1>4 DEF RightOrDragged, NothingToCome, ScreenInv, AloneAsShown
<1> QED
  BY <1>5, <1>6, <1>8, <1>9 DEF ScreenInv

(* The answers left are those before, which are overtaken now, and those     *)
(* after.                                                                   *)
LEMMA RefreshedAnswers ==
  ASSUME ScreenInv, NEW k \in DOMAIN answers, Refresh(k)
  PROVE  /\ answers' \in Seq(Answers) /\ Len(answers') = Len(answers) - 1
         /\ DOMAIN answers' = 1..(Len(answers) - 1)
         /\ \A l \in DOMAIN answers' :
              /\ l < k => /\ l \in DOMAIN answers /\ answers'[l].overtaken
                          /\ answers'[l].current = answers[l].current
              /\ ~(l < k) => l + 1 \in DOMAIN answers /\ answers'[l] = answers[l + 1]
<1>1. k \in 1..Len(answers) /\ Len(answers) \in Nat
  BY AnswersType
<1>2. \A l \in 1..(Len(answers) - 1) :
        l \in DOMAIN answers /\ l + 1 \in DOMAIN answers
  BY AnswersType
<1>3. \A l \in DOMAIN answers :
        /\ [answers[l] EXCEPT !.overtaken = TRUE] \in Answers
        /\ [answers[l] EXCEPT !.overtaken = TRUE].overtaken
        /\ [answers[l] EXCEPT !.overtaken = TRUE].current = answers[l].current
  BY AnswersType DEF Answers
<1>4. answers' = [l \in 1..(Len(answers) - 1) |->
                    IF l < k THEN [answers[l] EXCEPT !.overtaken = TRUE]
                    ELSE answers[l + 1]]
  BY DEF Refresh
<1>5. answers' \in Seq(Answers)
  BY <1>1, <1>2, <1>3, <1>4, AnswersType
<1>6. Len(answers') = Len(answers) - 1 /\ DOMAIN answers' = 1..(Len(answers) - 1)
  BY <1>1, <1>4, <1>5
<1>7. ASSUME NEW l \in 1..(Len(answers) - 1)
      PROVE  /\ l < k => answers'[l] = [answers[l] EXCEPT !.overtaken = TRUE]
             /\ ~(l < k) => answers'[l] = answers[l + 1]
  BY <1>4, <1>7
<1>8. ASSUME NEW l \in DOMAIN answers'
      PROVE  /\ l < k => /\ l \in DOMAIN answers /\ answers'[l].overtaken
                         /\ answers'[l].current = answers[l].current
             /\ ~(l < k) => l + 1 \in DOMAIN answers /\ answers'[l] = answers[l + 1]
  <2>1. l \in 1..(Len(answers) - 1)
    BY <1>6, <1>8
  <2>2. CASE l < k
    <3>1. answers'[l] = [answers[l] EXCEPT !.overtaken = TRUE]
      BY <1>7, <2>1, <2>2
    <3> QED
      BY <1>2, <1>3, <2>1, <2>2, <3>1, Zenon
  <2>3. CASE ~(l < k)
    BY <1>2, <1>7, <2>1, <2>3, Zenon
  <2> QED
    BY <2>2, <2>3
<1> QED
  BY <1>5, <1>6, <1>8

LEMMA DisturbedDrags ==
  ASSUME ScreenInv
  PROVE  /\ Disturbed \in [Requests -> {Idle} \cup Drags]
         /\ \A r \in Requests :
              /\ Disturbed[r] = Idle <=> drags[r] = Idle
              /\ Disturbed[r] # Idle => ~Disturbed[r].alone
              /\ Disturbed[r].step = drags[r].step
<1>1. ASSUME NEW r \in Requests, drags[r] # Idle
      PROVE  /\ [drags[r] EXCEPT !.alone = FALSE] \in Drags
             /\ [drags[r] EXCEPT !.alone = FALSE].alone = FALSE
             /\ [drags[r] EXCEPT !.alone = FALSE].step = drags[r].step
  BY <1>1, DragOf DEF Drags
<1>2. \A d \in Drags : d # Idle
  BY DragShapes
<1> QED
  BY <1>1, <1>2 DEF Disturbed

LEMMA RefreshKeepsScreen ==
  ASSUME ScreenInv, NEW k \in DOMAIN answers, Refresh(k)
  PROVE  ScreenInv'
<1>1. /\ shown' = answers[k].card /\ drags' = Disturbed
      /\ doubts' = IF answers[k].overtaken THEN doubts \cup {"overtaken"}
                   ELSE IF answers[k].current THEN {} ELSE doubts
      /\ UNCHANGED <<assigned, open, listed, linked, heard, readings, changes>>
  BY DEF Refresh
<1>2. /\ k \in 1..Len(answers) /\ Len(answers) \in Nat /\ DOMAIN answers = 1..Len(answers)
      /\ answers[k] \in Answers
  BY AnswersType
<1>3. ScreenTypeOK'
  <2>1. answers[k].card \in Places \cup {Hidden} /\ doubts' \subseteq Reasons
    BY <1>1, <1>2 DEF Answers, Reasons, ScreenInv, ScreenTypeOK
  <2> QED
    BY <1>1, <2>1, RefreshedAnswers, DisturbedDrags DEF ScreenInv, ScreenTypeOK
<1>4. \A l, m \in DOMAIN answers : l < m =>
        /\ answers[m].overtaken => answers[l].overtaken
        /\ answers[l].current => answers[m].current
  BY DEF ScreenInv, AnswersInOrder
<1>5. AnswersInOrder'
  <2>1. ASSUME NEW l \in DOMAIN answers', NEW m \in DOMAIN answers', l < m
        PROVE  /\ answers'[m].overtaken => answers'[l].overtaken
               /\ answers'[l].current => answers'[m].current
    <3>1. l \in 1..(Len(answers) - 1) /\ m \in 1..(Len(answers) - 1)
      BY RefreshedAnswers
    <3>2. CASE m < k
      <4>1. l < k
        BY <1>2, <2>1, <3>1, <3>2
      <4> QED
        BY <1>4, <2>1, <3>2, <4>1, RefreshedAnswers
    <3>3. CASE l < k /\ ~(m < k)
      <4>1. l < m + 1
        BY <2>1, <3>1
      <4> QED
        BY <1>4, <3>3, <4>1, RefreshedAnswers
    <3>4. CASE ~(l < k)
      <4>1. ~(m < k) /\ l + 1 < m + 1
        BY <1>2, <2>1, <3>1, <3>4
      <4> QED
        BY <1>4, <3>4, <4>1, RefreshedAnswers
    <3> QED
      BY <3>2, <3>3, <3>4
  <2>2. ASSUME doubts' = {}, NEW l \in DOMAIN answers'
        PROVE  answers'[l].overtaken \/ answers'[l].current
    <3>1. ~answers[k].overtaken /\ (answers[k].current \/ doubts = {})
      BY <1>1, <2>2
    <3>2. answers[k].current
      BY <3>1 DEF ScreenInv, AnswersInOrder
    <3>3. l \in 1..(Len(answers) - 1)
      BY RefreshedAnswers
    <3>4. CASE l < k
      BY <3>4, RefreshedAnswers
    <3>5. CASE ~(l < k)
      <4>1. k < l + 1
        BY <1>2, <3>3, <3>5
      <4> QED
        BY <1>4, <3>2, <3>5, <4>1, RefreshedAnswers
    <3> QED
      BY <3>4, <3>5
  <2> QED
    BY <2>1, <2>2 DEF AnswersInOrder
<1>6. RowAsCard' = RowAsCard /\ (Quiet' <=> Quiet)
  BY <1>1 DEF RowAsCard, Quiet
<1>7. NewestRight'
  <2>1. SUFFICES ASSUME answers' # <<>>, Quiet', answers'[Len(answers')].current,
                        ~answers'[Len(answers')].overtaken
                 PROVE  Right(answers[Len(answers)].card)'
    BY DEF NewestRight
  <2>2. PICK l : l = Len(answers')
    OBVIOUS
  <2>3. l = Len(answers) - 1 /\ l \in DOMAIN answers'
    <3>1. answers' \in Seq(Answers)
      BY RefreshedAnswers
    <3> QED
      BY <2>1, <2>2, <3>1, RefreshedAnswers
  <2>4. ~(l < k) /\ answers'[l] = answers[Len(answers)]
    BY <1>2, <2>1, <2>2, <2>3, RefreshedAnswers
  <2>5. answers # <<>>
    BY <1>2
  <2> QED
    <3>1. UNCHANGED listed
      BY <1>1
    <3>2. Right(answers[Len(answers)].card)
      BY <1>6, <2>1, <2>2, <2>4, <2>5 DEF ScreenInv, NewestRight
    <3> QED
      BY <1>6, <2>2, <2>4, <3>1, <3>2 DEF Right, RowAsCard
<1>8. AloneAsShown'
  BY <1>1, DisturbedDrags DEF AloneAsShown
<1>9. RightOrDragged'
  <2>1. SUFFICES ASSUME NothingToCome' PROVE Right(shown)'
    <3>1. \A r \in Requests : Unserved(r)' => drags'[r] # Idle
      BY DragShapes DEF Unserved
    <3> QED
      BY <1>1, <2>1, <3>1, DisturbedDrags DEF RightOrDragged
  <2>2. ~answers[k].overtaken /\ (answers[k].current \/ doubts = {})
    BY <1>1, <2>1 DEF NothingToCome
  <2>3. answers[k].current
    BY <2>2 DEF ScreenInv, AnswersInOrder
  <2>4. k = Len(answers)
    <3>1. SUFFICES ASSUME k < Len(answers) PROVE FALSE
      BY <1>2
    <3>2. PICK l : l = Len(answers) - 1
      OBVIOUS
    <3>3. l \in 1..(Len(answers) - 1) /\ ~(l < k) /\ l + 1 = Len(answers)
          /\ Len(answers) \in DOMAIN answers
      BY <1>2, <3>1, <3>2
    <3>4. answers'[l].overtaken
      BY <2>1, <3>3, RefreshedAnswers DEF NothingToCome
    <3>5. answers[Len(answers)].overtaken
      BY <3>3, <3>4, RefreshedAnswers
    <3> QED
      BY <1>4, <2>2, <3>1, <3>3, <3>5
  <2>5. answers # <<>> /\ Quiet
    BY <1>2, <1>6, <2>1 DEF NothingToCome
  <2> QED
    <3>1. Right(answers[Len(answers)].card)
      BY <2>2, <2>3, <2>4, <2>5 DEF ScreenInv, NewestRight
    <3> QED
      BY <1>1, <1>6, <2>4, <3>1 DEF Right, RowAsCard
<1> QED
  BY <1>3, <1>5, <1>7, <1>8, <1>9 DEF ScreenInv

(* A card is dragged while it is elsewhere. *)
LEMMA DragKeepsScreen ==
  ASSUME ScreenInv, NEW r \in Requests, NEW to \in Places, Drag(r, to)
  PROVE  ScreenInv'
<1>1. PICK d : d = [step |-> "sent", to |-> to, from |-> shown, alone |-> drags = NoRequests]
  OBVIOUS
<1>2. /\ drags[r] = Idle /\ shown # Hidden /\ changes' \in 0..MaxChanges /\ shown' = to
      /\ drags' = [Disturbed EXCEPT ![r] = d]
      /\ Sure /\ UNCHANGED <<assigned, open, listed, linked, heard, readings>>
  BY <1>1, ScalarsType, ScreenAssumption DEF Drag, Change
<1>3. /\ d \in Drags /\ d.step = "sent" /\ d.to = to /\ d.from = shown
      /\ d.alone <=> drags = NoRequests
  <2>1. shown \in Places
    BY <1>2, ScalarsType
  <2> QED
    BY <1>1, <2>1 DEF Drags
<1>4. /\ drags' \in [Requests -> {Idle} \cup Drags] /\ drags'[r] = d
      /\ \A q \in Requests \ {r} : drags'[q] = Disturbed[q]
  BY <1>2, <1>3, DisturbedDrags
<1>5. d # Idle /\ (d.alone => \A q \in Requests : drags[q] = Idle)
  BY <1>3, DragShapes DEF NoRequests
<1>6. AloneAsShown'
  <2>1. ASSUME NEW q \in Requests, drags'[q] # Idle, drags'[q].alone
        PROVE  q = r /\ shown' = drags'[q].to /\ \A s \in Requests \ {q} : drags'[s] = Idle
    <3>1. q = r
      BY <1>4, <2>1, DisturbedDrags
    <3> QED
      BY <1>2, <1>3, <1>4, <1>5, <2>1, <3>1, DisturbedDrags
  <2> QED
    BY <2>1 DEF AloneAsShown
<1>7. RowAsCard' = RowAsCard /\ (Quiet' <=> Quiet) /\ Unserved(r)'
  BY <1>2, <1>3, <1>4 DEF RowAsCard, Quiet, Unserved
<1>8. ASSUME NothingToCome, NEW q \in Requests, Unserved(q)', drags'[q].alone
      PROVE  drags'[q].from = RowAsCard
  <2>1. drags'[q] # Idle
    BY <1>8, DragShapes DEF Unserved
  <2>2. q = r
    BY <1>4, <1>8, <2>1, DisturbedDrags
  <2>3. \A s \in Requests : ~Unserved(s)
    BY <1>4, <1>5, <1>8, <2>2, DragShapes DEF Unserved
  <2>4. shown = RowAsCard
    BY <1>2, <1>8, <2>3 DEF ScreenInv, RightOrDragged, Right
  <2> QED
    BY <1>3, <1>4, <2>2, <2>4
<1>9. CASE ~Quiet'
  BY <1>2, <1>4, <1>6, <1>9, ScalarsType, ScreenStep
<1>10. CASE Quiet'
  BY <1>2, <1>4, <1>6, <1>7, <1>8, <1>10, ScalarsType, ScreenStep
<1> QED
  BY <1>9, <1>10

(* A drag that goes on stays as it was but for its step. *)
LEMMA DragGoesOn ==
  ASSUME ScreenInv, NEW r \in Requests, drags[r] # Idle, NEW step \in {"served", "refused"},
         drags' = [drags EXCEPT ![r].step = step], UNCHANGED shown
  PROVE  /\ drags' \in [Requests -> {Idle} \cup Drags] /\ AloneAsShown'
         /\ drags'[r].step = step /\ drags'[r].alone = drags[r].alone
         /\ drags'[r].from = drags[r].from
         /\ \A q \in Requests \ {r} : drags'[q] = drags[q]
<1>1. PICK d : d = [drags[r] EXCEPT !.step = step]
  OBVIOUS
<1>2. /\ d \in Drags /\ d.step = step /\ d.to = drags[r].to
      /\ d.from = drags[r].from /\ d.alone = drags[r].alone
  BY <1>1, DragOf DEF Drags
<1>3. drags' = [drags EXCEPT ![r] = d]
  BY <1>1, ScalarsType
<1>4. /\ drags' \in [Requests -> {Idle} \cup Drags] /\ drags'[r] = d
      /\ \A q \in Requests \ {r} : drags'[q] = drags[q]
  BY <1>2, <1>3, ScalarsType
<1>5. AloneAsShown'
  <2>1. ASSUME NEW q \in Requests, drags'[q] # Idle, drags'[q].alone
        PROVE  shown' = drags'[q].to /\ \A s \in Requests \ {q} : drags'[s] = Idle
    <3>1. drags[q] # Idle /\ drags[q].alone
      BY <1>2, <1>4, <2>1
    <3>2. shown = drags[q].to /\ \A s \in Requests \ {q} : drags[s] = Idle
      BY <3>1 DEF ScreenInv, AloneAsShown
    <3>3. q = r
      BY <3>2
    <3> QED
      BY <1>2, <1>4, <3>2, <3>3
  <2> QED
    BY <2>1 DEF AloneAsShown
<1> QED
  BY <1>2, <1>4, <1>5

LEMMA DragEnded ==
  ASSUME ScreenInv, NEW r \in Requests, DragEnds(r)
  PROVE  /\ drags' \in [Requests -> {Idle} \cup Drags] /\ drags'[r] = Idle
         /\ \A q \in Requests \ {r} : drags'[q] = drags[q]
         /\ ~Unserved(r)'
         /\ UNCHANGED shown => AloneAsShown'
<1>1. /\ drags' \in [Requests -> {Idle} \cup Drags] /\ drags'[r] = Idle
      /\ \A q \in Requests \ {r} : drags'[q] = drags[q]
  BY ScalarsType DEF DragEnds
<1>2. ~Unserved(r)'
  BY <1>1, DragShapes DEF Unserved
<1>3. ASSUME UNCHANGED shown PROVE AloneAsShown'
  BY <1>1, <1>3 DEF ScreenInv, AloneAsShown
<1> QED
  BY <1>1, <1>2, <1>3

LEMMA DragsKeepScreen ==
  ASSUME ScreenInv, NEW r \in Requests,
         \/ DragServed(r) \/ DragRefused(r) \/ DragDone(r) \/ RollBack(r)
         \/ DragUnheard(r)
  PROVE  ScreenInv'
<1>1. drags[r] # Idle /\ drags[r] \in Drags
  BY DragShapes, DragOf DEF DragServed, DragRefused, DragDone, RollBack, DragUnheard
<1>2. CASE DragServed(r)
  <2>1. /\ drags' = [drags EXCEPT ![r].step = "served"]
        /\ assigned' = drags[r].to /\ Publish(drags[r].to)
        /\ UNCHANGED <<open, listed, shown, linked, readings, changes>>
    BY <1>2 DEF DragServed, Assign
  <2>2. drags[r].to \in Places
    BY <1>1, DragShapes
  <2> QED
    BY <1>1, <2>1, <2>2, RowChanges, DragGoesOn, ScalarsType, ScreenStep
<1>3. CASE DragRefused(r)
  <2>1. /\ drags' = [drags EXCEPT ![r].step = "refused"] /\ drags[r].step = "sent"
        /\ Sure /\ UNCHANGED <<assigned, open, listed, shown, linked, heard, readings, changes>>
    BY <1>3 DEF DragRefused
  <2>2. RowAsCard' = RowAsCard /\ (Quiet' <=> Quiet)
    BY <2>1 DEF RowAsCard, Quiet
  <2>3. \A q \in Requests : /\ Unserved(q)' <=> Unserved(q)
                            /\ drags'[q].alone = drags[q].alone
                            /\ drags'[q].from = drags[q].from
    BY <1>1, <2>1, DragGoesOn DEF Unserved
  <2>4. drags' \in [Requests -> {Idle} \cup Drags] /\ AloneAsShown'
    BY <1>1, <2>1, DragGoesOn
  <2>5. CASE ~Quiet'
    BY <2>1, <2>4, <2>5, ScalarsType, ScreenStep
  <2>6. CASE Quiet'
    BY <2>1, <2>2, <2>3, <2>4, <2>6, ScalarsType, ScreenStep
       DEF ScreenInv, RightOrDragged
  <2> QED
    BY <2>5, <2>6
<1>4. CASE DragDone(r)
  <2>1. /\ DragEnds(r) /\ drags[r].step = "served"
        /\ Sure /\ UNCHANGED <<assigned, open, listed, shown, linked, heard, readings, changes>>
    BY <1>4 DEF DragDone
  <2>2. RowAsCard' = RowAsCard /\ (Quiet' <=> Quiet)
    BY <2>1 DEF RowAsCard, Quiet
  <2>3. \A q \in Requests : /\ Unserved(q)' <=> Unserved(q)
                            /\ Unserved(q) => drags'[q] = drags[q]
    BY <2>1, DragEnded DEF Unserved
  <2>4. drags' \in [Requests -> {Idle} \cup Drags] /\ AloneAsShown'
    BY <2>1, DragEnded
  <2>5. CASE ~Quiet'
    BY <2>1, <2>4, <2>5, ScalarsType, ScreenStep
  <2>6. CASE Quiet'
    BY <2>1, <2>2, <2>3, <2>4, <2>6, ScalarsType, ScreenStep
       DEF ScreenInv, RightOrDragged
  <2> QED
    BY <2>5, <2>6
<1>5. CASE RollBack(r)
  <2>1. /\ DragEnds(r) /\ drags[r].step = "refused"
        /\ shown' = IF shown = Hidden THEN Hidden ELSE drags[r].from
        /\ (drags[r].alone /\ Sure) \/ Doubt("rolledBack")
        /\ UNCHANGED <<assigned, open, listed, linked, heard, readings, changes>>
    BY <1>5 DEF RollBack
  <2>2. shown' \in Places \cup {Hidden}
    BY <1>1, <2>1, DragShapes
  <2>3. drags' \in [Requests -> {Idle} \cup Drags]
    BY <2>1, DragEnded
  <2>4. AloneAsShown'
    <3>1. ASSUME NEW q \in Requests, drags'[q] # Idle, drags'[q].alone PROVE FALSE
      <4>1. q # r /\ drags[q] # Idle /\ drags[q].alone
        BY <2>1, <3>1, DragEnded
      <4> QED
        BY <1>1, <4>1 DEF ScreenInv, AloneAsShown
    <3> QED
      BY <3>1 DEF AloneAsShown
  <2>5. RowAsCard' = RowAsCard /\ (Quiet' <=> Quiet)
    BY <2>1 DEF RowAsCard, Quiet
  <2>6. CASE Doubt("rolledBack")
    <3>1. Doubted
      BY <2>6, ComesWithDoubt
    <3> QED
      BY <2>1, <2>2, <2>3, <2>4, <3>1, ScalarsType, ScreenStep
  <2>7. CASE drags[r].alone /\ Sure
    <3>1. shown # Hidden /\ \A q \in Requests \ {r} : drags[q] = Idle
      BY <1>1, <2>7, DragShapes, ScreenAssumption DEF ScreenInv, AloneAsShown
    <3>2. shown' = drags[r].from /\ \A q \in Requests : ~Unserved(q)'
      BY <2>1, <3>1, DragEnded, DragShapes DEF Unserved
    <3>3. NothingToCome => drags[r].from = RowAsCard
      BY <2>1, <2>7 DEF ScreenInv, RightOrDragged, Unserved
    <3>4. CASE ~Quiet'
      BY <2>1, <2>2, <2>3, <2>4, <2>7, <3>4, ScalarsType, ScreenStep
    <3>5. CASE Quiet'
      <4>1. NothingToCome => Right(shown')
        BY <3>2, <3>3 DEF Right
      <4> QED
        BY <2>1, <2>2, <2>3, <2>4, <2>5, <2>7, <3>2, <3>5, <4>1, ScalarsType, ScreenStep
    <3> QED
      BY <3>4, <3>5
  <2> QED
    BY <2>1, <2>6, <2>7
<1>6. CASE DragUnheard(r)
  <2>1. /\ DragEnds(r) /\ Doubted
        /\ UNCHANGED <<assigned, open, listed, shown, linked, heard, readings, changes>>
    BY <1>6, ComesWithDoubt DEF DragUnheard
  <2> QED
    BY <2>1, DragEnded, ScalarsType, ScreenStep
<1> QED
  BY <1>2, <1>3, <1>4, <1>5, <1>6

LEMMA ScreenStepInv == ScreenInv /\ [ScreenNext]_screenVars => ScreenInv'
<1> SUFFICES ASSUME ScreenInv, [ScreenNext]_screenVars PROVE ScreenInv'
  OBVIOUS
<1>1. CASE UNCHANGED screenVars
  BY <1>1 DEF screenVars, ScreenInv, ScreenTypeOK, AnswersInOrder, NewestRight,
     AloneAsShown, RightOrDragged, NothingToCome, Quiet, Unserved, RowAsCard, Right
<1>2. CASE ScreenNext
  BY <1>2, ServerKeepsScreen, ReadingsKeepScreen, ListKeepsScreen,
     RefreshKeepsScreen, DragKeepsScreen, DragsKeepScreen DEF ScreenNext
<1> QED
  BY <1>1, <1>2

LEMMA ScreenIsSound == ScreenInv => BoardShowsRow
<1> SUFFICES ASSUME ScreenInv, heard = 0, readings = 0, answers = <<>>,
                    drags = NoRequests, doubts = {}
             PROVE  Right(shown)
  BY DEF BoardShowsRow
<1>1. NothingToCome
  BY AnswersType DEF NothingToCome, Quiet
<1>2. \A r \in Requests : ~Unserved(r)
  BY DragShapes DEF Unserved, NoRequests
<1> QED
  BY <1>1, <1>2 DEF ScreenInv, RightOrDragged

(* Once nothing is under way the board shows the row, whatever other boards *)
(* did, but for the reasons to doubt it names (DispatchBoard, sse-routes).  *)
THEOREM ScreenAlwaysShowsRow == ScreenSpec => []BoardShowsRow
<1> QED
  BY ScreenInitInv, ScreenStepInv, ScreenIsSound, PTL DEF ScreenSpec

-----------------------------------------------------------------------------
(* The quote editors.                                                       *)

PriceCall(p) == p \in DOMAIN wire /\ wire[p].does = "price"
CommitCall(c) == c \in DOMAIN wire /\ wire[c].does = "commit"

PriceDone(p) == PriceCall(p) /\ wire[p].step = "done"
Heard(p) == PriceDone(p) /\ p \notin unheard
Closed(p) == p \in unheard \/ wire[p].step \in {"done", "refused"}

Begun(c) == CommitCall(c) /\ wire[c].step \in {"read", "placed", "done", "unrecorded"}
Delivered(c) == CommitCall(c) /\ wire[c].step \in {"placed", "done", "unrecorded"}

(* Nothing is priced before there is a draft, and no line is not a price.   *)
PricesHaveDraft ==
  /\ page.waiting \/ wire # <<>> => page.draft = "made"
  /\ \A p \in unheard : PriceCall(p)
  /\ \A p \in DOMAIN wire :
       PriceCall(p) /\ wire[p].step \in {"read", "done"} => wire[p].lines \in LineLists

(* The page waits for its newest price call, and what it does not wait for  *)
(* any more has ended, unless it does not hear of the end.                  *)
AwaitsNewest ==
  /\ page.awaited # 0 =>
       /\ PriceCall(page.awaited) /\ page.awaited \notin unheard
       /\ \A p \in DOMAIN wire : PriceCall(p) => p <= page.awaited
  /\ \A p \in DOMAIN wire : PriceCall(p) => p = page.awaited \/ Closed(p)

(* The awaited call has the lines of a page at rest; the newest one, once   *)
(* it was answered, has set what the page shows.                            *)
PricedAsWritten ==
  ~page.waiting /\ ~page.spared =>
    /\ page.awaited # 0 => wire[page.awaited].lines = page.lines
    /\ page.awaited = 0 /\ ~page.stale =>
         \A c \in DOMAIN wire :
           Heard(c) /\ (\A p \in DOMAIN wire : PriceCall(p) => p <= c) =>
             page.shown = page.lines

(* The server has the lines of the newest call the page can hear of, or of  *)
(* one it does not hear of.                                                 *)
StoredFromCall ==
  quote.status \in {"priced", "committed", "accepted"} =>
    \E p \in DOMAIN wire :
      /\ PriceDone(p) /\ wire[p].lines = quote.lines
      /\ p \in unheard \/ \A q \in DOMAIN wire : Heard(q) => q <= p

(* The page shows the newest answer it took. *)
ShownFromCall ==
  page.shown # Blank =>
    \E h \in DOMAIN wire :
      /\ Heard(h) /\ h # page.awaited /\ wire[h].lines = page.shown
      /\ \A q \in DOMAIN wire : Heard(q) /\ q # page.awaited => q <= h

(* A commit was sent with what the page showed, when no price was awaited.  *)
SentAsShown ==
  \A c \in DOMAIN wire : CommitCall(c) =>
    /\ page.awaited = 0 \/ page.awaited > c
    /\ \A p \in DOMAIN wire : PriceCall(p) /\ p < c => Closed(p)
    /\ \E h \in DOMAIN wire :
         /\ h < c /\ Heard(h) /\ wire[h].lines = wire[c].lines
         /\ \A q \in DOMAIN wire : q < c /\ Heard(q) => q <= h

(* A commit carries the lines it was sent with, or prices behind the page.  *)
CarriesStored ==
  \A c \in DOMAIN wire : Begun(c) =>
    /\ quote.status \in {"priced", "committed", "accepted"}
    /\ wire[c].carries \in LineLists
    /\ wire[c].carries = wire[c].lines \/ BehindThePage(c, wire[c].carries)

(* A quote that was committed is priced again behind the page only.         *)
PricedBehind ==
  \A c \in DOMAIN wire :
    CommitCall(c) /\ wire[c].step = "done" /\ quote.status = "priced" =>
      BehindThePage(c, quote.lines)

KnownWasSent ==
  /\ page.sending # 0 => CommitCall(page.sending)
  /\ page.known => \E c \in DOMAIN wire : CommitCall(c) /\ wire[c].step = "done"

(* The supplier's document came with one of the commits that reached it.    *)
DocumentFromCommit ==
  /\ document = None => \A c \in DOMAIN wire : ~Delivered(c)
  /\ document # None => \E c \in DOMAIN wire : Delivered(c) /\ wire[c].carries = document

EditorInv ==
  /\ EditorTypeOK /\ PricesHaveDraft /\ AwaitsNewest /\ PricedAsWritten
  /\ StoredFromCall /\ ShownFromCall /\ SentAsShown /\ CarriesStored
  /\ PricedBehind /\ KnownWasSent /\ DocumentFromCommit

LEMMA EditorWire ==
  ASSUME EditorInv
  PROVE  /\ page \in Pages /\ wire \in Seq(WireCalls) /\ Len(wire) \in Nat
         /\ DOMAIN wire = 1..Len(wire) /\ Len(wire) <= MaxWire /\ MaxWire \in Nat
         /\ \A c \in DOMAIN wire : c \in Nat /\ c # 0 /\ wire[c] \in WireCalls
         /\ \A c \in DOMAIN wire : wire[c].lines \in Lists
         /\ 0 \notin DOMAIN wire /\ page.awaited \in Nat
<1>1. /\ page \in Pages /\ wire \in Seq(WireCalls) /\ Len(wire) <= MaxWire
      /\ MaxWire \in Nat
  BY EditorAssumption DEF EditorInv, EditorTypeOK
<1>2. \A call \in WireCalls : call.lines \in Lists
  BY DEF WireCalls
<1>3. page.awaited \in Nat
  BY <1>1 DEF Pages
<1> QED
  BY <1>1, <1>2, <1>3

LEMMA EditorInitInv == EditorInit => EditorInv
<1> SUFFICES ASSUME EditorInit PROVE EditorInv
  OBVIOUS
<1>1. wire = <<>> /\ DOMAIN wire = {} /\ Len(wire) = 0 /\ unheard = {}
  BY DEF EditorInit
<1>2. page \in Pages
  BY EditorAssumption DEF EditorInit, Pages, Lists
<1>3. EditorTypeOK
  BY <1>1, <1>2, EditorAssumption DEF EditorInit, EditorTypeOK, Lists
<1>4. PricesHaveDraft /\ AwaitsNewest /\ PricedAsWritten /\ ShownFromCall /\ SentAsShown
  BY <1>1 DEF EditorInit, PricesHaveDraft, AwaitsNewest, PricedAsWritten, ShownFromCall,
     SentAsShown
<1>5. StoredFromCall /\ CarriesStored /\ PricedBehind /\ KnownWasSent /\ DocumentFromCommit
  BY <1>1 DEF EditorInit, StoredFromCall, CarriesStored, PricedBehind, KnownWasSent,
     DocumentFromCommit
<1> QED
  BY <1>3, <1>4, <1>5 DEF EditorInv

-----------------------------------------------------------------------------
(* What stays as it is when the calls do. *)

LEMMA CallsSame ==
  ASSUME UNCHANGED <<wire, unheard>>
  PROVE  /\ \A p : (PriceCall(p)' <=> PriceCall(p)) /\ (CommitCall(p)' <=> CommitCall(p))
         /\ \A p : (PriceDone(p)' <=> PriceDone(p)) /\ (Heard(p)' <=> Heard(p))
         /\ \A p : Closed(p)' <=> Closed(p)
         /\ \A c : (Begun(c)' <=> Begun(c)) /\ (Delivered(c)' <=> Delivered(c))
         /\ \A c, ls : BehindThePage(c, ls)' <=> BehindThePage(c, ls)
  BY DEF PriceCall, CommitCall, PriceDone, Heard, Closed, Begun, Delivered,
     BehindThePage, CallsThat

LEMMA ServerSame ==
  ASSUME EditorInv, UNCHANGED <<wire, unheard, quote, document>>
  PROVE  StoredFromCall' /\ CarriesStored' /\ PricedBehind' /\ DocumentFromCommit'
<1>1. StoredFromCall'
  BY CallsSame DEF EditorInv, StoredFromCall
<1>2. CarriesStored' /\ PricedBehind'
  BY CallsSame DEF EditorInv, CarriesStored, PricedBehind
<1>3. DocumentFromCommit'
  BY CallsSame DEF EditorInv, DocumentFromCommit
<1> QED
  BY <1>1, <1>2, <1>3

LEMMA AwaitedSame ==
  ASSUME EditorInv, UNCHANGED <<wire, unheard>>, page'.awaited = page.awaited
  PROVE  /\ AwaitsNewest' /\ SentAsShown'
         /\ page'.shown = page.shown \/ page'.shown = Blank => ShownFromCall'
<1>1. AwaitsNewest'
  BY CallsSame DEF EditorInv, AwaitsNewest
<1>2. SentAsShown'
  BY CallsSame DEF EditorInv, SentAsShown
<1>3. page'.shown = page.shown \/ page'.shown = Blank => ShownFromCall'
  BY CallsSame DEF EditorInv, ShownFromCall
<1> QED
  BY <1>1, <1>2, <1>3

LEMMA SendingSame ==
  ASSUME EditorInv, UNCHANGED <<wire, unheard>>,
         page'.draft = page.draft \/ wire = <<>>,
         page'.waiting => page'.draft = "made",
         page'.sending = page.sending \/ page'.sending = 0,
         page'.known => page.known
  PROVE  PricesHaveDraft' /\ KnownWasSent'
<1>1. PricesHaveDraft'
  BY CallsSame DEF EditorInv, PricesHaveDraft
<1>2. KnownWasSent'
  BY CallsSame DEF EditorInv, KnownWasSent
<1> QED
  BY <1>1, <1>2

(* A page at rest has no call, or one with its lines. *)
LEMMA NoCallYet ==
  ASSUME EditorInv, page.draft # "made"
  PROVE  wire = <<>> /\ DOMAIN wire = {} /\ page.awaited = 0
  BY EditorWire DEF EditorInv, PricesHaveDraft, AwaitsNewest, PriceCall

(* The page moves and nothing else. *)
LEMMA PageMoves ==
  ASSUME EditorInv, UNCHANGED <<form, wire, unheard, quote, document>>,
         net' \in BOOLEAN, typing' \in 0..MaxTyping, page' \in Pages,
         page'.awaited = page.awaited,
         page'.shown = page.shown \/ page'.shown = Blank,
         page'.draft = page.draft \/ wire = <<>>,
         page'.waiting => page'.draft = "made",
         page'.sending = page.sending \/ page'.sending = 0,
         page'.known => page.known,
         PricedAsWritten'
  PROVE  EditorInv'
<1>1. EditorTypeOK'
  BY DEF EditorInv, EditorTypeOK
<1> QED
  BY <1>1, ServerSame, AwaitedSame, SendingSame DEF EditorInv

(* The lines and the price at rest do not move. *)
LEMMA PricedSame ==
  ASSUME EditorInv, UNCHANGED <<wire, unheard>>,
         page'.waiting = page.waiting, page'.spared = page.spared,
         page'.awaited = page.awaited, page'.stale = page.stale,
         page'.shown = page.shown, page'.lines = page.lines
  PROVE  PricedAsWritten'
  BY CallsSame DEF EditorInv, PricedAsWritten

(* An awaited call with an answer is waited for no more. *)
LEMMA AwaitedEnds ==
  ASSUME EditorInv, UNCHANGED <<wire, unheard>>, page.awaited # 0, page'.awaited = 0,
         wire[page.awaited].step \in {"done", "refused"}
  PROVE  AwaitsNewest' /\ SentAsShown'
<1>1. AwaitsNewest'
  BY CallsSame DEF EditorInv, AwaitsNewest, Closed
<1>2. SentAsShown'
  BY CallsSame DEF EditorInv, SentAsShown
<1> QED
  BY <1>1, <1>2

-----------------------------------------------------------------------------
(* The page. *)

LEMMA DraftKeepsEditor ==
  ASSUME EditorInv, AskDraft \/ DraftMade \/ DraftFails
  PROVE  EditorInv'
<1>1. /\ wire = <<>> /\ DOMAIN wire = {} /\ page.awaited = 0
      /\ UNCHANGED <<form, net, wire, unheard, document, typing>>
  BY NoCallYet DEF AskDraft, DraftMade, DraftFails
<1>2. /\ page'.awaited = page.awaited /\ page'.shown = page.shown
      /\ page'.sending = page.sending /\ page'.known = page.known /\ page' \in Pages
      /\ page'.waiting => page'.draft = "made"
  BY EditorWire DEF AskDraft, DraftMade, DraftFails, Pages, EditorInv, PricesHaveDraft
<1>3. PricedAsWritten'
  BY <1>1, <1>2 DEF PricedAsWritten
<1>4. EditorTypeOK'
  BY <1>1, <1>2 DEF EditorInv, EditorTypeOK, AskDraft, DraftMade, DraftFails
<1>5. StoredFromCall' /\ CarriesStored' /\ PricedBehind' /\ DocumentFromCommit'
  <2>1. CASE UNCHANGED quote
    BY <1>1, <2>1, ServerSame
  <2>2. CASE DraftMade
    BY <1>1, <2>2 DEF DraftMade, EditorInv, EditorTypeOK, StoredFromCall, CarriesStored,
       PricedBehind, DocumentFromCommit
  <2> QED
    BY <2>1, <2>2 DEF AskDraft, DraftFails
<1> QED
  BY <1>1, <1>2, <1>3, <1>4, <1>5, AwaitedSame, SendingSame DEF EditorInv

LEMMA TypingKeepsEditor ==
  ASSUME EditorInv, NetChanges \/ \E ls \in Lists : Edit(ls)
  PROVE  EditorInv'
<1>1. /\ UNCHANGED <<form, wire, unheard, quote, document>>
      /\ net' \in BOOLEAN /\ typing' = typing + 1 /\ typing < MaxTyping
  BY DEF NetChanges, Edit, EditorInv, EditorTypeOK
<1>2. /\ page' \in Pages /\ (page'.waiting <=> page.draft = "made")
      /\ UNCHANGED <<page.awaited, page.shown, page.draft, page.sending, page.known>>
  BY EditorWire DEF NetChanges, Edit, Pages
<1>3. PricedAsWritten'
  <2>1. CASE page.draft = "made"
    BY <1>2, <2>1 DEF PricedAsWritten
  <2>2. CASE page.draft # "made"
    BY <1>1, <1>2, <2>2, NoCallYet DEF PricedAsWritten
  <2> QED
    BY <2>1, <2>2
<1>4. typing' \in 0..MaxTyping
  BY <1>1, EditorAssumption DEF EditorInv, EditorTypeOK
<1> QED
  BY <1>1, <1>2, <1>3, <1>4, PageMoves

LEMMA TimerKeepsEditor ==
  ASSUME EditorInv, TimerOffline \/ TimerEmpty
  PROVE  EditorInv'
<1>1. UNCHANGED <<form, net, wire, unheard, quote, document, typing>>
  BY DEF TimerOffline, TimerEmpty
<1>2. /\ page' \in Pages
      /\ UNCHANGED <<page.awaited, page.draft, page.sending, page.known, page.lines>>
      /\ (page'.spared <=> page.awaited # 0) /\ ~page'.waiting
      /\ \/ page'.shown = page.shown /\ page'.stale
         \/ page'.shown = Blank /\ page'.lines = Blank
  BY EditorWire DEF TimerOffline, TimerEmpty, Fired, Pages, Lists
<1>3. PricedAsWritten'
  BY <1>2 DEF PricedAsWritten
<1> QED
  BY <1>1, <1>2, <1>3, PageMoves DEF EditorInv, EditorTypeOK

LEMMA AnswerKeepsEditor ==
  ASSUME EditorInv, NEW c \in DOMAIN wire, PriceShown(c) \/ PriceFailed(c)
  PROVE  EditorInv'
<1>1. /\ UNCHANGED <<form, net, wire, unheard, quote, document, typing>>
      /\ c = page.awaited /\ page.awaited # 0 /\ c \notin unheard /\ PriceCall(c)
      /\ wire[c].step \in {"done", "refused"}
      /\ \A p \in DOMAIN wire : PriceCall(p) => p <= c
  BY EditorWire DEF PriceShown, PriceFailed, Listens, EditorInv, AwaitsNewest
<1>2. /\ page' \in Pages /\ page'.awaited = 0
      /\ page'.draft = page.draft /\ page'.sending = page.sending
      /\ page'.known = page.known /\ page'.lines = page.lines
      /\ page'.waiting = page.waiting /\ page'.spared = page.spared
  <2>1. CASE PriceShown(c)
    <3>1. page' = [page EXCEPT !.shown = wire[c].lines, !.awaited = 0, !.stale = FALSE]
      BY <2>1 DEF PriceShown
    <3>2. page \in Pages /\ wire[c].lines \in Lists /\ 0 \in 0..MaxWire
      BY EditorWire
    <3> QED
      BY ONLY <3>1, <3>2 DEF Pages
  <2>2. CASE PriceFailed(c)
    <3>1. page' = [page EXCEPT !.awaited = 0, !.failed = TRUE]
      BY <2>2 DEF PriceFailed
    <3>2. page \in Pages /\ 0 \in 0..MaxWire
      BY EditorWire
    <3> QED
      BY ONLY <3>1, <3>2 DEF Pages
  <2> QED
    BY <2>1, <2>2
<1>3. CASE PriceShown(c)
  <2>1. page'.shown = wire[c].lines /\ Heard(c)
    BY <1>1, <1>3, EditorWire DEF PriceShown, Pages, Heard, PriceDone
  <2>2. PricedAsWritten'
    BY <1>1, <1>2, <2>1 DEF EditorInv, PricedAsWritten
  <2>3. ShownFromCall'
    <3>1. \A q \in DOMAIN wire : Heard(q) => q <= c
      BY <1>1 DEF Heard, PriceDone
    <3> QED
      BY <1>1, <1>2, <2>1, <3>1, CallsSame, EditorWire DEF ShownFromCall
  <2> QED
    BY <1>1, <1>2, <2>2, <2>3, ServerSame, AwaitedEnds, SendingSame
       DEF EditorInv, EditorTypeOK, PricesHaveDraft
<1>4. CASE PriceFailed(c)
  <2>1. page'.shown = page.shown /\ wire[c].step = "refused" /\ ~Heard(c)
    BY <1>4, EditorWire DEF PriceFailed, Pages, Heard, PriceDone
  <2>2. PricedAsWritten'
    <3>1. \A q \in DOMAIN wire : Heard(q) => ~(\A p \in DOMAIN wire : PriceCall(p) => p <= q)
      BY <1>1, <2>1, EditorWire DEF Heard, PriceDone
    <3> QED
      BY <1>1, <1>2, <3>1, CallsSame DEF PricedAsWritten
  <2>3. ShownFromCall'
    BY <1>1, <1>2, <2>1, CallsSame, EditorWire DEF EditorInv, ShownFromCall
  <2> QED
    BY <1>1, <1>2, <2>2, <2>3, ServerSame, AwaitedEnds, SendingSame
       DEF EditorInv, EditorTypeOK, PricesHaveDraft
<1> QED
  BY <1>3, <1>4

LEMMA SendEndKeepsEditor ==
  ASSUME EditorInv, SentHeard \/ SendFailed \/ SendLost
  PROVE  EditorInv'
<1>1. UNCHANGED <<form, net, wire, unheard, quote, document, typing>>
  BY DEF SentHeard, SendFailed, SendLost
<1>2. /\ page' \in Pages /\ page'.sending = 0
      /\ page'.awaited = page.awaited /\ page'.shown = page.shown
      /\ page'.draft = page.draft /\ page'.lines = page.lines
      /\ page'.waiting = page.waiting /\ page'.spared = page.spared
      /\ page'.stale = page.stale
  <2>1. CASE SentHeard
    <3>1. page' = [page EXCEPT !.sending = 0, !.known = form = "office"]
      BY <2>1 DEF SentHeard
    <3>2. page \in Pages /\ 0 \in 0..MaxWire /\ (form = "office") \in BOOLEAN
      BY EditorWire
    <3> QED
      BY ONLY <3>1, <3>2 DEF Pages
  <2>2. CASE SendFailed
    <3>1. page' = [page EXCEPT !.sending = 0, !.failed = TRUE]
      BY <2>2 DEF SendFailed
    <3>2. page \in Pages /\ 0 \in 0..MaxWire
      BY EditorWire
    <3> QED
      BY ONLY <3>1, <3>2 DEF Pages
  <2>3. CASE SendLost
    BY <2>3, EditorWire DEF SendLost, Pages
  <2> QED
    BY <2>1, <2>2, <2>3
<1>3. page'.known => page.known \/ SentHeard
  BY EditorWire DEF SentHeard, SendFailed, SendLost, Pages
<1>4. PricedAsWritten' /\ PricesHaveDraft'
  BY <1>1, <1>2, PricedSame, CallsSame DEF EditorInv, PricesHaveDraft
<1>5. KnownWasSent'
  <2>1. SentHeard => CommitCall(page.sending) /\ wire[page.sending].step = "done"
    BY DEF SentHeard, EditorInv, KnownWasSent
  <2> QED
    BY <1>1, <1>2, <1>3, <2>1, CallsSame DEF EditorInv, KnownWasSent, CommitCall
<1> QED
  BY <1>1, <1>2, <1>4, <1>5, ServerSame, AwaitedSame DEF EditorInv, EditorTypeOK

-----------------------------------------------------------------------------
(* A new call, and one the page stops listening to. *)

LEMMA CallAppended ==
  ASSUME EditorInv, NEW call \in WireCalls, Len(wire) < MaxWire,
         wire' = Append(wire, call)
  PROVE  /\ wire' \in Seq(WireCalls) /\ Len(wire') = Len(wire) + 1 /\ Len(wire') <= MaxWire
         /\ DOMAIN wire' = DOMAIN wire \cup {Len(wire')} /\ Len(wire') \in Nat
         /\ Len(wire') # 0 /\ Len(wire') \notin DOMAIN wire /\ wire' # <<>>
         /\ \A p \in DOMAIN wire : p < Len(wire') /\ wire'[p] = wire[p]
         /\ wire'[Len(wire')] = call
<1>1. /\ wire' \in Seq(WireCalls) /\ Len(wire') = Len(wire) + 1
      /\ DOMAIN wire' = 1..Len(wire')
      /\ \A p \in 1..Len(wire) : wire'[p] = wire[p]
      /\ wire'[Len(wire) + 1] = call
  BY EditorWire
<1>2. Len(wire') <= MaxWire /\ DOMAIN wire' = DOMAIN wire \cup {Len(wire')}
  BY <1>1, EditorWire
<1>3. wire' # <<>>
  BY <1>1, EditorWire
<1> QED
  BY <1>1, <1>2, <1>3, EditorWire

LEMMA StopsListening ==
  ASSUME EditorInv, NEW fresh, DOMAIN wire' = DOMAIN wire \cup fresh,
         \A p \in DOMAIN wire : wire'[p] = wire[p],
         \A p \in fresh : /\ p \in Nat /\ \A q \in DOMAIN wire : q < p
                          /\ wire'[p].does = "price" /\ wire'[p].step = "sent",
         unheard' = unheard \cup Awaited(page)
  PROVE  /\ \A p : (PriceCall(p)' <=> PriceCall(p) \/ p \in fresh)
         /\ \A c : (CommitCall(c)' <=> CommitCall(c))
         /\ \A p : (PriceDone(p)' <=> PriceDone(p))
         /\ \A p : (Heard(p)' <=> Heard(p) /\ p # page.awaited)
         /\ \A p \in DOMAIN wire : Closed(p) \/ p = page.awaited => Closed(p)'
         /\ \A c : (Begun(c)' <=> Begun(c)) /\ (Delivered(c)' <=> Delivered(c))
         /\ \A c, ls : BehindThePage(c, ls) => BehindThePage(c, ls)'
         /\ \A p : p \in unheard' <=> p \in unheard \/ (p = page.awaited /\ p # 0)
<1>1. fresh \cap DOMAIN wire = {}
  BY EditorWire
<1>2. \A p : p \in unheard' <=> p \in unheard \/ (p = page.awaited /\ p # 0)
  BY DEF Awaited
<1>3. \A p : (PriceCall(p)' <=> PriceCall(p) \/ p \in fresh) /\ (CommitCall(p)' <=> CommitCall(p))
  BY <1>1 DEF PriceCall, CommitCall
<1>4. \A p : PriceDone(p)' <=> PriceDone(p)
  BY <1>1, <1>3 DEF PriceDone, PriceCall
<1>5. \A p : (Heard(p)' <=> Heard(p) /\ p # page.awaited)
  BY <1>2, <1>4, EditorWire DEF Heard, PriceDone, PriceCall
<1>6. \A p \in DOMAIN wire : Closed(p) \/ p = page.awaited => Closed(p)'
  BY <1>2, EditorWire DEF Closed
<1>7. \A c : (Begun(c)' <=> Begun(c)) /\ (Delivered(c)' <=> Delivered(c))
  BY <1>1, <1>3 DEF Begun, Delivered, CommitCall
<1>8. ASSUME NEW c, NEW ls, BehindThePage(c, ls) PROVE BehindThePage(c, ls)'
  <2>1. PICK p \in DOMAIN wire : /\ wire[p].does = "price" /\ wire[p].step = "done"
                                /\ wire[p].lines = ls /\ (p \in unheard \/ p > c)
    BY <1>8 DEF BehindThePage, CallsThat
  <2> QED
    BY <1>2, <2>1 DEF BehindThePage, CallsThat
<1> QED
  BY <1>2, <1>3, <1>4, <1>5, <1>6, <1>7, <1>8

LEMMA ListensToNewest ==
  ASSUME EditorInv, NEW fresh, DOMAIN wire' = DOMAIN wire \cup fresh,
         \A p \in DOMAIN wire : wire'[p] = wire[p],
         \A p \in fresh : /\ p \in Nat /\ \A q \in DOMAIN wire : q < p
                          /\ wire'[p].does = "price" /\ wire'[p].step = "sent",
         unheard' = unheard \cup Awaited(page),
         UNCHANGED <<quote, document>>, page'.shown = page.shown,
         page'.sending = page.sending, page'.known = page.known,
         page'.awaited = 0 \/ page'.awaited \in fresh
  PROVE  /\ StoredFromCall' /\ ShownFromCall' /\ SentAsShown' /\ CarriesStored'
         /\ PricedBehind' /\ KnownWasSent' /\ DocumentFromCommit'
<1>0. fresh \cap DOMAIN wire = {}
  BY EditorWire
<1>1. StoredFromCall'
  <2> SUFFICES ASSUME quote.status \in {"priced", "committed", "accepted"}
               PROVE  StoredFromCall'
    BY DEF StoredFromCall
  <2>1. PICK p \in DOMAIN wire :
          /\ PriceDone(p) /\ wire[p].lines = quote.lines
          /\ p \in unheard \/ \A q \in DOMAIN wire : Heard(q) => q <= p
    BY DEF EditorInv, StoredFromCall
  <2>2. \A q \in DOMAIN wire' : Heard(q)' => Heard(q) /\ q \in DOMAIN wire
    BY StopsListening DEF Heard, PriceDone, PriceCall
  <2> QED
    BY <2>1, <2>2, StopsListening DEF StoredFromCall
<1>2. ShownFromCall'
  <2> SUFFICES ASSUME page.shown # Blank PROVE ShownFromCall'
    BY DEF ShownFromCall
  <2>1. PICK h \in DOMAIN wire :
          /\ Heard(h) /\ h # page.awaited /\ wire[h].lines = page.shown
          /\ \A q \in DOMAIN wire : Heard(q) /\ q # page.awaited => q <= h
    BY DEF EditorInv, ShownFromCall
  <2>2. \A q \in DOMAIN wire' : Heard(q)' => Heard(q) /\ q # page.awaited /\ q \in DOMAIN wire
    BY StopsListening DEF Heard, PriceDone, PriceCall
  <2>3. Heard(h)' /\ h # page'.awaited
    BY <1>0, <2>1, StopsListening, EditorWire
  <2> QED
    BY <2>1, <2>2, <2>3 DEF ShownFromCall
<1>3. SentAsShown'
  <2> SUFFICES ASSUME NEW c \in DOMAIN wire', CommitCall(c)'
               PROVE  /\ page'.awaited = 0 \/ page'.awaited > c
                      /\ \A p \in DOMAIN wire' : PriceCall(p)' /\ p < c => Closed(p)'
                      /\ \E h \in DOMAIN wire' :
                           /\ h < c /\ Heard(h)' /\ wire'[h].lines = wire'[c].lines
                           /\ \A q \in DOMAIN wire' : q < c /\ Heard(q)' => q <= h
    BY DEF SentAsShown
  <2>1. CommitCall(c) /\ c \in DOMAIN wire
    BY StopsListening DEF CommitCall
  <2>2. PICK h \in DOMAIN wire :
          /\ h < c /\ Heard(h) /\ wire[h].lines = wire[c].lines
          /\ \A q \in DOMAIN wire : q < c /\ Heard(q) => q <= h
    BY <2>1 DEF EditorInv, SentAsShown
  <2>3. page.awaited = 0 \/ page.awaited > c
    BY <2>1 DEF EditorInv, SentAsShown
  <2>4. h # page.awaited /\ Heard(h)'
    <3>1. h # page.awaited
      BY <2>1, <2>2, <2>3, EditorWire
    <3> QED
      BY <2>2, <3>1, StopsListening
  <2>5. \A q \in DOMAIN wire' : Heard(q)' => Heard(q) /\ q \in DOMAIN wire
    BY StopsListening DEF Heard, PriceDone, PriceCall
  <2>6. \A p \in DOMAIN wire' : PriceCall(p)' /\ p < c => Closed(p)'
    <3> SUFFICES ASSUME NEW p \in DOMAIN wire', PriceCall(p)', p < c PROVE Closed(p)'
      OBVIOUS
    <3>1. p \in DOMAIN wire /\ PriceCall(p)
      BY <2>1, StopsListening, EditorWire DEF PriceCall
    <3>2. Closed(p)
      BY <2>1, <3>1 DEF EditorInv, SentAsShown
    <3> QED
      BY <3>1, <3>2, StopsListening
  <2>7. page'.awaited = 0 \/ page'.awaited > c
    BY <2>1, EditorWire
  <2> QED
    BY <2>1, <2>2, <2>4, <2>5, <2>6, <2>7
<1>4. CarriesStored'
  <2> SUFFICES ASSUME NEW c \in DOMAIN wire', Begun(c)'
               PROVE  /\ quote.status \in {"priced", "committed", "accepted"}
                      /\ wire'[c].carries \in LineLists
                      /\ \/ wire'[c].carries = wire'[c].lines
                         \/ BehindThePage(c, wire[c].carries)'
    BY DEF CarriesStored
  <2>1. Begun(c) /\ c \in DOMAIN wire /\ wire'[c] = wire[c]
    BY StopsListening DEF Begun, CommitCall
  <2>2. /\ quote.status \in {"priced", "committed", "accepted"}
        /\ wire[c].carries \in LineLists
        /\ wire[c].carries = wire[c].lines \/ BehindThePage(c, wire[c].carries)
    BY <2>1 DEF EditorInv, CarriesStored
  <2>3. PICK ls : ls = wire[c].carries
    OBVIOUS
  <2>4. BehindThePage(c, ls) => BehindThePage(c, ls)'
    BY StopsListening
  <2>5. BehindThePage(c, wire[c].carries) => BehindThePage(c, wire[c].carries)'
    BY <2>1, <2>3, <2>4 DEF BehindThePage
  <2> QED
    BY <2>1, <2>2, <2>5
<1>5. PricedBehind'
  <2> SUFFICES ASSUME NEW c \in DOMAIN wire', CommitCall(c)', wire'[c].step = "done",
                      quote.status = "priced"
               PROVE  BehindThePage(c, quote.lines)'
    BY DEF PricedBehind
  <2>1. CommitCall(c) /\ c \in DOMAIN wire /\ wire[c].step = "done"
    BY StopsListening DEF CommitCall
  <2>2. BehindThePage(c, quote.lines)
    BY <2>1 DEF EditorInv, PricedBehind
  <2>3. PICK ls : ls = quote.lines
    OBVIOUS
  <2>4. BehindThePage(c, ls)'
    BY <2>2, <2>3, StopsListening
  <2> QED
    BY <2>3, <2>4 DEF BehindThePage
<1>6. KnownWasSent' /\ DocumentFromCommit'
  BY StopsListening DEF EditorInv, KnownWasSent, DocumentFromCommit, CommitCall, Delivered
<1> QED
  BY <1>1, <1>2, <1>3, <1>4, <1>5, <1>6

LEMMA PriceLostKeepsEditor ==
  ASSUME EditorInv, PriceLost
  PROVE  EditorInv'
<1>1. /\ UNCHANGED <<form, net, wire, quote, document, typing>>
      /\ page.awaited # 0 /\ unheard' = unheard \cup Awaited(page)
      /\ page' = [page EXCEPT !.awaited = 0, !.failed = TRUE]
  BY DEF PriceLost
<1>2. /\ page' \in Pages /\ page'.awaited = 0 /\ page'.shown = page.shown
      /\ page'.sending = page.sending /\ page'.known = page.known
      /\ page'.draft = page.draft
  <2>1. page \in Pages /\ 0 \in 0..MaxWire
    BY EditorWire
  <2> QED
    BY ONLY <1>1, <2>1 DEF Pages
<1>3. /\ PriceCall(page.awaited)
      /\ \A p \in DOMAIN wire : PriceCall(p) => p <= page.awaited
  BY <1>1 DEF EditorInv, AwaitsNewest
<1>4. EditorTypeOK'
  BY <1>1, <1>2, <1>3 DEF EditorInv, EditorTypeOK, Awaited, PriceCall
<1>5. /\ \A p : PriceCall(p)' <=> PriceCall(p)
      /\ \A p \in DOMAIN wire : Closed(p) \/ p = page.awaited => Closed(p)'
      /\ \A p : (Heard(p)' <=> Heard(p) /\ p # page.awaited)
      /\ \A p : p \in unheard' <=> p \in unheard \/ p = page.awaited
  <2>1. PICK fresh : fresh = {}
    OBVIOUS
  <2>2. /\ \A p : (PriceCall(p)' <=> PriceCall(p) \/ p \in fresh)
        /\ \A p : (Heard(p)' <=> Heard(p) /\ p # page.awaited)
        /\ \A p \in DOMAIN wire : Closed(p) \/ p = page.awaited => Closed(p)'
        /\ \A p : p \in unheard' <=> p \in unheard \/ (p = page.awaited /\ p # 0)
    <3>1. /\ DOMAIN wire' = DOMAIN wire \cup fresh
          /\ \A p \in DOMAIN wire : wire'[p] = wire[p]
          /\ unheard' = unheard \cup Awaited(page)
      BY <1>1, <2>1
    <3>2. \A p \in fresh : /\ p \in Nat /\ \A q \in DOMAIN wire : q < p
                           /\ wire'[p].does = "price" /\ wire'[p].step = "sent"
      BY <2>1
    <3>3. /\ \A p : (PriceCall(p)' <=> PriceCall(p) \/ p \in fresh)
          /\ \A p : (Heard(p)' <=> Heard(p) /\ p # page.awaited)
      BY <3>1, <3>2, StopsListening
    <3>4. \A p \in DOMAIN wire : Closed(p) \/ p = page.awaited => Closed(p)'
      BY <3>1, <3>2, StopsListening
    <3>5. \A p : p \in unheard' <=> p \in unheard \/ (p = page.awaited /\ p # 0)
      BY <3>1, <3>2, StopsListening
    <3> QED
      BY <3>3, <3>4, <3>5
  <2> QED
    BY <1>1, <2>1, <2>2
<1>6. PricesHaveDraft' /\ AwaitsNewest'
  BY <1>1, <1>2, <1>3, <1>5 DEF EditorInv, PricesHaveDraft, AwaitsNewest
<1>7. PricedAsWritten'
  <2>1. \A c \in DOMAIN wire : Heard(c)' => ~(\A p \in DOMAIN wire : PriceCall(p) => p <= c)
    BY <1>3, <1>5, EditorWire DEF Heard, PriceDone, PriceCall
  <2> QED
    BY <1>1, <1>2, <1>5, <2>1 DEF PricedAsWritten
<1>8. /\ StoredFromCall' /\ ShownFromCall' /\ SentAsShown' /\ CarriesStored'
      /\ PricedBehind' /\ KnownWasSent' /\ DocumentFromCommit'
  <2>1. PICK fresh : fresh = {}
    OBVIOUS
  <2> QED
    BY <1>1, <1>2, <2>1, ListensToNewest
<1> QED
  BY <1>4, <1>6, <1>7, <1>8 DEF EditorInv

(* doPrice and repriceNow: the call before is aborted, and the new one has  *)
(* the lines of the page.                                                   *)
LEMMA StartPriceKeepsEditor ==
  ASSUME EditorInv, NEW p \in Pages, StartPrice(p), page.draft = "made",
         p = page \/ p = [page EXCEPT !.waiting = FALSE]
  PROVE  EditorInv'
<1> DEFINE call == [does |-> "price", lines |-> p.lines, carries |-> Blank, step |-> "sent"]
<1>0. PICK n : n = Len(wire')
  OBVIOUS
<1>1. /\ Len(wire) < MaxWire /\ wire' = Append(wire, call)
      /\ page' = [p EXCEPT !.awaited = n, !.failed = FALSE, !.spared = FALSE]
      /\ unheard' = unheard \cup Awaited(p)
      /\ UNCHANGED <<form, net, quote, document, typing>>
  BY <1>0 DEF StartPrice
<1>2. call \in WireCalls
  BY DEF Pages, WireCalls, Lists
<1>3. /\ wire' \in Seq(WireCalls) /\ n = Len(wire) + 1 /\ n <= MaxWire
      /\ DOMAIN wire' = DOMAIN wire \cup {n} /\ n \in Nat
      /\ n # 0 /\ n \notin DOMAIN wire /\ wire' # <<>>
      /\ \A q \in DOMAIN wire : q < n /\ wire'[q] = wire[q]
      /\ wire'[n] = call
  <2> HIDE DEF call
  <2> QED
    BY <1>0, <1>1, <1>2, CallAppended
<1>4. /\ p.awaited = page.awaited /\ p.shown = page.shown /\ p.lines = page.lines
      /\ p.sending = page.sending /\ p.known = page.known /\ p.draft = page.draft
  BY EditorWire DEF Pages
<1>5. /\ page' \in Pages /\ page'.awaited = n /\ page'.shown = page.shown
      /\ page'.lines = page.lines /\ page'.sending = page.sending
      /\ page'.known = page.known /\ page'.draft = page.draft
  <2>1. page' \in Pages /\ page'.awaited = n
    <3>1. n \in 0..MaxWire
      BY <1>3, EditorWire
    <3> QED
      BY <1>1, <3>1 DEF Pages
  <2>2. /\ page'.shown = p.shown
        /\ page'.lines = p.lines /\ page'.sending = p.sending
        /\ page'.known = p.known /\ page'.draft = p.draft
    BY <1>1 DEF Pages
  <2> QED
    BY <1>4, <2>1, <2>2
<1>6. unheard' = unheard \cup Awaited(page)
  BY <1>1, <1>4 DEF Awaited
<1>7. PICK fresh : fresh = {n}
  OBVIOUS
<1>8. /\ DOMAIN wire' = DOMAIN wire \cup fresh
      /\ \A q \in DOMAIN wire : wire'[q] = wire[q]
      /\ \A k \in fresh : /\ k \in Nat /\ \A q \in DOMAIN wire : q < k
                          /\ wire'[k].does = "price" /\ wire'[k].step = "sent"
  BY <1>3, <1>7
<1>9. /\ \A q : (PriceCall(q)' <=> PriceCall(q) \/ q = n)
      /\ \A q \in DOMAIN wire : Closed(q) \/ q = page.awaited => Closed(q)'
      /\ \A q : q \in unheard' <=> q \in unheard \/ (q = page.awaited /\ q # 0)
  <2>1. \A q : (PriceCall(q)' <=> PriceCall(q) \/ q \in fresh)
    BY <1>6, <1>8, StopsListening
  <2>2. \A q \in DOMAIN wire : Closed(q) \/ q = page.awaited => Closed(q)'
    BY <1>6, <1>8, StopsListening
  <2>3. \A q : q \in unheard' <=> q \in unheard \/ (q = page.awaited /\ q # 0)
    BY <1>6, <1>8, StopsListening
  <2> QED
    BY <1>7, <2>1, <2>2, <2>3
<1>10. \A q \in unheard' : PriceCall(q)
  BY <1>9 DEF EditorInv, PricesHaveDraft, AwaitsNewest
<1>11. EditorTypeOK'
  <2>1. unheard' \subseteq DOMAIN wire' /\ page'.sending \in {0} \cup DOMAIN wire'
    BY <1>3, <1>5, <1>10 DEF EditorInv, EditorTypeOK, PriceCall
  <2> QED
    BY <1>0, <1>1, <1>3, <1>5, <2>1 DEF EditorInv, EditorTypeOK
<1>12. PricesHaveDraft'
  <2>1. \A q \in unheard' : PriceCall(q)'
    BY <1>9, <1>10
  <2>2. \A q \in DOMAIN wire' : PriceCall(q)' /\ wire'[q].step \in {"read", "done"} =>
          wire'[q].lines \in LineLists
    BY <1>3, <1>9 DEF EditorInv, PricesHaveDraft
  <2> QED
    BY <1>5, <2>1, <2>2 DEF PricesHaveDraft
<1>13. AwaitsNewest'
  <2>1. \A q \in DOMAIN wire' : PriceCall(q)' => q <= n
    BY <1>3, EditorWire
  <2>2. n \notin unheard' /\ PriceCall(n)'
    BY <1>3, <1>9, <1>10 DEF PriceCall
  <2>3. \A q \in DOMAIN wire' : PriceCall(q)' => q = n \/ Closed(q)'
    BY <1>3, <1>9 DEF EditorInv, AwaitsNewest
  <2> QED
    BY <1>5, <2>1, <2>2, <2>3 DEF AwaitsNewest
<1>14. PricedAsWritten'
  BY <1>3, <1>4, <1>5 DEF PricedAsWritten
<1>15. /\ StoredFromCall' /\ ShownFromCall' /\ SentAsShown' /\ CarriesStored'
       /\ PricedBehind' /\ KnownWasSent' /\ DocumentFromCommit'
  BY <1>1, <1>5, <1>6, <1>7, <1>8, ListensToNewest
<1> QED
  BY <1>11, <1>12, <1>13, <1>14, <1>15 DEF EditorInv

LEMMA PricingKeepsEditor ==
  ASSUME EditorInv, TimerPrices \/ Retry
  PROVE  EditorInv'
<1>1. page \in Pages /\ [page EXCEPT !.waiting = FALSE] \in Pages
  BY EditorWire DEF Pages
<1>2. CASE Retry
  BY <1>1, <1>2, StartPriceKeepsEditor DEF Retry
<1>3. CASE TimerPrices
  <2>1. CASE page.draft = "made"
    BY <1>1, <1>3, <2>1, StartPriceKeepsEditor DEF TimerPrices, Fired
  <2>2. CASE page.draft # "made"
    BY <1>3, <2>2 DEF TimerPrices, EditorInv, PricesHaveDraft
  <2> QED
    BY <2>1, <2>2
<1> QED
  BY <1>2, <1>3

LEMMA SendKeepsEditor ==
  ASSUME EditorInv, Send
  PROVE  EditorInv'
<1> DEFINE call == [does |-> "commit", lines |-> page.shown, carries |-> Blank,
                    step |-> "sent"]
<1>0. PICK n : n = Len(wire')
  OBVIOUS
<1>1. /\ Len(wire) < MaxWire /\ wire' = Append(wire, call)
      /\ page' = [page EXCEPT !.sending = n,
                              !.failed = IF form = "phone" THEN FALSE ELSE @]
      /\ UNCHANGED <<form, net, unheard, quote, document, typing>>
      /\ page.draft = "made" /\ page.shown # Blank /\ page.awaited = 0
  BY <1>0 DEF Send, CanSend
<1>2. call \in WireCalls
  BY EditorWire DEF Pages, WireCalls, Lists
<1>3. /\ wire' \in Seq(WireCalls) /\ n = Len(wire) + 1 /\ n <= MaxWire
      /\ DOMAIN wire' = DOMAIN wire \cup {n} /\ n \in Nat
      /\ n # 0 /\ n \notin DOMAIN wire /\ wire' # <<>>
      /\ \A q \in DOMAIN wire : q < n /\ wire'[q] = wire[q]
      /\ wire'[n].does = "commit" /\ wire'[n].lines = page.shown /\ wire'[n].step = "sent"
  <2>1. /\ wire' \in Seq(WireCalls) /\ n = Len(wire) + 1 /\ n <= MaxWire
        /\ DOMAIN wire' = DOMAIN wire \cup {n} /\ n \in Nat
        /\ n # 0 /\ n \notin DOMAIN wire /\ wire' # <<>>
        /\ \A q \in DOMAIN wire : q < n /\ wire'[q] = wire[q]
        /\ wire'[n] = call
    <3> HIDE DEF call
    <3> QED
      BY <1>0, <1>1, <1>2, CallAppended
  <2> QED
    BY <2>1
<1> HIDE DEF call
<1>4. /\ page' \in Pages /\ page'.sending = n /\ page'.awaited = page.awaited
      /\ page'.shown = page.shown /\ page'.lines = page.lines
      /\ page'.known = page.known /\ page'.draft = page.draft
      /\ page'.waiting = page.waiting /\ page'.spared = page.spared
      /\ page'.stale = page.stale
  <2>1. n \in 0..MaxWire /\ page \in Pages
    BY <1>3, EditorWire
  <2>2. PICK f \in BOOLEAN : page' = [page EXCEPT !.sending = n, !.failed = f]
    BY <1>1, <2>1 DEF Pages
  <2> QED
    BY ONLY <2>1, <2>2 DEF Pages
<1>5. /\ \A p : (PriceCall(p)' <=> PriceCall(p))
      /\ \A c : (CommitCall(c)' <=> CommitCall(c) \/ c = n)
      /\ \A p : (PriceDone(p)' <=> PriceDone(p)) /\ (Heard(p)' <=> Heard(p))
      /\ \A p \in DOMAIN wire : Closed(p)' <=> Closed(p)
      /\ \A c : (Begun(c)' <=> Begun(c)) /\ (Delivered(c)' <=> Delivered(c))
      /\ \A c, ls : BehindThePage(c, ls) => BehindThePage(c, ls)'
  <2>1. \A p : (PriceCall(p)' <=> PriceCall(p)) /\ (CommitCall(p)' <=> CommitCall(p) \/ p = n)
    BY <1>3 DEF PriceCall, CommitCall
  <2>2. \A p : (PriceDone(p)' <=> PriceDone(p)) /\ (Heard(p)' <=> Heard(p))
    BY <1>1, <1>3, <2>1 DEF PriceDone, Heard, PriceCall
  <2>3. \A p \in DOMAIN wire : Closed(p)' <=> Closed(p)
    BY <1>1, <1>3 DEF Closed
  <2>4. \A c : (Begun(c)' <=> Begun(c)) /\ (Delivered(c)' <=> Delivered(c))
    BY <1>3, <2>1 DEF Begun, Delivered, CommitCall
  <2>5. \A c, ls : BehindThePage(c, ls) => BehindThePage(c, ls)'
    BY <1>1, <1>3 DEF BehindThePage, CallsThat
  <2> QED
    BY <2>1, <2>2, <2>3, <2>4, <2>5
<1>6. EditorTypeOK'
  <2>1. unheard' \subseteq DOMAIN wire' /\ page'.sending \in {0} \cup DOMAIN wire'
        /\ page'.awaited \in {0} \cup DOMAIN wire'
    BY <1>1, <1>3, <1>4 DEF EditorInv, EditorTypeOK
  <2> QED
    BY <1>0, <1>1, <1>3, <1>4, <2>1 DEF EditorInv, EditorTypeOK
<1>7. PricesHaveDraft' /\ AwaitsNewest'
  <2>1. \A p \in DOMAIN wire' : PriceCall(p)' => p \in DOMAIN wire /\ PriceCall(p)
    BY <1>5 DEF PriceCall
  <2>2. PricesHaveDraft'
    BY <1>1, <1>3, <1>4, <1>5, <2>1 DEF EditorInv, PricesHaveDraft
  <2>3. AwaitsNewest'
    BY <1>1, <1>3, <1>4, <1>5, <2>1 DEF EditorInv, AwaitsNewest
  <2> QED
    BY <2>2, <2>3
<1>8. PricedAsWritten'
  <2>1. \A p \in DOMAIN wire' : Heard(p)' => p \in DOMAIN wire /\ Heard(p)
    BY <1>5 DEF Heard, PriceDone, PriceCall
  <2>2. \A p \in DOMAIN wire : p \in DOMAIN wire'
    BY <1>3
  <2> QED
    BY <1>1, <1>4, <1>5, <2>1, <2>2 DEF EditorInv, PricedAsWritten
<1>9. /\ \A q \in DOMAIN wire' : Heard(q)' => q \in DOMAIN wire /\ Heard(q)
      /\ \A q \in DOMAIN wire : q \in DOMAIN wire' /\ wire'[q] = wire[q]
  BY <1>3, <1>5 DEF Heard, PriceDone, PriceCall
<1>10. StoredFromCall' /\ ShownFromCall'
  <2>1. StoredFromCall'
    BY <1>1, <1>5, <1>9 DEF EditorInv, StoredFromCall
  <2>2. ShownFromCall'
    BY <1>4, <1>5, <1>9 DEF EditorInv, ShownFromCall
  <2> QED
    BY <2>1, <2>2
<1>11. SentAsShown'
  <2> SUFFICES ASSUME NEW c \in DOMAIN wire', CommitCall(c)'
               PROVE  /\ page'.awaited = 0 \/ page'.awaited > c
                      /\ \A p \in DOMAIN wire' : PriceCall(p)' /\ p < c => Closed(p)'
                      /\ \E h \in DOMAIN wire' :
                           /\ h < c /\ Heard(h)' /\ wire'[h].lines = wire'[c].lines
                           /\ \A q \in DOMAIN wire' : q < c /\ Heard(q)' => q <= h
    BY DEF SentAsShown
  <2>0. page'.awaited = 0
    BY <1>1, <1>4
  <2>1. \A p \in DOMAIN wire' : PriceCall(p)' => Closed(p)'
    <3>1. \A p \in DOMAIN wire' : PriceCall(p)' => p \in DOMAIN wire /\ PriceCall(p)
      BY <1>5 DEF PriceCall
    <3>2. \A p \in DOMAIN wire : PriceCall(p) => Closed(p)
      BY <1>1, EditorWire DEF EditorInv, AwaitsNewest
    <3> QED
      BY <1>5, <3>1, <3>2
  <2>2. CASE c = n
    <3>1. PICK h \in DOMAIN wire :
            /\ Heard(h) /\ wire[h].lines = page.shown
            /\ \A q \in DOMAIN wire : Heard(q) /\ q # page.awaited => q <= h
      BY <1>1 DEF EditorInv, ShownFromCall
    <3>2. \A q \in DOMAIN wire : q # page.awaited
      BY <1>1, EditorWire
    <3>3. h \in DOMAIN wire' /\ h < c /\ Heard(h)' /\ wire'[h].lines = wire'[c].lines
      BY <1>3, <1>5, <1>9, <2>2, <3>1
    <3>4. \A q \in DOMAIN wire' : Heard(q)' => q <= h
      BY <1>9, <3>1, <3>2
    <3> QED
      BY <2>0, <2>1, <3>3, <3>4
  <2>3. CASE c # n
    <3>1. c \in DOMAIN wire /\ CommitCall(c) /\ wire'[c] = wire[c]
      BY <1>3, <1>5, <2>3
    <3>2. PICK h \in DOMAIN wire :
            /\ h < c /\ Heard(h) /\ wire[h].lines = wire[c].lines
            /\ \A q \in DOMAIN wire : q < c /\ Heard(q) => q <= h
      BY <3>1 DEF EditorInv, SentAsShown
    <3>3. h \in DOMAIN wire' /\ Heard(h)' /\ wire'[h].lines = wire'[c].lines
      BY <1>5, <1>9, <3>1, <3>2
    <3>4. \A q \in DOMAIN wire' : q < c /\ Heard(q)' => q <= h
      BY <1>9, <3>2
    <3> QED
      BY <2>0, <2>1, <3>2, <3>3, <3>4
  <2> QED
    BY <2>2, <2>3
<1>12. CarriesStored'
  <2> SUFFICES ASSUME NEW c \in DOMAIN wire', Begun(c)'
               PROVE  /\ quote.status \in {"priced", "committed", "accepted"}
                      /\ wire'[c].carries \in LineLists
                      /\ \/ wire'[c].carries = wire'[c].lines
                         \/ BehindThePage(c, wire[c].carries)'
    BY <1>1 DEF CarriesStored
  <2>1. Begun(c) /\ c \in DOMAIN wire /\ wire'[c] = wire[c]
    BY <1>3, <1>5 DEF Begun, CommitCall
  <2>2. /\ quote.status \in {"priced", "committed", "accepted"}
        /\ wire[c].carries \in LineLists
        /\ wire[c].carries = wire[c].lines \/ BehindThePage(c, wire[c].carries)
    BY <2>1 DEF EditorInv, CarriesStored
  <2>3. PICK ls : ls = wire[c].carries
    OBVIOUS
  <2>4. BehindThePage(c, ls) => BehindThePage(c, ls)'
    BY <1>5
  <2>5. BehindThePage(c, wire[c].carries) => BehindThePage(c, wire[c].carries)'
    BY <2>1, <2>3, <2>4 DEF BehindThePage
  <2> QED
    BY <2>1, <2>2, <2>5
<1>13. PricedBehind'
  <2> SUFFICES ASSUME NEW c \in DOMAIN wire', CommitCall(c)', wire'[c].step = "done",
                      quote.status = "priced"
               PROVE  BehindThePage(c, quote.lines)'
    BY <1>1 DEF PricedBehind
  <2>1. CommitCall(c) /\ c \in DOMAIN wire /\ wire[c].step = "done"
    BY <1>3, <1>5 DEF CommitCall
  <2>2. BehindThePage(c, quote.lines)
    BY <2>1 DEF EditorInv, PricedBehind
  <2>3. PICK ls : ls = quote.lines
    OBVIOUS
  <2>4. BehindThePage(c, ls)'
    BY <1>5, <2>2, <2>3
  <2> QED
    BY <1>1, <2>3, <2>4 DEF BehindThePage
<1>14. KnownWasSent' /\ DocumentFromCommit'
  <2>1. KnownWasSent'
    BY <1>3, <1>4, <1>5, <1>9 DEF EditorInv, KnownWasSent
  <2>2. DocumentFromCommit'
    <3>1. \A c \in DOMAIN wire' : Delivered(c)' => c \in DOMAIN wire /\ Delivered(c)
      BY <1>5 DEF Delivered, CommitCall
    <3> QED
      BY <1>1, <1>5, <1>9, <3>1 DEF EditorInv, DocumentFromCommit
  <2> QED
    BY <2>1, <2>2
<1> QED
  BY <1>6, <1>7, <1>8, <1>10, <1>11, <1>12, <1>13, <1>14 DEF EditorInv

-----------------------------------------------------------------------------
(* The server. *)

LEMMA CallMoves ==
  ASSUME EditorInv, NEW c \in DOMAIN wire, NEW new \in WireCalls,
         new.does = wire[c].does, new.lines = wire[c].lines,
         wire' = [wire EXCEPT ![c] = new], UNCHANGED unheard
  PROVE  /\ wire' \in Seq(WireCalls) /\ Len(wire') = Len(wire)
         /\ DOMAIN wire' = DOMAIN wire /\ wire # <<>> /\ wire' # <<>>
         /\ wire'[c] = new /\ \A q \in DOMAIN wire : q # c => wire'[q] = wire[q]
         /\ \A q \in DOMAIN wire : wire'[q].lines = wire[q].lines
         /\ \A p : (PriceCall(p)' <=> PriceCall(p)) /\ (CommitCall(p)' <=> CommitCall(p))
<1>1. /\ wire' \in Seq(WireCalls) /\ Len(wire') = Len(wire) /\ DOMAIN wire' = DOMAIN wire
      /\ wire'[c] = new /\ \A q \in DOMAIN wire : q # c => wire'[q] = wire[q]
  BY EditorWire
<1>2. wire # <<>> /\ wire' # <<>>
  BY <1>1, EditorWire
<1>3. \A q \in DOMAIN wire : wire'[q].lines = wire[q].lines /\ wire'[q].does = wire[q].does
  BY <1>1
<1>4. \A p : (PriceCall(p)' <=> PriceCall(p)) /\ (CommitCall(p)' <=> CommitCall(p))
  BY <1>1, <1>3 DEF PriceCall, CommitCall
<1> QED
  BY <1>1, <1>2, <1>3, <1>4

LEMMA StepMoves ==
  ASSUME EditorInv, NEW c \in DOMAIN wire, NEW step, Step(c, step),
         step \in {"sent", "read", "placed", "done", "refused", "unrecorded"}
  PROVE  \E new \in WireCalls :
           /\ wire' = [wire EXCEPT ![c] = new]
           /\ new.does = wire[c].does /\ new.lines = wire[c].lines
           /\ new.carries = wire[c].carries /\ new.step = step
<1> DEFINE new == [wire[c] EXCEPT !.step = step]
<1>1. wire[c] \in WireCalls
  BY EditorWire
<1>2. /\ new \in WireCalls /\ new.does = wire[c].does /\ new.lines = wire[c].lines
      /\ new.carries = wire[c].carries /\ new.step = step
  BY <1>1 DEF WireCalls
<1>3. wire' = [wire EXCEPT ![c] = new]
  BY DEF Step
<1> QED
  BY <1>2, <1>3

(* A price call that is not answered with a price. *)
LEMMA PriceOnItsWay ==
  ASSUME EditorInv, NEW c \in DOMAIN wire, PriceBegins(c) \/ PriceRefused(c)
  PROVE  EditorInv'
<1>1. /\ UNCHANGED <<form, net, page, unheard, quote, document, typing>>
      /\ wire[c].does = "price" /\ wire[c].step \in {"sent", "read"}
  BY DEF PriceBegins, PriceRefused, At
<1>2. PICK new \in WireCalls :
        /\ wire' = [wire EXCEPT ![c] = new]
        /\ new.does = wire[c].does /\ new.lines = wire[c].lines
        /\ new.step = "refused" \/ (new.step = "read" /\ wire[c].lines # Blank)
  <2>1. CASE PriceBegins(c)
    <3>1. Step(c, "read") /\ wire[c].lines # Blank
      BY <2>1 DEF PriceBegins
    <3> QED
      BY <3>1, StepMoves
  <2>2. CASE PriceRefused(c)
    <3>1. Step(c, "refused")
      BY <2>2 DEF PriceRefused
    <3> QED
      BY <3>1, StepMoves
  <2> QED
    BY <2>1, <2>2
<1>3. /\ wire' \in Seq(WireCalls) /\ Len(wire') = Len(wire)
      /\ DOMAIN wire' = DOMAIN wire /\ wire # <<>> /\ wire' # <<>>
      /\ wire'[c] = new /\ \A q \in DOMAIN wire : q # c => wire'[q] = wire[q]
      /\ \A q \in DOMAIN wire : wire'[q].lines = wire[q].lines
      /\ \A p : (PriceCall(p)' <=> PriceCall(p)) /\ (CommitCall(p)' <=> CommitCall(p))
  BY <1>1, <1>2, CallMoves
<1>4. /\ \A p : (PriceDone(p)' <=> PriceDone(p)) /\ (Heard(p)' <=> Heard(p))
      /\ \A p \in DOMAIN wire : Closed(p) => Closed(p)'
      /\ \A d : (Begun(d)' <=> Begun(d)) /\ (Delivered(d)' <=> Delivered(d))
      /\ \A d, ls : BehindThePage(d, ls) => BehindThePage(d, ls)'
      /\ \A d : CommitCall(d) => wire'[d] = wire[d]
  <2>1. \A p : (PriceDone(p)' <=> PriceDone(p)) /\ (Heard(p)' <=> Heard(p))
    BY <1>1, <1>2, <1>3 DEF PriceDone, Heard, PriceCall
  <2>2. \A p \in DOMAIN wire : Closed(p) => Closed(p)'
    BY <1>1, <1>2, <1>3 DEF Closed
  <2>3. \A d : CommitCall(d) => wire'[d] = wire[d]
    BY <1>1, <1>3 DEF CommitCall
  <2>4. \A d : (Begun(d)' <=> Begun(d)) /\ (Delivered(d)' <=> Delivered(d))
    BY <1>3, <2>3 DEF Begun, Delivered
  <2>5. \A d, ls : BehindThePage(d, ls) => BehindThePage(d, ls)'
    <3>1. \A p \in DOMAIN wire : wire[p].does = "price" /\ wire[p].step = "done" =>
            wire'[p].does = "price" /\ wire'[p].step = "done"
      BY <2>1, <1>3 DEF PriceDone, PriceCall
    <3> QED
      BY <1>1, <1>3, <3>1 DEF BehindThePage, CallsThat
  <2> QED
    BY <2>1, <2>2, <2>3, <2>4, <2>5
<1>5. EditorTypeOK' /\ PricesHaveDraft' /\ AwaitsNewest' /\ PricedAsWritten'
  <2>1. EditorTypeOK'
    BY <1>1, <1>3 DEF EditorInv, EditorTypeOK
  <2>2. PricesHaveDraft'
    BY <1>1, <1>2, <1>3, EditorWire DEF EditorInv, PricesHaveDraft, Lists
  <2>3. AwaitsNewest'
    BY <1>1, <1>3, <1>4 DEF EditorInv, AwaitsNewest
  <2>4. PricedAsWritten'
    <3>1. page.awaited # 0 => wire'[page.awaited].lines = wire[page.awaited].lines
      BY <1>3 DEF EditorInv, EditorTypeOK
    <3> QED
      BY <1>1, <1>3, <1>4, <3>1 DEF EditorInv, PricedAsWritten
  <2> QED
    BY <2>1, <2>2, <2>3, <2>4
<1>6. StoredFromCall' /\ ShownFromCall' /\ SentAsShown'
  <2>1. StoredFromCall'
    BY <1>1, <1>3, <1>4 DEF EditorInv, StoredFromCall
  <2>2. ShownFromCall'
    BY <1>1, <1>3, <1>4 DEF EditorInv, ShownFromCall
  <2>3. SentAsShown'
    BY <1>1, <1>3, <1>4 DEF EditorInv, SentAsShown
  <2> QED
    BY <2>1, <2>2, <2>3
<1>7. CarriesStored'
  <2> SUFFICES ASSUME NEW d \in DOMAIN wire, Begun(d)
               PROVE  /\ quote.status \in {"priced", "committed", "accepted"}
                      /\ wire[d].carries \in LineLists
                      /\ \/ wire[d].carries = wire[d].lines
                         \/ BehindThePage(d, wire[d].carries)'
    BY <1>1, <1>3, <1>4 DEF CarriesStored, Begun
  <2>1. PICK ls : ls = wire[d].carries
    OBVIOUS
  <2>2. BehindThePage(d, ls) => BehindThePage(d, ls)'
    BY <1>4
  <2>3. BehindThePage(d, wire[d].carries) => BehindThePage(d, wire[d].carries)'
    BY <1>4, <2>1, <2>2 DEF BehindThePage, Begun
  <2> QED
    BY <2>3 DEF EditorInv, CarriesStored
<1>8. PricedBehind' /\ KnownWasSent' /\ DocumentFromCommit'
  <2>1. PICK ls : ls = quote.lines
    OBVIOUS
  <2>2. \A d : BehindThePage(d, quote.lines) => BehindThePage(d, quote.lines)'
    BY <1>1, <1>4, <2>1 DEF BehindThePage
  <2>3. PricedBehind'
    BY <1>1, <1>3, <1>4, <2>2 DEF EditorInv, PricedBehind
  <2>4. KnownWasSent'
    BY <1>1, <1>3, <1>4 DEF EditorInv, KnownWasSent
  <2>5. DocumentFromCommit'
    BY <1>1, <1>3, <1>4 DEF EditorInv, DocumentFromCommit, Delivered
  <2> QED
    BY <2>3, <2>4, <2>5
<1> QED
  BY <1>5, <1>6, <1>7, <1>8 DEF EditorInv

(* The lines of a call are stored: it is the newest the page hears of, or   *)
(* one it does not hear of.                                                 *)
LEMMA PriceStoredKeepsEditor ==
  ASSUME EditorInv, NEW c \in DOMAIN wire, PriceStored(c)
  PROVE  EditorInv'
<1>1. /\ UNCHANGED <<form, net, page, unheard, document, typing>>
      /\ wire[c].does = "price" /\ wire[c].step = "read" /\ PriceCall(c)
      /\ quote' = [status |-> "priced", lines |-> wire[c].lines]
  BY DEF PriceStored, At, PriceCall
<1>2. PICK new \in WireCalls :
        /\ wire' = [wire EXCEPT ![c] = new]
        /\ new.does = wire[c].does /\ new.lines = wire[c].lines /\ new.step = "done"
  <2>1. Step(c, "done")
    BY DEF PriceStored
  <2> QED
    BY <2>1, StepMoves
<1>3. /\ wire' \in Seq(WireCalls) /\ Len(wire') = Len(wire)
      /\ DOMAIN wire' = DOMAIN wire /\ wire # <<>> /\ wire' # <<>>
      /\ wire'[c] = new /\ \A q \in DOMAIN wire : q # c => wire'[q] = wire[q]
      /\ \A q \in DOMAIN wire : wire'[q].lines = wire[q].lines
      /\ \A p : (PriceCall(p)' <=> PriceCall(p)) /\ (CommitCall(p)' <=> CommitCall(p))
  BY <1>1, <1>2, CallMoves
<1>4. c \in unheard \/ c = page.awaited
  BY <1>1 DEF EditorInv, AwaitsNewest, Closed
<1>5. /\ \A p : (PriceDone(p)' <=> PriceDone(p) \/ p = c)
      /\ \A p : (Heard(p)' <=> Heard(p) \/ (p = c /\ c \notin unheard))
      /\ \A p \in DOMAIN wire : Closed(p) => Closed(p)'
      /\ \A d : CommitCall(d) => wire'[d] = wire[d]
      /\ \A d : (Begun(d)' <=> Begun(d)) /\ (Delivered(d)' <=> Delivered(d))
      /\ \A d, ls : BehindThePage(d, ls) => BehindThePage(d, ls)'
  <2>1. \A p : (PriceDone(p)' <=> PriceDone(p) \/ p = c)
    BY <1>1, <1>2, <1>3 DEF PriceDone, PriceCall
  <2>2. \A p : (Heard(p)' <=> Heard(p) \/ (p = c /\ c \notin unheard))
    BY <1>1, <2>1 DEF Heard
  <2>3. \A p \in DOMAIN wire : Closed(p) => Closed(p)'
    BY <1>1, <1>2, <1>3 DEF Closed
  <2>4. \A d : CommitCall(d) => wire'[d] = wire[d]
    BY <1>1, <1>3 DEF CommitCall
  <2>5. \A d : (Begun(d)' <=> Begun(d)) /\ (Delivered(d)' <=> Delivered(d))
    BY <1>3, <2>4 DEF Begun, Delivered
  <2>6. \A d, ls : BehindThePage(d, ls) => BehindThePage(d, ls)'
    <3>1. \A p \in DOMAIN wire : wire[p].does = "price" /\ wire[p].step = "done" =>
            wire'[p].does = "price" /\ wire'[p].step = "done"
      BY <2>1, <1>3 DEF PriceDone, PriceCall
    <3> QED
      BY <1>1, <1>3, <3>1 DEF BehindThePage, CallsThat
  <2> QED
    BY <2>1, <2>2, <2>3, <2>4, <2>5, <2>6
<1>6. EditorTypeOK' /\ PricesHaveDraft' /\ AwaitsNewest'
  <2>1. wire[c].lines \in LineLists /\ wire[c].lines \in Lists
    BY <1>1, EditorWire DEF EditorInv, PricesHaveDraft
  <2>2. EditorTypeOK'
    BY <1>1, <1>3, <2>1 DEF EditorInv, EditorTypeOK
  <2>3. PricesHaveDraft'
    BY <1>1, <1>2, <1>3, <2>1 DEF EditorInv, PricesHaveDraft
  <2>4. AwaitsNewest'
    BY <1>1, <1>3, <1>5 DEF EditorInv, AwaitsNewest
  <2> QED
    BY <2>2, <2>3, <2>4
<1>7. PricedAsWritten'
  <2>1. page.awaited # 0 => wire'[page.awaited].lines = wire[page.awaited].lines
    BY <1>3 DEF EditorInv, EditorTypeOK
  <2>2. page.awaited = 0 => \A p \in DOMAIN wire : Heard(p)' <=> Heard(p)
    BY <1>4, <1>5, EditorWire
  <2> QED
    BY <1>1, <1>3, <2>1, <2>2 DEF EditorInv, PricedAsWritten
<1>8. StoredFromCall'
  <2>1. PriceDone(c)' /\ wire'[c].lines = quote'.lines
    BY <1>1, <1>3, <1>5
  <2>2. ASSUME c \notin unheard, NEW q \in DOMAIN wire', Heard(q)' PROVE q <= c
    <3>1. PriceCall(q) /\ q \in DOMAIN wire
      BY <1>1, <1>3, <1>5, <2>2 DEF Heard, PriceDone
    <3> QED
      BY <1>4, <2>2, <3>1, EditorWire DEF EditorInv, AwaitsNewest
  <2> QED
    BY <1>1, <1>3, <2>1, <2>2 DEF StoredFromCall
<1>9. ShownFromCall'
  <2>1. \A q \in DOMAIN wire : q # page.awaited => (Heard(q)' <=> Heard(q))
    BY <1>4, <1>5
  <2> QED
    BY <1>1, <1>3, <2>1 DEF EditorInv, ShownFromCall
<1>10. SentAsShown'
  <2> SUFFICES ASSUME NEW d \in DOMAIN wire, CommitCall(d)
               PROVE  /\ page.awaited = 0 \/ page.awaited > d
                      /\ \A p \in DOMAIN wire : PriceCall(p)' /\ p < d => Closed(p)'
                      /\ \E h \in DOMAIN wire :
                           /\ h < d /\ Heard(h)' /\ wire'[h].lines = wire'[d].lines
                           /\ \A q \in DOMAIN wire : q < d /\ Heard(q)' => q <= h
    BY <1>1, <1>3 DEF SentAsShown
  <2>1. PICK h \in DOMAIN wire :
          /\ h < d /\ Heard(h) /\ wire[h].lines = wire[d].lines
          /\ \A q \in DOMAIN wire : q < d /\ Heard(q) => q <= h
    BY DEF EditorInv, SentAsShown
  <2>2. /\ page.awaited = 0 \/ page.awaited > d
        /\ \A p \in DOMAIN wire : PriceCall(p) /\ p < d => Closed(p)
    BY DEF EditorInv, SentAsShown
  <2>3. \A q \in DOMAIN wire : q < d /\ Heard(q)' => Heard(q)
    BY <1>4, <1>5, <2>2, EditorWire
  <2> QED
    BY <1>3, <1>5, <2>1, <2>2, <2>3
<1>11. CarriesStored'
  <2> SUFFICES ASSUME NEW d \in DOMAIN wire, Begun(d)
               PROVE  /\ wire[d].carries \in LineLists
                      /\ \/ wire[d].carries = wire[d].lines
                         \/ BehindThePage(d, wire[d].carries)'
    BY <1>1, <1>3, <1>5 DEF CarriesStored, Begun
  <2>1. PICK ls : ls = wire[d].carries
    OBVIOUS
  <2>2. BehindThePage(d, ls) => BehindThePage(d, ls)'
    BY <1>5
  <2>3. BehindThePage(d, wire[d].carries) => BehindThePage(d, wire[d].carries)'
    BY <1>5, <2>1, <2>2 DEF BehindThePage, Begun
  <2> QED
    BY <2>3 DEF EditorInv, CarriesStored
<1>12. PricedBehind'
  <2> SUFFICES ASSUME NEW d \in DOMAIN wire, CommitCall(d)
               PROVE  BehindThePage(d, quote.lines)'
    BY <1>1, <1>3 DEF PricedBehind
  <2>1. c \in unheard \/ c > d
    BY <1>4, EditorWire DEF EditorInv, SentAsShown
  <2>2. /\ c \in DOMAIN wire' /\ wire'[c].does = "price" /\ wire'[c].step = "done"
        /\ wire'[c].lines = quote'.lines /\ unheard' = unheard
    BY <1>1, <1>2, <1>3
  <2> QED
    BY <2>1, <2>2 DEF BehindThePage, CallsThat
<1>13. KnownWasSent' /\ DocumentFromCommit'
  <2>1. KnownWasSent'
    BY <1>1, <1>3, <1>5 DEF EditorInv, KnownWasSent
  <2>2. DocumentFromCommit'
    BY <1>1, <1>3, <1>5 DEF EditorInv, DocumentFromCommit, Delivered
  <2> QED
    BY <2>1, <2>2
<1> QED
  BY <1>6, <1>7, <1>8, <1>9, <1>10, <1>11, <1>12, <1>13 DEF EditorInv

(* A commit moves: the page and its price calls stay. *)
LEMMA CommitMoves ==
  ASSUME EditorInv, NEW c \in DOMAIN wire, wire[c].does = "commit", wire[c].step # "done",
         NEW new \in WireCalls, wire' = [wire EXCEPT ![c] = new],
         new.does = wire[c].does, new.lines = wire[c].lines,
         UNCHANGED <<form, net, page, unheard, typing>>,
         quote'.lines = quote.lines,
         quote' = quote \/ (Begun(c) /\ quote' = [quote EXCEPT !.status = "committed"])
  PROVE  /\ wire' \in Seq(WireCalls) /\ DOMAIN wire' = DOMAIN wire
         /\ wire'[c] = new /\ \A q \in DOMAIN wire : q # c => wire'[q] = wire[q]
         /\ \A d : (CommitCall(d)' <=> CommitCall(d)) /\ CommitCall(c)
         /\ \A d, ls : BehindThePage(d, ls) => BehindThePage(d, ls)'
         /\ document' \in LineLists \cup {None} => EditorTypeOK'
         /\ PricesHaveDraft' /\ AwaitsNewest' /\ PricedAsWritten'
         /\ StoredFromCall' /\ ShownFromCall' /\ SentAsShown' /\ KnownWasSent'
<1>1. /\ wire' \in Seq(WireCalls) /\ Len(wire') = Len(wire)
      /\ DOMAIN wire' = DOMAIN wire /\ wire # <<>> /\ wire' # <<>>
      /\ wire'[c] = new /\ \A q \in DOMAIN wire : q # c => wire'[q] = wire[q]
      /\ \A q \in DOMAIN wire : wire'[q].lines = wire[q].lines
      /\ \A p : (PriceCall(p)' <=> PriceCall(p)) /\ (CommitCall(p)' <=> CommitCall(p))
  BY CallMoves
<1>2. CommitCall(c) /\ \A p : PriceCall(p) => p \in DOMAIN wire /\ wire'[p] = wire[p]
  BY <1>1 DEF PriceCall, CommitCall
<1>3. /\ \A p : (PriceDone(p)' <=> PriceDone(p)) /\ (Heard(p)' <=> Heard(p))
      /\ \A p : PriceCall(p) => (Closed(p)' <=> Closed(p))
  BY <1>1, <1>2 DEF PriceDone, Heard, Closed
<1>4. \A d, ls : BehindThePage(d, ls) => BehindThePage(d, ls)'
  <2>1. \A p \in DOMAIN wire : wire[p].does = "price" => wire'[p] = wire[p]
    BY <1>1
  <2> QED
    BY <1>1, <2>1 DEF BehindThePage, CallsThat
<1>5. document' \in LineLists \cup {None} => EditorTypeOK'
  BY <1>1 DEF EditorInv, EditorTypeOK
<1>6. PricesHaveDraft' /\ AwaitsNewest'
  <2>1. PricesHaveDraft'
    BY <1>1, <1>2 DEF EditorInv, PricesHaveDraft
  <2>2. AwaitsNewest'
    BY <1>1, <1>2, <1>3 DEF EditorInv, AwaitsNewest
  <2> QED
    BY <2>1, <2>2
<1>7. PricedAsWritten'
  <2>1. page.awaited # 0 => wire'[page.awaited].lines = wire[page.awaited].lines
    BY <1>1 DEF EditorInv, EditorTypeOK
  <2> QED
    BY <1>1, <1>3, <2>1 DEF EditorInv, PricedAsWritten
<1>8. StoredFromCall'
  <2>1. quote'.status \in {"priced", "committed", "accepted"} =>
          quote.status \in {"priced", "committed", "accepted"}
    BY DEF EditorInv, CarriesStored
  <2> QED
    BY <1>1, <1>3, <2>1 DEF EditorInv, StoredFromCall
<1>9. ShownFromCall'
  BY <1>1, <1>3 DEF EditorInv, ShownFromCall
<1>10. SentAsShown'
  BY <1>1, <1>3 DEF EditorInv, SentAsShown
<1>11. KnownWasSent'
  BY <1>1 DEF EditorInv, KnownWasSent
<1> QED
  BY <1>1, <1>2, <1>4, <1>5, <1>6, <1>7, <1>8, <1>9, <1>10, <1>11

(* The other commits carry what they did. *)
LEMMA OthersCarry ==
  ASSUME EditorInv, NEW c \in DOMAIN wire, NEW d \in DOMAIN wire, Begun(d),
         \A e, ls : BehindThePage(e, ls) => BehindThePage(e, ls)',
         quote' = quote \/ quote'.status = "committed",
         wire'[d].carries = wire[d].carries, wire'[d].lines = wire[d].lines
  PROVE  /\ quote'.status \in {"priced", "committed", "accepted"}
         /\ wire'[d].carries \in LineLists
         /\ wire'[d].carries = wire'[d].lines \/ BehindThePage(d, wire[d].carries)'
<1>1. /\ quote.status \in {"priced", "committed", "accepted"}
      /\ wire[d].carries \in LineLists
      /\ wire[d].carries = wire[d].lines \/ BehindThePage(d, wire[d].carries)
  BY DEF EditorInv, CarriesStored
<1>2. PICK ls : ls = wire[d].carries
  OBVIOUS
<1>3. BehindThePage(d, ls) => BehindThePage(d, ls)'
  OBVIOUS
<1>4. BehindThePage(d, wire[d].carries) => BehindThePage(d, wire[d].carries)'
  BY <1>2, <1>3 DEF BehindThePage
<1> QED
  BY <1>1, <1>4

LEMMA StillBehind ==
  ASSUME EditorInv, UNCHANGED quote, DOMAIN wire' = DOMAIN wire,
         \A d : CommitCall(d)' <=> CommitCall(d),
         \A d \in DOMAIN wire : CommitCall(d) /\ wire'[d].step = "done" => wire[d].step = "done",
         \A e, ls : BehindThePage(e, ls) => BehindThePage(e, ls)'
  PROVE  PricedBehind'
<1>1. PICK ls : ls = quote.lines
  OBVIOUS
<1>2. \A d : BehindThePage(d, quote.lines) => BehindThePage(d, quote.lines)'
  BY <1>1 DEF BehindThePage
<1> QED
  BY <1>2 DEF EditorInv, PricedBehind

(* A commit reads what the newest call the page heard of has stored, which  *)
(* is what the page showed, unless another came behind the page.            *)
LEMMA CommitBeginsKeepsEditor ==
  ASSUME EditorInv, NEW c \in DOMAIN wire, CommitBegins(c)
  PROVE  EditorInv'
<1>1. /\ UNCHANGED <<form, net, page, unheard, quote, document, typing>>
      /\ wire[c].does = "commit" /\ wire[c].step = "sent" /\ quote.status = "priced"
      /\ wire' = [wire EXCEPT ![c].step = "read", ![c].carries = quote.lines]
  BY DEF CommitBegins, At
<1>2. PICK new \in WireCalls :
        /\ wire' = [wire EXCEPT ![c] = new]
        /\ new.does = wire[c].does /\ new.lines = wire[c].lines
        /\ new.carries = quote.lines /\ new.step = "read"
  <2> DEFINE new == [wire[c] EXCEPT !.step = "read", !.carries = quote.lines]
  <2>1. wire[c] \in WireCalls /\ quote.lines \in Lists
    BY EditorWire DEF EditorInv, EditorTypeOK
  <2>2. new \in WireCalls /\ new.does = wire[c].does /\ new.lines = wire[c].lines
        /\ new.carries = quote.lines /\ new.step = "read"
    BY <2>1 DEF WireCalls
  <2>3. wire' = [wire EXCEPT ![c] = new]
    BY <1>1
  <2> QED
    BY <2>2, <2>3
<1>3. /\ wire' \in Seq(WireCalls) /\ DOMAIN wire' = DOMAIN wire
      /\ wire'[c] = new /\ \A q \in DOMAIN wire : q # c => wire'[q] = wire[q]
      /\ \A d : (CommitCall(d)' <=> CommitCall(d)) /\ CommitCall(c)
      /\ \A d, ls : BehindThePage(d, ls) => BehindThePage(d, ls)'
  BY <1>1, <1>2, CommitMoves
<1>4. /\ EditorTypeOK' /\ PricesHaveDraft' /\ AwaitsNewest' /\ PricedAsWritten'
      /\ StoredFromCall' /\ ShownFromCall' /\ SentAsShown' /\ KnownWasSent'
  <2>1. document' \in LineLists \cup {None}
    BY <1>1 DEF EditorInv, EditorTypeOK
  <2>2. quote' = quote /\ wire[c].step # "done"
    BY <1>1
  <2> QED
    BY <1>1, <1>2, <2>1, <2>2, CommitMoves
<1>5. /\ quote.lines \in LineLists
      /\ quote.lines = wire[c].lines \/ BehindThePage(c, quote.lines)
  <2>1. PICK p \in DOMAIN wire :
          /\ PriceDone(p) /\ wire[p].lines = quote.lines
          /\ p \in unheard \/ \A q \in DOMAIN wire : Heard(q) => q <= p
    BY <1>1 DEF EditorInv, StoredFromCall
  <2>2. quote.lines \in LineLists
    BY <2>1 DEF EditorInv, PricesHaveDraft, PriceDone
  <2>3. CASE p \in unheard \/ p > c
    BY <2>1, <2>2, <2>3 DEF BehindThePage, CallsThat, PriceDone, PriceCall
  <2>4. CASE p \notin unheard /\ ~(p > c)
    <3>1. PICK h \in DOMAIN wire :
            /\ h < c /\ Heard(h) /\ wire[h].lines = wire[c].lines
            /\ \A q \in DOMAIN wire : q < c /\ Heard(q) => q <= h
      BY <1>3 DEF EditorInv, SentAsShown
    <3>2. p # c /\ Heard(p)
      BY <1>1, <2>1, <2>4 DEF Heard, PriceDone, PriceCall
    <3>3. p = h
      BY <2>1, <2>4, <3>1, <3>2, EditorWire
    <3> QED
      BY <2>1, <2>2, <3>1, <3>3
  <2> QED
    BY <2>3, <2>4
<1>6. CarriesStored'
  <2> SUFFICES ASSUME NEW d \in DOMAIN wire, Begun(d)'
               PROVE  /\ quote'.status \in {"priced", "committed", "accepted"}
                      /\ wire'[d].carries \in LineLists
                      /\ \/ wire'[d].carries = wire'[d].lines
                         \/ BehindThePage(d, wire[d].carries)'
    BY <1>3 DEF CarriesStored
  <2>1. CASE d = c
    <3>1. PICK ls : ls = quote.lines
      OBVIOUS
    <3>2. BehindThePage(c, ls) => BehindThePage(c, ls)'
      BY <1>3
    <3>3. BehindThePage(c, quote.lines) => BehindThePage(c, wire[c].carries)'
      BY <1>2, <1>3, <3>1, <3>2 DEF BehindThePage
    <3> QED
      BY <1>1, <1>2, <1>3, <1>5, <2>1, <3>3
  <2>2. CASE d # c
    <3>1. Begun(d) /\ wire'[d] = wire[d]
      BY <1>3, <2>2 DEF Begun
    <3> QED
      BY <1>1, <1>3, <3>1, OthersCarry
  <2> QED
    BY <2>1, <2>2
<1>7. PricedBehind'
  <2>1. \A d \in DOMAIN wire : CommitCall(d) /\ wire'[d].step = "done" => wire[d].step = "done"
    BY <1>2, <1>3
  <2> QED
    BY <1>1, <1>3, <2>1, StillBehind
<1>8. DocumentFromCommit'
  <2>1. \A d \in DOMAIN wire : Delivered(d) => d # c
    BY <1>1 DEF Delivered
  <2>2. \A d \in DOMAIN wire : Delivered(d)' <=> Delivered(d)
    BY <1>2, <1>3, <2>1 DEF Delivered
  <2> QED
    BY <1>1, <1>3, <2>1, <2>2 DEF EditorInv, DocumentFromCommit
<1> QED
  BY <1>4, <1>6, <1>7, <1>8 DEF EditorInv

LEMMA CommitEndsKeepsEditor ==
  ASSUME EditorInv, NEW c \in DOMAIN wire,
         CommitRefused(c) \/ CommitPlaced(c) \/ CommitStored(c) \/ CommitUnrecorded(c)
  PROVE  EditorInv'
<1>1. /\ UNCHANGED <<form, net, page, unheard, typing>>
      /\ wire[c].does = "commit" /\ wire[c].step \in {"sent", "read", "placed"}
      /\ quote'.lines = quote.lines
  BY DEF CommitRefused, CommitPlaced, CommitStored, CommitUnrecorded, At, EditorInv,
     EditorTypeOK
<1>2. PICK new \in WireCalls :
        /\ wire' = [wire EXCEPT ![c] = new]
        /\ new.does = wire[c].does /\ new.lines = wire[c].lines
        /\ new.carries = wire[c].carries
        /\ \/ /\ wire[c].step = "sent" /\ new.step = "refused" /\ UNCHANGED <<quote, document>>
           \/ /\ wire[c].step = "read" /\ new.step = "placed" /\ UNCHANGED quote
              /\ document' = IF document = None THEN wire[c].carries ELSE document
           \/ /\ wire[c].step = "placed" /\ new.step = "done" /\ UNCHANGED document
              /\ quote' = [quote EXCEPT !.status = "committed"]
           \/ /\ wire[c].step = "placed" /\ new.step = "unrecorded"
              /\ UNCHANGED <<quote, document>>
  <2>1. CASE CommitRefused(c)
    <3>1. Step(c, "refused") /\ wire[c].step = "sent" /\ UNCHANGED <<quote, document>>
      BY <2>1 DEF CommitRefused, At
    <3> QED
      BY <3>1, StepMoves
  <2>2. CASE CommitPlaced(c)
    <3>1. /\ Step(c, "placed") /\ wire[c].step = "read" /\ UNCHANGED quote
          /\ document' = IF document = None THEN wire[c].carries ELSE document
      BY <2>2 DEF CommitPlaced, At
    <3> QED
      BY <3>1, StepMoves
  <2>3. CASE CommitStored(c)
    <3>1. /\ Step(c, "done") /\ wire[c].step = "placed" /\ UNCHANGED document
          /\ quote' = [quote EXCEPT !.status = "committed"]
      BY <2>3 DEF CommitStored, At
    <3> QED
      BY <3>1, StepMoves
  <2>4. CASE CommitUnrecorded(c)
    <3>1. Step(c, "unrecorded") /\ wire[c].step = "placed" /\ UNCHANGED <<quote, document>>
      BY <2>4 DEF CommitUnrecorded, At
    <3> QED
      BY <3>1, StepMoves
  <2> QED
    BY <2>1, <2>2, <2>3, <2>4
<1>3. quote' = quote \/ (Begun(c) /\ quote' = [quote EXCEPT !.status = "committed"])
  BY <1>1, <1>2 DEF Begun, CommitCall
<1>4. wire[c].step # "done"
  BY <1>1
<1>5. /\ wire' \in Seq(WireCalls) /\ DOMAIN wire' = DOMAIN wire
      /\ wire'[c] = new /\ \A q \in DOMAIN wire : q # c => wire'[q] = wire[q]
      /\ \A d : (CommitCall(d)' <=> CommitCall(d)) /\ CommitCall(c)
      /\ \A d, ls : BehindThePage(d, ls) => BehindThePage(d, ls)'
  BY <1>1, <1>2, <1>3, <1>4, CommitMoves
<1>6. document' \in LineLists \cup {None}
  <2>1. wire[c].step = "read" => wire[c].carries \in LineLists
    BY <1>5 DEF EditorInv, CarriesStored, Begun
  <2> QED
    BY <1>2, <2>1 DEF EditorInv, EditorTypeOK
<1>7. /\ EditorTypeOK' /\ PricesHaveDraft' /\ AwaitsNewest' /\ PricedAsWritten'
      /\ StoredFromCall' /\ ShownFromCall' /\ SentAsShown' /\ KnownWasSent'
  BY <1>1, <1>2, <1>3, <1>4, <1>6, CommitMoves
<1>8. CarriesStored'
  <2> SUFFICES ASSUME NEW d \in DOMAIN wire, Begun(d)'
               PROVE  /\ quote'.status \in {"priced", "committed", "accepted"}
                      /\ wire'[d].carries \in LineLists
                      /\ \/ wire'[d].carries = wire'[d].lines
                         \/ BehindThePage(d, wire[d].carries)'
    BY <1>5 DEF CarriesStored
  <2>1. Begun(d)
    BY <1>2, <1>5 DEF Begun
  <2>2. wire'[d].carries = wire[d].carries /\ wire'[d].lines = wire[d].lines
    BY <1>2, <1>5
  <2>3. quote' = quote \/ quote'.status = "committed"
    BY <1>3 DEF EditorInv, EditorTypeOK
  <2> QED
    BY <1>5, <2>1, <2>2, <2>3, OthersCarry
<1>9. PricedBehind'
  <2>1. CASE new.step = "done"
    <3>1. quote'.status = "committed"
      BY <1>2, <2>1 DEF EditorInv, EditorTypeOK
    <3> QED
      BY <3>1 DEF PricedBehind
  <2>2. CASE new.step # "done"
    <3>1. \A d \in DOMAIN wire : CommitCall(d) /\ wire'[d].step = "done" => wire[d].step = "done"
      BY <1>5, <2>2
    <3>2. UNCHANGED quote
      BY <1>2, <2>2
    <3> QED
      BY <1>5, <3>1, <3>2, StillBehind
  <2> QED
    BY <2>1, <2>2
<1>10. DocumentFromCommit'
  <2>1. \A d \in DOMAIN wire : d # c => (Delivered(d)' <=> Delivered(d))
    BY <1>5 DEF Delivered
  <2>2. Delivered(c)' <=> new.step # "refused"
    BY <1>2, <1>5 DEF Delivered
  <2>3. Delivered(c) <=> wire[c].step = "placed"
    BY <1>1, <1>5 DEF Delivered
  <2>4. \A d \in DOMAIN wire : wire'[d].carries = wire[d].carries
    BY <1>2, <1>5
  <2>5. CASE wire[c].step = "read"
    <3>1. /\ wire[c].carries \in LineLists /\ wire[c].carries # None
          /\ document' = IF document = None THEN wire[c].carries ELSE document
      BY <1>2, <1>5, <2>5, EditorAssumption DEF EditorInv, CarriesStored, Begun
    <3> QED
      BY <1>2, <1>5, <2>1, <2>2, <2>3, <2>4, <2>5, <3>1 DEF EditorInv, DocumentFromCommit
  <2>6. CASE wire[c].step # "read"
    <3>1. UNCHANGED document /\ (Delivered(c)' <=> Delivered(c))
      BY <1>1, <1>2, <2>2, <2>3, <2>6
    <3>2. \A d \in DOMAIN wire : Delivered(d)' <=> Delivered(d)
      BY <2>1, <3>1
    <3> QED
      BY <1>5, <2>4, <3>1, <3>2 DEF EditorInv, DocumentFromCommit
  <2> QED
    BY <2>5, <2>6
<1> QED
  BY <1>7, <1>8, <1>9, <1>10 DEF EditorInv

LEMMA AcceptKeepsEditor ==
  ASSUME EditorInv, AcceptPressed
  PROVE  EditorInv'
<1>1. /\ UNCHANGED <<form, net, page, wire, unheard, document, typing>>
      /\ quote.status = "committed" /\ quote' = [quote EXCEPT !.status = "accepted"]
  BY DEF AcceptPressed
<1>2. quote'.status = "accepted" /\ quote'.lines = quote.lines
  BY <1>1 DEF EditorInv, EditorTypeOK
<1>3. EditorTypeOK'
  BY <1>1 DEF EditorInv, EditorTypeOK
<1>4. StoredFromCall'
  BY <1>1, <1>2, CallsSame DEF EditorInv, StoredFromCall
<1>5. CarriesStored' /\ PricedBehind'
  BY <1>1, <1>2, CallsSame DEF EditorInv, CarriesStored, PricedBehind
<1>6. DocumentFromCommit'
  BY <1>1, CallsSame DEF EditorInv, DocumentFromCommit
<1>7. PricesHaveDraft' /\ AwaitsNewest' /\ PricedAsWritten' /\ ShownFromCall' /\ SentAsShown'
      /\ KnownWasSent'
  <2>1. PricedAsWritten' /\ PricesHaveDraft'
    BY <1>1, CallsSame, PricedSame DEF EditorInv, PricesHaveDraft
  <2>2. KnownWasSent'
    BY <1>1, CallsSame DEF EditorInv, KnownWasSent
  <2> QED
    BY <1>1, <2>1, <2>2, AwaitedSame
<1> QED
  BY <1>3, <1>4, <1>5, <1>6, <1>7 DEF EditorInv

-----------------------------------------------------------------------------
LEMMA EditorStepInv == EditorInv /\ [EditorNext]_editorVars => EditorInv'
<1> SUFFICES ASSUME EditorInv, [EditorNext]_editorVars PROVE EditorInv'
  OBVIOUS
<1>1. CASE UNCHANGED editorVars
  <2>1. /\ UNCHANGED <<form, net, page, wire, unheard, quote, document, typing>>
    BY <1>1 DEF editorVars
  <2>2. EditorTypeOK' /\ PricesHaveDraft' /\ PricedAsWritten' /\ KnownWasSent'
    BY <2>1, CallsSame, PricedSame
       DEF EditorInv, EditorTypeOK, PricesHaveDraft, KnownWasSent
  <2> QED
    BY <2>1, <2>2, ServerSame, AwaitedSame DEF EditorInv
<1>2. CASE EditorNext
  BY <1>2, DraftKeepsEditor, TypingKeepsEditor, TimerKeepsEditor, AnswerKeepsEditor,
     SendEndKeepsEditor, PriceLostKeepsEditor, PricingKeepsEditor, SendKeepsEditor,
     PriceOnItsWay, PriceStoredKeepsEditor, CommitBeginsKeepsEditor,
     CommitEndsKeepsEditor, AcceptKeepsEditor DEF EditorNext
<1> QED
  BY <1>1, <1>2

LEMMA EditorIsSound == EditorInv => EditorSound
<1> SUFFICES ASSUME EditorInv PROVE EditorSound
  OBVIOUS
<1>1. ShowsNewest
  <2> SUFFICES ASSUME CallsThat("price") # {}, ~page.waiting, page.awaited = 0,
                      ~page.stale, ~page.spared, NEW last, last = Max(CallsThat("price")),
                      wire[last].step = "done", last \notin unheard
               PROVE  page.shown = page.lines
    BY DEF ShowsNewest
  <2>1. last \in CallsThat("price") /\ \A p \in CallsThat("price") : p <= last
    <3>1. CallsThat("price") \subseteq 1..Len(wire) /\ Len(wire) \in Nat
      BY EditorWire DEF CallsThat
    <3>2. PICK m \in CallsThat("price") : \A p \in CallsThat("price") : m >= p
      BY <3>1, Greatest
    <3> QED
      BY <3>1, <3>2 DEF Max
  <2>2. Heard(last) /\ last \in DOMAIN wire
    BY <2>1 DEF Heard, PriceDone, PriceCall, CallsThat
  <2>3. \A p \in DOMAIN wire : PriceCall(p) => p <= last
    BY <2>1 DEF PriceCall, CallsThat
  <2> QED
    BY <2>2, <2>3 DEF EditorInv, PricedAsWritten
<1>2. AgreedAsShown
  BY DEF EditorInv, CarriesStored, AgreedAsShown, Begun, CommitCall, CallsThat
<1>3. KnownStaysSent
  BY DEF EditorInv, KnownWasSent, PricedBehind, KnownStaysSent, CommitCall, CallsThat
<1>4. DocumentAsAgreed
  <2> SUFFICES ASSUME NEW c \in CallsThat("commit"), wire[c].step = "done",
                      document # wire[c].carries
               PROVE  \E d \in CallsThat("commit") \ {c} :
                        /\ wire[d].step \in {"unrecorded", "placed", "done"}
                        /\ wire[d].carries = document
    BY DEF DocumentAsAgreed
  <2>1. document # None
    BY DEF EditorInv, DocumentFromCommit, Delivered, CommitCall, CallsThat
  <2> QED
    BY <2>1 DEF EditorInv, DocumentFromCommit, Delivered, CommitCall, CallsThat
<1> QED
  BY <1>1, <1>2, <1>3, <1>4 DEF EditorSound

(* A page at rest shows the price of its lines, and what a commit agrees    *)
(* with the supplier is what the page showed when Send was pressed, however *)
(* calls overtake each other (QuoteBuilder, MobileQuoteBuilder).            *)
THEOREM EditorAlwaysSound == EditorSpec => []EditorSound
<1> QED
  BY EditorInitInv, EditorStepInv, EditorIsSound, PTL DEF EditorSpec

-----------------------------------------------------------------------------
(* The technician's telephone.                                              *)

SentOut(w) == \E k \in DOMAIN carried : carried[k] = w
DealtWith(w) == SentOut(w) \/ w \in refused
Holds(r, w) == drains[r] # Idle /\ w \in drains[r].copy
Leads(r, w) == Holds(r, w) /\ \A v \in drains[r].copy : w <= v

(* A list has an entry, the one it begins with is done once it is settled,  *)
(* and what was made before an entry is in the list too, or done.           *)
ListsInOrder ==
  /\ \A r \in Requests : drains[r] # Idle =>
       drains[r].copy \subseteq DOMAIN writes /\ drains[r].copy # {}
  /\ \A r \in Requests, w \in DOMAIN writes :
       drains[r].step = "settled" /\ Leads(r, w) => DealtWith(w)
  /\ \A r \in Requests, v, w \in DOMAIN writes :
       Holds(r, w) /\ v < w => Holds(r, v) \/ DealtWith(v)
  /\ \A w \in late, v \in DOMAIN writes : v < w => DealtWith(v)

NothingLost == \A w \in DOMAIN writes : w \in outbox \/ DealtWith(w)

CarriedInOrder ==
  \A k \in DOMAIN carried, v \in DOMAIN writes :
    v < carried[k] => v \in refused \/ \E l \in DOMAIN carried : l < k /\ carried[l] = v

(* What may be sent again is a write with a doubt about its answer.         *)
DoubtsKnown ==
  /\ late \subseteq unsure
  /\ \A w \in DOMAIN writes, q, r \in Requests :
       q # r /\ Holds(q, w) /\ Holds(r, w) => w \in unsure
  /\ \A w \in DOMAIN writes, r \in Requests :
       SentOut(w) /\ Holds(r, w) =>
         w \in unsure \/ (drains[r].step = "settled" /\ Leads(r, w))
  /\ \A w \in outbox : SentOut(w) =>
       w \in unsure \/ \E r \in Requests : drains[r].step = "settled" /\ Leads(r, w)
  /\ \A k, l \in DOMAIN carried : k # l /\ carried[k] = carried[l] => carried[k] \in unsure

Finalises(write, p) == write.does = "finalise" /\ write.photo = p

(* A photo is finalised by its upload or by one write.                      *)
FinalisedOnce ==
  /\ photoRows \cup removed \subseteq stored
  /\ upload # None =>
       /\ upload.step = "putting" => upload.photo \notin stored
       /\ upload.step = "finalising" =>
            /\ upload.photo \in stored \ (photoRows \cup removed)
            /\ \A i \in DOMAIN writes : ~Finalises(writes[i], upload.photo)
            /\ \A i \in DOMAIN saving : ~Finalises(saving[i], upload.photo)
  /\ \A p \in Photos, i \in DOMAIN writes : Finalises(writes[i], p) =>
       /\ p \in stored /\ (p \in photoRows \cup removed => SentOut(i))
       /\ \A j \in DOMAIN writes : Finalises(writes[j], p) => i = j
       /\ \A j \in DOMAIN saving : ~Finalises(saving[j], p)
  /\ \A p \in Photos, i \in DOMAIN saving : Finalises(saving[i], p) =>
       /\ p \in stored \ (photoRows \cup removed)
       /\ \A j \in DOMAIN saving : Finalises(saving[j], p) => i = j

FieldInv ==
  /\ FieldTypeOK /\ ListsInOrder /\ NothingLost /\ CarriedInOrder
  /\ DoubtsKnown /\ FinalisedOnce /\ RemovedStaysAway

LEMMA Least ==
  ASSUME NEW n \in Nat, NEW M, M \subseteq 1..n, M # {}
  PROVE  \E k \in M : \A m \in M : k <= m
<1>1. PICK D : D = {(n + 1) - m : m \in M}
  OBVIOUS
<1>2. D \subseteq 1..n /\ D # {}
  <2>1. \A m \in M : (n + 1) - m \in 1..n
    OBVIOUS
  <2> QED
    BY <1>1, <2>1
<1>3. PICK g \in D : \A d \in D : d <= g
  BY <1>2, Greatest
<1>4. PICK k \in M : g = (n + 1) - k
  BY <1>1, <1>3
<1>5. ASSUME NEW m \in M PROVE k <= m
  <2>1. (n + 1) - m \in D /\ m \in 1..n /\ k \in 1..n
    BY <1>1
  <2> QED
    BY <1>3, <1>4, <2>1
<1> QED
  BY <1>4, <1>5

LEMMA FieldShapes ==
  ASSUME FieldInv
  PROVE  /\ writes \in Seq(Writes) /\ Len(writes) \in Nat /\ DOMAIN writes = 1..Len(writes)
         /\ saving \in Seq(Writes) /\ Len(saving) \in Nat /\ DOMAIN saving = 1..Len(saving)
         /\ carried \in Seq(DOMAIN writes) /\ Len(carried) \in Nat
         /\ DOMAIN carried = 1..Len(carried)
         /\ \A k \in DOMAIN carried : carried[k] \in DOMAIN writes
         /\ outbox \subseteq DOMAIN writes /\ late \subseteq DOMAIN writes
         /\ drains \in [Requests -> Drains] /\ MaxWrites \in Nat
         /\ Len(writes) + Len(saving) <= MaxWrites
         /\ DOMAIN writes \subseteq 1..MaxWrites /\ DOMAIN writes \subseteq Nat
<1>1. /\ writes \in Seq(Writes) /\ saving \in Seq(Writes) /\ carried \in Seq(DOMAIN writes)
      /\ outbox \subseteq DOMAIN writes /\ late \subseteq DOMAIN writes
      /\ drains \in [Requests -> Drains] /\ MaxWrites \in Nat
      /\ Len(writes) + Len(saving) <= MaxWrites
  BY FieldAssumption DEF FieldInv, FieldTypeOK
<1>2. Len(writes) \in Nat /\ DOMAIN writes = 1..Len(writes)
      /\ Len(saving) \in Nat /\ DOMAIN saving = 1..Len(saving)
  BY <1>1
<1>3. PICK S : S = DOMAIN writes
  OBVIOUS
<1>4. carried \in Seq(S)
  BY <1>1, <1>3
<1>5. /\ Len(carried) \in Nat /\ DOMAIN carried = 1..Len(carried)
      /\ \A k \in DOMAIN carried : carried[k] \in S
  BY <1>4
<1> QED
  BY <1>1, <1>2, <1>3, <1>5

LEMMA DrainShapes ==
  ASSUME FieldInv, NEW r \in Requests, drains[r] # Idle
  PROVE  /\ drains[r] = [step |-> drains[r].step, copy |-> drains[r].copy]
         /\ drains[r].step \in {"sending", "settled"}
         /\ drains[r].copy \subseteq DOMAIN writes /\ drains[r].copy # {}
<1>1. drains[r] \in [step : {"sending", "settled"}, copy : SUBSET (1..MaxWrites)]
  BY FieldShapes DEF Drains
<1> QED
  BY <1>1 DEF FieldInv, ListsInOrder

LEMMA DrainSteps ==
  ASSUME FieldInv, NEW r \in Requests
  PROVE  (drains[r].step \in {"sending", "settled"}) <=> drains[r] # Idle
<1>1. drains[r] = Idle => drains[r].step = "idle"
  BY DEF Idle
<1> QED
  BY <1>1, DrainShapes

(* A drain sends the entry that leads its list. *)
LEMMA EntryLeads ==
  ASSUME FieldInv, NEW r \in Requests, drains[r] # Idle
  PROVE  /\ Entry(r) \in DOMAIN writes /\ Leads(r, Entry(r)) /\ Entry(r) \in drains[r].copy
         /\ \A w : Leads(r, w) => w = Entry(r)
         /\ \A v \in drains[r].copy : Entry(r) <= v
<1>1. drains[r].copy \subseteq 1..Len(writes) /\ drains[r].copy # {} /\ Len(writes) \in Nat
  BY DrainShapes, FieldShapes
<1>2. PICK k \in drains[r].copy : \A v \in drains[r].copy : k <= v
  BY <1>1, Least
<1>3. Entry(r) \in drains[r].copy /\ \A v \in drains[r].copy : Entry(r) <= v
  BY <1>1, <1>2 DEF Entry, Min
<1>4. \A w : Leads(r, w) => w = Entry(r)
  BY <1>1, <1>3 DEF Leads, Holds
<1> QED
  BY <1>1, <1>3, <1>4, FieldShapes DEF Leads, Holds

-----------------------------------------------------------------------------
(* How the lists of the drains move. *)

LEMMA ListSettled ==
  ASSUME FieldInv, NEW r \in Requests, drains[r].step = "sending", Settled(r)
  PROVE  /\ drains' \in [Requests -> Drains]
         /\ \A q \in Requests : \A w : (Holds(q, w)' <=> Holds(q, w)) /\ (Leads(q, w)' <=> Leads(q, w))
         /\ \A q \in Requests : q # r => drains'[q] = drains[q]
         /\ \A q \in Requests : drains'[q] # Idle => drains[q] # Idle
                                                     /\ drains'[q].copy = drains[q].copy
         /\ drains'[r].step = "settled"
<1>1. drains[r] # Idle /\ drains[r] = [step |-> "sending", copy |-> drains[r].copy]
      /\ drains[r].copy \in SUBSET (1..MaxWrites)
  BY DrainSteps, DrainShapes, FieldShapes
<1>2. /\ drains'[r] = [step |-> "settled", copy |-> drains[r].copy]
      /\ \A q \in Requests : q # r => drains'[q] = drains[q]
      /\ DOMAIN drains' = Requests
  BY <1>1, FieldShapes DEF Settled
<1>3. drains' \in [Requests -> Drains]
  <2>1. drains'[r] \in Drains
    BY <1>1, <1>2 DEF Drains
  <2> QED
    BY <2>1, FieldShapes DEF Settled
<1>4. /\ drains'[r] # Idle /\ drains'[r].copy = drains[r].copy /\ drains'[r].step = "settled"
  BY <1>2 DEF Idle
<1>5. \A q \in Requests : \A w : (Holds(q, w)' <=> Holds(q, w))
  BY <1>1, <1>2, <1>4 DEF Holds
<1>6. \A q \in Requests : \A w : (Leads(q, w)' <=> Leads(q, w))
  BY <1>1, <1>2, <1>4, <1>5 DEF Leads
<1> QED
  BY <1>1, <1>2, <1>3, <1>4, <1>5, <1>6

LEMMA ListBroken ==
  ASSUME FieldInv, NEW r \in Requests, Breaks(r)
  PROVE  /\ drains' \in [Requests -> Drains]
         /\ \A q \in Requests : \A w : (Holds(q, w)' <=> Holds(q, w) /\ q # r)
                                   /\ (Leads(q, w)' <=> Leads(q, w) /\ q # r)
         /\ \A q \in Requests : q # r => drains'[q] = drains[q]
         /\ drains'[r] = Idle
<1>1. /\ drains'[r] = Idle /\ \A q \in Requests : q # r => drains'[q] = drains[q]
  BY FieldShapes DEF Breaks
<1>2. drains' \in [Requests -> Drains]
  BY FieldShapes DEF Breaks, Drains
<1>3. \A q \in Requests : \A w : (Holds(q, w)' <=> Holds(q, w) /\ q # r)
  BY <1>1 DEF Holds
<1>4. \A q \in Requests : \A w : (Leads(q, w)' <=> Leads(q, w) /\ q # r)
  BY <1>1, <1>3 DEF Leads
<1> QED
  BY <1>1, <1>2, <1>3, <1>4

LEMMA ListGoesOn ==
  ASSUME FieldInv, NEW r \in Requests, drains[r] # Idle, GoesOn(r)
  PROVE  /\ drains' \in [Requests -> Drains]
         /\ \A q \in Requests : \A w : (Holds(q, w)' <=> Holds(q, w) /\ ~(q = r /\ w = Entry(r)))
         /\ \A q \in Requests : \A w : q # r => (Leads(q, w)' <=> Leads(q, w))
         /\ \A q \in Requests : q # r => drains'[q] = drains[q]
         /\ drains'[r] # Idle => /\ drains'[r].step = "sending" /\ drains'[r].copy # {}
                                 /\ drains'[r].copy \subseteq drains[r].copy
<1> DEFINE left == drains[r].copy \ {Entry(r)}
<1>1. /\ drains'[r] = IF left = {} THEN Idle ELSE [step |-> "sending", copy |-> left]
      /\ \A q \in Requests : q # r => drains'[q] = drains[q]
  BY FieldShapes DEF GoesOn
<1>2. left \subseteq drains[r].copy /\ left \in SUBSET (1..MaxWrites)
  BY DrainShapes, FieldShapes
<1>3. drains' \in [Requests -> Drains]
  <2>1. drains'[r] \in Drains
    BY <1>1, <1>2 DEF Drains
  <2> QED
    BY <2>1, FieldShapes DEF GoesOn
<1>4. \A w : Holds(r, w)' <=> w \in left
  <2>1. CASE left = {}
    BY <1>1, <2>1 DEF Holds
  <2>2. CASE left # {}
    <3>1. drains'[r] # Idle /\ drains'[r].copy = left
      BY <1>1, <2>2 DEF Idle
    <3> QED
      BY <3>1 DEF Holds
  <2> QED
    BY <2>1, <2>2
<1>5. \A q \in Requests : \A w : (Holds(q, w)' <=> Holds(q, w) /\ ~(q = r /\ w = Entry(r)))
  BY <1>1, <1>4 DEF Holds
<1>6. \A q \in Requests : \A w : q # r => (Leads(q, w)' <=> Leads(q, w))
  BY <1>1, <1>5 DEF Leads
<1> QED
  BY <1>1, <1>2, <1>3, <1>5, <1>6

(* A drain begins with the outbox as it is. *)
LEMMA ListStarts ==
  ASSUME FieldInv, NEW r \in Requests, outbox # {}, NEW before \in [Requests -> Drains],
         drains' = [before EXCEPT ![r] = [step |-> "sending", copy |-> outbox]]
  PROVE  /\ drains' \in [Requests -> Drains]
         /\ \A q \in Requests : q # r => drains'[q] = before[q]
         /\ \A w : Holds(r, w)' <=> w \in outbox
         /\ drains'[r] # Idle /\ drains'[r].step = "sending" /\ drains'[r].copy = outbox
<1>1. drains'[r] = [step |-> "sending", copy |-> outbox]
      /\ \A q \in Requests : q # r => drains'[q] = before[q]
  OBVIOUS
<1>2. drains'[r] \in Drains
  BY <1>1, FieldShapes DEF Drains
<1>3. drains'[r] # Idle /\ drains'[r].copy = outbox
  BY <1>1 DEF Idle
<1> QED
  BY <1>1, <1>2, <1>3 DEF Holds

-----------------------------------------------------------------------------
(* What the outbox promises, through the steps of the drains. *)

QueueInv == ListsInOrder /\ NothingLost /\ CarriedInOrder /\ DoubtsKnown
PhotoInv == FinalisedOnce /\ RemovedStaysAway

LEMMA QueueSame ==
  ASSUME FieldInv, UNCHANGED <<writes, outbox, drains, late, carried, refused, unsure>>
  PROVE  QueueInv'
<1>1. ListsInOrder' /\ NothingLost'
  BY DEF FieldInv, ListsInOrder, NothingLost, SentOut, DealtWith, Holds, Leads
<1>2. CarriedInOrder' /\ DoubtsKnown'
  BY DEF FieldInv, CarriedInOrder, DoubtsKnown, SentOut, Holds, Leads
<1> QED
  BY <1>1, <1>2 DEF QueueInv

(* A write gets the id after the last. *)
LEMMA WriteAppended ==
  ASSUME FieldInv, saving # <<>>, writes' = Append(writes, Head(saving))
  PROVE  /\ writes' \in Seq(Writes) /\ Len(writes') = Len(writes) + 1
         /\ DOMAIN writes' = DOMAIN writes \cup {Len(writes')}
         /\ Len(writes') \notin DOMAIN writes /\ Len(writes') \in Nat
         /\ \A w \in DOMAIN writes : w < Len(writes') /\ writes'[w] = writes[w]
         /\ writes'[Len(writes')] = saving[1] /\ 1 \in DOMAIN saving
<1>1. Head(saving) \in Writes /\ Head(saving) = saving[1] /\ 1 \in DOMAIN saving
  BY FieldShapes
<1>2. PICK x \in Writes : x = Head(saving)
  BY <1>1
<1>3. /\ writes' \in Seq(Writes) /\ Len(writes') = Len(writes) + 1
      /\ DOMAIN writes' = 1..(Len(writes) + 1)
      /\ \A w \in 1..Len(writes) : writes'[w] = writes[w]
      /\ writes'[Len(writes) + 1] = x
  BY <1>2, FieldShapes
<1> QED
  BY <1>1, <1>2, <1>3, FieldShapes

LEMMA EnqueueQueue ==
  ASSUME FieldInv, Enqueue
  PROVE  QueueInv'
<1>0. PICK n : n = Len(writes')
  OBVIOUS
<1>1. /\ saving # <<>> /\ writes' = Append(writes, Head(saving))
      /\ outbox' = outbox \cup {n}
      /\ UNCHANGED <<drains, late, carried, refused, unsure>>
  BY <1>0 DEF Enqueue
<1>2. /\ DOMAIN writes' = DOMAIN writes \cup {n} /\ n \notin DOMAIN writes /\ n \in Nat
      /\ \A w \in DOMAIN writes : w < n
  BY <1>0, <1>1, WriteAppended
<1>3. /\ \A w : (SentOut(w)' <=> SentOut(w)) /\ (DealtWith(w)' <=> DealtWith(w))
      /\ \A r, w : (Holds(r, w)' <=> Holds(r, w)) /\ (Leads(r, w)' <=> Leads(r, w))
  BY <1>1 DEF SentOut, DealtWith, Holds, Leads
<1>4. /\ \A w : SentOut(w) => w \in DOMAIN writes
      /\ \A r \in Requests : \A w : Holds(r, w) => w \in DOMAIN writes
      /\ DOMAIN writes \subseteq Nat /\ late \subseteq DOMAIN writes
  <2>1. \A w : SentOut(w) => w \in DOMAIN writes
    BY FieldShapes DEF SentOut
  <2>2. \A r \in Requests : \A w : Holds(r, w) => w \in DOMAIN writes
    BY DrainShapes DEF Holds
  <2> QED
    BY <2>1, <2>2, FieldShapes
<1>5. ListsInOrder'
  <2>1. \A r \in Requests : drains[r] # Idle =>
          drains[r].copy \subseteq DOMAIN writes' /\ drains[r].copy # {}
    BY <1>2, DrainShapes
  <2>2. \A r \in Requests, w \in DOMAIN writes' :
          drains[r].step = "settled" /\ Leads(r, w) => DealtWith(w)
    BY <1>4 DEF FieldInv, ListsInOrder, Leads
  <2>3. \A r \in Requests, v, w \in DOMAIN writes' :
          Holds(r, w) /\ v < w => Holds(r, v) \/ DealtWith(v)
    <3> SUFFICES ASSUME NEW r \in Requests, NEW v \in DOMAIN writes', NEW w \in DOMAIN writes',
                        Holds(r, w), v < w
                 PROVE  Holds(r, v) \/ DealtWith(v)
      OBVIOUS
    <3>1. v \in DOMAIN writes /\ w \in DOMAIN writes
      BY <1>2, <1>4
    <3> QED
      BY <3>1 DEF FieldInv, ListsInOrder
  <2>4. \A w \in late, v \in DOMAIN writes' : v < w => DealtWith(v)
    <3> SUFFICES ASSUME NEW w \in late, NEW v \in DOMAIN writes', v < w PROVE DealtWith(v)
      OBVIOUS
    <3>1. v \in DOMAIN writes
      BY <1>2, <1>4
    <3> QED
      BY <3>1 DEF FieldInv, ListsInOrder
  <2> QED
    BY <1>1, <1>3, <2>1, <2>2, <2>3, <2>4 DEF ListsInOrder
<1>6. NothingLost'
  BY <1>1, <1>2, <1>3 DEF FieldInv, NothingLost
<1>7. CarriedInOrder'
  <2> SUFFICES ASSUME NEW k \in DOMAIN carried, NEW v \in DOMAIN writes', v < carried[k]
               PROVE  v \in refused \/ \E l \in DOMAIN carried : l < k /\ carried[l] = v
    BY <1>1 DEF CarriedInOrder
  <2>1. v \in DOMAIN writes
    BY <1>2, <1>4, FieldShapes
  <2> QED
    BY <2>1 DEF FieldInv, CarriedInOrder
<1>8. DoubtsKnown'
  <2>1. \A w \in DOMAIN writes', q, r \in Requests :
          q # r /\ Holds(q, w) /\ Holds(r, w) => w \in unsure
    BY <1>4 DEF FieldInv, DoubtsKnown
  <2>2. \A w \in DOMAIN writes', r \in Requests : SentOut(w) /\ Holds(r, w) =>
          w \in unsure \/ (drains[r].step = "settled" /\ Leads(r, w))
    BY <1>4 DEF FieldInv, DoubtsKnown
  <2>3. \A w \in outbox' : SentOut(w) =>
          w \in unsure \/ \E r \in Requests : drains[r].step = "settled" /\ Leads(r, w)
    BY <1>1, <1>2, <1>4 DEF FieldInv, DoubtsKnown
  <2>4. /\ late \subseteq unsure
        /\ \A k, l \in DOMAIN carried : k # l /\ carried[k] = carried[l] => carried[k] \in unsure
    BY DEF FieldInv, DoubtsKnown
  <2> QED
    BY <1>1, <1>3, <2>1, <2>2, <2>3, <2>4 DEF DoubtsKnown
<1> QED
  BY <1>5, <1>6, <1>7, <1>8 DEF QueueInv

(* What the server carries out is the next in order, or one in doubt. *)
LEMMA CarriedNext ==
  ASSUME FieldInv, NEW e \in DOMAIN writes, carried' = Append(carried, e),
         UNCHANGED <<writes, refused>>,
         \A v \in DOMAIN writes : v < e => DealtWith(v),
         SentOut(e) => e \in unsure', unsure \subseteq unsure'
  PROVE  /\ carried' \in Seq(DOMAIN writes) /\ CarriedInOrder'
         /\ \A w : (SentOut(w)' <=> SentOut(w) \/ w = e)
         /\ \A w : (DealtWith(w)' <=> DealtWith(w) \/ w = e)
         /\ \A k, l \in DOMAIN carried' :
              k # l /\ carried'[k] = carried'[l] => carried'[k] \in unsure'
<1>1. PICK S : S = DOMAIN writes
  OBVIOUS
<1>2. carried \in Seq(S) /\ e \in S
  BY <1>1, FieldShapes
<1>3. PICK n : n = Len(carried) + 1
  OBVIOUS
<1>4. /\ carried' \in Seq(S) /\ DOMAIN carried' = DOMAIN carried \cup {n}
      /\ n \notin DOMAIN carried /\ n \in Nat /\ carried'[n] = e
      /\ \A k \in DOMAIN carried : k < n /\ carried'[k] = carried[k]
  BY <1>2, <1>3
<1>5. \A w : (SentOut(w)' <=> SentOut(w) \/ w = e)
  BY <1>4 DEF SentOut
<1>6. CarriedInOrder'
  <2> SUFFICES ASSUME NEW k \in DOMAIN carried', NEW v \in DOMAIN writes, v < carried'[k]
               PROVE  v \in refused \/ \E l \in DOMAIN carried' : l < k /\ carried'[l] = v
    BY DEF CarriedInOrder
  <2>1. CASE k \in DOMAIN carried
    BY <1>4, <2>1 DEF FieldInv, CarriedInOrder
  <2>2. CASE k = n
    <3>1. v \in refused \/ \E l \in DOMAIN carried : carried[l] = v
      BY <1>4, <2>2 DEF DealtWith, SentOut
    <3> QED
      BY <1>4, <2>2, <3>1
  <2> QED
    BY <1>4, <2>1, <2>2
<1>7. ASSUME NEW k \in DOMAIN carried', NEW l \in DOMAIN carried', k # l,
             carried'[k] = carried'[l]
      PROVE  carried'[k] \in unsure'
  <2>1. CASE k \in DOMAIN carried /\ l \in DOMAIN carried
    BY <1>4, <1>7, <2>1 DEF FieldInv, DoubtsKnown
  <2>2. CASE k = n \/ l = n
    <3>1. SentOut(e) /\ carried'[k] = e
      BY <1>4, <1>7, <2>2 DEF SentOut
    <3> QED
      BY <3>1
  <2> QED
    BY <1>4, <2>1, <2>2
<1> QED
  BY <1>1, <1>4, <1>5, <1>6, <1>7 DEF DealtWith

(* The entry a drain sends was not carried out without a doubt, and all     *)
(* that was made before it is done.                                         *)
LEMMA EntryIsNext ==
  ASSUME FieldInv, NEW r \in Requests, drains[r].step = "sending"
  PROVE  /\ drains[r] # Idle /\ Entry(r) \in DOMAIN writes /\ Holds(r, Entry(r))
         /\ Leads(r, Entry(r))
         /\ \A v \in DOMAIN writes : v < Entry(r) => DealtWith(v)
         /\ SentOut(Entry(r)) => Entry(r) \in unsure
<1>1. drains[r] # Idle
  BY DrainSteps
<1>2. /\ Entry(r) \in DOMAIN writes /\ Leads(r, Entry(r)) /\ Holds(r, Entry(r))
      /\ \A v \in drains[r].copy : Entry(r) <= v
  BY <1>1, EntryLeads DEF Leads
<1>3. ASSUME NEW v \in DOMAIN writes, v < Entry(r) PROVE DealtWith(v)
  <2>1. ~Holds(r, v)
    BY <1>2, <1>3, FieldShapes DEF Holds
  <2> QED
    BY <1>2, <1>3, <2>1 DEF FieldInv, ListsInOrder
<1>4. SentOut(Entry(r)) => Entry(r) \in unsure
  BY <1>2 DEF FieldInv, DoubtsKnown
<1> QED
  BY <1>1, <1>2, <1>3, <1>4

(* Whatever was made before an entry stays in its list or is done, while the *)
(* lists only shrink.                                                       *)
LEMMA QueueMoves ==
  ASSUME FieldInv, UNCHANGED writes, unsure \subseteq unsure', late' \subseteq late,
         \A w : DealtWith(w) => DealtWith(w)',
         outbox' \subseteq outbox,
         \A w \in DOMAIN writes : w \in outbox => w \in outbox' \/ DealtWith(w)',
         \A q \in Requests : drains'[q] # Idle =>
           drains'[q].copy \subseteq DOMAIN writes /\ drains'[q].copy # {},
         \A q \in Requests : \A w : Holds(q, w)' => Holds(q, w),
         \A q \in Requests : \A v, w : Holds(q, w)' /\ Holds(q, v) =>
                                         Holds(q, v)' \/ DealtWith(v)',
         \A q \in Requests : \A w : drains'[q].step = "settled" /\ Leads(q, w)' => DealtWith(w)'
  PROVE  /\ ListsInOrder' /\ NothingLost' /\ late' \subseteq unsure'
         /\ \A w \in DOMAIN writes', q, r \in Requests :
              q # r /\ Holds(q, w)' /\ Holds(r, w)' => w \in unsure'
<1>1. \A r \in Requests, v, w \in DOMAIN writes' :
        Holds(r, w)' /\ v < w => Holds(r, v)' \/ DealtWith(v)'
  <2> SUFFICES ASSUME NEW r \in Requests, NEW v \in DOMAIN writes, NEW w \in DOMAIN writes,
                      Holds(r, w)', v < w
               PROVE  Holds(r, v)' \/ DealtWith(v)'
    OBVIOUS
  <2>1. Holds(r, v) \/ DealtWith(v)
    BY DEF FieldInv, ListsInOrder
  <2> QED
    BY <2>1
<1>2. \A w \in late', v \in DOMAIN writes' : v < w => DealtWith(v)'
  BY DEF FieldInv, ListsInOrder
<1>3. ListsInOrder'
  BY <1>1, <1>2 DEF ListsInOrder
<1>4. NothingLost'
  BY DEF FieldInv, NothingLost
<1>5. late' \subseteq unsure'
  BY DEF FieldInv, DoubtsKnown
<1>6. \A w \in DOMAIN writes', q, r \in Requests :
        q # r /\ Holds(q, w)' /\ Holds(r, w)' => w \in unsure'
  BY DEF FieldInv, DoubtsKnown
<1> QED
  BY <1>3, <1>4, <1>5, <1>6

LEMMA NothingSent ==
  ASSUME FieldInv, UNCHANGED <<writes, carried>>, refused \subseteq refused',
         unsure \subseteq unsure'
  PROVE  /\ CarriedInOrder'
         /\ \A w : (SentOut(w)' <=> SentOut(w)) /\ (DealtWith(w) => DealtWith(w)')
         /\ \A k, l \in DOMAIN carried' :
              k # l /\ carried'[k] = carried'[l] => carried'[k] \in unsure'
<1>1. \A w : (SentOut(w)' <=> SentOut(w)) /\ (DealtWith(w) => DealtWith(w)')
  BY DEF SentOut, DealtWith
<1>2. CarriedInOrder'
  BY DEF FieldInv, CarriedInOrder
<1>3. \A k, l \in DOMAIN carried' :
        k # l /\ carried'[k] = carried'[l] => carried'[k] \in unsure'
  BY DEF FieldInv, DoubtsKnown
<1> QED
  BY <1>1, <1>2, <1>3

LEMMA CarriedQueue ==
  ASSUME FieldInv, NEW r \in Requests, Carried(r)
  PROVE  QueueInv' /\ carried' \in Seq(DOMAIN writes) /\ drains' \in [Requests -> Drains]
<1>1. PICK e : e = Entry(r)
  OBVIOUS
<1>2. /\ drains[r].step = "sending" /\ carried' = Append(carried, e) /\ Settled(r)
      /\ UNCHANGED <<writes, outbox, late, refused, unsure>>
  BY <1>1 DEF Carried, Sends, CarryOut
<1>3. /\ drains[r] # Idle /\ e \in DOMAIN writes /\ Holds(r, e) /\ Leads(r, e)
      /\ \A v \in DOMAIN writes : v < e => DealtWith(v)
      /\ SentOut(e) => e \in unsure
      /\ \A w : Leads(r, w) => w = e
  BY <1>1, <1>2, EntryIsNext, EntryLeads
<1>4. /\ drains' \in [Requests -> Drains]
      /\ \A q \in Requests : \A w : (Holds(q, w)' <=> Holds(q, w)) /\ (Leads(q, w)' <=> Leads(q, w))
      /\ \A q \in Requests : q # r => drains'[q] = drains[q]
      /\ \A q \in Requests : drains'[q] # Idle => drains[q] # Idle
                                                  /\ drains'[q].copy = drains[q].copy
      /\ drains'[r].step = "settled"
  BY <1>2, ListSettled
<1>5. /\ carried' \in Seq(DOMAIN writes) /\ CarriedInOrder'
      /\ \A w : (SentOut(w)' <=> SentOut(w) \/ w = e)
      /\ \A w : (DealtWith(w)' <=> DealtWith(w) \/ w = e)
      /\ \A k, l \in DOMAIN carried' :
           k # l /\ carried'[k] = carried'[l] => carried'[k] \in unsure'
  BY <1>2, <1>3, CarriedNext
<1>6. \A q \in Requests : \A w : drains'[q].step = "settled" /\ Leads(q, w)' => DealtWith(w)'
  <2> SUFFICES ASSUME NEW q \in Requests, NEW w, drains'[q].step = "settled", Leads(q, w)
               PROVE  DealtWith(w) \/ w = e
    BY <1>4, <1>5
  <2>1. CASE q = r
    BY <1>3, <2>1
  <2>2. CASE q # r
    <3>1. drains[q].step = "settled" /\ w \in DOMAIN writes
      BY <1>4, <2>2, DrainShapes DEF Leads, Holds
    <3> QED
      BY <3>1 DEF FieldInv, ListsInOrder
  <2> QED
    BY <2>1, <2>2
<1>7. \A q \in Requests : drains'[q] # Idle =>
        drains'[q].copy \subseteq DOMAIN writes /\ drains'[q].copy # {}
  BY <1>4, DrainShapes
<1>8. /\ ListsInOrder' /\ NothingLost' /\ late' \subseteq unsure'
      /\ \A w \in DOMAIN writes', q, p \in Requests :
           q # p /\ Holds(q, w)' /\ Holds(p, w)' => w \in unsure'
  <2>1. /\ UNCHANGED writes /\ unsure \subseteq unsure' /\ late' \subseteq late
        /\ outbox' \subseteq outbox /\ \A w : DealtWith(w) => DealtWith(w)'
        /\ \A w \in DOMAIN writes : w \in outbox => w \in outbox' \/ DealtWith(w)'
    BY <1>2, <1>5
  <2>2. \A q \in Requests : \A w : Holds(q, w)' => Holds(q, w)
    BY <1>4
  <2>3. \A q \in Requests : \A v, w : Holds(q, w)' /\ Holds(q, v) =>
                                        Holds(q, v)' \/ DealtWith(v)'
    BY <1>4
  <2> QED
    BY <1>6, <1>7, <2>1, <2>2, <2>3, QueueMoves
<1>9. \A w \in DOMAIN writes', q \in Requests : SentOut(w)' /\ Holds(q, w)' =>
        w \in unsure' \/ (drains'[q].step = "settled" /\ Leads(q, w)')
  <2> SUFFICES ASSUME NEW w \in DOMAIN writes, NEW q \in Requests,
                      SentOut(w) \/ w = e, Holds(q, w)
               PROVE  w \in unsure \/ (drains'[q].step = "settled" /\ Leads(q, w))
    BY <1>2, <1>4, <1>5
  <2>1. CASE w = e /\ q = r
    BY <1>3, <1>4, <2>1
  <2>2. CASE w = e /\ q # r
    BY <1>3, <2>2 DEF FieldInv, DoubtsKnown
  <2>3. CASE w # e
    <3>1. w \in unsure \/ (drains[q].step = "settled" /\ Leads(q, w))
      BY <2>3 DEF FieldInv, DoubtsKnown
    <3> QED
      BY <1>2, <1>4, <3>1
  <2> QED
    BY <2>1, <2>2, <2>3
<1>10. \A w \in outbox' : SentOut(w)' =>
         w \in unsure' \/ \E q \in Requests : drains'[q].step = "settled" /\ Leads(q, w)'
  <2> SUFFICES ASSUME NEW w \in outbox, SentOut(w) \/ w = e
               PROVE  w \in unsure \/ \E q \in Requests : drains'[q].step = "settled" /\ Leads(q, w)
    BY <1>2, <1>4, <1>5
  <2>1. CASE w = e
    BY <1>3, <1>4, <2>1
  <2>2. CASE w # e
    <3>1. w \in unsure \/ \E q \in Requests : drains[q].step = "settled" /\ Leads(q, w)
      BY <2>2 DEF FieldInv, DoubtsKnown
    <3> QED
      BY <1>2, <1>4, <3>1
  <2> QED
    BY <2>1, <2>2
<1>11. DoubtsKnown'
  BY <1>5, <1>8, <1>9, <1>10 DEF DoubtsKnown
<1> QED
  BY <1>4, <1>5, <1>8, <1>11 DEF QueueInv

LEMMA RefusedQueue ==
  ASSUME FieldInv, NEW r \in Requests, Refused(r)
  PROVE  QueueInv' /\ drains' \in [Requests -> Drains] /\ refused' \subseteq DOMAIN writes
<1>1. PICK e : e = Entry(r)
  OBVIOUS
<1>2. /\ drains[r].step = "sending" /\ Settled(r) /\ refused' = refused \cup {e}
      /\ UNCHANGED <<writes, outbox, late, carried, unsure>>
  BY <1>1 DEF Refused, Sends
<1>3. /\ drains[r] # Idle /\ e \in DOMAIN writes /\ \A w : Leads(r, w) => w = e
  BY <1>1, <1>2, EntryIsNext, EntryLeads
<1>4. /\ drains' \in [Requests -> Drains]
      /\ \A q \in Requests : \A w : (Holds(q, w)' <=> Holds(q, w)) /\ (Leads(q, w)' <=> Leads(q, w))
      /\ \A q \in Requests : q # r => drains'[q] = drains[q]
      /\ \A q \in Requests : drains'[q] # Idle => drains[q] # Idle
                                                  /\ drains'[q].copy = drains[q].copy
      /\ drains'[r].step = "settled"
  BY <1>2, ListSettled
<1>5. /\ CarriedInOrder'
      /\ \A w : (SentOut(w)' <=> SentOut(w)) /\ (DealtWith(w) => DealtWith(w)')
      /\ \A k, l \in DOMAIN carried' :
           k # l /\ carried'[k] = carried'[l] => carried'[k] \in unsure'
  BY <1>2, NothingSent
<1>6. \A q \in Requests : \A w : drains'[q].step = "settled" /\ Leads(q, w)' => DealtWith(w)'
  <2> SUFFICES ASSUME NEW q \in Requests, NEW w, drains'[q].step = "settled", Leads(q, w)
               PROVE  DealtWith(w)'
    BY <1>4
  <2>1. CASE q = r
    BY <1>2, <1>3, <2>1 DEF DealtWith
  <2>2. CASE q # r
    <3>1. drains[q].step = "settled" /\ w \in DOMAIN writes
      BY <1>4, <2>2, DrainShapes DEF Leads, Holds
    <3> QED
      BY <1>5, <3>1 DEF FieldInv, ListsInOrder
  <2> QED
    BY <2>1, <2>2
<1>7. \A q \in Requests : drains'[q] # Idle =>
        drains'[q].copy \subseteq DOMAIN writes /\ drains'[q].copy # {}
  BY <1>4, DrainShapes
<1>8. /\ ListsInOrder' /\ NothingLost' /\ late' \subseteq unsure'
      /\ \A w \in DOMAIN writes', q, p \in Requests :
           q # p /\ Holds(q, w)' /\ Holds(p, w)' => w \in unsure'
  <2>1. /\ UNCHANGED writes /\ unsure \subseteq unsure' /\ late' \subseteq late
        /\ outbox' \subseteq outbox /\ \A w : DealtWith(w) => DealtWith(w)'
        /\ \A w \in DOMAIN writes : w \in outbox => w \in outbox' \/ DealtWith(w)'
    BY <1>2, <1>5
  <2>2. \A q \in Requests : \A w : Holds(q, w)' => Holds(q, w)
    BY <1>4
  <2>3. \A q \in Requests : \A v, w : Holds(q, w)' /\ Holds(q, v) =>
                                        Holds(q, v)' \/ DealtWith(v)'
    BY <1>4
  <2> QED
    BY <1>6, <1>7, <2>1, <2>2, <2>3, QueueMoves
<1>9. \A w \in DOMAIN writes', q \in Requests : SentOut(w)' /\ Holds(q, w)' =>
        w \in unsure' \/ (drains'[q].step = "settled" /\ Leads(q, w)')
  <2> SUFFICES ASSUME NEW w \in DOMAIN writes, NEW q \in Requests, SentOut(w), Holds(q, w)
               PROVE  w \in unsure \/ (drains'[q].step = "settled" /\ Leads(q, w))
    BY <1>2, <1>4, <1>5
  <2>1. w \in unsure \/ (drains[q].step = "settled" /\ Leads(q, w))
    BY DEF FieldInv, DoubtsKnown
  <2> QED
    BY <1>2, <1>4, <2>1
<1>10. \A w \in outbox' : SentOut(w)' =>
         w \in unsure' \/ \E q \in Requests : drains'[q].step = "settled" /\ Leads(q, w)'
  <2> SUFFICES ASSUME NEW w \in outbox, SentOut(w)
               PROVE  w \in unsure \/ \E q \in Requests : drains'[q].step = "settled" /\ Leads(q, w)
    BY <1>2, <1>4, <1>5
  <2>1. w \in unsure \/ \E q \in Requests : drains[q].step = "settled" /\ Leads(q, w)
    BY DEF FieldInv, DoubtsKnown
  <2> QED
    BY <1>2, <1>4, <2>1
<1>11. DoubtsKnown'
  BY <1>5, <1>8, <1>9, <1>10 DEF DoubtsKnown
<1>12. refused' \subseteq DOMAIN writes
  BY <1>2, <1>3 DEF FieldInv, FieldTypeOK
<1> QED
  BY <1>4, <1>5, <1>8, <1>11, <1>12 DEF QueueInv

(* A drain that stops leaves its entries in the outbox. *)
LEMMA BrokenQueue ==
  ASSUME FieldInv, NEW r \in Requests, drains[r] # Idle, Breaks(r),
         UNCHANGED <<writes, outbox, late, refused>>, unsure \subseteq unsure',
         \A w : DealtWith(w) => DealtWith(w)',
         CarriedInOrder',
         \A w : SentOut(w)' => SentOut(w) \/ w \in unsure',
         \A k, l \in DOMAIN carried' :
           k # l /\ carried'[k] = carried'[l] => carried'[k] \in unsure',
         drains[r].step = "settled" => Entry(r) \in unsure'
  PROVE  QueueInv' /\ drains' \in [Requests -> Drains]
<1>1. /\ drains' \in [Requests -> Drains]
      /\ \A q \in Requests : \A w : (Holds(q, w)' <=> Holds(q, w) /\ q # r)
                                /\ (Leads(q, w)' <=> Leads(q, w) /\ q # r)
      /\ \A q \in Requests : q # r => drains'[q] = drains[q]
      /\ drains'[r] = Idle
  BY ListBroken
<1>2. \A q \in Requests : \A w : drains'[q].step = "settled" /\ Leads(q, w)' => DealtWith(w)'
  <2> SUFFICES ASSUME NEW q \in Requests, NEW w, drains[q].step = "settled", Leads(q, w), q # r
               PROVE  DealtWith(w)'
    BY <1>1
  <2>1. w \in DOMAIN writes
    BY DrainShapes DEF Leads, Holds
  <2> QED
    BY <2>1 DEF FieldInv, ListsInOrder
<1>3. \A q \in Requests : drains'[q] # Idle =>
        drains'[q].copy \subseteq DOMAIN writes /\ drains'[q].copy # {}
  BY <1>1, DrainShapes
<1>4. /\ ListsInOrder' /\ NothingLost' /\ late' \subseteq unsure'
      /\ \A w \in DOMAIN writes', q, p \in Requests :
           q # p /\ Holds(q, w)' /\ Holds(p, w)' => w \in unsure'
  <2>1. /\ UNCHANGED writes /\ unsure \subseteq unsure' /\ late' \subseteq late
        /\ outbox' \subseteq outbox /\ \A w : DealtWith(w) => DealtWith(w)'
        /\ \A w \in DOMAIN writes : w \in outbox => w \in outbox' \/ DealtWith(w)'
    OBVIOUS
  <2>2. \A q \in Requests : \A w : Holds(q, w)' => Holds(q, w)
    BY <1>1
  <2>3. \A q \in Requests : \A v, w : Holds(q, w)' /\ Holds(q, v) =>
                                        Holds(q, v)' \/ DealtWith(v)'
    BY <1>1
  <2> QED
    BY <1>2, <1>3, <2>1, <2>2, <2>3, QueueMoves
<1>5. \A w \in DOMAIN writes', q \in Requests : SentOut(w)' /\ Holds(q, w)' =>
        w \in unsure' \/ (drains'[q].step = "settled" /\ Leads(q, w)')
  <2> SUFFICES ASSUME NEW w \in DOMAIN writes, NEW q \in Requests, SentOut(w), Holds(q, w), q # r
               PROVE  w \in unsure' \/ (drains[q].step = "settled" /\ Leads(q, w))
    BY <1>1
  <2> QED
    BY DEF FieldInv, DoubtsKnown
<1>6. \A w \in outbox' : SentOut(w)' =>
         w \in unsure' \/ \E q \in Requests : drains'[q].step = "settled" /\ Leads(q, w)'
  <2> SUFFICES ASSUME NEW w \in outbox, SentOut(w), w \notin unsure'
               PROVE  \E q \in Requests : drains'[q].step = "settled" /\ Leads(q, w)'
    OBVIOUS
  <2>1. PICK q \in Requests : drains[q].step = "settled" /\ Leads(q, w)
    BY DEF FieldInv, DoubtsKnown
  <2>2. q # r
    BY <2>1, EntryLeads
  <2> QED
    BY <1>1, <2>1, <2>2
<1>7. DoubtsKnown'
  BY <1>4, <1>5, <1>6 DEF DoubtsKnown
<1> QED
  BY <1>1, <1>4, <1>7 DEF QueueInv

LEMMA NotCarriedQueue ==
  ASSUME FieldInv, NEW r \in Requests, NotCarried(r)
  PROVE  QueueInv' /\ drains' \in [Requests -> Drains]
<1>1. /\ drains[r].step = "sending" /\ Breaks(r) /\ drains[r] # Idle
      /\ UNCHANGED <<writes, outbox, late, refused, carried, unsure>>
  BY DrainSteps DEF NotCarried
<1>2. /\ CarriedInOrder'
      /\ \A w : (SentOut(w)' <=> SentOut(w)) /\ (DealtWith(w) => DealtWith(w)')
      /\ \A k, l \in DOMAIN carried' :
           k # l /\ carried'[k] = carried'[l] => carried'[k] \in unsure'
  BY <1>1, NothingSent
<1> QED
  BY <1>1, <1>2, BrokenQueue

LEMMA RemoveFailsQueue ==
  ASSUME FieldInv, NEW r \in Requests, RemoveFails(r)
  PROVE  QueueInv' /\ drains' \in [Requests -> Drains] /\ unsure' \subseteq DOMAIN writes
<1>1. PICK e : e = Entry(r)
  OBVIOUS
<1>2. /\ drains[r].step = "settled" /\ Breaks(r) /\ drains[r] # Idle
      /\ unsure' = unsure \cup {e}
      /\ UNCHANGED <<writes, outbox, late, refused, carried>>
  BY <1>1, DrainSteps DEF RemoveFails
<1>3. /\ CarriedInOrder'
      /\ \A w : (SentOut(w)' <=> SentOut(w)) /\ (DealtWith(w) => DealtWith(w)')
      /\ \A k, l \in DOMAIN carried' :
           k # l /\ carried'[k] = carried'[l] => carried'[k] \in unsure'
  BY <1>2, NothingSent
<1>4. unsure' \subseteq DOMAIN writes
  BY <1>1, <1>2, EntryLeads DEF FieldInv, FieldTypeOK
<1> QED
  BY <1>1, <1>2, <1>3, <1>4, BrokenQueue

LEMMA AnswerLostQueue ==
  ASSUME FieldInv, NEW r \in Requests, AnswerLost(r)
  PROVE  /\ QueueInv' /\ drains' \in [Requests -> Drains]
         /\ carried' \in Seq(DOMAIN writes) /\ unsure' \subseteq DOMAIN writes
<1>1. PICK e : e = Entry(r)
  OBVIOUS
<1>2. /\ drains[r].step = "sending" /\ Breaks(r) /\ drains[r] # Idle
      /\ carried' = Append(carried, e) /\ unsure' = unsure \cup {e}
      /\ UNCHANGED <<writes, outbox, late, refused>>
  BY <1>1, DrainSteps DEF AnswerLost, Sends, CarryOut
<1>3. e \in DOMAIN writes /\ \A v \in DOMAIN writes : v < e => DealtWith(v)
  BY <1>1, <1>2, EntryIsNext
<1>4. /\ carried' \in Seq(DOMAIN writes) /\ CarriedInOrder'
      /\ \A w : (SentOut(w)' <=> SentOut(w) \/ w = e)
      /\ \A w : (DealtWith(w)' <=> DealtWith(w) \/ w = e)
      /\ \A k, l \in DOMAIN carried' :
           k # l /\ carried'[k] = carried'[l] => carried'[k] \in unsure'
  BY <1>2, <1>3, CarriedNext
<1>5. unsure' \subseteq DOMAIN writes
  BY <1>2, <1>3 DEF FieldInv, FieldTypeOK
<1>6. QueueInv' /\ drains' \in [Requests -> Drains]
  BY <1>2, <1>4, BrokenQueue
<1> QED
  BY <1>4, <1>5, <1>6

(* What is removed is done. *)
LEMMA RemoveSettledQueue ==
  ASSUME FieldInv, NEW r \in Requests, RemoveSettled(r)
  PROVE  QueueInv' /\ drains' \in [Requests -> Drains] /\ outbox' \subseteq DOMAIN writes
<1>1. PICK e : e = Entry(r)
  OBVIOUS
<1>2. /\ drains[r].step = "settled" /\ GoesOn(r) /\ drains[r] # Idle
      /\ outbox' = outbox \ {e}
      /\ UNCHANGED <<writes, late, refused, carried, unsure>>
  BY <1>1, DrainSteps DEF RemoveSettled
<1>3. /\ e \in DOMAIN writes /\ Leads(r, e) /\ \A w : Leads(r, w) => w = e
  BY <1>1, <1>2, EntryLeads
<1>4. DealtWith(e)
  BY <1>2, <1>3 DEF FieldInv, ListsInOrder
<1>5. /\ drains' \in [Requests -> Drains]
      /\ \A q \in Requests : \A w : (Holds(q, w)' <=> Holds(q, w) /\ ~(q = r /\ w = e))
      /\ \A q \in Requests : \A w : q # r => (Leads(q, w)' <=> Leads(q, w))
      /\ \A q \in Requests : q # r => drains'[q] = drains[q]
      /\ drains'[r] # Idle => /\ drains'[r].step = "sending" /\ drains'[r].copy # {}
                              /\ drains'[r].copy \subseteq drains[r].copy
  BY <1>1, <1>2, ListGoesOn
<1>6. /\ CarriedInOrder'
      /\ \A w : (SentOut(w)' <=> SentOut(w)) /\ (DealtWith(w) => DealtWith(w)')
      /\ \A k, l \in DOMAIN carried' :
           k # l /\ carried'[k] = carried'[l] => carried'[k] \in unsure'
  BY <1>2, NothingSent
<1>7. \A q \in Requests : \A w : drains'[q].step = "settled" /\ Leads(q, w)' => q # r
  BY <1>5 DEF Leads, Holds
<1>8. \A q \in Requests : \A w : drains'[q].step = "settled" /\ Leads(q, w)' => DealtWith(w)'
  <2> SUFFICES ASSUME NEW q \in Requests, NEW w, drains[q].step = "settled", Leads(q, w)
               PROVE  DealtWith(w)'
    BY <1>5, <1>7
  <2>1. w \in DOMAIN writes
    BY DrainShapes DEF Leads, Holds
  <2> QED
    BY <1>6, <2>1 DEF FieldInv, ListsInOrder
<1>9. \A q \in Requests : drains'[q] # Idle =>
        drains'[q].copy \subseteq DOMAIN writes /\ drains'[q].copy # {}
  <2>1. \A q \in Requests : drains[q] # Idle =>
          drains[q].copy \subseteq DOMAIN writes /\ drains[q].copy # {}
    BY DrainShapes
  <2> QED
    BY <1>2, <1>5, <2>1
<1>10. /\ ListsInOrder' /\ NothingLost' /\ late' \subseteq unsure'
       /\ \A w \in DOMAIN writes', q, p \in Requests :
            q # p /\ Holds(q, w)' /\ Holds(p, w)' => w \in unsure'
  <2>1. /\ UNCHANGED writes /\ unsure \subseteq unsure' /\ late' \subseteq late
        /\ outbox' \subseteq outbox /\ \A w : DealtWith(w) => DealtWith(w)'
        /\ \A w \in DOMAIN writes : w \in outbox => w \in outbox' \/ DealtWith(w)'
    BY <1>2, <1>4, <1>6
  <2>2. \A q \in Requests : \A w : Holds(q, w)' => Holds(q, w)
    BY <1>5
  <2>3. \A q \in Requests : \A v, w : Holds(q, w)' /\ Holds(q, v) =>
                                        Holds(q, v)' \/ DealtWith(v)'
    BY <1>4, <1>5, <1>6
  <2> QED
    BY <1>8, <1>9, <2>1, <2>2, <2>3, QueueMoves
<1>11. \A w \in DOMAIN writes', q \in Requests : SentOut(w)' /\ Holds(q, w)' =>
         w \in unsure' \/ (drains'[q].step = "settled" /\ Leads(q, w)')
  <2> SUFFICES ASSUME NEW w \in DOMAIN writes, NEW q \in Requests, SentOut(w), Holds(q, w),
                      ~(q = r /\ w = e)
               PROVE  w \in unsure \/ (drains'[q].step = "settled" /\ Leads(q, w)')
    BY <1>2, <1>5, <1>6
  <2>1. w \in unsure \/ (drains[q].step = "settled" /\ Leads(q, w))
    BY DEF FieldInv, DoubtsKnown
  <2> QED
    BY <1>3, <1>5, <2>1
<1>12. \A w \in outbox' : SentOut(w)' =>
         w \in unsure' \/ \E q \in Requests : drains'[q].step = "settled" /\ Leads(q, w)'
  <2> SUFFICES ASSUME NEW w \in outbox, w # e, SentOut(w), w \notin unsure
               PROVE  \E q \in Requests : drains'[q].step = "settled" /\ Leads(q, w)'
    BY <1>2, <1>6
  <2>1. PICK q \in Requests : drains[q].step = "settled" /\ Leads(q, w)
    BY DEF FieldInv, DoubtsKnown
  <2>2. q # r
    BY <1>3, <2>1
  <2> QED
    BY <1>5, <2>1, <2>2
<1>13. DoubtsKnown'
  BY <1>6, <1>10, <1>11, <1>12 DEF DoubtsKnown
<1>14. outbox' \subseteq DOMAIN writes
  BY <1>2, FieldShapes
<1> QED
  BY <1>5, <1>6, <1>10, <1>13, <1>14 DEF QueueInv

LEMMA LateQueue ==
  ASSUME FieldInv, NEW e \in late, LateCarried(e)
  PROVE  /\ QueueInv' /\ carried' \in Seq(DOMAIN writes) /\ late' \subseteq DOMAIN writes
<1>1. /\ late' = late \ {e} /\ carried' = Append(carried, e)
      /\ UNCHANGED <<writes, outbox, drains, refused, unsure>>
  BY DEF LateCarried, CarryOut
<1>2. /\ e \in DOMAIN writes /\ e \in unsure
      /\ \A v \in DOMAIN writes : v < e => DealtWith(v)
  BY FieldShapes DEF FieldInv, ListsInOrder, DoubtsKnown
<1>3. /\ carried' \in Seq(DOMAIN writes) /\ CarriedInOrder'
      /\ \A w : (SentOut(w)' <=> SentOut(w) \/ w = e)
      /\ \A w : (DealtWith(w)' <=> DealtWith(w) \/ w = e)
      /\ \A k, l \in DOMAIN carried' :
           k # l /\ carried'[k] = carried'[l] => carried'[k] \in unsure'
  BY <1>1, <1>2, CarriedNext
<1>4. \A q \in Requests : \A w : (Holds(q, w)' <=> Holds(q, w)) /\ (Leads(q, w)' <=> Leads(q, w))
  BY <1>1 DEF Holds, Leads
<1>5. /\ ListsInOrder' /\ NothingLost' /\ late' \subseteq unsure'
      /\ \A w \in DOMAIN writes', q, p \in Requests :
           q # p /\ Holds(q, w)' /\ Holds(p, w)' => w \in unsure'
  <2>1. /\ UNCHANGED writes /\ unsure \subseteq unsure' /\ late' \subseteq late
        /\ outbox' \subseteq outbox /\ \A w : DealtWith(w) => DealtWith(w)'
        /\ \A w \in DOMAIN writes : w \in outbox => w \in outbox' \/ DealtWith(w)'
    BY <1>1, <1>3
  <2>2. /\ \A q \in Requests : \A w : Holds(q, w)' => Holds(q, w)
        /\ \A q \in Requests : \A v, w : Holds(q, w)' /\ Holds(q, v) =>
                                           Holds(q, v)' \/ DealtWith(v)'
    BY <1>4
  <2>3. \A q \in Requests : \A w : drains'[q].step = "settled" /\ Leads(q, w)' => DealtWith(w)'
    <3> SUFFICES ASSUME NEW q \in Requests, NEW w, drains[q].step = "settled", Leads(q, w)
                 PROVE  DealtWith(w)'
      BY <1>1, <1>4
    <3>1. w \in DOMAIN writes
      BY DrainShapes DEF Leads, Holds
    <3> QED
      BY <1>3, <3>1 DEF FieldInv, ListsInOrder
  <2>4. \A q \in Requests : drains'[q] # Idle =>
          drains'[q].copy \subseteq DOMAIN writes /\ drains'[q].copy # {}
    BY <1>1, DrainShapes
  <2> QED
    BY <2>1, <2>2, <2>3, <2>4, QueueMoves
<1>6. \A w \in DOMAIN writes', q \in Requests : SentOut(w)' /\ Holds(q, w)' =>
        w \in unsure' \/ (drains'[q].step = "settled" /\ Leads(q, w)')
  BY <1>1, <1>2, <1>3, <1>4 DEF FieldInv, DoubtsKnown
<1>7. \A w \in outbox' : SentOut(w)' =>
        w \in unsure' \/ \E q \in Requests : drains'[q].step = "settled" /\ Leads(q, w)'
  BY <1>1, <1>2, <1>3, <1>4 DEF FieldInv, DoubtsKnown
<1>8. DoubtsKnown'
  BY <1>3, <1>5, <1>6, <1>7 DEF DoubtsKnown
<1> QED
  BY <1>1, <1>3, <1>5, <1>8, FieldShapes DEF QueueInv

(* A drain starts with the outbox, where what was carried out is in doubt:  *)
(* another drain holds it, or one was cut when it had carried it out.        *)
LEMMA StartedQueue ==
  ASSUME FieldInv, NEW r \in Requests, outbox # {}, NEW before \in [Requests -> Drains],
         drains' = [before EXCEPT ![r] = [step |-> "sending", copy |-> outbox]],
         \A q \in Requests : before[q] = drains[q] \/ before[q] = Idle,
         before[r] = Idle,
         UNCHANGED <<writes, outbox, carried, refused>>,
         unsure \subseteq unsure',
         late' \subseteq unsure',
         \A w \in late' : \A v \in DOMAIN writes : v < w => DealtWith(v),
         \A q \in Requests : \A w \in outbox : before[q] # Idle /\ Holds(q, w) => w \in unsure',
         \A q \in Requests : \A w \in outbox : drains[q].step = "settled" /\ Leads(q, w) => w \in unsure'
  PROVE  QueueInv' /\ drains' \in [Requests -> Drains]
<1>1. /\ drains' \in [Requests -> Drains]
      /\ \A q \in Requests : q # r => drains'[q] = before[q]
      /\ \A w : Holds(r, w)' <=> w \in outbox
      /\ drains'[r] # Idle /\ drains'[r].step = "sending" /\ drains'[r].copy = outbox
  BY ListStarts
<1>2. /\ CarriedInOrder'
      /\ \A w : (SentOut(w)' <=> SentOut(w)) /\ (DealtWith(w)' <=> DealtWith(w))
      /\ \A k, l \in DOMAIN carried' :
           k # l /\ carried'[k] = carried'[l] => carried'[k] \in unsure'
  BY NothingSent DEF DealtWith, SentOut
<1>3. ASSUME NEW q \in Requests, q # r, drains'[q] # Idle
      PROVE  /\ before[q] # Idle /\ drains'[q] = drains[q]
             /\ \A w : (Holds(q, w)' <=> Holds(q, w)) /\ (Leads(q, w)' <=> Leads(q, w))
  <2>1. before[q] # Idle /\ drains'[q] = drains[q]
    BY <1>1, <1>3
  <2> QED
    BY <2>1 DEF Leads, Holds
<1>4. \A q \in Requests : \A w : Holds(q, w)' => drains'[q] # Idle
  BY DEF Holds
<1>5. ListsInOrder'
  <2>1. \A q \in Requests : drains'[q] # Idle =>
          drains'[q].copy \subseteq DOMAIN writes' /\ drains'[q].copy # {}
    <3> SUFFICES ASSUME NEW q \in Requests, drains'[q] # Idle
                 PROVE  drains'[q].copy \subseteq DOMAIN writes /\ drains'[q].copy # {}
      OBVIOUS
    <3>1. CASE q = r
      BY <1>1, <3>1, FieldShapes
    <3>2. CASE q # r
      <4>1. drains'[q] = drains[q]
        BY <1>3, <3>2
      <4> QED
        BY <4>1, DrainShapes
    <3> QED
      BY <3>1, <3>2
  <2>2. \A q \in Requests, w \in DOMAIN writes' :
          drains'[q].step = "settled" /\ Leads(q, w)' => DealtWith(w)'
    <3> SUFFICES ASSUME NEW q \in Requests, NEW w \in DOMAIN writes,
                        drains'[q].step = "settled", Leads(q, w)'
                 PROVE  DealtWith(w)
      BY <1>2
    <3>1. q # r /\ drains'[q] # Idle
      BY <1>1 DEF Leads, Holds
    <3>2. drains[q].step = "settled" /\ Leads(q, w)
      BY <1>3, <3>1
    <3> QED
      BY <3>2 DEF FieldInv, ListsInOrder
  <2>3. \A q \in Requests, v, w \in DOMAIN writes' :
          Holds(q, w)' /\ v < w => Holds(q, v)' \/ DealtWith(v)'
    <3> SUFFICES ASSUME NEW q \in Requests, NEW v \in DOMAIN writes, NEW w \in DOMAIN writes,
                        Holds(q, w)', v < w
                 PROVE  Holds(q, v)' \/ DealtWith(v)
      BY <1>2
    <3>1. CASE q = r
      BY <1>1, <3>1 DEF FieldInv, NothingLost
    <3>2. CASE q # r
      <4>1. /\ Holds(q, w) <=> Holds(q, w)'
            /\ Holds(q, v) <=> Holds(q, v)'
        BY <1>3, <1>4, <3>2
      <4> QED
        BY <4>1 DEF FieldInv, ListsInOrder
    <3> QED
      BY <3>1, <3>2
  <2>4. \A w \in late', v \in DOMAIN writes' : v < w => DealtWith(v)'
    BY <1>2
  <2> QED
    BY <2>1, <2>2, <2>3, <2>4 DEF ListsInOrder
<1>6. NothingLost'
  BY <1>2 DEF FieldInv, NothingLost
<1>7. \A w \in DOMAIN writes', q, p \in Requests :
        q # p /\ Holds(q, w)' /\ Holds(p, w)' => w \in unsure'
  <2> SUFFICES ASSUME NEW w \in DOMAIN writes, NEW q \in Requests, NEW p \in Requests,
                      q # p, Holds(q, w)', Holds(p, w)'
               PROVE  w \in unsure'
    OBVIOUS
  <2>1. CASE q # r /\ p # r
    <3>1. Holds(q, w) /\ Holds(p, w)
      BY <1>3, <1>4, <2>1
    <3> QED
      BY <3>1 DEF FieldInv, DoubtsKnown
  <2>2. CASE q = r
    <3>1. w \in outbox /\ before[p] # Idle /\ Holds(p, w)
      BY <1>1, <1>3, <1>4, <2>2
    <3> QED
      BY <3>1
  <2>3. CASE p = r
    <3>1. w \in outbox /\ before[q] # Idle /\ Holds(q, w)
      BY <1>1, <1>3, <1>4, <2>3
    <3> QED
      BY <3>1
  <2> QED
    BY <2>1, <2>2, <2>3
<1>8. ASSUME NEW w \in outbox, SentOut(w) PROVE w \in unsure'
  <2>1. w \in unsure \/ \E q \in Requests : drains[q].step = "settled" /\ Leads(q, w)
    BY <1>8 DEF FieldInv, DoubtsKnown
  <2> QED
    BY <2>1
<1>9. \A w \in DOMAIN writes', q \in Requests : SentOut(w)' /\ Holds(q, w)' =>
        w \in unsure' \/ (drains'[q].step = "settled" /\ Leads(q, w)')
  <2> SUFFICES ASSUME NEW w \in DOMAIN writes, NEW q \in Requests, SentOut(w), Holds(q, w)'
               PROVE  w \in unsure' \/ (drains'[q].step = "settled" /\ Leads(q, w)')
    BY <1>2
  <2>1. CASE q = r
    BY <1>1, <1>8, <2>1
  <2>2. CASE q # r
    <3>1. Holds(q, w) /\ drains'[q] = drains[q] /\ (Leads(q, w)' <=> Leads(q, w))
      BY <1>3, <1>4, <2>2
    <3>2. w \in unsure \/ (drains[q].step = "settled" /\ Leads(q, w))
      BY <3>1 DEF FieldInv, DoubtsKnown
    <3> QED
      BY <3>1, <3>2
  <2> QED
    BY <2>1, <2>2
<1>10. \A w \in outbox' : SentOut(w)' =>
         w \in unsure' \/ \E q \in Requests : drains'[q].step = "settled" /\ Leads(q, w)'
  BY <1>2, <1>8
<1>11. DoubtsKnown'
  BY <1>2, <1>7, <1>9, <1>10 DEF DoubtsKnown
<1> QED
  BY <1>1, <1>2, <1>5, <1>6, <1>11 DEF QueueInv

LEMMA OnlineQueue ==
  ASSUME FieldInv, NEW r \in Requests, GoOnline(r)
  PROVE  QueueInv' /\ drains' \in [Requests -> Drains] /\ unsure' \subseteq DOMAIN writes
<1>1. Starts(r) /\ UNCHANGED <<writes, outbox, late, carried, refused>>
  BY DEF GoOnline
<1>2. CASE outbox = {}
  <2>1. UNCHANGED <<drains, unsure>>
    BY <1>1, <1>2 DEF Starts
  <2> QED
    BY <1>1, <2>1, QueueSame, FieldShapes DEF FieldInv, FieldTypeOK
<1>3. CASE outbox # {}
  <2>1. /\ drains[r] = Idle
        /\ drains' = [drains EXCEPT ![r] = [step |-> "sending", copy |-> outbox]]
        /\ unsure' = unsure \cup (InHand \cap outbox)
    BY <1>1, <1>3 DEF Starts
  <2>2. ASSUME NEW q \in Requests, NEW w \in outbox, Holds(q, w) PROVE w \in unsure'
    BY <2>1, <2>2 DEF InHand, Holds
  <2>3. PICK before : before = drains
    OBVIOUS
  <2>4. /\ before \in [Requests -> Drains] /\ before[r] = Idle
        /\ drains' = [before EXCEPT ![r] = [step |-> "sending", copy |-> outbox]]
        /\ \A q \in Requests : before[q] = drains[q] \/ before[q] = Idle
    BY <2>1, <2>3, FieldShapes
  <2>5. late' \subseteq unsure' /\ unsure \subseteq unsure'
    BY <1>1, <2>1 DEF FieldInv, DoubtsKnown
  <2>6. \A w \in late' : \A v \in DOMAIN writes : v < w => DealtWith(v)
    BY <1>1 DEF FieldInv, ListsInOrder
  <2>7. \A q \in Requests : \A w \in outbox : before[q] # Idle /\ Holds(q, w) => w \in unsure'
    BY <2>2
  <2>8. \A q \in Requests : \A w \in outbox : drains[q].step = "settled" /\ Leads(q, w) => w \in unsure'
    BY <2>2 DEF Leads
  <2>9. QueueInv' /\ drains' \in [Requests -> Drains]
    BY <1>1, <1>3, <2>4, <2>5, <2>6, <2>7, <2>8, StartedQueue
  <2>10. unsure' \subseteq DOMAIN writes
    BY <2>1, FieldShapes DEF FieldInv, FieldTypeOK
  <2> QED
    BY <2>9, <2>10
<1> QED
  BY <1>2, <1>3

(* What was under way when the page closed is in doubt. *)
LEMMA ReopenQueue ==
  ASSUME FieldInv, NEW r \in Requests, Reopen(r)
  PROVE  /\ QueueInv' /\ drains' \in [Requests -> Drains]
         /\ unsure' \subseteq DOMAIN writes /\ late' \subseteq DOMAIN writes
<1>1. PICK cut, sent :
        /\ cut = {Entry(q) : q \in {p \in Requests : drains[p] # Idle}}
        /\ sent = {Entry(q) : q \in {p \in Requests : drains[p].step = "sending"}}
  OBVIOUS
<1>2. /\ drains' = IF online /\ outbox # {}
                   THEN [NoRequests EXCEPT ![r] = [step |-> "sending", copy |-> outbox]]
                   ELSE NoRequests
      /\ unsure' = unsure \cup cut /\ late' = late \cup sent
      /\ UNCHANGED <<writes, outbox, carried, refused>>
  BY <1>1 DEF Reopen
<1>3. cut \subseteq DOMAIN writes /\ sent \subseteq cut
  <2>1. \A q \in Requests : drains[q] # Idle => Entry(q) \in DOMAIN writes
    BY EntryLeads
  <2>2. \A q \in Requests : drains[q].step = "sending" => drains[q] # Idle
    BY DrainSteps
  <2> QED
    BY <1>1, <2>1, <2>2
<1>4. unsure' \subseteq DOMAIN writes /\ late' \subseteq DOMAIN writes
  BY <1>2, <1>3, FieldShapes DEF FieldInv, FieldTypeOK
<1>5. late' \subseteq unsure' /\ unsure \subseteq unsure'
  BY <1>2, <1>3 DEF FieldInv, DoubtsKnown
<1>6. \A w \in late' : \A v \in DOMAIN writes : v < w => DealtWith(v)
  <2> SUFFICES ASSUME NEW w \in late', NEW v \in DOMAIN writes, v < w PROVE DealtWith(v)
    OBVIOUS
  <2>1. CASE w \in late
    BY <2>1 DEF FieldInv, ListsInOrder
  <2>2. CASE w \in sent
    <3>1. PICK q \in Requests : drains[q].step = "sending" /\ w = Entry(q)
      BY <1>1, <2>2
    <3> QED
      BY <3>1, EntryIsNext
  <2> QED
    BY <1>2, <2>1, <2>2
<1>7. \A q \in Requests : \A w \in outbox : drains[q].step = "settled" /\ Leads(q, w) => w \in unsure'
  <2> SUFFICES ASSUME NEW q \in Requests, NEW w \in outbox, Leads(q, w) PROVE w \in cut
    BY <1>2
  <2>1. drains[q] # Idle
    BY DEF Leads, Holds
  <2>2. w = Entry(q)
    BY <2>1, EntryLeads
  <2> QED
    BY <1>1, <2>1, <2>2
<1>8. PICK before : before = NoRequests
  OBVIOUS
<1>9. before \in [Requests -> Drains] /\ \A q \in Requests : before[q] = Idle
  BY <1>8 DEF NoRequests, Drains
<1>10. CASE online /\ outbox # {}
  <2>1. drains' = [before EXCEPT ![r] = [step |-> "sending", copy |-> outbox]]
    BY <1>2, <1>8, <1>10
  <2>2. /\ \A q \in Requests : \A w \in outbox : before[q] # Idle /\ Holds(q, w) => w \in unsure'
        /\ \A q \in Requests : before[q] = drains[q] \/ before[q] = Idle
        /\ before[r] = Idle
    BY <1>9
  <2>3. QueueInv' /\ drains' \in [Requests -> Drains]
    BY <1>2, <1>5, <1>6, <1>7, <1>9, <1>10, <2>1, <2>2, StartedQueue
  <2> QED
    BY <1>4, <2>3
<1>11. CASE ~(online /\ outbox # {})
  <2>1. drains' = before
    BY <1>2, <1>8, <1>11
  <2>2. \A q \in Requests : \A w : ~Holds(q, w)' /\ drains'[q] = Idle
    BY <1>9, <2>1 DEF Holds
  <2>3. /\ CarriedInOrder'
        /\ \A w : (SentOut(w)' <=> SentOut(w)) /\ (DealtWith(w)' <=> DealtWith(w))
        /\ \A k, l \in DOMAIN carried' :
             k # l /\ carried'[k] = carried'[l] => carried'[k] \in unsure'
    BY <1>2, <1>5, NothingSent DEF DealtWith, SentOut
  <2>4. ListsInOrder'
    <3>1. \A w \in late', v \in DOMAIN writes' : v < w => DealtWith(v)'
      BY <1>2, <1>6, <2>3
    <3> QED
      BY <2>2, <3>1 DEF ListsInOrder, Leads
  <2>5. NothingLost'
    BY <1>2, <2>3 DEF FieldInv, NothingLost
  <2>6. \A w \in outbox' : SentOut(w)' => w \in unsure'
    <3> SUFFICES ASSUME NEW w \in outbox, SentOut(w) PROVE w \in unsure'
      BY <1>2, <2>3
    <3>1. w \in unsure \/ \E q \in Requests : drains[q].step = "settled" /\ Leads(q, w)
      BY DEF FieldInv, DoubtsKnown
    <3> QED
      BY <1>5, <1>7, <3>1
  <2>7. DoubtsKnown'
    BY <1>5, <2>2, <2>3, <2>6 DEF DoubtsKnown
  <2> QED
    BY <1>4, <1>9, <2>1, <2>3, <2>4, <2>5, <2>7 DEF QueueInv
<1> QED
  BY <1>10, <1>11

-----------------------------------------------------------------------------
(* What becomes of the photos. *)

LEMMA PhotoShapes ==
  ASSUME FieldInv
  PROVE  /\ photoRows \subseteq Photos /\ stored \subseteq Photos /\ removed \subseteq Photos
         /\ upload # None => upload.photo \in Photos
                             /\ upload.step \in {"putting", "finalising"}
         /\ \A i \in DOMAIN writes : writes[i] \in Writes
         /\ \A i \in DOMAIN saving : saving[i] \in Writes
  BY FieldShapes DEF FieldInv, FieldTypeOK

LEMMA WriteShapes ==
  ASSUME NEW x \in Writes
  PROVE  /\ x = [does |-> x.does, photo |-> x.photo]
         /\ x.does \in {"edit", "finalise", "remove"}
         /\ x.does # "edit" => x.photo \in Photos
  BY DEF Writes

LEMMA PhotosSame ==
  ASSUME FieldInv, UNCHANGED <<writes, saving, carried, photoRows, stored, upload, removed>>,
         unsure \subseteq unsure'
  PROVE  PhotoInv'
<1>1. FinalisedOnce'
  BY DEF FieldInv, FinalisedOnce, SentOut, Finalises
<1>2. RemovedStaysAway'
  BY DEF FieldInv, RemovedStaysAway
<1> QED
  BY <1>1, <1>2 DEF PhotoInv

(* A photo gets its row from the one write that finalises it. *)
LEMMA CarriedPhotos ==
  ASSUME FieldInv, NEW e \in DOMAIN writes, CarryOut(e),
         UNCHANGED <<writes, saving, stored, upload>>, unsure \subseteq unsure',
         SentOut(e) => e \in unsure'
  PROVE  PhotoInv' /\ photoRows' \subseteq Photos /\ removed' \subseteq Photos
<1>1. PICK p : p = writes[e].photo
  OBVIOUS
<1>2. /\ photoRows' = IF writes[e].does = "finalise" THEN photoRows \cup {p}
                      ELSE photoRows \ {p}
      /\ removed' = IF writes[e].does = "remove" THEN removed \cup {p} ELSE removed
      /\ carried' = Append(carried, e) /\ Possible(e)
  BY <1>1 DEF CarryOut
<1>3. /\ writes[e] = [does |-> writes[e].does, photo |-> p]
      /\ writes[e].does \in {"edit", "finalise", "remove"}
      /\ writes[e].does # "edit" => p \in Photos
  BY <1>1, PhotoShapes, WriteShapes
<1>4. \A w : SentOut(w) \/ w = e => SentOut(w)'
  <2>1. PICK S : S = DOMAIN writes
    OBVIOUS
  <2>2. carried \in Seq(S) /\ e \in S
    BY <2>1, FieldShapes
  <2>3. PICK n : n = Len(carried) + 1
    OBVIOUS
  <2>4. /\ DOMAIN carried' = DOMAIN carried \cup {n} /\ carried'[n] = e
        /\ \A k \in DOMAIN carried : carried'[k] = carried[k]
    BY <1>2, <2>2, <2>3
  <2> QED
    BY <2>4 DEF SentOut
<1>5. CASE writes[e].does = "finalise"
  <2>1. photoRows' = photoRows \cup {p} /\ removed' = removed /\ p \in Photos
        /\ Finalises(writes[e], p)
    BY <1>2, <1>3, <1>5, <1>1 DEF Finalises
  <2>2. /\ p \in stored /\ (p \in photoRows \cup removed => SentOut(e))
        /\ \A j \in DOMAIN writes : Finalises(writes[j], p) => e = j
        /\ \A j \in DOMAIN saving : ~Finalises(saving[j], p)
    BY <2>1 DEF FieldInv, FinalisedOnce
  <2>3. upload # None /\ upload.step = "finalising" => upload.photo # p
    BY <2>1 DEF FieldInv, FinalisedOnce
  <2>4. /\ photoRows' \cup removed' \subseteq stored'
        /\ upload' # None =>
             /\ upload'.step = "putting" => upload'.photo \notin stored'
             /\ upload'.step = "finalising" =>
                  /\ upload'.photo \in stored' \ (photoRows' \cup removed')
                  /\ \A i \in DOMAIN writes' : ~Finalises(writes'[i], upload'.photo)
                  /\ \A i \in DOMAIN saving' : ~Finalises(saving'[i], upload'.photo)
    BY <2>1, <2>2, <2>3 DEF FieldInv, FinalisedOnce
  <2>5. \A q \in Photos, i \in DOMAIN writes' : Finalises(writes'[i], q) =>
          /\ q \in stored' /\ (q \in photoRows' \cup removed' => SentOut(i)')
          /\ \A j \in DOMAIN writes' : Finalises(writes'[j], q) => i = j
          /\ \A j \in DOMAIN saving' : ~Finalises(saving'[j], q)
    <3> SUFFICES ASSUME NEW q \in Photos, NEW i \in DOMAIN writes, Finalises(writes[i], q)
                 PROVE  /\ q \in stored /\ (q \in photoRows' \cup removed' => SentOut(i)')
                        /\ \A j \in DOMAIN writes : Finalises(writes[j], q) => i = j
                        /\ \A j \in DOMAIN saving : ~Finalises(saving[j], q)
      OBVIOUS
    <3>1. /\ q \in stored /\ (q \in photoRows \cup removed => SentOut(i))
          /\ \A j \in DOMAIN writes : Finalises(writes[j], q) => i = j
          /\ \A j \in DOMAIN saving : ~Finalises(saving[j], q)
      BY DEF FieldInv, FinalisedOnce
    <3>2. q = p => i = e
      BY <2>2
    <3> QED
      BY <1>4, <2>1, <3>1, <3>2
  <2>6. \A q \in Photos, i \in DOMAIN saving' : Finalises(saving'[i], q) =>
          /\ q \in stored' \ (photoRows' \cup removed')
          /\ \A j \in DOMAIN saving' : Finalises(saving'[j], q) => i = j
    BY <2>1, <2>2 DEF FieldInv, FinalisedOnce
  <2>7. FinalisedOnce'
    BY <2>4, <2>5, <2>6 DEF FinalisedOnce, Finalises
  <2>8. RemovedStaysAway'
    <3> SUFFICES ASSUME NEW q \in photoRows' \cap removed'
                 PROVE  \E w \in unsure' : writes[w] = [does |-> "finalise", photo |-> q]
      BY DEF RemovedStaysAway
    <3>1. CASE q \in photoRows
      BY <2>1, <3>1 DEF FieldInv, RemovedStaysAway
    <3>2. CASE q \notin photoRows
      <4>1. q = p /\ e \in unsure'
        BY <2>1, <2>2, <3>2
      <4> QED
        BY <1>3, <1>5, <4>1
    <3> QED
      BY <3>1, <3>2
  <2> QED
    BY <2>1, <2>7, <2>8, PhotoShapes DEF PhotoInv
<1>6. CASE writes[e].does # "finalise"
  <2>1. /\ photoRows' = photoRows \ {p} /\ removed' \subseteq removed \cup photoRows
        /\ removed' \subseteq removed \cup {p}
    BY <1>1, <1>2, <1>3, <1>6 DEF Possible
  <2>2. photoRows' \cup removed' \subseteq photoRows \cup removed
    BY <2>1
  <2>3. /\ photoRows' \cup removed' \subseteq stored'
        /\ upload' # None =>
             /\ upload'.step = "putting" => upload'.photo \notin stored'
             /\ upload'.step = "finalising" =>
                  /\ upload'.photo \in stored' \ (photoRows' \cup removed')
                  /\ \A i \in DOMAIN writes' : ~Finalises(writes'[i], upload'.photo)
                  /\ \A i \in DOMAIN saving' : ~Finalises(saving'[i], upload'.photo)
    BY <2>2 DEF FieldInv, FinalisedOnce
  <2>4. \A q \in Photos, i \in DOMAIN writes' : Finalises(writes'[i], q) =>
          /\ q \in stored' /\ (q \in photoRows' \cup removed' => SentOut(i)')
          /\ \A j \in DOMAIN writes' : Finalises(writes'[j], q) => i = j
          /\ \A j \in DOMAIN saving' : ~Finalises(saving'[j], q)
    BY <1>4, <2>2 DEF FieldInv, FinalisedOnce
  <2>5. \A q \in Photos, i \in DOMAIN saving' : Finalises(saving'[i], q) =>
          /\ q \in stored' \ (photoRows' \cup removed')
          /\ \A j \in DOMAIN saving' : Finalises(saving'[j], q) => i = j
    BY <2>2 DEF FieldInv, FinalisedOnce
  <2>6. FinalisedOnce'
    BY <2>3, <2>4, <2>5 DEF FinalisedOnce, Finalises
  <2>7. RemovedStaysAway'
    <3> SUFFICES ASSUME NEW q \in photoRows' \cap removed'
                 PROVE  \E w \in unsure' : writes[w] = [does |-> "finalise", photo |-> q]
      BY DEF RemovedStaysAway
    <3>1. q \in photoRows \cap removed
      BY <2>1
    <3> QED
      BY <3>1 DEF FieldInv, RemovedStaysAway
  <2> QED
    BY <2>1, <2>6, <2>7, PhotoShapes DEF PhotoInv
<1> QED
  BY <1>5, <1>6

(* A write that waits to be saved finalises what its upload has stored.      *)
LEMMA SavingAppended ==
  ASSUME FieldInv, NEW x \in Writes, Save(x),
         UNCHANGED <<writes, carried, photoRows, stored, removed, unsure>>,
         upload' \in {None, upload},
         \A p \in Photos : Finalises(x, p) =>
           upload' = None /\ upload # None /\ upload.step = "finalising" /\ upload.photo = p
  PROVE  PhotoInv' /\ saving' \in Seq(Writes) /\ Len(writes') + Len(saving') <= MaxWrites
<1>1. PICK n : n = Len(saving) + 1
  OBVIOUS
<1>2. /\ saving' \in Seq(Writes) /\ Len(saving') = n
      /\ DOMAIN saving' = DOMAIN saving \cup {n} /\ saving'[n] = x /\ n \notin DOMAIN saving
      /\ \A i \in DOMAIN saving : saving'[i] = saving[i]
  BY <1>1, FieldShapes DEF Save
<1>3. Len(writes') + Len(saving') <= MaxWrites
  BY <1>1, <1>2, FieldShapes DEF Save
<1>4. ASSUME NEW p \in Photos, Finalises(x, p)
      PROVE  /\ p \in stored \ (photoRows \cup removed)
             /\ \A i \in DOMAIN writes : ~Finalises(writes[i], p)
             /\ \A i \in DOMAIN saving : ~Finalises(saving[i], p)
  BY <1>4 DEF FieldInv, FinalisedOnce
<1>5. /\ photoRows' \cup removed' \subseteq stored'
      /\ upload' # None =>
           /\ upload'.step = "putting" => upload'.photo \notin stored'
           /\ upload'.step = "finalising" =>
                /\ upload'.photo \in stored' \ (photoRows' \cup removed')
                /\ \A i \in DOMAIN writes' : ~Finalises(writes'[i], upload'.photo)
                /\ \A i \in DOMAIN saving' : ~Finalises(saving'[i], upload'.photo)
  <2>1. upload' # None => upload' = upload /\ upload # None /\ upload.photo \in Photos
    BY PhotoShapes
  <2> QED
    BY <1>2, <2>1 DEF FieldInv, FinalisedOnce
<1>6. \A q \in Photos, i \in DOMAIN writes' : Finalises(writes'[i], q) =>
        /\ q \in stored' /\ (q \in photoRows' \cup removed' => SentOut(i))
        /\ \A j \in DOMAIN writes' : Finalises(writes'[j], q) => i = j
        /\ \A j \in DOMAIN saving' : ~Finalises(saving'[j], q)
  BY <1>2, <1>4 DEF FieldInv, FinalisedOnce
<1>7. \A q \in Photos, i \in DOMAIN saving' : Finalises(saving'[i], q) =>
        /\ q \in stored' \ (photoRows' \cup removed')
        /\ \A j \in DOMAIN saving' : Finalises(saving'[j], q) => i = j
  BY <1>2, <1>4 DEF FieldInv, FinalisedOnce
<1>8. FinalisedOnce'
  <2>1. \A i : SentOut(i)' <=> SentOut(i)
    BY DEF SentOut
  <2> QED
    BY <1>5, <1>6, <1>7, <2>1 DEF FinalisedOnce, Finalises
<1>9. RemovedStaysAway'
  BY DEF FieldInv, RemovedStaysAway
<1> QED
  BY <1>2, <1>3, <1>8, <1>9 DEF PhotoInv

LEMMA SavingTaken ==
  ASSUME FieldInv, saving # <<>>, saving' = Tail(saving)
  PROVE  /\ saving' \in Seq(Writes) /\ Len(saving') = Len(saving) - 1
         /\ \A i \in DOMAIN saving' : /\ i + 1 \in DOMAIN saving /\ i + 1 # 1 /\ i \in Nat
                                      /\ saving'[i] = saving[i + 1]
         /\ 1 \in DOMAIN saving
  BY FieldShapes

LEMMA EnqueuePhotos ==
  ASSUME FieldInv, Enqueue
  PROVE  PhotoInv'
<1>0. PICK n : n = Len(writes')
  OBVIOUS
<1>1. /\ saving # <<>> /\ writes' = Append(writes, Head(saving)) /\ saving' = Tail(saving)
      /\ UNCHANGED <<carried, photoRows, stored, upload, removed, unsure>>
  BY DEF Enqueue
<1>2. /\ DOMAIN writes' = DOMAIN writes \cup {n} /\ n \notin DOMAIN writes
      /\ \A w \in DOMAIN writes : writes'[w] = writes[w]
      /\ writes'[n] = saving[1] /\ 1 \in DOMAIN saving
  BY <1>0, <1>1, WriteAppended
<1>3. \A i \in DOMAIN saving' : /\ i + 1 \in DOMAIN saving /\ i + 1 # 1 /\ i \in Nat
                                /\ saving'[i] = saving[i + 1]
  BY <1>1, SavingTaken
<1>4. \A i : SentOut(i)' <=> SentOut(i)
  BY <1>1 DEF SentOut
<1>5. /\ photoRows' \cup removed' \subseteq stored'
      /\ upload' # None =>
           /\ upload'.step = "putting" => upload'.photo \notin stored'
           /\ upload'.step = "finalising" =>
                /\ upload'.photo \in stored' \ (photoRows' \cup removed')
                /\ \A i \in DOMAIN writes' : ~Finalises(writes'[i], upload'.photo)
                /\ \A i \in DOMAIN saving' : ~Finalises(saving'[i], upload'.photo)
  BY <1>1, <1>2, <1>3 DEF FieldInv, FinalisedOnce
<1>6. ASSUME NEW q \in Photos, NEW i \in DOMAIN writes', Finalises(writes'[i], q)
      PROVE  /\ q \in stored' /\ (q \in photoRows' \cup removed' => SentOut(i)')
             /\ \A j \in DOMAIN writes' : Finalises(writes'[j], q) => i = j
             /\ \A j \in DOMAIN saving' : ~Finalises(saving'[j], q)
  <2>1. CASE i \in DOMAIN writes
    <3>1. /\ q \in stored /\ (q \in photoRows \cup removed => SentOut(i))
          /\ \A j \in DOMAIN writes : Finalises(writes[j], q) => i = j
          /\ \A j \in DOMAIN saving : ~Finalises(saving[j], q)
      BY <1>2, <1>6, <2>1 DEF FieldInv, FinalisedOnce
    <3> QED
      BY <1>1, <1>2, <1>3, <1>4, <3>1
  <2>2. CASE i = n
    <3>1. Finalises(saving[1], q)
      BY <1>2, <1>6, <2>2
    <3>2. /\ q \in stored \ (photoRows \cup removed)
          /\ \A j \in DOMAIN saving : Finalises(saving[j], q) => 1 = j
      BY <1>2, <3>1 DEF FieldInv, FinalisedOnce
    <3>3. \A j \in DOMAIN writes : ~Finalises(writes[j], q)
      BY <1>2, <3>1 DEF FieldInv, FinalisedOnce
    <3> QED
      BY <1>1, <1>2, <1>3, <2>2, <3>2, <3>3
  <2> QED
    BY <1>2, <2>1, <2>2
<1>7. \A q \in Photos, i \in DOMAIN saving' : Finalises(saving'[i], q) =>
        /\ q \in stored' \ (photoRows' \cup removed')
        /\ \A j \in DOMAIN saving' : Finalises(saving'[j], q) => i = j
  <2> SUFFICES ASSUME NEW q \in Photos, NEW i \in DOMAIN saving', Finalises(saving'[i], q)
               PROVE  /\ q \in stored' \ (photoRows' \cup removed')
                      /\ \A j \in DOMAIN saving' : Finalises(saving'[j], q) => i = j
    OBVIOUS
  <2>1. PICK k \in DOMAIN saving : k = i + 1 /\ Finalises(saving[k], q)
    BY <1>3
  <2>2. /\ q \in stored \ (photoRows \cup removed)
        /\ \A j \in DOMAIN saving : Finalises(saving[j], q) => k = j
    BY <2>1 DEF FieldInv, FinalisedOnce
  <2>3. \A j \in DOMAIN saving' : Finalises(saving'[j], q) => i = j
    BY <1>3, <2>1, <2>2
  <2> QED
    BY <1>1, <2>2, <2>3
<1>8. FinalisedOnce'
  BY <1>5, <1>6, <1>7 DEF FinalisedOnce, Finalises
<1>9. RemovedStaysAway'
  <2> SUFFICES ASSUME NEW q \in photoRows \cap removed
               PROVE  \E w \in unsure : writes'[w] = [does |-> "finalise", photo |-> q]
    BY <1>1 DEF RemovedStaysAway
  <2>1. unsure \subseteq DOMAIN writes
    BY DEF FieldInv, FieldTypeOK
  <2> QED
    BY <1>2, <2>1 DEF FieldInv, RemovedStaysAway
<1> QED
  BY <1>8, <1>9 DEF PhotoInv

(* Writes that are not saved, and uploads that stop, leave the photos alone. *)
LEMMA PhotosLeft ==
  ASSUME FieldInv, UNCHANGED <<writes, carried, photoRows, stored, removed>>,
         unsure \subseteq unsure',
         upload' \in {None, upload}, saving' \in {saving, Tail(saving), <<>>},
         saving = <<>> => saving' = <<>>
  PROVE  PhotoInv' /\ saving' \in Seq(Writes) /\ Len(saving') <= Len(saving)
<1>1. CASE saving' = <<>>
  <2>1. DOMAIN saving' = {} /\ saving' \in Seq(Writes) /\ Len(saving') <= Len(saving)
    BY <1>1, FieldShapes
  <2>2. FinalisedOnce'
    BY <2>1 DEF FieldInv, FinalisedOnce, SentOut, Finalises
  <2>3. RemovedStaysAway'
    BY DEF FieldInv, RemovedStaysAway
  <2> QED
    BY <2>1, <2>2, <2>3 DEF PhotoInv
<1>2. CASE saving' = saving
  <2>1. FinalisedOnce'
    BY <1>2 DEF FieldInv, FinalisedOnce, SentOut, Finalises
  <2>2. RemovedStaysAway'
    BY DEF FieldInv, RemovedStaysAway
  <2> QED
    BY <1>2, <2>1, <2>2, FieldShapes DEF PhotoInv
<1>3. CASE saving # <<>> /\ saving' = Tail(saving)
  <2>1. /\ saving' \in Seq(Writes) /\ Len(saving') = Len(saving) - 1
        /\ \A i \in DOMAIN saving' : /\ i + 1 \in DOMAIN saving /\ i \in Nat
                                     /\ saving'[i] = saving[i + 1]
    BY <1>3, SavingTaken
  <2>2. /\ photoRows' \cup removed' \subseteq stored'
        /\ upload' # None =>
             /\ upload'.step = "putting" => upload'.photo \notin stored'
             /\ upload'.step = "finalising" =>
                  /\ upload'.photo \in stored' \ (photoRows' \cup removed')
                  /\ \A i \in DOMAIN writes' : ~Finalises(writes'[i], upload'.photo)
                  /\ \A i \in DOMAIN saving' : ~Finalises(saving'[i], upload'.photo)
    BY <2>1 DEF FieldInv, FinalisedOnce
  <2>3. \A q \in Photos, i \in DOMAIN writes' : Finalises(writes'[i], q) =>
          /\ q \in stored' /\ (q \in photoRows' \cup removed' => SentOut(i))
          /\ \A j \in DOMAIN writes' : Finalises(writes'[j], q) => i = j
          /\ \A j \in DOMAIN saving' : ~Finalises(saving'[j], q)
    BY <2>1 DEF FieldInv, FinalisedOnce
  <2>4. \A q \in Photos, i \in DOMAIN saving' : Finalises(saving'[i], q) =>
          /\ q \in stored' \ (photoRows' \cup removed')
          /\ \A j \in DOMAIN saving' : Finalises(saving'[j], q) => i = j
    <3> SUFFICES ASSUME NEW q \in Photos, NEW i \in DOMAIN saving', Finalises(saving'[i], q)
                 PROVE  /\ q \in stored' \ (photoRows' \cup removed')
                        /\ \A j \in DOMAIN saving' : Finalises(saving'[j], q) => i = j
      OBVIOUS
    <3>1. PICK k \in DOMAIN saving : k = i + 1 /\ Finalises(saving[k], q)
      BY <2>1
    <3>2. /\ q \in stored \ (photoRows \cup removed)
          /\ \A j \in DOMAIN saving : Finalises(saving[j], q) => k = j
      BY <3>1 DEF FieldInv, FinalisedOnce
    <3>3. \A j \in DOMAIN saving' : Finalises(saving'[j], q) => i = j
      BY <2>1, <3>1, <3>2
    <3> QED
      BY <3>2, <3>3
  <2>5. FinalisedOnce'
    <3>1. \A i : SentOut(i)' <=> SentOut(i)
      BY DEF SentOut
    <3> QED
      BY <2>2, <2>3, <2>4, <3>1 DEF FinalisedOnce, Finalises
  <2>6. RemovedStaysAway'
    BY DEF FieldInv, RemovedStaysAway
  <2> QED
    BY <2>1, <2>5, <2>6, FieldShapes DEF PhotoInv
<1> QED
  BY <1>1, <1>2, <1>3

(* An upload has the photo to itself until its row is there. *)
LEMMA UploadPhotos ==
  ASSUME FieldInv, NEW p \in Photos, UploadUrl(p)
  PROVE  PhotoInv' /\ upload' \in [step : {"putting", "finalising"}, photo : Photos]
<1>1. /\ upload' = [step |-> "putting", photo |-> p] /\ p \notin stored
      /\ UNCHANGED <<writes, saving, carried, photoRows, stored, removed, unsure>>
  BY DEF UploadUrl, Stage
<1>2. FinalisedOnce'
  BY <1>1 DEF FieldInv, FinalisedOnce, SentOut, Finalises
<1>3. RemovedStaysAway'
  BY <1>1 DEF FieldInv, RemovedStaysAway
<1> QED
  BY <1>1, <1>2, <1>3 DEF PhotoInv

LEMMA PutPhotos ==
  ASSUME FieldInv, PutObject
  PROVE  /\ PhotoInv' /\ stored' \subseteq Photos
         /\ upload' \in [step : {"putting", "finalising"}, photo : Photos]
<1>1. PICK p : p = upload.photo
  OBVIOUS
<1>2. /\ upload # None /\ upload.step = "putting"
      /\ upload' = [step |-> "finalising", photo |-> p] /\ stored' = stored \cup {p}
      /\ UNCHANGED <<writes, saving, carried, photoRows, removed, unsure>>
  BY <1>1 DEF PutObject, Stage
<1>3. p \in Photos /\ p \notin stored
  BY <1>1, <1>2, PhotoShapes DEF FieldInv, FinalisedOnce
<1>4. /\ \A i \in DOMAIN writes : ~Finalises(writes[i], p)
      /\ \A i \in DOMAIN saving : ~Finalises(saving[i], p)
      /\ p \notin photoRows \cup removed
  BY <1>3 DEF FieldInv, FinalisedOnce
<1>5. FinalisedOnce'
  <2>1. /\ photoRows' \cup removed' \subseteq stored'
        /\ upload'.step = "finalising" /\ upload'.photo = p
        /\ upload'.photo \in stored' \ (photoRows' \cup removed')
        /\ \A i \in DOMAIN writes' : ~Finalises(writes'[i], upload'.photo)
        /\ \A i \in DOMAIN saving' : ~Finalises(saving'[i], upload'.photo)
    BY <1>2, <1>4 DEF FieldInv, FinalisedOnce
  <2>2. \A q \in Photos, i \in DOMAIN writes' : Finalises(writes'[i], q) =>
          /\ q \in stored' /\ (q \in photoRows' \cup removed' => SentOut(i))
          /\ \A j \in DOMAIN writes' : Finalises(writes'[j], q) => i = j
          /\ \A j \in DOMAIN saving' : ~Finalises(saving'[j], q)
    BY <1>2 DEF FieldInv, FinalisedOnce
  <2>3. \A q \in Photos, i \in DOMAIN saving' : Finalises(saving'[i], q) =>
          /\ q \in stored' \ (photoRows' \cup removed')
          /\ \A j \in DOMAIN saving' : Finalises(saving'[j], q) => i = j
    BY <1>2 DEF FieldInv, FinalisedOnce
  <2>4. \A i : SentOut(i)' <=> SentOut(i)
    BY <1>2 DEF SentOut
  <2> QED
    BY <2>1, <2>2, <2>3, <2>4 DEF FinalisedOnce, Finalises
<1>6. RemovedStaysAway'
  BY <1>2 DEF FieldInv, RemovedStaysAway
<1> QED
  BY <1>2, <1>3, <1>5, <1>6, PhotoShapes DEF PhotoInv

LEMMA FinalisePhotos ==
  ASSUME FieldInv, Finalise
  PROVE  PhotoInv' /\ photoRows' \subseteq Photos
<1>1. PICK p : p = upload.photo
  OBVIOUS
<1>2. /\ upload # None /\ upload.step = "finalising" /\ upload' = None
      /\ photoRows' = photoRows \cup {p}
      /\ UNCHANGED <<writes, saving, carried, stored, removed, unsure>>
  BY <1>1 DEF Finalise
<1>3. /\ p \in Photos /\ p \in stored \ (photoRows \cup removed)
      /\ \A i \in DOMAIN writes : ~Finalises(writes[i], p)
      /\ \A i \in DOMAIN saving : ~Finalises(saving[i], p)
  BY <1>1, <1>2, PhotoShapes DEF FieldInv, FinalisedOnce
<1>4. FinalisedOnce'
  <2>1. photoRows' \cup removed' \subseteq stored' /\ upload' = None
    BY <1>2, <1>3 DEF FieldInv, FinalisedOnce
  <2>2. \A q \in Photos, i \in DOMAIN writes' : Finalises(writes'[i], q) =>
          /\ q \in stored' /\ (q \in photoRows' \cup removed' => SentOut(i))
          /\ \A j \in DOMAIN writes' : Finalises(writes'[j], q) => i = j
          /\ \A j \in DOMAIN saving' : ~Finalises(saving'[j], q)
    BY <1>2, <1>3 DEF FieldInv, FinalisedOnce
  <2>3. \A q \in Photos, i \in DOMAIN saving' : Finalises(saving'[i], q) =>
          /\ q \in stored' \ (photoRows' \cup removed')
          /\ \A j \in DOMAIN saving' : Finalises(saving'[j], q) => i = j
    BY <1>2, <1>3 DEF FieldInv, FinalisedOnce
  <2>4. \A i : SentOut(i)' <=> SentOut(i)
    BY <1>2 DEF SentOut
  <2> QED
    BY <2>1, <2>2, <2>3, <2>4 DEF FinalisedOnce, Finalises
<1>5. RemovedStaysAway'
  <2>1. photoRows' \cap removed' = photoRows \cap removed
    BY <1>2, <1>3
  <2> QED
    BY <1>2, <2>1 DEF FieldInv, RemovedStaysAway
<1> QED
  BY <1>2, <1>3, <1>4, <1>5, PhotoShapes DEF PhotoInv

LEMMA RemovePhotos ==
  ASSUME FieldInv, NEW p \in Photos, RemovePhoto(p)
  PROVE  PhotoInv' /\ photoRows' \subseteq Photos /\ removed' \subseteq Photos
<1>1. /\ p \in photoRows /\ photoRows' = photoRows \ {p} /\ removed' = removed \cup {p}
      /\ UNCHANGED <<writes, saving, carried, stored, upload, unsure>>
  BY DEF RemovePhoto
<1>2. photoRows' \cup removed' = photoRows \cup removed
  BY <1>1
<1>3. FinalisedOnce'
  <2>1. \A i : SentOut(i)' <=> SentOut(i)
    BY <1>1 DEF SentOut
  <2>2. /\ photoRows' \cup removed' \subseteq stored'
        /\ upload' # None =>
             /\ upload'.step = "putting" => upload'.photo \notin stored'
             /\ upload'.step = "finalising" =>
                  /\ upload'.photo \in stored' \ (photoRows' \cup removed')
                  /\ \A i \in DOMAIN writes' : ~Finalises(writes'[i], upload'.photo)
                  /\ \A i \in DOMAIN saving' : ~Finalises(saving'[i], upload'.photo)
    BY <1>1, <1>2 DEF FieldInv, FinalisedOnce
  <2>3. \A q \in Photos, i \in DOMAIN writes' : Finalises(writes'[i], q) =>
          /\ q \in stored' /\ (q \in photoRows' \cup removed' => SentOut(i))
          /\ \A j \in DOMAIN writes' : Finalises(writes'[j], q) => i = j
          /\ \A j \in DOMAIN saving' : ~Finalises(saving'[j], q)
    BY <1>1, <1>2 DEF FieldInv, FinalisedOnce
  <2>4. \A q \in Photos, i \in DOMAIN saving' : Finalises(saving'[i], q) =>
          /\ q \in stored' \ (photoRows' \cup removed')
          /\ \A j \in DOMAIN saving' : Finalises(saving'[j], q) => i = j
    BY <1>1, <1>2 DEF FieldInv, FinalisedOnce
  <2> QED
    BY <2>1, <2>2, <2>3, <2>4 DEF FinalisedOnce, Finalises
<1>4. RemovedStaysAway'
  <2>1. photoRows' \cap removed' \subseteq photoRows \cap removed
    BY <1>1
  <2> QED
    BY <1>1, <2>1 DEF FieldInv, RemovedStaysAway
<1> QED
  BY <1>1, <1>3, <1>4, PhotoShapes DEF PhotoInv

-----------------------------------------------------------------------------
(* The invariant, step by step. *)

LEMMA FieldStarts ==
  FieldInit => FieldInv
<1> SUFFICES ASSUME FieldInit PROVE FieldInv
  OBVIOUS
<1>1. /\ online = TRUE /\ saving = <<>> /\ writes = <<>> /\ outbox = {}
      /\ drains = NoRequests /\ late = {} /\ carried = <<>> /\ refused = {}
      /\ photoRows = {} /\ stored = {} /\ upload = None /\ removed = {}
      /\ unsure = {} /\ trips = 0
  BY DEF FieldInit
<1>2. /\ Len(writes) = 0 /\ Len(saving) = 0 /\ DOMAIN writes = {} /\ DOMAIN saving = {}
      /\ DOMAIN carried = {}
      /\ writes \in Seq(Writes) /\ saving \in Seq(Writes) /\ carried \in Seq(DOMAIN writes)
  BY <1>1
<1>3. drains \in [Requests -> Drains] /\ \A r \in Requests : drains[r] = Idle
  BY <1>1 DEF NoRequests, Drains
<1>4. FieldTypeOK
  <2>1. Len(writes) + Len(saving) <= MaxWrites /\ trips \in 0..MaxTrips
    BY <1>1, <1>2, FieldAssumption
  <2>2. /\ outbox \subseteq DOMAIN writes /\ late \subseteq DOMAIN writes
        /\ refused \subseteq DOMAIN writes /\ unsure \subseteq DOMAIN writes
        /\ photoRows \subseteq Photos /\ stored \subseteq Photos /\ removed \subseteq Photos
        /\ online \in BOOLEAN
    BY <1>1
  <2>3. upload \in {None} \cup [step : {"putting", "finalising"}, photo : Photos]
    BY <1>1
  <2> QED
    BY <1>2, <1>3, <2>1, <2>2, <2>3 DEF FieldTypeOK
<1>5. ListsInOrder /\ NothingLost
  BY <1>1, <1>2, <1>3 DEF ListsInOrder, NothingLost
<1>6. CarriedInOrder /\ DoubtsKnown
  BY <1>1, <1>2 DEF CarriedInOrder, DoubtsKnown
<1>7. FinalisedOnce /\ RemovedStaysAway
  BY <1>1, <1>2 DEF FinalisedOnce, RemovedStaysAway
<1> QED
  BY <1>4, <1>5, <1>6, <1>7 DEF FieldInv

(* What the type invariant asks, one part of the state at a time. *)
LEMMA FieldParts ==
  ASSUME FieldInv,
         saving' \in Seq(Writes), writes' \in Seq(Writes),
         Len(writes') + Len(saving') <= MaxWrites,
         DOMAIN writes \subseteq DOMAIN writes',
         outbox' \subseteq DOMAIN writes', late' \subseteq DOMAIN writes',
         refused' \subseteq DOMAIN writes', unsure' \subseteq DOMAIN writes',
         carried' \in Seq(DOMAIN writes) \/ carried' = carried,
         drains' \in [Requests -> Drains],
         photoRows' \subseteq Photos, stored' \subseteq Photos, removed' \subseteq Photos,
         upload' \in {None, upload} \cup [step : {"putting", "finalising"}, photo : Photos],
         online' \in BOOLEAN, trips' \in 0..MaxTrips,
         QueueInv', PhotoInv'
  PROVE  FieldInv'
<1>1. PICK S, T : S = DOMAIN writes /\ T = DOMAIN writes'
  OBVIOUS
<1>2. carried' \in Seq(T)
  <2>1. carried' \in Seq(S) /\ S \subseteq T
    BY <1>1, FieldShapes
  <2> QED
    BY <2>1
<1>3. upload' \in {None} \cup [step : {"putting", "finalising"}, photo : Photos]
  BY DEF FieldInv, FieldTypeOK
<1>4. FieldTypeOK'
  BY <1>1, <1>2, <1>3 DEF FieldTypeOK
<1> QED
  BY <1>4 DEF FieldInv, QueueInv, PhotoInv

LEMMA FieldKept ==
  ASSUME FieldInv, [FieldNext]_fieldVars
  PROVE  FieldInv'
<1>1. /\ saving \in Seq(Writes) /\ writes \in Seq(Writes) /\ Len(writes) + Len(saving) <= MaxWrites
      /\ outbox \subseteq DOMAIN writes /\ late \subseteq DOMAIN writes
      /\ refused \subseteq DOMAIN writes /\ unsure \subseteq DOMAIN writes
      /\ drains \in [Requests -> Drains] /\ online \in BOOLEAN /\ trips \in 0..MaxTrips
      /\ photoRows \subseteq Photos /\ stored \subseteq Photos /\ removed \subseteq Photos
      /\ Len(saving) \in Nat /\ Len(writes) \in Nat
  BY FieldShapes DEF FieldInv, FieldTypeOK
<1>2. trips < MaxTrips /\ trips' = trips + 1 => trips' \in 0..MaxTrips
  BY <1>1, FieldAssumption
<1>3. CASE SaveEdit
  <2>1. PICK x : x = [does |-> "edit", photo |-> None]
    OBVIOUS
  <2>2. /\ x \in Writes /\ Save(x) /\ \A p \in Photos : ~Finalises(x, p)
        /\ UNCHANGED <<online, writes, outbox, drains, late, carried, refused, photoRows,
                       stored, upload, removed, unsure, trips>>
    BY <1>3, <2>1 DEF SaveEdit, Writes, Finalises
  <2>3. PhotoInv' /\ saving' \in Seq(Writes) /\ Len(writes') + Len(saving') <= MaxWrites
    BY <2>2, SavingAppended
  <2>4. QueueInv'
    BY <2>2, QueueSame
  <2> QED
    BY <1>1, <2>2, <2>3, <2>4, FieldParts
<1>4. CASE Enqueue
  <2>1. PICK n : n = Len(writes')
    OBVIOUS
  <2>2. /\ saving # <<>> /\ saving' = Tail(saving) /\ writes' = Append(writes, Head(saving))
        /\ outbox' = outbox \cup {n}
        /\ UNCHANGED <<online, drains, late, carried, refused, photoRows, stored, upload,
                       removed, unsure, trips>>
    BY <1>4, <2>1 DEF Enqueue
  <2>3. /\ writes' \in Seq(Writes) /\ n = Len(writes) + 1 /\ DOMAIN writes' = DOMAIN writes \cup {n}
        /\ saving' \in Seq(Writes) /\ Len(saving') = Len(saving) - 1
    BY <2>1, <2>2, WriteAppended, SavingTaken
  <2>4. Len(writes') + Len(saving') <= MaxWrites
    BY <1>1, <2>1, <2>3, FieldAssumption
  <2>5. QueueInv' /\ PhotoInv'
    BY <1>4, EnqueueQueue, EnqueuePhotos
  <2>6. /\ outbox' \subseteq DOMAIN writes' /\ late' \subseteq DOMAIN writes'
        /\ refused' \subseteq DOMAIN writes' /\ unsure' \subseteq DOMAIN writes'
        /\ DOMAIN writes \subseteq DOMAIN writes'
    BY <1>1, <2>2, <2>3
  <2> QED
    BY <1>1, <2>2, <2>3, <2>4, <2>5, <2>6, FieldParts
<1>5. CASE EnqueueFails
  <2>1. /\ saving # <<>> /\ saving' = Tail(saving)
        /\ UNCHANGED <<online, writes, outbox, drains, late, carried, refused, photoRows,
                       stored, upload, removed, unsure, trips>>
    BY <1>5 DEF EnqueueFails
  <2>2. PhotoInv' /\ saving' \in Seq(Writes) /\ Len(saving') <= Len(saving)
    BY <2>1, PhotosLeft
  <2>3. QueueInv'
    BY <2>1, QueueSame
  <2>4. Len(writes') + Len(saving') <= MaxWrites
    <3>1. Len(saving') \in Nat
      BY <2>2
    <3> QED
      BY <1>1, <2>1, <2>2, <3>1, FieldAssumption
  <2> QED
    BY <1>1, <2>1, <2>2, <2>3, <2>4, FieldParts
<1>6. CASE GoOffline
  <2>1. /\ online' = FALSE
        /\ UNCHANGED <<saving, writes, outbox, drains, late, carried, refused, photoRows,
                       stored, upload, removed, unsure, trips>>
    BY <1>6 DEF GoOffline
  <2>2. QueueInv' /\ PhotoInv'
    BY <2>1, QueueSame, PhotosSame
  <2> QED
    BY <1>1, <2>1, <2>2, FieldParts
<1>7. ASSUME NEW r \in Requests, GoOnline(r) PROVE FieldInv'
  <2>1. /\ online' = TRUE /\ Starts(r)
        /\ UNCHANGED <<saving, writes, outbox, late, carried, refused, photoRows, stored,
                       upload, removed>>
    BY <1>7 DEF GoOnline
  <2>2. trips' \in 0..MaxTrips /\ unsure \subseteq unsure'
    BY <1>2, <2>1 DEF Starts
  <2>3. QueueInv' /\ drains' \in [Requests -> Drains] /\ unsure' \subseteq DOMAIN writes
    BY <1>7, OnlineQueue
  <2>4. PhotoInv'
    BY <2>1, <2>2, PhotosSame
  <2> QED
    BY <1>1, <2>1, <2>2, <2>3, <2>4, FieldParts
<1>8. ASSUME NEW r \in Requests, Carried(r) PROVE FieldInv'
  <2>1. PICK e : e = Entry(r)
    OBVIOUS
  <2>2. /\ drains[r].step = "sending" /\ CarryOut(e)
        /\ UNCHANGED <<online, saving, writes, outbox, late, refused, stored, upload, unsure,
                       trips>>
    BY <1>8, <2>1 DEF Carried, Sends
  <2>3. e \in DOMAIN writes /\ (SentOut(e) => e \in unsure)
    BY <2>1, <2>2, EntryIsNext
  <2>4. PhotoInv' /\ photoRows' \subseteq Photos /\ removed' \subseteq Photos
    BY <2>2, <2>3, CarriedPhotos
  <2>5. QueueInv' /\ carried' \in Seq(DOMAIN writes) /\ drains' \in [Requests -> Drains]
    BY <1>8, CarriedQueue
  <2> QED
    BY <1>1, <2>2, <2>4, <2>5, FieldParts
<1>9. ASSUME NEW r \in Requests, Refused(r) PROVE FieldInv'
  <2>1. UNCHANGED <<online, saving, writes, outbox, late, carried, photoRows, stored, upload,
                    removed, unsure, trips>>
    BY <1>9 DEF Refused
  <2>2. QueueInv' /\ drains' \in [Requests -> Drains] /\ refused' \subseteq DOMAIN writes
    BY <1>9, RefusedQueue
  <2>3. PhotoInv'
    BY <2>1, PhotosSame
  <2> QED
    BY <1>1, <2>1, <2>2, <2>3, FieldParts
<1>10. ASSUME NEW r \in Requests, NotCarried(r) PROVE FieldInv'
  <2>1. UNCHANGED <<online, saving, writes, outbox, late, carried, refused, photoRows, stored,
                    upload, removed, unsure, trips>>
    BY <1>10 DEF NotCarried
  <2>2. QueueInv' /\ drains' \in [Requests -> Drains]
    BY <1>10, NotCarriedQueue
  <2>3. PhotoInv'
    BY <2>1, PhotosSame
  <2> QED
    BY <1>1, <2>1, <2>2, <2>3, FieldParts
<1>11. ASSUME NEW r \in Requests, AnswerLost(r) PROVE FieldInv'
  <2>1. PICK e : e = Entry(r)
    OBVIOUS
  <2>2. /\ drains[r].step = "sending" /\ CarryOut(e) /\ unsure' = unsure \cup {e}
        /\ UNCHANGED <<online, saving, writes, outbox, late, refused, stored, upload, trips>>
    BY <1>11, <2>1 DEF AnswerLost, Sends
  <2>3. e \in DOMAIN writes
    BY <2>1, <2>2, EntryIsNext
  <2>4. unsure \subseteq unsure' /\ e \in unsure'
    BY <2>2
  <2>5. PhotoInv' /\ photoRows' \subseteq Photos /\ removed' \subseteq Photos
    BY <2>2, <2>3, <2>4, CarriedPhotos
  <2>6. /\ QueueInv' /\ drains' \in [Requests -> Drains]
        /\ carried' \in Seq(DOMAIN writes) /\ unsure' \subseteq DOMAIN writes
    BY <1>11, AnswerLostQueue
  <2> QED
    BY <1>1, <2>2, <2>5, <2>6, FieldParts
<1>12. ASSUME NEW r \in Requests, RemoveSettled(r) PROVE FieldInv'
  <2>1. UNCHANGED <<online, saving, writes, late, carried, refused, photoRows, stored, upload,
                    removed, unsure, trips>>
    BY <1>12 DEF RemoveSettled
  <2>2. QueueInv' /\ drains' \in [Requests -> Drains] /\ outbox' \subseteq DOMAIN writes
    BY <1>12, RemoveSettledQueue
  <2>3. PhotoInv'
    BY <2>1, PhotosSame
  <2> QED
    BY <1>1, <2>1, <2>2, <2>3, FieldParts
<1>13. ASSUME NEW r \in Requests, RemoveFails(r) PROVE FieldInv'
  <2>1. /\ UNCHANGED <<online, saving, writes, outbox, late, carried, refused, photoRows,
                       stored, upload, removed, trips>>
        /\ unsure \subseteq unsure'
    BY <1>13 DEF RemoveFails
  <2>2. QueueInv' /\ drains' \in [Requests -> Drains] /\ unsure' \subseteq DOMAIN writes
    BY <1>13, RemoveFailsQueue
  <2>3. PhotoInv'
    BY <2>1, PhotosSame
  <2> QED
    BY <1>1, <2>1, <2>2, <2>3, FieldParts
<1>14. ASSUME NEW r \in Requests, Reopen(r) PROVE FieldInv'
  <2>1. /\ trips < MaxTrips /\ trips' = trips + 1 /\ saving' = <<>> /\ upload' = None
        /\ unsure \subseteq unsure'
        /\ UNCHANGED <<online, writes, outbox, carried, refused, photoRows, stored, removed>>
    BY <1>14 DEF Reopen
  <2>2. /\ QueueInv' /\ drains' \in [Requests -> Drains]
        /\ unsure' \subseteq DOMAIN writes /\ late' \subseteq DOMAIN writes
    BY <1>14, ReopenQueue
  <2>3. PhotoInv' /\ saving' \in Seq(Writes)
    BY <2>1, PhotosLeft
  <2>4. Len(writes') + Len(saving') <= MaxWrites
    BY <1>1, <2>1, FieldAssumption
  <2>5. trips' \in 0..MaxTrips
    BY <1>2, <2>1
  <2> QED
    BY <1>1, <2>1, <2>2, <2>3, <2>4, <2>5, FieldParts
<1>15. ASSUME NEW e \in late, LateCarried(e) PROVE FieldInv'
  <2>1. /\ CarryOut(e)
        /\ UNCHANGED <<online, saving, writes, outbox, drains, refused, stored, upload,
                       unsure, trips>>
    BY <1>15 DEF LateCarried
  <2>2. e \in DOMAIN writes /\ e \in unsure
    BY <1>1 DEF FieldInv, DoubtsKnown
  <2>3. PhotoInv' /\ photoRows' \subseteq Photos /\ removed' \subseteq Photos
    BY <2>1, <2>2, CarriedPhotos
  <2>4. QueueInv' /\ carried' \in Seq(DOMAIN writes) /\ late' \subseteq DOMAIN writes
    BY <1>15, LateQueue
  <2> QED
    BY <1>1, <2>1, <2>3, <2>4, FieldParts
<1>16. ASSUME NEW p \in Photos, UploadUrl(p) PROVE FieldInv'
  <2>1. UNCHANGED <<online, saving, writes, outbox, drains, late, carried, refused,
                    photoRows, stored, removed, unsure, trips>>
    BY <1>16 DEF UploadUrl
  <2>2. PhotoInv' /\ upload' \in [step : {"putting", "finalising"}, photo : Photos]
    BY <1>16, UploadPhotos
  <2>3. QueueInv'
    BY <2>1, QueueSame
  <2> QED
    BY <1>1, <2>1, <2>2, <2>3, FieldParts
<1>17. CASE PutObject
  <2>1. UNCHANGED <<online, saving, writes, outbox, drains, late, carried, refused,
                    photoRows, removed, unsure, trips>>
    BY <1>17 DEF PutObject
  <2>2. /\ PhotoInv' /\ stored' \subseteq Photos
        /\ upload' \in [step : {"putting", "finalising"}, photo : Photos]
    BY <1>17, PutPhotos
  <2>3. QueueInv'
    BY <2>1, QueueSame
  <2> QED
    BY <1>1, <2>1, <2>2, <2>3, FieldParts
<1>18. CASE UploadFails
  <2>1. /\ upload' = None
        /\ UNCHANGED <<online, saving, writes, outbox, drains, late, carried, refused,
                       photoRows, stored, removed, unsure, trips>>
    BY <1>18 DEF UploadFails
  <2>2. PhotoInv'
    BY <2>1, PhotosLeft
  <2>3. QueueInv'
    BY <2>1, QueueSame
  <2> QED
    BY <1>1, <2>1, <2>2, <2>3, FieldParts
<1>19. CASE Finalise
  <2>1. /\ upload' = None
        /\ UNCHANGED <<online, saving, writes, outbox, drains, late, carried, refused, stored,
                       removed, unsure, trips>>
    BY <1>19 DEF Finalise
  <2>2. PhotoInv' /\ photoRows' \subseteq Photos
    BY <1>19, FinalisePhotos
  <2>3. QueueInv'
    BY <2>1, QueueSame
  <2> QED
    BY <1>1, <2>1, <2>2, <2>3, FieldParts
<1>20. CASE FinaliseQueued
  <2>1. PICK x : x = [does |-> "finalise", photo |-> upload.photo]
    OBVIOUS
  <2>2. /\ upload # None /\ upload.step = "finalising" /\ upload' = None /\ Save(x)
        /\ UNCHANGED <<online, writes, outbox, drains, late, carried, refused, photoRows,
                       stored, removed, unsure, trips>>
    BY <1>20, <2>1 DEF FinaliseQueued
  <2>3. x \in Writes /\ \A p \in Photos : Finalises(x, p) => upload.photo = p
    BY <2>1, <2>2, PhotoShapes DEF Writes, Finalises
  <2>4. PhotoInv' /\ saving' \in Seq(Writes) /\ Len(writes') + Len(saving') <= MaxWrites
    BY <2>2, <2>3, SavingAppended
  <2>5. QueueInv'
    BY <2>2, QueueSame
  <2> QED
    BY <1>1, <2>2, <2>4, <2>5, FieldParts
<1>21. ASSUME NEW p \in Photos, RemovePhoto(p) PROVE FieldInv'
  <2>1. UNCHANGED <<online, saving, writes, outbox, drains, late, carried, refused, stored,
                    upload, unsure, trips>>
    BY <1>21 DEF RemovePhoto
  <2>2. PhotoInv' /\ photoRows' \subseteq Photos /\ removed' \subseteq Photos
    BY <1>21, RemovePhotos
  <2>3. QueueInv'
    BY <2>1, QueueSame
  <2> QED
    BY <1>1, <2>1, <2>2, <2>3, FieldParts
<1>22. ASSUME NEW p \in Photos, RemoveQueued(p) PROVE FieldInv'
  <2>1. PICK x : x = [does |-> "remove", photo |-> p]
    OBVIOUS
  <2>2. /\ Save(x)
        /\ UNCHANGED <<online, writes, outbox, drains, late, carried, refused, photoRows,
                       stored, upload, removed, unsure, trips>>
    BY <1>22, <2>1 DEF RemoveQueued
  <2>3. x \in Writes /\ \A q \in Photos : ~Finalises(x, q)
    BY <2>1 DEF Writes, Finalises
  <2>4. PhotoInv' /\ saving' \in Seq(Writes) /\ Len(writes') + Len(saving') <= MaxWrites
    BY <2>2, <2>3, SavingAppended
  <2>5. QueueInv'
    BY <2>2, QueueSame
  <2> QED
    BY <1>1, <2>2, <2>4, <2>5, FieldParts
<1>23. CASE UNCHANGED fieldVars
  <2>1. UNCHANGED <<online, saving, writes, outbox, drains, late, carried, refused, photoRows,
                    stored, upload, removed, unsure, trips>>
    BY <1>23 DEF fieldVars
  <2>2. QueueInv' /\ PhotoInv'
    BY <2>1, QueueSame, PhotosSame
  <2> QED
    BY <1>1, <2>1, <2>2, FieldParts
<1> QED
  BY <1>3, <1>4, <1>5, <1>6, <1>7, <1>8, <1>9, <1>10, <1>11, <1>12, <1>13, <1>14, <1>15,
     <1>16, <1>17, <1>18, <1>19, <1>20, <1>21, <1>22, <1>23 DEF FieldNext

LEMMA FieldAlwaysInv ==
  FieldSpec => []FieldInv
<1>1. FieldInv /\ [FieldNext]_fieldVars => FieldInv'
  BY FieldKept
<1> QED
  BY <1>1, FieldStarts, PTL DEF FieldSpec

LEMMA TimesCounts ==
  ASSUME FieldInv, NEW w
  PROVE  /\ Times(w) > 0 <=> SentOut(w)
         /\ Times(w) > 1 => \E k, l \in DOMAIN carried : k # l /\ carried[k] = w /\ carried[l] = w
<1>1. PICK S : S = {k \in DOMAIN carried : carried[k] = w}
  OBVIOUS
<1>2. IsFiniteSet(S) /\ Cardinality(S) \in Nat /\ Times(w) = Cardinality(S)
  <2>1. Len(carried) \in Nat /\ S \subseteq 1..Len(carried)
    BY <1>1, FieldShapes
  <2>2. IsFiniteSet(1..Len(carried))
    BY <2>1, FS_Interval
  <2>3. IsFiniteSet(S)
    BY <2>1, <2>2, FS_Subset
  <2> QED
    BY <1>1, <2>3, FS_CardinalityType DEF Times
<1>3. Cardinality(S) = 0 <=> S = {}
  BY <1>2, FS_EmptySet
<1>4. Times(w) > 0 <=> SentOut(w)
  BY <1>1, <1>2, <1>3 DEF SentOut
<1>5. ASSUME Times(w) > 1
      PROVE  \E k, l \in DOMAIN carried : k # l /\ carried[k] = w /\ carried[l] = w
  <2>1. PICK k \in S : TRUE
    BY <1>2, <1>3, <1>5
  <2>2. S # {k}
    BY <1>2, <1>5, FS_Singleton
  <2> QED
    BY <1>1, <2>1, <2>2
<1> QED
  BY <1>4, <1>5

LEMMA FirstSent ==
  ASSUME FieldInv, NEW w, SentOut(w)
  PROVE  /\ First(w) \in DOMAIN carried /\ carried[First(w)] = w
         /\ \A l \in DOMAIN carried : carried[l] = w => First(w) <= l
<1>1. PICK S : S = {k \in DOMAIN carried : carried[k] = w}
  OBVIOUS
<1>2. S # {} /\ S \subseteq 1..Len(carried) /\ Len(carried) \in Nat
      /\ DOMAIN carried = 1..Len(carried)
  BY <1>1, FieldShapes DEF SentOut
<1>3. PICK k \in S : \A l \in S : k <= l
  BY <1>2, Least
<1>4. k \in DOMAIN carried /\ carried[k] = w /\ \A l \in 1..(k - 1) : carried[l] # w
  <2>1. ASSUME NEW l \in 1..(k - 1), carried[l] = w PROVE FALSE
    <3>1. l \in S /\ l < k
      BY <1>1, <1>2, <2>1
    <3> QED
      BY <1>2, <1>3, <3>1
  <2> QED
    BY <1>1, <2>1
<1>5. First(w) \in DOMAIN carried /\ carried[First(w)] = w
      /\ \A l \in 1..(First(w) - 1) : carried[l] # w
  BY <1>4 DEF First
<1> QED
  BY <1>2, <1>5

LEMMA FieldInvSound ==
  FieldInv => FieldWorkSound
<1> SUFFICES ASSUME FieldInv PROVE FieldWorkSound
  OBVIOUS
<1>1. \A w : Times(w) > 0 <=> SentOut(w)
  BY TimesCounts
<1>2. OutboxLosesNothing
  BY <1>1 DEF FieldInv, NothingLost, DealtWith, OutboxLosesNothing
<1>3. SentInOrder
  <2> SUFFICES ASSUME NEW v \in DOMAIN writes, NEW w \in DOMAIN writes,
                      v < w, SentOut(w), v \notin refused
               PROVE  SentOut(v) /\ First(v) < First(w)
    BY <1>1 DEF SentInOrder
  <2>1. First(w) \in DOMAIN carried /\ carried[First(w)] = w
    BY FirstSent
  <2>2. PICK l \in DOMAIN carried : l < First(w) /\ carried[l] = v
    BY <2>1 DEF FieldInv, CarriedInOrder
  <2>3. SentOut(v)
    BY <2>2 DEF SentOut
  <2>4. First(v) \in DOMAIN carried /\ First(v) <= l
    BY <2>2, <2>3, FirstSent
  <2> QED
    BY <2>1, <2>2, <2>3, <2>4, FieldShapes
<1>4. SentOnce
  <2> SUFFICES ASSUME NEW w \in DOMAIN writes, Times(w) > 1 PROVE w \in unsure
    BY DEF SentOnce
  <2>1. PICK k, l \in DOMAIN carried : k # l /\ carried[k] = w /\ carried[l] = w
    BY TimesCounts
  <2> QED
    BY <2>1 DEF FieldInv, DoubtsKnown
<1>5. OutboxMoves
  <2> SUFFICES ASSUME outbox # {}, \A r \in Requests : drains[r] = Idle, NEW w, w = Min(outbox),
                      writes[w].does = "finalise", writes[w].photo \in photoRows
               PROVE  w \in unsure
    BY DEF OutboxMoves
  <2>1. outbox \subseteq 1..Len(writes) /\ Len(writes) \in Nat
    BY FieldShapes
  <2>2. PICK k \in outbox : \A v \in outbox : k <= v
    BY <2>1, Least
  <2>3. w \in outbox
    BY <2>1, <2>2 DEF Min
  <2>4. Finalises(writes[w], writes[w].photo) /\ w \in DOMAIN writes /\ writes[w].photo \in Photos
    BY <2>3, FieldShapes, PhotoShapes DEF Finalises
  <2>5. SentOut(w)
    BY <2>4 DEF FieldInv, FinalisedOnce
  <2>6. \A r \in Requests : drains[r].step # "settled"
    BY DEF Idle
  <2> QED
    BY <2>3, <2>5, <2>6 DEF FieldInv, DoubtsKnown
<1>6. PhotoHasBytes
  BY DEF FieldInv, FinalisedOnce, PhotoHasBytes
<1>7. RemovedStaysAway
  BY DEF FieldInv
<1> QED
  BY <1>2, <1>3, <1>4, <1>5, <1>6, <1>7 DEF FieldWorkSound

(* What a technician does without a network arrives, in order and once:     *)
(* nothing that was promised is lost, writes are first carried out in the   *)
(* order they were made, one is carried out twice only where the drains     *)
(* overlap or an answer is not heard, and a photo on record has its bytes.  *)
THEOREM FieldWorkAlwaysSound ==
  FieldSpec => []FieldWorkSound
<1> QED
  BY FieldAlwaysInv, FieldInvSound, PTL

-----------------------------------------------------------------------------
(* The back office: a behaviour of it is one of each component.             *)

LEMMA ComponentsRun ==
  /\ MCSpec => CollectionsSpec /\ PaymentRetriesSpec /\ DispatchSpec /\ MembershipsSpec
  /\ MCSpec => HubSpec /\ PricingSpec /\ SupplierSpec /\ IntakeSpec /\ VoiceSpec
  /\ MCSpec => FieldSpec /\ EditorSpec /\ ScreenSpec /\ PushSpec
<1>1. MCInit =>
        /\ CollectionsInit /\ PaymentRetriesInit /\ DispatchInit /\ MembershipsInit
        /\ HubInit /\ PricingInit /\ SupplierInit /\ IntakeInit /\ VoiceInit
        /\ FieldInit /\ EditorInit /\ ScreenInit /\ PushInit
  BY DEF MCInit
<1>2. [MCNext]_backOfficeVars =>
        /\ [CollectionsNext]_collectionsVars /\ [PaymentRetriesNext]_retriesVars
        /\ [DispatchNext]_dispatchVars /\ [MembershipsNext]_membershipsVars
        /\ [HubNext]_hubVars /\ [PricingNext]_pricingVars /\ [SupplierNext]_supplierVars
        /\ [IntakeNext]_intakeVars /\ [VoiceNext]_voiceVars
        /\ [FieldNext]_fieldVars /\ [EditorNext]_editorVars /\ [ScreenNext]_screenVars
        /\ [PushNext]_pushVars
  BY DEF MCNext, backOfficeVars
<1> QED
  BY <1>1, <1>2, PTL DEF MCSpec, CollectionsSpec, PaymentRetriesSpec, DispatchSpec,
     MembershipsSpec, HubSpec, PricingSpec, SupplierSpec, IntakeSpec, VoiceSpec,
     FieldSpec, EditorSpec, ScreenSpec, PushSpec

(* Components leave each other's decisions and records alone.               *)
LEMMA NothingDecided ==
  /\ UNCHANGED pricingVars => DecidedOnce /\ PublishedPricesStand
  /\ UNCHANGED membershipsVars => RevokedKeepsOut
  /\ UNCHANGED dispatchVars => FinishedJobsStay /\ RejectedStaysRejected
                               /\ ApprovalTakesNobodysJob
  /\ UNCHANGED intakeVars => TriageStands /\ DeletedStaysQuiet
  /\ UNCHANGED hubVars => ClosedMonthStands /\ EditsOneField
  /\ UNCHANGED supplierVars => ReferenceStands
<1>1. UNCHANGED pricingVars => DecidedOnce /\ PublishedPricesStand
  BY DEF pricingVars, DecidedOnce, PublishedPricesStand
<1>2. UNCHANGED membershipsVars => RevokedKeepsOut
  BY DEF membershipsVars, RevokedKeepsOut
<1>3. UNCHANGED dispatchVars => FinishedJobsStay /\ RejectedStaysRejected
                               /\ ApprovalTakesNobodysJob
  BY DEF dispatchVars, FinishedJobsStay, RejectedStaysRejected, ApprovalTakesNobodysJob
<1>4. UNCHANGED intakeVars => TriageStands /\ DeletedStaysQuiet
  BY DEF intakeVars, TriageStands, DeletedStaysQuiet
<1>5. UNCHANGED hubVars => ClosedMonthStands /\ EditsOneField
  <2> SUFFICES ASSUME UNCHANGED hubVars PROVE ClosedMonthStands /\ EditsOneField
    OBVIOUS
  <2>1. UNCHANGED <<credits, payPlans>>
    BY DEF hubVars
  <2>2. \A u, month : RowsOf(u, month)' = RowsOf(u, month)
    BY <2>1 DEF RowsOf
  <2>3. \A u, month : Commission(u, month)' = Commission(u, month)
    BY <2>2 DEF Commission
  <2> QED
    BY <2>1, <2>3 DEF ClosedMonthStands, EditsOneField
<1>6. UNCHANGED supplierVars => ReferenceStands
  BY DEF supplierVars, ReferenceStands
<1> QED
  BY <1>1, <1>2, <1>3, <1>4, <1>5, <1>6

(* What is owed is asked for as the rows say: reminders of overdue invoices *)
(* and payments that are tried again (ai-collections, collections-routes).  *)
THEOREM ReceivablesAlwaysSound == MCSpec => []ReceivablesSound
<1>1. RemindersSound /\ RetriesSound => ReceivablesSound
  BY DEF ReceivablesSound
<1> QED
  BY <1>1, ComponentsRun, RemindersAlwaysSound, RetriesAlwaysSound, PTL

(* What pages show of the server's rows, and what they send on what they    *)
(* show, is right once they have heard of it (QuoteBuilder,                 *)
(* MobileQuoteBuilder, DispatchBoard).                                      *)
THEOREM PagesAlwaysSound == MCSpec => []PagesSound
<1>1. EditorSound /\ BoardShowsRow => PagesSound
  BY DEF PagesSound
<1> QED
  BY <1>1, ComponentsRun, EditorAlwaysSound, ScreenAlwaysShowsRow, PTL

(* What somebody decided or finished is not undone by a request that read   *)
(* the rows before, whichever component it belongs to.                      *)
THEOREM DecisionsAlwaysStand == MCSpec => DecisionsStand
<1>1. /\ [PublishedPricesStand /\ DecidedOnce]_pricingVars
      /\ [RevokedKeepsOut]_membershipsVars
      /\ [FinishedJobsStay /\ ApprovalTakesNobodysJob /\ RejectedStaysRejected]_dispatchVars
      /\ [TriageStands /\ DeletedStaysQuiet]_intakeVars
      => [/\ RejectedStaysRejected /\ DecidedOnce /\ RevokedKeepsOut
          /\ FinishedJobsStay /\ TriageStands]_backOfficeVars
  BY NothingDecided
<1> QED
  BY <1>1, ComponentsRun, PricesAlwaysStand, RevokedAlwaysKeptOut, BoardAlwaysStands,
     IntakeAlwaysStands, PTL DEF DecisionsStand

(* What others already rely on is not rewritten by a late or overlapping    *)
(* write.                                                                   *)
THEOREM RecordsAlwaysStand == MCSpec => RecordsStand
<1>1. /\ [PublishedPricesStand /\ DecidedOnce]_pricingVars
      /\ [FinishedJobsStay /\ ApprovalTakesNobodysJob /\ RejectedStaysRejected]_dispatchVars
      /\ [TriageStands /\ DeletedStaysQuiet]_intakeVars
      /\ [ClosedMonthStands /\ EditsOneField]_hubVars
      /\ [ReferenceStands]_supplierVars
      => [/\ ClosedMonthStands /\ PublishedPricesStand /\ ReferenceStands /\ EditsOneField
          /\ ApprovalTakesNobodysJob /\ DeletedStaysQuiet]_backOfficeVars
  BY NothingDecided
<1> QED
  BY <1>1, ComponentsRun, PricesAlwaysStand, BoardAlwaysStands, IntakeAlwaysStands,
     ClosedMonthsAlwaysStand, ReferenceAlwaysStands, PTL DEF RecordsStand

(* What a technician's telephone was promised happens: the writes in its    *)
(* outbox and its photos, and its subscription to push messages             *)
(* (offline-queue, JobPhotos, PushSubscribe).                               *)
THEOREM TelephoneAlwaysSound == MCSpec => []TelephoneSound
<1>1. FieldWorkSound /\ PushSound => TelephoneSound
  BY DEF TelephoneSound
<1> QED
  BY <1>1, ComponentsRun, FieldWorkAlwaysSound, PushAlwaysSound, PTL

FocusOK ==
  focus \in {"collections", "retries", "dispatch", "memberships", "hub", "pricing",
             "supplier", "intake", "voice", "field", "editor", "screen", "push"}

(* Whatever component runs, its rows and requests are ones the code can     *)
(* produce.                                                                 *)
THEOREM BackOfficeTypeAlwaysOK == MCSpec => []BackOfficeTypeOK
<1>1. /\ CollectionsInv => CollectionsTypeOK
      /\ RetriesInv => PaymentRetriesTypeOK
      /\ DispatchInv => DispatchTypeOK
      /\ MembershipsInv => MembershipsTypeOK
      /\ HubInv => HubTypeOK
      /\ PricingInv => PricingTypeOK
      /\ SupplierInv => SupplierTypeOK
  BY DEF CollectionsInv, CollectionsTypeInv, RetriesInv, RetriesTypeInv, DispatchInv,
     MembershipsInv, MembershipsTypeInv, HubInv, AdminInv, PricingInv, SupplierInv
<1>2. /\ IntakeInv => IntakeTypeOK
      /\ VoiceInv => VoiceTypeOK
      /\ FieldInv => FieldTypeOK
      /\ EditorInv => EditorTypeOK
      /\ ScreenInv => ScreenTypeOK
      /\ PushInv => PushTypeOK
  BY DEF IntakeInv, VoiceInv, FieldInv, EditorInv, ScreenInv, PushInv
<1>3. MCSpec => [](CollectionsTypeOK /\ PaymentRetriesTypeOK)
  BY <1>1, ComponentsRun, CollectionsInitInv, CollectionsStepInv, RetriesInitInv,
     RetriesStepInv, PTL DEF CollectionsSpec, PaymentRetriesSpec
<1>4. MCSpec => [](DispatchTypeOK /\ MembershipsTypeOK /\ HubTypeOK)
  BY <1>1, ComponentsRun, DispatchInitInv, DispatchStepInv, MembershipsInitInv,
     MembershipsStepInv, HubInitInv, HubStepInv, PTL DEF DispatchSpec, MembershipsSpec, HubSpec
<1>5. MCSpec => [](PricingTypeOK /\ SupplierTypeOK)
  BY <1>1, ComponentsRun, PricingInitInv, PricingStepInv, SupplierInitInv,
     SupplierStepInv, PTL DEF PricingSpec, SupplierSpec
<1>6. MCSpec => [](IntakeTypeOK /\ VoiceTypeOK /\ FieldTypeOK)
  BY <1>2, ComponentsRun, IntakeInitInv, IntakeStepInv, VoiceInitInv, VoiceStepInv,
     FieldAlwaysInv, PTL DEF IntakeSpec, VoiceSpec
<1>7. MCSpec => [](EditorTypeOK /\ ScreenTypeOK /\ PushTypeOK)
  BY <1>2, ComponentsRun, EditorInitInv, EditorStepInv, ScreenInitInv, ScreenStepInv,
     PushInitInv, PushStepInv, PTL DEF EditorSpec, ScreenSpec, PushSpec
<1>8. MCSpec => []FocusOK
  <2>1. MCInit => FocusOK
    BY ComponentsAssumption DEF ComponentsAssumption, MCInit, FocusOK
  <2>2. FocusOK /\ [MCNext]_backOfficeVars => FocusOK'
    BY DEF FocusOK, MCNext, backOfficeVars
  <2> QED
    BY <2>1, <2>2, PTL DEF MCSpec
<1>9. /\ CollectionsTypeOK /\ PaymentRetriesTypeOK
      /\ DispatchTypeOK /\ MembershipsTypeOK /\ HubTypeOK
      /\ PricingTypeOK /\ SupplierTypeOK
      /\ IntakeTypeOK /\ VoiceTypeOK /\ FieldTypeOK
      /\ EditorTypeOK /\ ScreenTypeOK /\ PushTypeOK /\ FocusOK
      => BackOfficeTypeOK
  BY DEF BackOfficeTypeOK, FocusOK
<1> QED
  BY <1>3, <1>4, <1>5, <1>6, <1>7, <1>8, <1>9, PTL
=============================================================================
