--------------------------- MODULE Office_proofs ---------------------------
(***************************************************************************)
(* Invitations, the price list, the supplier's client, the voice agent,     *)
(* corporate administration, the dispatcher and intake: each with its       *)
(* inductive invariant, its safety properties and what its steps leave      *)
(* alone, for any people, branches, templates and documents and any bounds. *)
(***************************************************************************)
EXTENDS Receivables_proofs, Memberships, Pricing, SupplierClient, VoiceCall,
        CorporateHub, Dispatch, Intake, FiniteSums

-----------------------------------------------------------------------------
(* Memberships.                                                             *)

(* A request works on an invitation that exists; a member who was not       *)
(* seeded is the one an invitation names, in the scope it names.            *)
GuestsOnRows ==
  \A r \in Requests : guest[r] # Idle => guest[r].row \in DOMAIN invitations

Granted ==
  /\ Len(Founders) <= Len(members)
  /\ \A k \in DOMAIN members :
       IF k <= Len(Founders) THEN members[k].invitation = 0
       ELSE \E i \in DOMAIN invitations : members[k] = GrantedBy(i)

MembershipsTypeInv == MembershipsTypeOK /\ GuestsOnRows /\ Granted

LEMMA SeqSubset ==
  ASSUME NEW S, NEW T, S \subseteq T, NEW s \in Seq(S)
  PROVE  s \in Seq(T)
<1>1. s \in [1..Len(s) -> S] /\ Len(s) \in Nat
  OBVIOUS
<1>2. s \in [1..Len(s) -> T]
  BY <1>1
<1> QED
  BY <1>1, <1>2

LEMMA GuestShapes ==
  ASSUME NEW g \in GuestStates
  PROVE  /\ g # Idle => g.row \in 1..MaxInvites
         /\ g.step \in {"redeeming", "revoking"} <=> g # Idle
  BY DEF GuestStates, Idle

LEMMA MembershipsInitType == MembershipsInit => MembershipsTypeInv
<1> SUFFICES ASSUME MembershipsInit PROVE MembershipsTypeInv
  OBVIOUS
<1>1. /\ MaxInvites \in Nat
      /\ Founders \in Seq([user : People, scope : Scopes, invitation : {0}])
  BY MembershipsAssumption DEF MembershipsAssumption
<1>2. members \in Seq(Memberships)
  <2>1. \A m \in [user : People, scope : Scopes, invitation : {0}] :
          m \in Memberships
    BY <1>1 DEF Memberships
  <2>2. Founders \in Seq(Memberships)
    BY <1>1, <2>1, SeqSubset
  <2> QED
    BY <2>2 DEF MembershipsInit
<1>3. \A k \in DOMAIN members : k <= Len(Founders) /\ members[k].invitation = 0
  <2>1. PICK S : S = [user : People, scope : Scopes, invitation : {0}]
    OBVIOUS
  <2>2. Founders \in Seq(S) /\ \A m \in S : m.invitation = 0
    BY <1>1, <2>1
  <2>3. members \in Seq(S) /\ Len(members) = Len(Founders)
    BY <2>2 DEF MembershipsInit
  <2>4. \A k \in DOMAIN members : members[k] \in S /\ k <= Len(members)
    BY <2>3
  <2> QED
    BY <2>2, <2>3, <2>4
<1>4. invitations \in Seq(InvitationRows) /\ Len(invitations) = 0
  BY DEF MembershipsInit
<1>5. \A r \in Requests : guest[r] = Idle
  BY DEF MembershipsInit, NoRequests
<1>6. guest \in [Requests -> GuestStates]
  BY DEF MembershipsInit, NoRequests, GuestStates
<1>7. Len(Founders) <= Len(members)
  BY <1>1 DEF MembershipsInit
<1>8. raced \subseteq DOMAIN invitations
  BY DEF MembershipsInit
<1> QED
  BY <1>1, <1>2, <1>3, <1>4, <1>5, <1>6, <1>7, <1>8
     DEF MembershipsTypeInv, MembershipsTypeOK, GuestsOnRows, Granted,
         Invitations

(* Invitations are only appended, with nothing marked, and marked.          *)
Marked(i) ==
  /\ invitations'[i].email = invitations[i].email
  /\ invitations'[i].scope = invitations[i].scope
  /\ invitations'[i].inviter = invitations[i].inviter

LEMMA InvitationsGrow ==
  ASSUME MembershipsTypeInv, MembershipsNext
  PROVE  /\ invitations' \in Seq(InvitationRows)
         /\ Len(invitations') <= MaxInvites
         /\ DOMAIN invitations \subseteq DOMAIN invitations'
         /\ \A i \in DOMAIN invitations : Marked(i)
         /\ \A i \in DOMAIN invitations' \ DOMAIN invitations :
              \E p \in People, target \in [role : OfficeRoles, office : Offices],
                 email \in People :
                /\ CreateInvite(p, target, email)
                /\ invitations'[i].inviter = p /\ invitations'[i].scope = target
                /\ ~invitations'[i].redeemed
<1>1. /\ invitations \in Seq(InvitationRows) /\ MaxInvites \in Nat
      /\ Len(invitations) <= MaxInvites
      /\ guest \in [Requests -> GuestStates]
  BY MembershipsAssumption
     DEF MembershipsAssumption, MembershipsTypeInv, MembershipsTypeOK
<1> DEFINE Goal == /\ invitations' \in Seq(InvitationRows)
                   /\ Len(invitations') <= MaxInvites
                   /\ DOMAIN invitations \subseteq DOMAIN invitations'
                   /\ \A i \in DOMAIN invitations : Marked(i)
                   /\ \A i \in DOMAIN invitations' \ DOMAIN invitations :
                        \E p \in People,
                           target \in [role : OfficeRoles, office : Offices],
                           email \in People :
                          /\ CreateInvite(p, target, email)
                          /\ invitations'[i].inviter = p
                          /\ invitations'[i].scope = target
                          /\ ~invitations'[i].redeemed
<1>2. CASE UNCHANGED invitations
  BY <1>1, <1>2 DEF Marked
<1>3. ASSUME NEW p \in People, NEW email \in People, NEW role \in OfficeRoles,
             NEW o \in Offices, CreateInvite(p, [role |-> role, office |-> o], email)
      PROVE  Goal
  <2>1. PICK target \in [role : OfficeRoles, office : Offices] :
          target = [role |-> role, office |-> o]
    OBVIOUS
  <2>2. PICK row \in InvitationRows :
          row = [email |-> email, scope |-> target, inviter |-> p,
                 expired |-> FALSE, redeemed |-> FALSE, revoked |-> FALSE]
    BY DEF InvitationRows
  <2>3. invitations' = Append(invitations, row) /\ Len(invitations) < MaxInvites
    BY <1>3, <2>1, <2>2 DEF CreateInvite
  <2>4. /\ invitations' \in Seq(InvitationRows)
        /\ Len(invitations') = Len(invitations) + 1
        /\ DOMAIN invitations' = DOMAIN invitations \cup {Len(invitations) + 1}
        /\ \A i \in DOMAIN invitations : invitations'[i] = invitations[i]
        /\ invitations'[Len(invitations) + 1] = row
    BY <1>1, <2>3, AppendRow
  <2>5. /\ row.inviter = p /\ row.scope = target /\ ~row.redeemed
        /\ CreateInvite(p, target, email)
    BY <1>3, <2>1, <2>2
  <2>6. Len(invitations') <= MaxInvites
    BY <1>1, <2>3, <2>4
  <2> QED
    BY <2>4, <2>5, <2>6 DEF Marked
<1>4. ASSUME NEW i \in DOMAIN invitations, NEW row \in InvitationRows,
             invitations' = [invitations EXCEPT ![i] = row],
             /\ row.email = invitations[i].email
             /\ row.scope = invitations[i].scope
             /\ row.inviter = invitations[i].inviter
      PROVE  Goal
  <2>1. /\ invitations' \in Seq(InvitationRows)
        /\ Len(invitations') = Len(invitations)
        /\ DOMAIN invitations' = DOMAIN invitations
        /\ \A j \in DOMAIN invitations :
             invitations'[j] = IF j = i THEN row ELSE invitations[j]
    BY <1>1, <1>4, ChangeRow
  <2> QED
    BY <1>1, <1>4, <2>1 DEF Marked
<1>5. \A i \in DOMAIN invitations :
        /\ invitations[i] \in InvitationRows
        /\ [invitations[i] EXCEPT !.expired = TRUE] \in InvitationRows
        /\ [invitations[i] EXCEPT !.redeemed = TRUE] \in InvitationRows
        /\ [invitations[i] EXCEPT !.revoked = TRUE] \in InvitationRows
  <2> TAKE i \in DOMAIN invitations
  <2>1. invitations[i] \in InvitationRows
    BY <1>1
  <2> QED
    BY <2>1 DEF InvitationRows
<1>6. ASSUME NEW i \in DOMAIN invitations, InviteExpires(i)
      PROVE  Goal
  <2>1. invitations' = [invitations EXCEPT ![i] =
                          [invitations[i] EXCEPT !.expired = TRUE]]
    BY <1>6 DEF InviteExpires
  <2> QED
    BY <1>4, <1>5, <2>1 DEF InvitationRows
<1>7. ASSUME NEW r \in Requests, RevokeInviteWrite(r)
      PROVE  Goal
  <2>1. PICK i \in DOMAIN invitations : i = guest[r].row
    BY <1>1, <1>7, GuestShapes
       DEF RevokeInviteWrite, MembershipsTypeInv, GuestsOnRows
  <2>2. invitations' = [invitations EXCEPT ![i] =
                          [invitations[i] EXCEPT !.revoked = TRUE]]
    BY <1>7, <2>1 DEF RevokeInviteWrite
  <2> QED
    BY <1>4, <1>5, <2>2 DEF InvitationRows
<1>8. ASSUME NEW r \in Requests, RedeemWrite(r)
      PROVE  Goal
  <2>1. PICK i \in DOMAIN invitations : i = guest[r].row
    BY <1>1, <1>8, GuestShapes
       DEF RedeemWrite, MembershipsTypeInv, GuestsOnRows
  <2>2. invitations' = [invitations EXCEPT ![i] =
                          [invitations[i] EXCEPT !.redeemed = TRUE]]
    BY <1>8, <2>1 DEF RedeemWrite
  <2> QED
    BY <1>4, <1>5, <2>2 DEF InvitationRows
<1>9. \/ UNCHANGED invitations
      \/ \E p, email \in People, role \in OfficeRoles, o \in Offices :
           CreateInvite(p, [role |-> role, office |-> o], email)
      \/ \E i \in DOMAIN invitations : InviteExpires(i)
      \/ \E r \in Requests : RevokeInviteWrite(r) \/ RedeemWrite(r)
  BY DEF MembershipsNext, Invitations, RevokeInviteRead, RedeemRead,
         RedeemRefused, GuestStops
<1>10. CASE \E p, email \in People, role \in OfficeRoles, o \in Offices :
              CreateInvite(p, [role |-> role, office |-> o], email)
  <2>1. PICK p \in People, email \in People, role \in OfficeRoles, o \in Offices :
          CreateInvite(p, [role |-> role, office |-> o], email)
    BY <1>10
  <2> QED
    BY <1>3, <2>1
<1>11. CASE \E i \in DOMAIN invitations : InviteExpires(i)
  BY <1>6, <1>11
<1>12. CASE \E r \in Requests : RevokeInviteWrite(r) \/ RedeemWrite(r)
  BY <1>7, <1>8, <1>12
<1>13. Goal
  BY <1>2, <1>9, <1>10, <1>11, <1>12
<1> QED
  BY <1>13 DEF Goal

-----------------------------------------------------------------------------
(* What each step does to the members and the requests in flight. *)

LEMMA MembersChange ==
  ASSUME MembershipsTypeInv, MembershipsNext
  PROVE  \/ UNCHANGED members
         \/ \E r \in Requests :
              /\ RedeemWrite(r)
              /\ guest[r] # Idle /\ guest[r].row \in DOMAIN invitations
              /\ members' \in Seq(Memberships)
              /\ Len(members') = Len(members) + 1
              /\ DOMAIN members' = DOMAIN members \cup {Len(members) + 1}
              /\ Len(members) + 1 \notin DOMAIN members
              /\ \A k \in DOMAIN members : members'[k] = members[k]
              /\ members'[Len(members) + 1] = GrantedBy(guest[r].row)
<1>1. \/ UNCHANGED members
      \/ \E r \in Requests : RedeemWrite(r)
  BY DEF MembershipsNext, CreateInvite, InviteExpires, RevokeInviteRead,
         RevokeInviteWrite, RedeemRead, RedeemRefused, GuestStops
<1>2. ASSUME NEW r \in Requests, RedeemWrite(r)
      PROVE  /\ RedeemWrite(r)
             /\ guest[r] # Idle /\ guest[r].row \in DOMAIN invitations
             /\ members' \in Seq(Memberships)
             /\ Len(members') = Len(members) + 1
             /\ DOMAIN members' = DOMAIN members \cup {Len(members) + 1}
             /\ Len(members) + 1 \notin DOMAIN members
             /\ \A k \in DOMAIN members : members'[k] = members[k]
             /\ members'[Len(members) + 1] = GrantedBy(guest[r].row)
  <2>1. /\ guest[r] \in GuestStates /\ guest[r].step = "redeeming"
        /\ invitations \in Seq(InvitationRows) /\ members \in Seq(Memberships)
        /\ Len(invitations) <= MaxInvites /\ MaxInvites \in Nat
    BY <1>2, MembershipsAssumption
       DEF RedeemWrite, MembershipsAssumption, MembershipsTypeInv,
           MembershipsTypeOK
  <2>2. guest[r] # Idle
    BY <2>1, GuestShapes
  <2>3. PICK i \in DOMAIN invitations : i = guest[r].row
    BY <2>2 DEF MembershipsTypeInv, GuestsOnRows
  <2>4. invitations[i] \in InvitationRows /\ i \in 0..MaxInvites
    BY <2>1
  <2>5. GrantedBy(i) \in Memberships
    BY <2>4 DEF GrantedBy, InvitationRows, Memberships, Scopes
  <2>6. members' = Append(members, GrantedBy(i))
    BY <1>2, <2>3 DEF RedeemWrite
  <2>7. PICK m \in Memberships : m = GrantedBy(i)
    BY <2>5
  <2>8. /\ members' \in Seq(Memberships)
        /\ Len(members') = Len(members) + 1
        /\ DOMAIN members' = DOMAIN members \cup {Len(members) + 1}
        /\ Len(members) + 1 \notin DOMAIN members
        /\ \A k \in DOMAIN members : members'[k] = members[k]
        /\ members'[Len(members) + 1] = m
    BY <2>1, <2>6, <2>7, AppendRow
  <2> QED
    BY <1>2, <2>2, <2>3, <2>7, <2>8
<1> QED
  BY <1>1, <1>2

(* A request starts on an invitation, or ends. *)
LEMMA GuestsChange ==
  ASSUME MembershipsTypeInv, MembershipsNext
  PROVE  \/ UNCHANGED <<guest, raced>>
         \/ \E r \in Requests :
              guest' = [guest EXCEPT ![r] = Idle] /\ UNCHANGED raced
         \/ \E r \in Requests, i \in DOMAIN invitations,
               step \in {"redeeming", "revoking"} :
              /\ guest[r] = Idle /\ ~invitations[i].revoked
              /\ guest' = [guest EXCEPT ![r] = [step |-> step, row |-> i]]
              /\ raced' = MixedBy(raced, guest, i)
              /\ UNCHANGED <<invitations, members>>
<1> DEFINE Starts(r, i, step) ==
             /\ guest[r] = Idle /\ ~invitations[i].revoked
             /\ guest' = [guest EXCEPT ![r] = [step |-> step, row |-> i]]
             /\ raced' = MixedBy(raced, guest, i)
             /\ UNCHANGED <<invitations, members>>
<1>1. ASSUME NEW r \in Requests, NEW p \in People, NEW i \in DOMAIN invitations
      PROVE  /\ RevokeInviteRead(r, p, i) => Starts(r, i, "revoking")
             /\ RedeemRead(r, p, i) => Starts(r, i, "redeeming")
  BY DEF RevokeInviteRead, RedeemRead, Redeemable
<1> HIDE DEF Starts
<1>2. \/ UNCHANGED <<guest, raced>>
      \/ \E r \in Requests :
              guest' = [guest EXCEPT ![r] = Idle] /\ UNCHANGED raced
      \/ \E r \in Requests, p \in People, i \in DOMAIN invitations :
           RevokeInviteRead(r, p, i) \/ RedeemRead(r, p, i)
  BY DEF MembershipsNext, CreateInvite, InviteExpires, Invitations,
         RevokeInviteWrite, RedeemWrite, RedeemRefused, GuestStops
<1>3. CASE \E r \in Requests, p \in People, i \in DOMAIN invitations :
             RevokeInviteRead(r, p, i) \/ RedeemRead(r, p, i)
  <2>1. \E r \in Requests, i \in DOMAIN invitations,
           step \in {"redeeming", "revoking"} : Starts(r, i, step)
    BY <1>1, <1>3
  <2> QED
    BY <2>1 DEF Starts
<1> QED
  BY <1>2, <1>3

LEMMA MembershipsStepType ==
  ASSUME MembershipsTypeInv, MembershipsNext
  PROVE  MembershipsTypeInv'
<1>1. /\ invitations \in Seq(InvitationRows) /\ members \in Seq(Memberships)
      /\ guest \in [Requests -> GuestStates] /\ raced \subseteq DOMAIN invitations
      /\ GuestsOnRows /\ Granted /\ MaxInvites \in Nat
      /\ Len(invitations) <= MaxInvites
      /\ \A r \in Requests : guest[r] \in GuestStates
  BY MembershipsAssumption
     DEF MembershipsTypeInv, MembershipsTypeOK, Invitations,
         MembershipsAssumption
<1>2. /\ invitations' \in Seq(InvitationRows)
      /\ Len(invitations') <= MaxInvites
      /\ DOMAIN invitations \subseteq DOMAIN invitations'
      /\ \A i \in DOMAIN invitations : Marked(i)
  BY InvitationsGrow
<1>3. \A i \in DOMAIN invitations : GrantedBy(i)' = GrantedBy(i)
  BY <1>2 DEF GrantedBy, Marked
<1>4. members' \in Seq(Memberships) /\ Granted'
  <2>0. Len(Founders) \in Nat /\ Len(members) \in Nat
        /\ DOMAIN members = 1..Len(members)
    <3>1. PICK S : Founders \in Seq(S)
      BY MembershipsAssumption DEF MembershipsAssumption
    <3>2. Len(Founders) \in Nat
      BY <3>1
    <3> QED
      BY <1>1, <3>2
  <2>1. CASE UNCHANGED members
    BY <1>1, <1>2, <1>3, <2>1 DEF Granted
  <2>2. ASSUME NEW r \in Requests, NEW i \in DOMAIN invitations,
               members' \in Seq(Memberships),
               Len(members') = Len(members) + 1,
               DOMAIN members' = DOMAIN members \cup {Len(members) + 1},
               \A k \in DOMAIN members : members'[k] = members[k],
               members'[Len(members) + 1] = GrantedBy(i)
        PROVE  Granted'
    <3>1. Len(Founders) <= Len(members')
      BY <2>0, <2>2, <1>1 DEF Granted
    <3>2. ASSUME NEW k \in DOMAIN members
          PROVE  IF k <= Len(Founders) THEN members'[k].invitation = 0
                 ELSE \E j \in DOMAIN invitations' : members'[k] = GrantedBy(j)'
      <4>1. members'[k] = members[k]
        BY <2>2
      <4>2. CASE k <= Len(Founders)
        BY <1>1, <4>1, <4>2 DEF Granted
      <4>3. CASE ~(k <= Len(Founders))
        <5>1. PICK j \in DOMAIN invitations : members[k] = GrantedBy(j)
          BY <1>1, <4>3 DEF Granted
        <5>2. GrantedBy(j)' = GrantedBy(j) /\ j \in DOMAIN invitations'
          BY <1>2, <1>3
        <5> QED
          BY <4>1, <4>3, <5>1, <5>2
      <4> QED
        BY <4>2, <4>3
    <3>3. /\ ~(Len(members) + 1 <= Len(Founders))
          /\ members'[Len(members) + 1] = GrantedBy(i)'
          /\ i \in DOMAIN invitations'
      BY <1>1, <1>2, <1>3, <2>0, <2>2 DEF Granted
    <3> QED
      BY <2>2, <3>1, <3>2, <3>3 DEF Granted
  <2>3. CASE ~ UNCHANGED members
    <3>1. PICK r \in Requests :
              /\ guest[r].row \in DOMAIN invitations
              /\ members' \in Seq(Memberships)
              /\ Len(members') = Len(members) + 1
              /\ DOMAIN members' = DOMAIN members \cup {Len(members) + 1}
              /\ \A k \in DOMAIN members : members'[k] = members[k]
              /\ members'[Len(members) + 1] = GrantedBy(guest[r].row)
      BY <2>3, MembersChange
    <3>2. PICK i \in DOMAIN invitations : i = guest[r].row
      BY <3>1
    <3> QED
      BY <2>2, <3>1, <3>2
  <2> QED
    BY <1>1, <2>1, <2>3
<1>5. /\ guest' \in [Requests -> GuestStates] /\ GuestsOnRows'
      /\ raced' \subseteq DOMAIN invitations'
  <2>1. CASE UNCHANGED <<guest, raced>>
    BY <1>1, <1>2, <2>1 DEF GuestsOnRows
  <2>2. CASE \E r \in Requests :
               guest' = [guest EXCEPT ![r] = Idle] /\ UNCHANGED raced
    BY <1>1, <1>2, <2>2 DEF GuestsOnRows, GuestStates
  <2>3. ASSUME NEW r \in Requests, NEW i \in DOMAIN invitations,
               NEW step \in {"redeeming", "revoking"},
               guest' = [guest EXCEPT ![r] = [step |-> step, row |-> i]],
               raced' = MixedBy(raced, guest, i)
        PROVE  /\ guest' \in [Requests -> GuestStates] /\ GuestsOnRows'
               /\ raced' \subseteq DOMAIN invitations'
    <3>1. PICK g : g = [step |-> step, row |-> i]
      OBVIOUS
    <3>2. g \in GuestStates /\ g.row = i /\ i \in DOMAIN invitations'
      BY <1>1, <1>2, <3>1 DEF GuestStates
    <3>3. /\ guest' \in [Requests -> GuestStates]
          /\ \A q \in Requests : guest'[q] = IF q = r THEN g ELSE guest[q]
      BY <1>1, <2>3, <3>1, <3>2
    <3>4. GuestsOnRows'
      BY <1>1, <1>2, <3>2, <3>3 DEF GuestsOnRows
    <3>5. raced' \subseteq raced \cup {i}
      BY <2>3, MixedByBegin
    <3> QED
      BY <1>1, <1>2, <3>3, <3>4, <3>5
  <2> QED
    BY <2>1, <2>2, <2>3, GuestsChange
<1> QED
  BY <1>2, <1>4, <1>5 DEF MembershipsTypeInv, MembershipsTypeOK, Invitations

-----------------------------------------------------------------------------
(* Nobody loses a membership, so whoever had the authority to invite when   *)
(* the invitation was made still has it when the invited person joins.      *)
Authorised(i) ==
  LET p == invitations[i].inviter
      target == invitations[i].scope IN
  \/ Corporate \in Held(p)
  \/ /\ target.role # "manager"
     /\ [role |-> "manager", office |-> target.office] \in Held(p)

AllAuthorised == \A i \in DOMAIN invitations : Authorised(i)

LEMMA HeldGrows ==
  ASSUME MembershipsTypeInv, MembershipsNext, NEW p
  PROVE  Held(p) \subseteq Held(p)'
<1>1. /\ DOMAIN members \subseteq DOMAIN members'
      /\ \A k \in DOMAIN members : members'[k] = members[k]
  BY MembersChange
<1> QED
  BY <1>1 DEF Held

LEMMA InviterAuthorised ==
  ASSUME MembershipsTypeInv, NEW p,
         NEW target \in [role : OfficeRoles, office : Offices],
         NEW scope \in ScopesOf(p), CanInvite(scope, target)
  PROVE  \/ Corporate \in Held(p)
         \/ /\ target.role # "manager"
            /\ [role |-> "manager", office |-> target.office] \in Held(p)
<1>1. scope \in Held(p) /\ scope \in Scopes
  <2>1. scope \in Held(p)
    BY DEF ScopesOf
  <2>2. PICK k \in DOMAIN members : scope = members[k].scope
    BY <2>1 DEF Held
  <2>3. members[k] \in Memberships
    BY DEF MembershipsTypeInv, MembershipsTypeOK
  <2> QED
    BY <2>1, <2>2, <2>3 DEF Memberships
<1>2. CASE scope = Corporate
  BY <1>1, <1>2
<1>3. CASE scope # Corporate
  <2>1. scope \in [role : OfficeRoles, office : Offices]
    BY <1>1, <1>3 DEF Scopes
  <2>2. /\ target.office = scope.office /\ scope.role = "manager"
        /\ target.role \in {"dispatcher", "tech", "csr"}
    BY <1>3 DEF CanInvite
  <2>3. scope = [role |-> "manager", office |-> target.office]
    BY <2>1, <2>2
  <2> QED
    BY <1>1, <2>2, <2>3
<1> QED
  BY <1>2, <1>3

LEMMA StepAuthorised ==
  ASSUME MembershipsTypeInv, AllAuthorised, MembershipsNext
  PROVE  AllAuthorised'
<1> SUFFICES ASSUME NEW i \in DOMAIN invitations' PROVE Authorised(i)'
  BY DEF AllAuthorised
<1>1. \A p : Held(p) \subseteq Held(p)'
  BY HeldGrows
<1>2. CASE i \in DOMAIN invitations
  <2>1. Authorised(i) /\ Marked(i)
    BY <1>2, InvitationsGrow DEF AllAuthorised
  <2>2. PICK p, target : p = invitations[i].inviter /\ target = invitations[i].scope
    OBVIOUS
  <2>3. p = invitations'[i].inviter /\ target = invitations'[i].scope
    BY <2>1, <2>2 DEF Marked
  <2>4. Held(p) \subseteq Held(p)'
    BY <1>1
  <2>5. \/ Corporate \in Held(p)
        \/ /\ target.role # "manager"
           /\ [role |-> "manager", office |-> target.office] \in Held(p)
    BY <2>1, <2>2 DEF Authorised
  <2>6. \/ Corporate \in Held(p)'
        \/ /\ target.role # "manager"
           /\ [role |-> "manager", office |-> target.office] \in Held(p)'
    BY <2>4, <2>5
  <2>7. Held(invitations[i].inviter)' = Held(p)'
    BY <2>3 DEF Held
  <2> QED
    BY <2>3, <2>6, <2>7 DEF Authorised, Corporate
<1>3. CASE i \notin DOMAIN invitations
  <2>1. PICK p \in People, target \in [role : OfficeRoles, office : Offices],
             email \in People :
          /\ CreateInvite(p, target, email)
          /\ invitations'[i].inviter = p /\ invitations'[i].scope = target
    BY <1>3, InvitationsGrow
  <2>2. PICK scope \in ScopesOf(p) : CanInvite(scope, target)
    BY <2>1 DEF CreateInvite
  <2>3. \/ Corporate \in Held(p)
        \/ /\ target.role # "manager"
           /\ [role |-> "manager", office |-> target.office] \in Held(p)
    BY <2>2, InviterAuthorised
  <2>4. \/ Corporate \in Held(p)'
        \/ /\ target.role # "manager"
           /\ [role |-> "manager", office |-> target.office] \in Held(p)'
    BY <1>1, <2>3
  <2>5. Held(invitations[i].inviter)' = Held(p)'
    BY <2>1 DEF Held
  <2> QED
    BY <2>1, <2>4, <2>5 DEF Authorised, Corporate
<1> QED
  BY <1>2, <1>3

LEMMA AuthorisedDescends ==
  ASSUME MembershipsTypeInv, AllAuthorised
  PROVE  AuthorityDescends
<1> SUFFICES ASSUME NEW k \in Len(Founders) + 1..Len(members)
             PROVE  LET m == members[k]
                        inviter == invitations[m.invitation].inviter IN
                    \/ Corporate \in Held(inviter)
                    \/ /\ m.scope.role # "manager"
                       /\ [role |-> "manager", office |-> m.scope.office]
                            \in Held(inviter)
  BY DEF AuthorityDescends
<1>1. k \in DOMAIN members /\ ~(k <= Len(Founders))
  <2>1. PICK S : Founders \in Seq(S)
    BY MembershipsAssumption DEF MembershipsAssumption
  <2>2. Len(Founders) \in Nat
    BY <2>1
  <2>3. DOMAIN members = 1..Len(members) /\ Len(members) \in Nat
    BY DEF MembershipsTypeInv, MembershipsTypeOK
  <2> QED
    BY <2>2, <2>3
<1>2. PICK i \in DOMAIN invitations : members[k] = GrantedBy(i)
  BY <1>1 DEF MembershipsTypeInv, Granted
<1>3. members[k].invitation = i /\ members[k].scope = invitations[i].scope
  BY <1>2 DEF GrantedBy
<1>4. Authorised(i)
  BY <1>2 DEF AllAuthorised
<1> QED
  BY <1>3, <1>4 DEF Authorised

-----------------------------------------------------------------------------
(* A redeemed invitation stands behind one membership, any other behind     *)
(* none: whoever redeems it again finds the membership there already.       *)
OneMembership ==
  /\ \A i \in DOMAIN invitations :
       invitations[i].redeemed <=>
         \E k \in DOMAIN members : members[k].invitation = i
  /\ \A j, k \in DOMAIN members :
       members[j].invitation = members[k].invitation =>
         j = k \/ members[k].invitation = 0

LEMMA RedeemedChange ==
  ASSUME MembershipsTypeInv, MembershipsNext
  PROVE  \/ /\ UNCHANGED members
            /\ \A i \in DOMAIN invitations :
                 invitations'[i].redeemed = invitations[i].redeemed
         \/ \E r \in Requests :
              /\ RedeemWrite(r)
              /\ DOMAIN invitations' = DOMAIN invitations
              /\ \A i \in DOMAIN invitations :
                   invitations'[i].redeemed =
                     IF i = guest[r].row THEN TRUE ELSE invitations[i].redeemed
<1>1. /\ invitations \in Seq(InvitationRows)
      /\ guest \in [Requests -> GuestStates]
  BY DEF MembershipsTypeInv, MembershipsTypeOK
<1>2. \A i \in DOMAIN invitations : invitations[i] \in InvitationRows
  BY <1>1
<1> DEFINE Quiet == /\ UNCHANGED members
                    /\ \A i \in DOMAIN invitations :
                         invitations'[i].redeemed = invitations[i].redeemed
<1>3. ASSUME NEW p \in People, NEW email \in People, NEW target,
             CreateInvite(p, target, email)
      PROVE  Quiet
  <2>1. PICK row : invitations' = Append(invitations, row) /\ UNCHANGED members
    BY <1>3 DEF CreateInvite
  <2>2. \A i \in DOMAIN invitations : invitations'[i] = invitations[i]
    BY <1>1, <2>1
  <2> QED
    BY <2>1, <2>2
<1>4. ASSUME NEW i \in DOMAIN invitations, InviteExpires(i)
      PROVE  Quiet
  BY <1>1, <1>2, <1>4 DEF InviteExpires, InvitationRows
<1>5. ASSUME NEW r \in Requests, RevokeInviteWrite(r)
      PROVE  Quiet
  BY <1>1, <1>2, <1>5 DEF RevokeInviteWrite, InvitationRows
<1>6. ASSUME NEW r \in Requests, RedeemWrite(r)
      PROVE  /\ DOMAIN invitations' = DOMAIN invitations
             /\ \A i \in DOMAIN invitations :
                  invitations'[i].redeemed =
                    IF i = guest[r].row THEN TRUE ELSE invitations[i].redeemed
  BY <1>1, <1>2, <1>6 DEF RedeemWrite, InvitationRows
<1>7. \/ UNCHANGED <<members, invitations>>
      \/ \E p, email \in People, role \in OfficeRoles, o \in Offices :
           CreateInvite(p, [role |-> role, office |-> o], email)
      \/ \E i \in DOMAIN invitations : InviteExpires(i)
      \/ \E r \in Requests : RevokeInviteWrite(r)
      \/ \E r \in Requests : RedeemWrite(r)
  BY DEF MembershipsNext, Invitations, RevokeInviteRead, RedeemRead,
         RedeemRefused, GuestStops
<1>8. CASE \E p, email \in People, role \in OfficeRoles, o \in Offices :
              CreateInvite(p, [role |-> role, office |-> o], email)
  <2>1. PICK p \in People, email \in People, role \in OfficeRoles, o \in Offices :
          CreateInvite(p, [role |-> role, office |-> o], email)
    BY <1>8
  <2>2. PICK target : target = [role |-> role, office |-> o]
    OBVIOUS
  <2> QED
    BY <1>3, <2>1, <2>2
<1> QED
  BY <1>4, <1>5, <1>6, <1>7, <1>8

LEMMA StepOneMembership ==
  ASSUME MembershipsTypeInv, OneMembership, MembershipsNext
  PROVE  OneMembership'
<1>1. \A k \in DOMAIN members :
        members[k].invitation \in DOMAIN invitations \cup {0}
  BY DEF MembershipsTypeInv, Granted, GrantedBy
<1>2. CASE /\ UNCHANGED members
           /\ \A i \in DOMAIN invitations :
                invitations'[i].redeemed = invitations[i].redeemed
  <2>1. ASSUME NEW i \in DOMAIN invitations', i \notin DOMAIN invitations
        PROVE  /\ ~invitations'[i].redeemed
               /\ ~ \E k \in DOMAIN members : members[k].invitation = i
    <3>1. ~invitations'[i].redeemed
      BY <2>1, InvitationsGrow
    <3>2. i # 0
      BY InvitationsGrow
    <3> QED
      BY <1>1, <2>1, <3>1, <3>2
  <2> QED
    BY <1>2, <2>1 DEF OneMembership
<1>3. ASSUME NEW r \in Requests, RedeemWrite(r),
             DOMAIN invitations' = DOMAIN invitations,
             \A i \in DOMAIN invitations :
               invitations'[i].redeemed =
                 IF i = guest[r].row THEN TRUE ELSE invitations[i].redeemed
      PROVE  OneMembership'
  <2>1. guest[r] \in GuestStates /\ guest[r].step = "redeeming"
    BY <1>3 DEF RedeemWrite, MembershipsTypeInv, MembershipsTypeOK
  <2>2. PICK i \in DOMAIN invitations : i = guest[r].row
    BY <2>1, GuestShapes DEF MembershipsTypeInv, GuestsOnRows
  <2>3. /\ Free(GrantedBy(i))
        /\ members' = Append(members, GrantedBy(i))
        /\ members \in Seq(Memberships)
        /\ i # 0
    BY <1>3, <2>2
       DEF RedeemWrite, MembershipsTypeInv, MembershipsTypeOK
  <2>4. \A k \in DOMAIN members : members[k].invitation # i
    <3> SUFFICES ASSUME NEW k \in DOMAIN members, members[k].invitation = i
                 PROVE  FALSE
      OBVIOUS
    <3>1. ~(k <= Len(Founders))
      BY <2>3 DEF MembershipsTypeInv, Granted
    <3>2. PICK j \in DOMAIN invitations : members[k] = GrantedBy(j)
      BY <3>1 DEF MembershipsTypeInv, Granted
    <3>3. j = i
      BY <3>2 DEF GrantedBy
    <3> QED
      BY <2>3, <3>2, <3>3 DEF Free
  <2>5. PICK m : m = GrantedBy(i)
    OBVIOUS
  <2>6. m.invitation = i
    BY <2>5 DEF GrantedBy
  <2>7. /\ DOMAIN members' = DOMAIN members \cup {Len(members) + 1}
        /\ \A k \in DOMAIN members : members'[k] = members[k]
        /\ members'[Len(members) + 1] = m
    BY <2>3, <2>5
  <2>8. \A j \in DOMAIN invitations' :
          invitations'[j].redeemed <=>
            \E k \in DOMAIN members' : members'[k].invitation = j
    <3> SUFFICES ASSUME NEW j \in DOMAIN invitations
                 PROVE  invitations'[j].redeemed <=>
                          \E k \in DOMAIN members' : members'[k].invitation = j
      BY <1>3
    <3>1. CASE j = i
      <4>1. invitations'[j].redeemed = TRUE
        BY <1>3, <2>2, <3>1
      <4>2. members'[Len(members) + 1].invitation = j
        BY <2>6, <2>7, <3>1
      <4> QED
        BY <2>7, <4>1, <4>2
    <3>2. CASE j # i
      <4>1. invitations'[j].redeemed = invitations[j].redeemed
        BY <1>3, <2>2, <3>2
      <4>2. (\E k \in DOMAIN members' : members'[k].invitation = j)
              <=> \E k \in DOMAIN members : members[k].invitation = j
        BY <2>6, <2>7, <3>2
      <4> QED
        BY <4>1, <4>2 DEF OneMembership
    <3> QED
      BY <3>1, <3>2
  <2>9. \A j, k \in DOMAIN members' :
          members'[j].invitation = members'[k].invitation =>
            j = k \/ members'[k].invitation = 0
    BY <2>4, <2>6, <2>7 DEF OneMembership
  <2> QED
    BY <2>8, <2>9 DEF OneMembership
<1> QED
  BY <1>2, <1>3, RedeemedChange

LEMMA OnceFromOne ==
  ASSUME MembershipsTypeInv, OneMembership
  PROVE  RedeemedOnce
<1> SUFFICES ASSUME NEW i \in DOMAIN invitations
             PROVE  Cardinality({k \in DOMAIN members : members[k].invitation = i})
                      = IF invitations[i].redeemed THEN 1 ELSE 0
  BY DEF RedeemedOnce, Invitations
<1> DEFINE Joined == {k \in DOMAIN members : members[k].invitation = i}
<1>1. i # 0
  BY DEF MembershipsTypeInv, MembershipsTypeOK
<1>2. CASE invitations[i].redeemed
  <2>1. PICK k \in DOMAIN members : members[k].invitation = i
    BY <1>2 DEF OneMembership
  <2>2. Joined = {k}
    BY <1>1, <2>1 DEF OneMembership
  <2> QED
    BY <1>2, <2>2, FS_Singleton
<1>3. CASE ~invitations[i].redeemed
  <2>1. Joined = {}
    BY <1>3 DEF OneMembership
  <2> QED
    BY <1>3, <2>1, FS_EmptySet
<1> QED
  BY <1>2, <1>3

-----------------------------------------------------------------------------
(* A request redeems an invitation that is not revoked and nobody else works *)
(* on, or the invitation is known as mixed.                                 *)
OnlyGuest(r, i) ==
  /\ ~invitations[i].revoked
  /\ \A q \in Requests : q = r \/ guest[q] = Idle \/ guest[q].row # i

RedeemsAlone ==
  \A r \in Requests :
    guest[r].step = "redeeming" =>
      guest[r].row \in raced \/ OnlyGuest(r, guest[r].row)

LEMMA RevokedChange ==
  ASSUME MembershipsTypeInv, MembershipsNext, NEW i \in DOMAIN invitations,
         invitations'[i].revoked # invitations[i].revoked
  PROVE  \E q \in Requests :
           guest[q] # Idle /\ guest[q].row = i /\ guest'[q] = Idle
<1>1. /\ invitations \in Seq(InvitationRows)
      /\ guest \in [Requests -> GuestStates]
  BY DEF MembershipsTypeInv, MembershipsTypeOK
<1>2. \A j \in DOMAIN invitations : invitations[j] \in InvitationRows
  BY <1>1
<1> DEFINE Quiet == invitations'[i].revoked = invitations[i].revoked
<1>3. ASSUME NEW p \in People, NEW email \in People, NEW target,
             CreateInvite(p, target, email)
      PROVE  Quiet
  <2>1. PICK row : invitations' = Append(invitations, row)
    BY <1>3 DEF CreateInvite
  <2> QED
    BY <1>1, <2>1
<1>4. ASSUME NEW j \in DOMAIN invitations, InviteExpires(j)
      PROVE  Quiet
  BY <1>1, <1>2, <1>4 DEF InviteExpires, InvitationRows
<1>5. ASSUME NEW r \in Requests, RedeemWrite(r)
      PROVE  Quiet
  BY <1>1, <1>2, <1>5 DEF RedeemWrite, InvitationRows
<1>6. ASSUME NEW r \in Requests, RevokeInviteWrite(r)
      PROVE  guest[r] # Idle /\ guest[r].row = i /\ guest'[r] = Idle
  <2>1. guest[r] # Idle /\ guest'[r] = Idle
    BY <1>1, <1>6, GuestShapes DEF RevokeInviteWrite
  <2>2. CASE guest[r].row # i
    <3>1. invitations'[i] = invitations[i]
      BY <1>1, <1>6, <2>2 DEF RevokeInviteWrite
    <3> QED
      BY <3>1
  <2> QED
    BY <2>1, <2>2
<1>7. \/ UNCHANGED invitations
      \/ \E p, email \in People, role \in OfficeRoles, o \in Offices :
           CreateInvite(p, [role |-> role, office |-> o], email)
      \/ \E j \in DOMAIN invitations : InviteExpires(j)
      \/ \E r \in Requests : RevokeInviteWrite(r)
      \/ \E r \in Requests : RedeemWrite(r)
  BY DEF MembershipsNext, Invitations, RevokeInviteRead, RedeemRead,
         RedeemRefused, GuestStops
<1>8. CASE \E p, email \in People, role \in OfficeRoles, o \in Offices :
              CreateInvite(p, [role |-> role, office |-> o], email)
  <2>1. PICK p \in People, email \in People, role \in OfficeRoles, o \in Offices :
          CreateInvite(p, [role |-> role, office |-> o], email)
    BY <1>8
  <2>2. PICK target : target = [role |-> role, office |-> o]
    OBVIOUS
  <2> QED
    BY <1>3, <2>1, <2>2
<1> QED
  BY <1>4, <1>5, <1>6, <1>7, <1>8

LEMMA StepRedeemsAlone ==
  ASSUME MembershipsTypeInv, RedeemsAlone, MembershipsNext
  PROVE  RedeemsAlone'
<1>1. /\ guest \in [Requests -> GuestStates] /\ Idle.step = "idle"
      /\ \A r \in Requests : guest[r] # Idle => guest[r].row \in DOMAIN invitations
  BY DEF MembershipsTypeInv, MembershipsTypeOK, GuestsOnRows, Idle
<1> SUFFICES ASSUME NEW r \in Requests, NEW i,
                    guest'[r].step = "redeeming", i = guest'[r].row,
                    i \notin raced'
             PROVE  /\ ~invitations'[i].revoked
                    /\ \A q \in Requests : q = r \/ guest'[q] = Idle
                                             \/ guest'[q].row # i
  BY DEF RedeemsAlone, OnlyGuest
<1>2. CASE guest'[r] = guest[r] /\ i \notin raced
  <2>1. /\ ~invitations[i].revoked /\ i \in DOMAIN invitations
        /\ guest[r] # Idle
        /\ \A q \in Requests : q = r \/ guest[q] = Idle \/ guest[q].row # i
    BY <1>1, <1>2 DEF RedeemsAlone, OnlyGuest
  <2>2. ~invitations'[i].revoked
    BY <1>2, <2>1, RevokedChange
  <2>3. ASSUME NEW p \in Requests, NEW j, NEW step,
               guest[p] = Idle,
               guest' = [guest EXCEPT ![p] = [step |-> step, row |-> j]],
               raced' = MixedBy(raced, guest, j)
        PROVE  j # i
    <3>1. r \in DOMAIN guest /\ guest[r] # Idle /\ guest[r].row = i
      BY <1>1, <1>2, <2>1
    <3> QED
      BY <2>3, <3>1, MixedByBegin
  <2>4. \A q \in Requests : q = r \/ guest'[q] = Idle \/ guest'[q].row # i
    <3>1. CASE UNCHANGED guest
      BY <2>1, <3>1
    <3>2. CASE \E p \in Requests : guest' = [guest EXCEPT ![p] = Idle]
      BY <1>1, <2>1, <3>2
    <3>3. CASE \E p \in Requests, j \in DOMAIN invitations,
                  step \in {"redeeming", "revoking"} :
                 /\ guest[p] = Idle
                 /\ guest' = [guest EXCEPT ![p] = [step |-> step, row |-> j]]
                 /\ raced' = MixedBy(raced, guest, j)
      <4>1. PICK p \in Requests, j \in DOMAIN invitations,
                 step \in {"redeeming", "revoking"} :
                 /\ guest[p] = Idle
                 /\ guest' = [guest EXCEPT ![p] = [step |-> step, row |-> j]]
                 /\ raced' = MixedBy(raced, guest, j)
        BY <3>3
      <4>2. j # i
        BY <2>3, <4>1
      <4> QED
        BY <1>1, <2>1, <4>1, <4>2
    <3> QED
      BY <3>1, <3>2, <3>3, GuestsChange
  <2> QED
    BY <2>2, <2>4
<1>3. ASSUME NEW p \in Requests, NEW j \in DOMAIN invitations, NEW step,
             ~invitations[j].revoked,
             guest' = [guest EXCEPT ![p] = [step |-> step, row |-> j]],
             raced' = MixedBy(raced, guest, j),
             UNCHANGED invitations
      PROVE  \/ guest'[r] = guest[r] /\ i \notin raced
             \/ /\ ~invitations'[i].revoked
                /\ \A q \in Requests : q = r \/ guest'[q] = Idle
                                         \/ guest'[q].row # i
  <2>1. CASE p = r
    <3>1. i = j
      BY <1>1, <1>3, <2>1
    <3>2. \A q \in Requests : guest[q] = Idle \/ guest[q].row # i
      BY <1>1, <1>3, <3>1, MixedByBegin
    <3> QED
      BY <1>1, <1>3, <2>1, <3>1, <3>2
  <2>2. CASE p # r
    BY <1>1, <1>3, <2>2, MixedByBegin
  <2> QED
    BY <2>1, <2>2
<1>4. CASE UNCHANGED <<guest, raced>>
  BY <1>2, <1>4
<1>5. CASE \E p \in Requests :
             guest' = [guest EXCEPT ![p] = Idle] /\ UNCHANGED raced
  BY <1>1, <1>2, <1>5
<1>6. CASE \E p \in Requests, j \in DOMAIN invitations,
              step \in {"redeeming", "revoking"} :
             /\ guest[p] = Idle /\ ~invitations[j].revoked
             /\ guest' = [guest EXCEPT ![p] = [step |-> step, row |-> j]]
             /\ raced' = MixedBy(raced, guest, j)
             /\ UNCHANGED <<invitations, members>>
  BY <1>2, <1>3, <1>6
<1> QED
  BY <1>4, <1>5, <1>6, GuestsChange

LEMMA StepKeepsOut ==
  ASSUME MembershipsTypeInv, RedeemsAlone, MembershipsNext
  PROVE  RevokedKeepsOut
<1> SUFFICES ASSUME NEW i \in DOMAIN invitations, ~invitations[i].redeemed,
                    invitations'[i].redeemed, i \notin raced
             PROVE  ~invitations[i].revoked
  BY DEF RevokedKeepsOut, Invitations
<1>1. PICK r \in Requests :
        RedeemWrite(r) /\ (i # guest[r].row =>
                             invitations'[i].redeemed = invitations[i].redeemed)
  BY RedeemedChange
<1>2. guest[r].step = "redeeming" /\ i = guest[r].row
  BY <1>1 DEF RedeemWrite
<1> QED
  BY <1>2 DEF RedeemsAlone, OnlyGuest

(* What holds of invitations, memberships and requests in every state.      *)
MembershipsInv ==
  /\ MembershipsTypeInv
  /\ AllAuthorised
  /\ OneMembership
  /\ RedeemsAlone

LEMMA MembershipsInitInv == MembershipsInit => MembershipsInv
<1> SUFFICES ASSUME MembershipsInit PROVE MembershipsInv
  OBVIOUS
<1>1. MembershipsTypeInv
  BY MembershipsInitType
<1>2. DOMAIN invitations = {}
  BY DEF MembershipsInit
<1>3. AllAuthorised
  BY <1>2 DEF AllAuthorised
<1>4. \A k \in DOMAIN members : members[k].invitation = 0
  <2>1. \A k \in DOMAIN members : k <= Len(Founders)
    <3>1. PICK S : Founders \in Seq(S)
      BY MembershipsAssumption DEF MembershipsAssumption
    <3> QED
      BY <3>1 DEF MembershipsInit
  <2> QED
    BY <1>1, <2>1 DEF MembershipsTypeInv, Granted
<1>5. OneMembership
  BY <1>2, <1>4 DEF OneMembership
<1>6. RedeemsAlone
  BY DEF MembershipsInit, NoRequests, RedeemsAlone, Idle
<1> QED
  BY <1>1, <1>3, <1>5, <1>6 DEF MembershipsInv

LEMMA MembershipsStepInv ==
  MembershipsInv /\ [MembershipsNext]_membershipsVars => MembershipsInv'
<1> SUFFICES ASSUME MembershipsInv, [MembershipsNext]_membershipsVars
             PROVE  MembershipsInv'
  OBVIOUS
<1>1. CASE MembershipsNext
  BY <1>1, MembershipsStepType, StepAuthorised, StepOneMembership,
     StepRedeemsAlone DEF MembershipsInv
<1>2. CASE UNCHANGED membershipsVars
  BY <1>2 DEF membershipsVars, MembershipsInv, MembershipsTypeInv,
     MembershipsTypeOK, GuestsOnRows, Granted, GrantedBy, Invitations,
     AllAuthorised, Authorised, Held, OneMembership, RedeemsAlone, OnlyGuest
<1> QED
  BY <1>1, <1>2

(* However invitations chain, every member that was not seeded was invited   *)
(* by someone with the authority to, and an invitation makes one membership  *)
(* even when it is redeemed twice at once (createInvite and the redemption   *)
(* of auth-routes).                                                         *)
THEOREM MembersAlwaysInvited == MembershipsSpec => []MembersInvited
<1>1. MembershipsInv => MembersInvited
  BY AuthorisedDescends, OnceFromOne DEF MembershipsInv, MembersInvited
<1> QED
  BY <1>1, MembershipsInitInv, MembershipsStepInv, PTL DEF MembershipsSpec

(* A redemption that nothing mixed with finds the invitation unrevoked.     *)
THEOREM RevokedAlwaysKeptOut ==
  MembershipsSpec => [][RevokedKeepsOut]_membershipsVars
<1>1. MembershipsInv /\ [MembershipsNext]_membershipsVars
        => [RevokedKeepsOut]_membershipsVars
  BY StepKeepsOut DEF MembershipsInv
<1> QED
  BY <1>1, MembershipsInitInv, MembershipsStepInv, PTL DEF MembershipsSpec

-----------------------------------------------------------------------------
(* Pricing.                                                                 *)

(* Two requests in flight on one row mix it. *)
PricersMixed ==
  \A q, r \in Requests :
    pricer[q] # Idle /\ pricer[r] # Idle /\ pricer[q].row = pricer[r].row =>
      q = r \/ pricer[r].row \in collided

(* The items of a published template are not being edited, and whoever      *)
(* publishes has seen every published template.                             *)
CatalogFits(g, published) ==
  /\ g.step \in {"adding", "changing", "deleting"} => g.template \notin published
  /\ g.step = "publishing" => published \subseteq g.live

CatalogInv ==
  Catalog \notin collided =>
    /\ \A t, u \in Published : t = u
    /\ \A r \in Requests : CatalogFits(pricer[r], Published)

(* The table holds no other policy, whoever writes it. *)
PolicyInv == Ordered(policy)

ProposalsBounded == Len(proposals) <= MaxProposals

PricingInv ==
  /\ PricingTypeOK /\ ProposalsBounded /\ PricersMixed /\ CatalogInv /\ PolicyInv

LEMMA PricerShapes ==
  ASSUME NEW g \in PricerStates
  PROVE  /\ g.step \in {"adding", "changing", "deleting", "publishing", "tuning",
                        "resolving"} <=> g # Idle
         /\ g.step \in {"adding", "changing", "deleting"} =>
              /\ g.row = Catalog /\ g.template \in Templates /\ g.item \in Items
              /\ g.price \in Prices \cup {None}
         /\ g.step = "publishing" => g.row = Catalog /\ g.template \in Templates
         /\ g.step = "tuning" =>
              g.row = Policy /\ g.field \in DOMAIN InitialPolicy /\ g.to \in Margins
         /\ g.step = "resolving" => g.to \in {"approved", "rejected"}
  BY DEF PricerStates, Idle

LEMMA PricingInitInv == PricingInit => PricingInv
<1> SUFFICES ASSUME PricingInit PROVE PricingInv
  OBVIOUS
<1>1. \A r \in Requests : pricer[r] = Idle /\ Idle.step = "idle"
  BY DEF PricingInit, NoRequests, Idle
<1>2. PricingTypeOK
  BY PricingAssumption
     DEF PricingAssumption, PricingInit, PricingTypeOK, NoRequests, PricerStates
<1>3. Published = {}
  BY DEF PricingInit, Published
<1>4. Ordered(policy)
  BY PricingAssumption DEF PricingAssumption, PricingInit, Ordered
<1> QED
  BY <1>1, <1>2, <1>3, <1>4, PricingAssumption
     DEF PricingInv, PricingAssumption, PricingInit, ProposalsBounded,
     PricersMixed, CatalogInv, CatalogFits,
     PolicyInv

LEMMA TakesOne ==
  ASSUME PricingInv, NEW r \in Requests, NEW state \in PricerStates,
         state # Idle, Takes(r, state)
  PROVE  /\ pricer' \in [Requests -> PricerStates] /\ priced' \in 0..MaxPricing
         /\ PricersMixed' /\ collided \subseteq collided'
         /\ \A q \in Requests : pricer'[q] = IF q = r THEN state ELSE pricer[q]
<1>1. pricer \in [Requests -> PricerStates] /\ priced \in 0..MaxPricing
  BY DEF PricingInv, PricingTypeOK
<1>2. /\ pricer' \in [Requests -> PricerStates] /\ priced' \in 0..MaxPricing
      /\ \A q \in Requests : pricer'[q] = IF q = r THEN state ELSE pricer[q]
  BY <1>1, PricingAssumption DEF Takes, PricingAssumption
<1>3. collided' = MixedBy(collided, pricer, state.row)
  BY DEF Takes
<1>4. /\ collided \subseteq collided'
      /\ \/ state.row \in collided'
         \/ \A q \in Requests : pricer[q] = Idle \/ pricer[q].row # state.row
  BY <1>1, <1>3, MixedByBegin
<1>5. PricersMixed'
  BY <1>2, <1>4 DEF PricingInv, PricersMixed
<1> QED
  BY <1>2, <1>4, <1>5

LEMMA ReturnsOne ==
  ASSUME PricingInv, NEW r \in Requests, Returns(r)
  PROVE  /\ pricer' \in [Requests -> PricerStates] /\ priced' \in 0..MaxPricing
         /\ PricersMixed' /\ collided' = collided
         /\ \A q \in Requests : pricer'[q] = IF q = r THEN Idle ELSE pricer[q]
<1>1. pricer \in [Requests -> PricerStates] /\ priced \in 0..MaxPricing
      /\ Idle \in PricerStates
  BY DEF PricingInv, PricingTypeOK, PricerStates
<1>2. /\ pricer' \in [Requests -> PricerStates] /\ priced' \in 0..MaxPricing
      /\ collided' = collided
      /\ \A q \in Requests : pricer'[q] = IF q = r THEN Idle ELSE pricer[q]
  BY <1>1 DEF Returns
<1>3. PricersMixed'
  BY <1>2 DEF PricingInv, PricersMixed
<1> QED
  BY <1>2, <1>3

LEMMA CatalogKept ==
  ASSUME PricingInv, collided \subseteq collided', Published' \subseteq Published,
         \A q \in Requests :
           pricer'[q] = pricer[q] \/ CatalogFits(pricer'[q], Published')
  PROVE  CatalogInv'
<1> SUFFICES ASSUME Catalog \notin collided'
             PROVE  /\ \A t, u \in Published' : t = u
                    /\ \A r \in Requests : CatalogFits(pricer'[r], Published')
  BY DEF CatalogInv, CatalogFits
<1>1. /\ \A t, u \in Published : t = u
      /\ \A r \in Requests : CatalogFits(pricer[r], Published)
  BY DEF PricingInv, CatalogInv
<1>2. \A r \in Requests : CatalogFits(pricer[r], Published')
  BY <1>1 DEF CatalogFits
<1> QED
  BY <1>1, <1>2

LEMMA PolicyKept ==
  ASSUME PricingInv, policy' = policy
  PROVE  PolicyInv'
  BY DEF PricingInv, PolicyInv, Ordered

(* What a step of pricing leaves true. *)
PricingKept ==
  /\ PricingTypeOK' /\ ProposalsBounded' /\ PricersMixed'
  /\ CatalogInv' /\ PolicyInv'

(* A request that reads the catalog, the policy or a proposal. *)
LEMMA ReadKeeps ==
  ASSUME PricingInv, NEW r \in Requests, NEW state \in PricerStates,
         state # Idle, Takes(r, state),
         UNCHANGED <<template, items, policy, overrides, proposals>>,
         CatalogFits(state, Published)
  PROVE  PricingKept
<1>1. /\ pricer' \in [Requests -> PricerStates] /\ priced' \in 0..MaxPricing
      /\ PricersMixed' /\ collided \subseteq collided'
      /\ \A q \in Requests : pricer'[q] = IF q = r THEN state ELSE pricer[q]
  BY TakesOne
<1>2. PricingTypeOK'
  BY <1>1 DEF PricingInv, PricingTypeOK
<1>3. Published' = Published
  BY DEF Published
<1>4. CatalogInv'
  BY <1>1, <1>3, CatalogKept
<1>5. PolicyInv'
  BY <1>1, PolicyKept
<1> QED
  BY <1>1, <1>2, <1>4, <1>5 DEF PricingKept, PricingInv, ProposalsBounded

(* A request that ends and leaves templates and policy alone. *)
LEMMA EndKeeps ==
  ASSUME PricingInv, NEW r \in Requests, Returns(r),
         UNCHANGED <<template, policy>>,
         items' \in [Templates -> [Items -> Prices \cup {None}]],
         overrides' \in [Categories -> Margins \cup {None}],
         proposals' \in Seq({"pending", "approved", "rejected"}),
         Len(proposals') = Len(proposals)
  PROVE  PricingKept
<1>1. /\ pricer' \in [Requests -> PricerStates] /\ priced' \in 0..MaxPricing
      /\ PricersMixed' /\ collided' = collided
      /\ \A q \in Requests : pricer'[q] = IF q = r THEN Idle ELSE pricer[q]
  BY ReturnsOne
<1>2. PricingTypeOK'
  BY <1>1 DEF PricingInv, PricingTypeOK
<1>3. Published' = Published
  BY DEF Published
<1>4. CatalogFits(Idle, Published')
  BY DEF CatalogFits, Idle
<1>5. CatalogInv'
  BY <1>1, <1>3, <1>4, CatalogKept
<1>6. PolicyInv'
  BY <1>1, <1>4, PolicyKept
<1> QED
  BY <1>1, <1>2, <1>5, <1>6 DEF PricingKept, PricingInv, ProposalsBounded

(* A change that no request in flight takes part in. *)
LEMMA AsideKeeps ==
  ASSUME PricingInv, UNCHANGED <<policy, pricer, collided>>,
         PricingTypeOK', ProposalsBounded', Published' \subseteq Published
  PROVE  PricingKept
<1>1. CatalogInv'
  BY CatalogKept
<1>2. PolicyInv'
  BY PolicyKept
<1>3. PricersMixed'
  BY DEF PricingInv, PricersMixed
<1> QED
  BY <1>1, <1>2, <1>3 DEF PricingKept, PricingInv, ProposalsBounded

LEMMA PublishKeeps ==
  ASSUME PricingInv, NEW r \in Requests, PublishCommit(r)
  PROVE  PricingKept
<1>1. /\ pricer[r].step = "publishing" /\ Returns(r)
      /\ UNCHANGED <<items, policy, overrides, proposals>>
      /\ template \in [Templates -> {"absent", "draft", "published", "archived"}]
      /\ pricer \in [Requests -> PricerStates]
  BY DEF PublishCommit, PricingInv, PricingTypeOK
<1>2. /\ pricer' \in [Requests -> PricerStates] /\ priced' \in 0..MaxPricing
      /\ PricersMixed' /\ collided' = collided
      /\ \A q \in Requests : pricer'[q] = IF q = r THEN Idle ELSE pricer[q]
  BY <1>1, ReturnsOne
<1>3. PICK t, live :
        t \in Templates /\ t = pricer[r].template /\ live = pricer[r].live
  BY <1>1, PricerShapes
<1>4. template' = [u \in Templates |->
                     IF u = t THEN "published"
                     ELSE IF u \in live \cap Published THEN "archived"
                     ELSE template[u]]
  BY <1>3 DEF PublishCommit
<1>5. PricingTypeOK'
  BY <1>1, <1>2, <1>4 DEF PricingInv, PricingTypeOK
<1>6. CatalogInv'
  <2> SUFFICES ASSUME Catalog \notin collided
               PROVE  /\ \A v, u \in Published' : v = u
                      /\ \A q \in Requests : CatalogFits(pricer'[q], Published')
    BY <1>2 DEF CatalogInv, CatalogFits
  <2>1. Published \subseteq live
    BY <1>1, <1>3 DEF PricingInv, CatalogInv, CatalogFits
  <2>2. Published' \subseteq {t}
    BY <1>4, <2>1 DEF Published
  <2>3. ASSUME NEW q \in Requests PROVE CatalogFits(pricer'[q], Published')
    <3>1. CASE q = r
      BY <1>2, <3>1 DEF CatalogFits, Idle
    <3>2. CASE q # r
      <4>1. pricer[r] # Idle /\ pricer[r].row = Catalog
        BY <1>1, PricerShapes
      <4>2. pricer[q] = Idle \/ pricer[q].row # Catalog
        BY <3>2, <4>1 DEF PricingInv, PricersMixed
      <4>3. pricer[q] \in PricerStates /\ pricer'[q] = pricer[q]
        BY <1>1, <1>2, <3>2
      <4>4. pricer[q].step \notin {"adding", "changing", "deleting", "publishing"}
        BY <4>2, <4>3, PricerShapes
      <4> QED
        BY <4>3, <4>4 DEF CatalogFits
    <3> QED
      BY <3>1, <3>2
  <2> QED
    BY <2>2, <2>3
<1>7. PolicyInv'
  BY <1>1, PolicyKept
<1> QED
  BY <1>1, <1>2, <1>5, <1>6, <1>7 DEF PricingKept, PricingInv, ProposalsBounded

LEMMA TuningKeeps ==
  ASSUME PricingInv, NEW r \in Requests, PatchPolicyWrite(r)
  PROVE  PricingKept
<1>1. /\ pricer[r].step = "tuning" /\ Returns(r)
      /\ UNCHANGED <<template, items, overrides, proposals>>
      /\ policy \in [DOMAIN InitialPolicy -> Int]
      /\ pricer \in [Requests -> PricerStates]
  BY DEF PatchPolicyWrite, PricingInv, PricingTypeOK
<1>2. /\ pricer' \in [Requests -> PricerStates] /\ priced' \in 0..MaxPricing
      /\ PricersMixed' /\ collided' = collided
      /\ \A q \in Requests : pricer'[q] = IF q = r THEN Idle ELSE pricer[q]
  BY <1>1, ReturnsOne
<1>3. PICK field \in DOMAIN InitialPolicy, to \in Int :
        field = pricer[r].field /\ to = pricer[r].to
  BY <1>1, PricerShapes, PricingAssumption DEF PricingAssumption
<1>4. \/ policy' = policy
      \/ /\ policy' = [policy EXCEPT ![field] = to]
         /\ MarginBounds([policy EXCEPT ![field] = to])
  BY <1>3 DEF PatchPolicyWrite
<1>5. PricingTypeOK'
  BY <1>1, <1>2, <1>4 DEF PricingInv, PricingTypeOK
<1>6. PolicyInv'
  BY <1>4 DEF PricingInv, PolicyInv, MarginBounds, Ordered
<1>7. CatalogInv'
  <2>1. Published' = Published
    BY <1>1 DEF Published
  <2>2. CatalogFits(Idle, Published')
    BY DEF CatalogFits, Idle
  <2> QED
    BY <1>2, <2>1, <2>2, CatalogKept
<1> QED
  BY <1>1, <1>2, <1>5, <1>6, <1>7 DEF PricingKept, PricingInv, ProposalsBounded

LEMMA PricingStepKeeps ==
  ASSUME PricingInv, PricingNext
  PROVE  PricingKept
<1>1. /\ PricingTypeOK /\ pricer \in [Requests -> PricerStates]
      /\ MaxPricing \in Nat /\ priced \in 0..MaxPricing
      /\ template \in [Templates -> {"absent", "draft", "published", "archived"}]
      /\ items \in [Templates -> [Items -> Prices \cup {None}]]
      /\ overrides \in [Categories -> Margins \cup {None}]
      /\ proposals \in Seq({"pending", "approved", "rejected"})
  BY PricingAssumption DEF PricingInv, PricingTypeOK, PricingAssumption
<1>2. ASSUME NEW r \in Requests, NEW step \in {"adding", "changing", "deleting"},
             NEW t \in Templates, NEW i \in Items, NEW price \in Prices \cup {None},
             template[t] = "draft",
             EditsItem(r, step, t, i, price),
             UNCHANGED <<template, items, policy, overrides, proposals>>
      PROVE  PricingKept
  <2>1. PICK state : state = [step |-> step, row |-> Catalog, template |-> t,
                              item |-> i, price |-> price]
    OBVIOUS
  <2>2. /\ state \in PricerStates /\ state # Idle
        /\ state.step \in {"adding", "changing", "deleting"}
        /\ state.template \notin Published
    BY <1>2, <2>1 DEF PricerStates, Idle, Published
  <2>3. CatalogFits(state, Published)
    BY <2>2 DEF CatalogFits
  <2>4. Takes(r, state)
    BY <1>2, <2>1 DEF EditsItem
  <2> QED
    BY <1>2, <2>2, <2>3, <2>4, ReadKeeps
<1>3. ASSUME NEW t \in Templates, CreateTemplate(t) \/ ArchiveTemplate(t)
      PROVE  PricingKept
  <2>1. /\ UNCHANGED <<items, policy, overrides, proposals, pricer, collided>>
        /\ priced' \in 0..MaxPricing
    BY <1>1, <1>3 DEF CreateTemplate, ArchiveTemplate
  <2>2. PICK s \in {"draft", "archived"} : template' = [template EXCEPT ![t] = s]
    BY <1>3 DEF CreateTemplate, ArchiveTemplate
  <2>3. Published' \subseteq Published
    BY <1>1, <2>2 DEF Published
  <2>4. PricingTypeOK' /\ ProposalsBounded'
    BY <1>1, <2>1, <2>2 DEF PricingTypeOK, ProposalsBounded, PricingInv
  <2> QED
    BY <2>1, <2>3, <2>4, AsideKeeps
<1>4. ASSUME NEW r \in Requests, NEW t \in Templates, PublishRead(r, t)
      PROVE  PricingKept
  <2>1. PICK state : state = [step |-> "publishing", row |-> Catalog,
                              template |-> t, live |-> Published]
    OBVIOUS
  <2>2. /\ state \in PricerStates /\ state # Idle
        /\ state.step = "publishing" /\ state.live = Published
    BY <2>1 DEF PricerStates, Idle, Published
  <2>3. CatalogFits(state, Published)
    BY <2>2 DEF CatalogFits
  <2>4. Takes(r, state) /\ UNCHANGED <<template, items, policy, overrides, proposals>>
    BY <1>4, <2>1 DEF PublishRead
  <2> QED
    BY <2>2, <2>3, <2>4, ReadKeeps
<1>5. ASSUME NEW r \in Requests, NEW field \in DOMAIN InitialPolicy,
             NEW to \in Margins, PatchPolicyRead(r, field, to)
      PROVE  PricingKept
  <2>1. PICK state : state = [step |-> "tuning", row |-> Policy, field |-> field,
                              to |-> to]
    OBVIOUS
  <2>2. /\ state \in PricerStates /\ state # Idle
        /\ state.step = "tuning" /\ state.field = field /\ state.to = to
    BY <2>1 DEF PricerStates, Idle
  <2>3. CatalogFits(state, Published)
    BY <1>5, <2>2 DEF CatalogFits
  <2>4. Takes(r, state) /\ UNCHANGED <<template, items, policy, overrides, proposals>>
    BY <1>5, <2>1 DEF PatchPolicyRead
  <2> QED
    BY <2>2, <2>3, <2>4, ReadKeeps
<1>6. ASSUME NEW c \in Categories, NEW to \in Margins \cup {None},
             SetsOverride(c, to)
      PROVE  PricingKept
  <2>1. /\ UNCHANGED <<template, items, policy, proposals, pricer, collided>>
        /\ priced' \in 0..MaxPricing
        /\ overrides' \in [Categories -> Margins \cup {None}]
    BY <1>1, <1>6 DEF SetsOverride
  <2>2. PricingTypeOK' /\ ProposalsBounded' /\ Published' = Published
    BY <1>1, <2>1, PricingAssumption
       DEF PricingTypeOK, Published, ProposalsBounded, PricingInv, Propose,
           PricingAssumption
  <2> QED
    BY <2>1, <2>2, AsideKeeps
<1>7. CASE Propose
  <2>1. /\ UNCHANGED <<template, items, policy, overrides, pricer, collided, priced>>
        /\ proposals' \in Seq({"pending", "approved", "rejected"})
    BY <1>1, <1>7 DEF Propose
  <2>2. PricingTypeOK' /\ ProposalsBounded' /\ Published' = Published
    BY <1>1, <1>7, <2>1, PricingAssumption
       DEF PricingTypeOK, Published, ProposalsBounded, PricingInv, Propose,
           PricingAssumption
  <2> QED
    BY <2>1, <2>2, AsideKeeps
<1>8. ASSUME NEW r \in Requests, NEW k \in DOMAIN proposals,
             NEW to \in {"approved", "rejected"}, ResolveRead(r, k, to)
      PROVE  PricingKept
  <2>1. PICK state : state = [step |-> "resolving", row |-> k, to |-> to]
    OBVIOUS
  <2>2. /\ state \in PricerStates /\ state # Idle /\ state.step = "resolving"
    BY <1>1, <2>1, PricingAssumption
       DEF PricerStates, Idle, PricingInv, ProposalsBounded, PricingAssumption
  <2>3. CatalogFits(state, Published)
    BY <2>2 DEF CatalogFits
  <2>4. Takes(r, state) /\ UNCHANGED <<template, items, policy, overrides, proposals>>
    BY <1>8, <2>1 DEF ResolveRead
  <2> QED
    BY <2>2, <2>3, <2>4, ReadKeeps
<1>9. ASSUME NEW r \in Requests,
             \/ AddItemWrite(r) \/ ChangeItemWrite(r) \/ DeleteItemWrite(r)
             \/ ResolveWrite(r) \/ PricerStops(r)
      PROVE  PricingKept
  <2>1. pricer[r] \in PricerStates
    BY <1>1
  <2>2. /\ Returns(r) /\ UNCHANGED <<template, policy, overrides>>
    BY <1>9 DEF AddItemWrite, ChangeItemWrite, DeleteItemWrite, ResolveWrite,
                PricerStops
  <2>3. items' \in [Templates -> [Items -> Prices \cup {None}]]
    <3>1. CASE UNCHANGED items
      BY <1>1, <3>1
    <3>2. CASE \E t \in Templates, i \in Items, price \in Prices \cup {None} :
                 items' = [items EXCEPT ![t][i] = price]
      BY <1>1, <3>2
    <3>3. ASSUME ~ UNCHANGED items
          PROVE  \E t \in Templates, i \in Items, price \in Prices \cup {None} :
                   items' = [items EXCEPT ![t][i] = price]
      <4>1. CASE AddItemWrite(r)
        BY <2>1, <4>1, PricerShapes DEF AddItemWrite
      <4>2. CASE ChangeItemWrite(r)
        BY <2>1, <3>3, <4>2, PricerShapes DEF ChangeItemWrite
      <4>3. CASE DeleteItemWrite(r)
        <5>1. PICK t \in Templates, i \in Items :
                t = pricer[r].template /\ i = pricer[r].item
          BY <2>1, <4>3, PricerShapes DEF DeleteItemWrite
        <5> QED
          BY <4>3, <5>1 DEF DeleteItemWrite
      <4> QED
        BY <1>9, <3>3, <4>1, <4>2, <4>3 DEF ResolveWrite, PricerStops
    <3> QED
      BY <3>1, <3>2, <3>3
  <2>4. /\ proposals' \in Seq({"pending", "approved", "rejected"})
        /\ Len(proposals') = Len(proposals)
    <3>1. CASE UNCHANGED proposals
      BY <1>1, <3>1
    <3>2. CASE ~ UNCHANGED proposals
      <4>1. ResolveWrite(r)
        BY <1>9, <3>2 DEF AddItemWrite, ChangeItemWrite, DeleteItemWrite,
                          PricerStops
      <4>2. PICK k, to :
              /\ to \in {"approved", "rejected"}
              /\ k = pricer[r].row /\ to = pricer[r].to
        BY <2>1, <4>1, PricerShapes DEF ResolveWrite
      <4>3. proposals' = [proposals EXCEPT ![k] = to]
        BY <3>2, <4>1, <4>2 DEF ResolveWrite
      <4>4. proposals[k] = "pending" /\ k \in DOMAIN proposals
        BY <1>1, <3>2, <4>1, <4>2, <4>3 DEF ResolveWrite
      <4> QED
        BY <1>1, <4>2, <4>3, <4>4, ChangeRow
    <3> QED
      BY <3>1, <3>2
  <2> QED
    BY <1>1, <2>2, <2>3, <2>4, EndKeeps
<1>10. ASSUME NEW r \in Requests, NEW t \in Templates, NEW i \in Items,
              NEW price \in Prices,
              AddItemRead(r, t, i, price) \/ ChangeItemRead(r, t, i, price)
       PROVE  PricingKept
  BY <1>2, <1>10 DEF AddItemRead, ChangeItemRead
<1>11. ASSUME NEW r \in Requests, NEW t \in Templates, NEW i \in Items,
              DeleteItemRead(r, t, i)
       PROVE  PricingKept
  BY <1>2, <1>11 DEF DeleteItemRead
<1>12. CASE \E c \in Categories, to \in Margins :
              CreateOverride(c, to) \/ PatchOverride(c, to)
  BY <1>6, <1>12 DEF CreateOverride, PatchOverride
<1>13. CASE \E c \in Categories : DeleteOverride(c)
  BY <1>6, <1>13 DEF DeleteOverride
<1> QED
  BY <1>3, <1>4, <1>5, <1>7, <1>8, <1>9, <1>10, <1>11, <1>12, <1>13,
     PublishKeeps, TuningKeeps DEF PricingNext

-----------------------------------------------------------------------------
LEMMA PricingStepInv ==
  PricingInv /\ [PricingNext]_pricingVars => PricingInv'
<1>1. ASSUME PricingInv, PricingNext PROVE PricingInv'
  BY <1>1, PricingStepKeeps DEF PricingInv, PricingKept
<1>2. ASSUME PricingInv, UNCHANGED pricingVars PROVE PricingInv'
  BY <1>2 DEF pricingVars, PricingInv, PricingTypeOK, ProposalsBounded,
     PricersMixed, CatalogInv, CatalogFits, PolicyInv, Published,
     Ordered
<1> QED
  BY <1>1, <1>2

LEMMA PricingSound ==
  ASSUME PricingInv
  PROVE  PriceListSound
<1>1. OnePriceList
  <2> SUFFICES ASSUME Catalog \notin collided
               PROVE  Cardinality(Published) <= 1
    BY DEF OnePriceList
  <2>1. \A t, u \in Published : t = u
    BY DEF PricingInv, CatalogInv
  <2>2. CASE Published = {}
    BY <2>2, FS_EmptySet
  <2>3. CASE Published # {}
    <3>1. PICK t : Published = {t}
      BY <2>1, <2>3
    <3> QED
      BY <3>1, FS_Singleton
  <2> QED
    BY <2>2, <2>3
<1>2. DefaultHasPrice
  BY DEF PricingInv, PolicyInv, DefaultHasPrice, Ordered, InBounds, MarginOf
<1> QED
  BY <1>1, <1>2 DEF PriceListSound

LEMMA PricesStand ==
  ASSUME PricingInv, PricingNext
  PROVE  PublishedPricesStand
<1> SUFFICES ASSUME NEW t \in Published, Catalog \notin collided'
             PROVE  items'[t] = items[t]
  BY DEF PublishedPricesStand
<1>1. /\ pricer \in [Requests -> PricerStates]
      /\ items \in [Templates -> [Items -> Prices \cup {None}]]
      /\ t \in Templates
  BY DEF PricingInv, PricingTypeOK, Published
<1>2. CASE UNCHANGED items
  BY <1>2
<1>3. ASSUME NEW r \in Requests,
             AddItemWrite(r) \/ ChangeItemWrite(r) \/ DeleteItemWrite(r)
      PROVE  items'[t] = items[t]
  <2>1. Returns(r) /\ pricer[r].step \in {"adding", "changing", "deleting"}
    BY <1>3 DEF AddItemWrite, ChangeItemWrite, DeleteItemWrite
  <2>2. collided' = collided
    BY <2>1 DEF Returns
  <2>3. pricer[r].template # t
    BY <2>1, <2>2 DEF PricingInv, CatalogInv, CatalogFits
  <2>4. PICK u, i, price : /\ u = pricer[r].template /\ i = pricer[r].item
                           /\ price = pricer[r].price
    OBVIOUS
  <2>5. \/ items' = [items EXCEPT ![u][i] = price]
        \/ items' = [items EXCEPT ![u][i] = None]
        \/ items' = items
    BY <1>3, <2>4 DEF AddItemWrite, ChangeItemWrite, DeleteItemWrite
  <2> QED
    BY <1>1, <2>3, <2>4, <2>5
<1>4. \/ UNCHANGED items
      \/ \E r \in Requests :
           AddItemWrite(r) \/ ChangeItemWrite(r) \/ DeleteItemWrite(r)
  BY DEF PricingNext, CreateTemplate, AddItemRead, ChangeItemRead, DeleteItemRead,
     PublishRead, PublishCommit, ArchiveTemplate, PatchPolicyRead, PatchPolicyWrite,
     CreateOverride, PatchOverride, DeleteOverride, SetsOverride, Propose,
     ResolveRead, ResolveWrite, PricerStops
<1> QED
  BY <1>2, <1>3, <1>4

LEMMA DecisionsKept ==
  ASSUME PricingInv, PricingNext
  PROVE  DecidedOnce
<1> SUFFICES ASSUME NEW k \in DOMAIN proposals, proposals[k] # "pending"
             PROVE  proposals'[k] = proposals[k]
  BY DEF DecidedOnce
<1>1. proposals \in Seq({"pending", "approved", "rejected"})
  BY DEF PricingInv, PricingTypeOK
<1>2. CASE Propose
  BY <1>1, <1>2 DEF Propose
<1>3. ASSUME NEW r \in Requests, ResolveWrite(r)
      PROVE  proposals'[k] = proposals[k]
  <2>1. PICK j, to : j = pricer[r].row /\ to = pricer[r].to
    OBVIOUS
  <2>2. proposals' = IF proposals[j] = "pending"
                     THEN [proposals EXCEPT ![j] = to] ELSE proposals
    BY <1>3, <2>1 DEF ResolveWrite
  <2> QED
    BY <1>1, <2>2
<1>4. \/ UNCHANGED proposals \/ Propose \/ \E r \in Requests : ResolveWrite(r)
  BY DEF PricingNext, CreateTemplate, AddItemRead, ChangeItemRead, DeleteItemRead,
     AddItemWrite, ChangeItemWrite, DeleteItemWrite,
     PublishRead, PublishCommit, ArchiveTemplate, PatchPolicyRead, PatchPolicyWrite,
     CreateOverride, PatchOverride, DeleteOverride, SetsOverride,
     ResolveRead, PricerStops
<1> QED
  BY <1>2, <1>3, <1>4

(* Branches see one price list, unless two requests overlapped on the       *)
(* catalog, and a line without overrides always has a price, however edits  *)
(* of the policy overlap (catalog-routes, margin-routes).                   *)
THEOREM PriceListAlwaysSound == PricingSpec => []PriceListSound
<1> QED
  BY PricingInitInv, PricingStepInv, PricingSound, PTL DEF PricingSpec

(* The items of a published template stand, unless two catalog requests     *)
(* overlapped; a proposal is decided once even when two managers decide it  *)
(* together.                                                                *)
THEOREM PricesAlwaysStand ==
  PricingSpec => [][PublishedPricesStand /\ DecidedOnce]_pricingVars
<1>1. PricingInv /\ [PricingNext]_pricingVars
        => [PublishedPricesStand /\ DecidedOnce]_pricingVars
  BY PricesStand, DecisionsKept
<1> QED
  BY <1>1, PricingInitInv, PricingStepInv, PTL DEF PricingSpec

-----------------------------------------------------------------------------
(* The supplier's client.                                                   *)

(* The provider has a document of this reference; it is filed under the     *)
(* quote's own id.                                                          *)
OnFile(n) ==
  IF n.via = "mock" THEN \E k \in ExternalIds : atMock[k] = n.number
  ELSE "commit" \in atBc[n.number]

OwnFile(d, n) == n.number = IF n.via = "mock" THEN atMock[d] ELSE d

(* A row's reference is one its provider gave, and still has unless the row *)
(* is known as moved; the BC AI Agent never forgets.                        *)
RowFits(d) ==
  ref[d] # None =>
    /\ ref[d].via = "bc_ai_agent" \/ d \notin moved =>
         OnFile(ref[d]) /\ (d \notin rekeyed => OwnFile(d, ref[d]))
    /\ bound # None /\ ref[d].via # bound => d \in moved

(* A call goes to the provider that is bound until the next restart, a      *)
(* conversion or a void for a quote with a reference and under its id; an   *)
(* answer gives what the provider has under the key.                        *)
CallFits(g) ==
  /\ g.step = "read" /\ g.asks =>
       g.op # "price" /\ (g.op # "commit" => ref[g.row] # None)
  /\ g.step \in {"calling", "answered"} =>
       /\ g.via = bound
       /\ g.op # "commit" => g.key = g.row /\ ref[g.row] # None
  /\ g.step = "answered" =>
       /\ g.given # None =>
            /\ g.op = "commit" /\ g.given.via = bound
            /\ IF bound = "mock" THEN g.given.number = atMock[g.key]
               ELSE g.given.number = g.key /\ "commit" \in atBc[g.key]
       /\ g.outcome = "not_found" => g.row \in moved \cup rekeyed

CommittedHasRef == \A d \in Documents : standing[d] = "committed" => ref[d] # None

SupplierInv ==
  /\ SupplierTypeOK /\ ReferencesDiffer /\ CommittedHasRef
  /\ \A d \in Documents : RowFits(d)
  /\ \A r \in Requests : CallFits(caller[r])

LEMMA CallerShapes ==
  ASSUME NEW g \in CallerStates
  PROVE  /\ g.step \in {"read", "calling", "answered"} <=> g # Idle
         /\ g # Idle => g.row \in Documents
         /\ g.step = "read" => g.op \in Routes /\ g.asks \in BOOLEAN
         /\ g.step \in {"calling", "answered"} =>
              g.op \in Operations /\ g.via \in Kinds /\ g.key \in ExternalIds
         /\ g.step = "calling" => g.tries \in 1..MaxTries
         /\ g.step = "answered" => /\ g.given \in Refs \cup {None}
                                   /\ g.outcome \in {"done", "not_found", "failed"}
  BY DEF CallerStates, Idle

LEMMA IdleFits == Idle \in CallerStates /\ CallFits(Idle)
  BY DEF CallerStates, CallFits, Idle

LEMMA SupplierInitInv == SupplierInit => SupplierInv
<1> SUFFICES ASSUME SupplierInit PROVE SupplierInv
  OBVIOUS
<1>1. SupplierTypeOK
  BY SupplierAssumption
     DEF SupplierAssumption, SupplierInit, SupplierTypeOK, NoRequests, CallerStates,
     Standings
<1>2. \A r \in Requests : CallFits(caller[r])
  BY IdleFits DEF SupplierInit, NoRequests
<1>3. \A d \in Documents : RowFits(d)
  BY DEF SupplierInit, RowFits
<1>4. ReferencesDiffer /\ CommittedHasRef
  BY DEF SupplierInit, ReferencesDiffer, CommittedHasRef
<1> QED
  BY <1>1, <1>2, <1>3, <1>4 DEF SupplierInv

(* A reference just recorded. *)
Fresh(d) ==
  /\ ref[d] \in Refs /\ ref[d].via = bound /\ OnFile(ref[d])
  /\ d \notin rekeyed => OwnFile(d, ref[d])

(* What no step but a restart takes back. *)
DocumentsGrow ==
  /\ bound' = bound /\ moved \subseteq moved' /\ rekeyed \subseteq rekeyed'
  /\ \A k \in ExternalIds :
       /\ atMock[k] # 0 => atMock'[k] = atMock[k]
       /\ atBc[k] \subseteq atBc'[k]
  /\ \A d \in Documents : ref'[d] = ref[d] \/ Fresh(d)'

LEMMA RowsKept ==
  ASSUME SupplierInv, DocumentsGrow, NEW d \in Documents
  PROVE  RowFits(d)'
<1>1. /\ RowFits(d) /\ ref[d] \in Refs \cup {None} /\ 0 \notin 1..MaxSerial
      /\ bound' = bound /\ moved \subseteq moved' /\ rekeyed \subseteq rekeyed'
      /\ bound \in Kinds \cup {None} /\ d \in ExternalIds
  BY DEF SupplierInv, SupplierTypeOK, DocumentsGrow, ExternalIds
<1>2. CASE ref'[d] = ref[d]
  <2> SUFFICES ASSUME ref[d] # None PROVE RowFits(d)'
    BY <1>2 DEF RowFits
  <2>1. PICK n \in Refs : n = ref[d]
    BY <1>1
  <2>2. /\ n.via \in {"mock", "bc_ai_agent"}
        /\ n.via = "mock" => n.number # 0
        /\ n.via = "bc_ai_agent" => n.number \in ExternalIds
    BY <1>1, <2>1 DEF Refs
  <2>3. OnFile(n) => OnFile(n)'
    BY <2>2 DEF OnFile, DocumentsGrow
  <2>4. OwnFile(d, n) => OwnFile(d, n)'
    BY <1>1, <2>2 DEF OwnFile, DocumentsGrow
  <2>5. /\ n.via = "bc_ai_agent" \/ d \notin moved =>
             OnFile(n) /\ (d \notin rekeyed => OwnFile(d, n))
        /\ bound # None /\ n.via # bound => d \in moved
    BY <1>1, <2>1 DEF RowFits
  <2>6. /\ n.via = "bc_ai_agent" \/ d \notin moved' =>
             OnFile(n)' /\ (d \notin rekeyed' => OwnFile(d, n)')
        /\ bound' # None /\ n.via # bound' => d \in moved'
    BY <1>1, <2>3, <2>4, <2>5
  <2> QED
    BY <1>2, <2>1, <2>6 DEF RowFits, OnFile, OwnFile
<1>3. CASE Fresh(d)'
  BY <1>3 DEF Fresh, RowFits
<1> QED
  BY <1>2, <1>3 DEF DocumentsGrow

LEMMA CallKept ==
  ASSUME SupplierInv, DocumentsGrow, NEW g \in CallerStates, CallFits(g)
  PROVE  CallFits(g)'
<1> SUFFICES ASSUME g # Idle PROVE CallFits(g)'
  BY IdleFits DEF CallFits, Idle
<1>1. PICK d \in Documents : d = g.row
  BY CallerShapes
<1>2. /\ 0 \notin 1..MaxSerial /\ bound' = bound
      /\ moved \subseteq moved' /\ rekeyed \subseteq rekeyed'
      /\ ref[d] # None => ref'[d] # None
  BY SupplierAssumption DEF DocumentsGrow, Fresh, SupplierAssumption
<1>3. g.step = "read" /\ g.asks =>
        g.op # "price" /\ (g.op # "commit" => ref'[g.row] # None)
  BY <1>1, <1>2 DEF CallFits
<1>4. g.step \in {"calling", "answered"} =>
        /\ g.via = bound'
        /\ g.op # "commit" => g.key = g.row /\ ref'[g.row] # None
  BY <1>1, <1>2 DEF CallFits
<1>5. ASSUME g.step = "answered"
      PROVE  /\ g.given # None =>
                  /\ g.op = "commit" /\ g.given.via = bound'
                  /\ IF bound' = "mock" THEN g.given.number = atMock'[g.key]
                     ELSE g.given.number = g.key /\ "commit" \in atBc'[g.key]
             /\ g.outcome = "not_found" => g.row \in moved' \cup rekeyed'
  <2>1. PICK k \in ExternalIds : k = g.key
    BY <1>5, CallerShapes
  <2>2. g.given \in Refs \cup {None}
    BY <1>5, CallerShapes
  <2>3. g.given # None /\ g.given.via = "mock" => g.given.number # 0
    BY <1>2, <2>2 DEF Refs
  <2>4. /\ atMock[k] # 0 => atMock'[k] = atMock[k]
        /\ atBc[k] \subseteq atBc'[k]
    BY DEF DocumentsGrow
  <2> QED
    BY <1>2, <1>5, <2>1, <2>3, <2>4 DEF CallFits
<1> QED
  BY <1>3, <1>4, <1>5 DEF CallFits

LEMMA CallsAdvance ==
  ASSUME SupplierInv, DocumentsGrow, NEW r \in Requests, NEW g \in CallerStates,
         caller' = [caller EXCEPT ![r] = g], CallFits(g)',
         SupplierTypeOK', ReferencesDiffer', CommittedHasRef'
  PROVE  SupplierInv'
<1>1. ASSUME NEW q \in Requests PROVE CallFits(caller[q])'
  <2>1. caller \in [Requests -> CallerStates]
    BY DEF SupplierInv, SupplierTypeOK
  <2>2. PICK h \in CallerStates : h = caller[q]
    BY <2>1
  <2>3. CASE q = r
    <3>1. caller'[q] = g
      BY <2>1, <2>3
    <3> QED
      BY <3>1 DEF CallFits
  <2>4. CASE q # r
    <3>1. caller'[q] = h
      BY <2>1, <2>2, <2>4
    <3>2. CallFits(h)
      BY <2>2 DEF SupplierInv
    <3>3. CallFits(h)'
      BY <3>2, CallKept
    <3> QED
      BY <3>1, <3>3 DEF CallFits
  <2> QED
    BY <2>3, <2>4
<1>2. \A d \in Documents : RowFits(d)'
  BY RowsKept
<1> QED
  BY <1>1, <1>2 DEF SupplierInv

LEMMA RoutesType ==
  /\ \A op \in Operations : op # "price"
  /\ \A op \in Routes : op = "price" \/ op \in Operations
  /\ ComesFrom("convert") = {"committed"}
  BY DEF Routes, Operations, ComesFrom

LEMMA WrittenType ==
  ASSUME standing \in [Documents -> Standings], NEW d \in Documents, NEW op \in Routes
  PROVE  /\ Written(d, op) \in [Documents -> Standings]
         /\ \A e \in Documents : Written(d, op)[e] = "committed" => standing[e] = "committed"
<1>1. op \in {"price", "commit", "convert", "void"}
  BY DEF Routes, Operations
<1>2. CASE op = "price"
  BY <1>2 DEF Written, Standings
<1>3. CASE op = "commit"
  BY <1>3 DEF Written
<1>4. CASE op = "convert"
  BY <1>4 DEF Written, Standings
<1>5. CASE op = "void"
  BY <1>5 DEF Written, Standings
<1> QED
  BY <1>1, <1>2, <1>3, <1>4, <1>5

(* A request that reads asks for a conversion or a void only of a quote     *)
(* that has a reference.                                                    *)
LEMMA StatusReadKeeps ==
  ASSUME SupplierInv, NEW r \in Requests, NEW d \in Documents, NEW op \in Routes,
         StatusRead(r, d, op)
  PROVE  SupplierInv'
<1>1. /\ SupplierTypeOK /\ caller \in [Requests -> CallerStates]
      /\ standing[d] = "committed" => ref[d] # None
      /\ standing[d] \in ComesFrom(op)
      /\ UNCHANGED <<kind, bound, standing, atBc, atMock, serial, network, ref,
                     ordered, moved, rekeyed>>
  BY DEF SupplierInv, SupplierTypeOK, StatusRead, CommittedHasRef
<1>2. PICK asks \in BOOLEAN :
        /\ caller' = [caller EXCEPT ![r] =
             [step |-> "read", row |-> d, op |-> op, asks |-> asks]]
        /\ op = "price" => ~asks
        /\ op = "void" => (asks <=> ref[d] # None)
  <2>1. op \in {"price", "commit", "convert", "void"}
    BY DEF Routes, Operations
  <2> QED
    BY <2>1 DEF StatusRead
<1>3. PICK g : g = [step |-> "read", row |-> d, op |-> op, asks |-> asks]
  OBVIOUS
<1>4. /\ g \in CallerStates /\ g.step = "read" /\ g.row = d /\ g.op = op
      /\ g.asks = asks
  BY <1>3 DEF CallerStates
<1>5. caller' = [caller EXCEPT ![r] = g]
  BY <1>2, <1>3
<1>6. op = "convert" => ref[d] # None
  BY <1>1, RoutesType
<1>7. op \in {"price", "commit", "convert", "void"}
  BY DEF Routes, Operations
<1>8. CallFits(g)'
  BY <1>1, <1>2, <1>4, <1>6, <1>7 DEF CallFits
<1>9. DocumentsGrow
  BY <1>1 DEF DocumentsGrow
<1>10. SupplierTypeOK' /\ ReferencesDiffer' /\ CommittedHasRef'
  <2>1. caller' \in [Requests -> CallerStates]
    BY <1>1, <1>4, <1>5
  <2> QED
    BY <1>1, <2>1 DEF SupplierTypeOK, SupplierInv, ReferencesDiffer, CommittedHasRef
<1> QED
  BY <1>4, <1>5, <1>8, <1>9, <1>10, CallsAdvance

LEMMA AloneKeeps ==
  ASSUME SupplierInv, NEW r \in Requests, WritesAlone(r)
  PROVE  SupplierInv'
<1>1. /\ SupplierTypeOK /\ caller \in [Requests -> CallerStates]
      /\ standing \in [Documents -> Standings]
      /\ UNCHANGED <<kind, bound, atBc, atMock, serial, network, ref, ordered, moved,
                     rekeyed, calls>>
      /\ caller' = [caller EXCEPT ![r] = Idle]
  BY DEF SupplierInv, SupplierTypeOK, WritesAlone
<1>2. PICK d \in Documents, op \in Routes : standing' = Written(d, op)
  BY <1>1, CallerShapes DEF WritesAlone
<1>3. /\ standing' \in [Documents -> Standings]
      /\ \A e \in Documents : standing'[e] = "committed" => standing[e] = "committed"
  BY <1>1, <1>2, WrittenType
<1>4. CallFits(Idle)'
  BY DEF CallFits, Idle
<1>5. DocumentsGrow
  BY <1>1 DEF DocumentsGrow
<1>6. SupplierTypeOK' /\ ReferencesDiffer' /\ CommittedHasRef'
  <2>1. caller' \in [Requests -> CallerStates]
    BY <1>1, IdleFits
  <2> QED
    BY <1>1, <1>3, <2>1 DEF SupplierTypeOK, SupplierInv, ReferencesDiffer, CommittedHasRef
<1> QED
  BY <1>1, <1>4, <1>5, <1>6, IdleFits, CallsAdvance

LEMMA CallKeeps ==
  ASSUME SupplierInv, NEW r \in Requests, NEW key \in ExternalIds, CallBegins(r, key)
  PROVE  SupplierInv'
<1>1. /\ SupplierTypeOK /\ caller \in [Requests -> CallerStates]
      /\ bound \in Kinds \cup {None} /\ kind \in Kinds
      /\ standing \in [Documents -> Standings]
      /\ ref \in [Documents -> Refs \cup {None}]
      /\ None \notin Kinds /\ MaxTries \in Nat \ {0}
      /\ moved \subseteq Documents
      /\ \A q \in Requests : caller[q] \in CallerStates /\ CallFits(caller[q])
  BY SupplierAssumption DEF SupplierInv, SupplierTypeOK, SupplierAssumption
<1>2. PICK b \in Kinds : b = Binding
  BY <1>1 DEF Binding
<1>3. PICK d, op : d = caller[r].row /\ op = caller[r].op
  OBVIOUS
<1>4. /\ d \in Documents /\ op \in Operations
      /\ op # "commit" => ref[d] # None /\ key = d
  <2>1. caller[r].step = "read" /\ caller[r].asks /\ key \in KeyFor(d, op)
    BY <1>3 DEF CallBegins
  <2>2. d \in Documents /\ op \in Routes /\ op # "price"
        /\ (op # "commit" => ref[d] # None)
    BY <1>1, <1>3, <2>1, CallerShapes DEF CallFits
  <2> QED
    BY <2>1, <2>2, RoutesType DEF KeyFor
<1>5. PICK g : g = [step |-> "calling", row |-> d, op |-> op, via |-> b, key |-> key,
                    tries |-> 1]
  OBVIOUS
<1>6. /\ g \in CallerStates /\ g.step = "calling"
      /\ g.row = d /\ g.op = op /\ g.via = b /\ g.key = key
  BY <1>1, <1>4, <1>5 DEF CallerStates
<1>7. /\ bound' = b /\ caller' = [caller EXCEPT ![r] = g]
      /\ standing' = Written(d, op)
      /\ moved' = moved \cup {e \in Documents : ref[e] # None /\ ref[e].via # b}
      /\ UNCHANGED <<kind, atBc, atMock, serial, network, ref, ordered, rekeyed, calls>>
  BY <1>2, <1>3, <1>5 DEF CallBegins
<1>8. /\ standing' \in [Documents -> Standings]
      /\ \A e \in Documents : standing'[e] = "committed" => standing[e] = "committed"
  BY <1>1, <1>4, <1>7, WrittenType DEF Routes
<1>9. ASSUME NEW q \in Requests, caller[q].step \in {"calling", "answered"}
      PROVE  bound = b
  <2>1. bound \in Kinds
    BY <1>1, <1>9, CallerShapes DEF CallFits
  <2> QED
    BY <1>1, <1>2, <2>1 DEF Binding
<1>10. SupplierTypeOK' /\ ReferencesDiffer' /\ CommittedHasRef'
  <2>1. caller' \in [Requests -> CallerStates]
    BY <1>1, <1>6, <1>7
  <2> QED
    BY <1>1, <1>7, <1>8, <2>1
       DEF SupplierTypeOK, SupplierInv, ReferencesDiffer, CommittedHasRef
<1>11. ASSUME NEW e \in Documents PROVE RowFits(e)'
  <2>1. RowFits(e) /\ (bound # None => bound = b)
    BY <1>2 DEF SupplierInv, Binding
  <2> QED
    BY <1>7, <2>1 DEF RowFits, OnFile, OwnFile
<1>12. ASSUME NEW q \in Requests PROVE CallFits(caller[q])'
  <2>1. CASE q = r
    <3>1. caller'[q] = g
      BY <1>1, <1>7, <2>1
    <3> QED
      BY <1>4, <1>6, <1>7, <3>1 DEF CallFits
  <2>2. CASE q # r
    <3>1. /\ caller'[q] = caller[q]
          /\ caller[q].step \in {"calling", "answered"} => bound' = bound
      BY <1>1, <1>7, <1>9, <2>2
    <3>2. CallFits(caller[q])
      BY <1>1
    <3> QED
      BY <1>7, <3>1, <3>2 DEF CallFits
  <2> QED
    BY <2>1, <2>2
<1> QED
  BY <1>10, <1>11, <1>12 DEF SupplierInv

LEMMA RestartKeeps ==
  ASSUME SupplierInv, RestartProcess
  PROVE  SupplierInv'
<1>1. SupplierTypeOK /\ MaxSerial \in Nat
  BY SupplierAssumption DEF SupplierInv, SupplierAssumption
<1>2. SupplierTypeOK'
  BY <1>1, IdleFits DEF SupplierTypeOK, RestartProcess, NoRequests
<1>3. \A q \in Requests : CallFits(caller[q])'
  BY DEF RestartProcess, NoRequests, CallFits, Idle
<1>4. ASSUME NEW d \in Documents PROVE RowFits(d)'
  <2> SUFFICES ASSUME ref[d] # None, ref[d].via # "mock" PROVE RowFits(d)'
    BY <1>1 DEF RowFits, RestartProcess, SupplierTypeOK, Refs
  <2>1. RowFits(d) /\ ref[d] \in Refs
    BY <1>1 DEF SupplierInv, SupplierTypeOK
  <2>2. ref[d].via = "bc_ai_agent"
    BY <2>1 DEF Refs
  <2> QED
    BY <2>1, <2>2 DEF RowFits, RestartProcess, OnFile, OwnFile
<1>5. ReferencesDiffer' /\ CommittedHasRef'
  BY DEF SupplierInv, ReferencesDiffer, CommittedHasRef, RestartProcess
<1> QED
  BY <1>2, <1>3, <1>4, <1>5 DEF SupplierInv

LEMMA MockKeeps ==
  ASSUME SupplierInv, NEW r \in Requests, MockAnswers(r)
  PROVE  SupplierInv'
<1>1. /\ SupplierTypeOK /\ caller \in [Requests -> CallerStates]
      /\ caller[r] \in CallerStates /\ CallFits(caller[r])
      /\ caller[r].step = "calling" /\ caller[r].via = "mock"
      /\ atMock \in [ExternalIds -> 0..MaxSerial] /\ serial \in 0..MaxSerial
      /\ MaxSerial \in Nat
      /\ UNCHANGED <<kind, bound, standing, atBc, network, ref, ordered, moved, rekeyed,
                     calls>>
      /\ \A d \in Documents : RowFits(d) /\ ref[d] \in Refs \cup {None}
      /\ None \notin Refs
  BY SupplierAssumption
     DEF SupplierInv, SupplierTypeOK, MockAnswers, SupplierAssumption
<1>2. PICK d, op, k : /\ d = caller[r].row /\ op = caller[r].op /\ k = caller[r].key
                      /\ d \in Documents /\ op \in Operations /\ k \in ExternalIds
  BY <1>1, CallerShapes
<1>3. bound = "mock" /\ (op # "commit" => k = d /\ ref[d] # None)
  BY <1>1, <1>2 DEF CallFits
<1>4. CASE op = "commit"
  <2>1. PICK n : n = IF atMock[k] = 0 THEN serial + 1 ELSE atMock[k]
    OBVIOUS
  <2>2. /\ atMock' = [atMock EXCEPT ![k] = n]
        /\ serial' = IF atMock[k] = 0 THEN serial + 1 ELSE serial
        /\ serial' <= MaxSerial
        /\ Answered(r, "done", [via |-> "mock", number |-> atMock'[k]])
    BY <1>2, <1>4, <2>1 DEF MockAnswers
  <2>3. n \in 1..MaxSerial /\ serial' \in 0..MaxSerial
    BY <1>1, <1>2, <2>1, <2>2
  <2>4. /\ atMock' \in [ExternalIds -> 0..MaxSerial] /\ atMock'[k] = n
        /\ \A e \in ExternalIds : atMock[e] # 0 => atMock'[e] = atMock[e]
    BY <1>1, <1>2, <2>1, <2>2, <2>3
  <2>5. PICK given : given = [via |-> "mock", number |-> n]
    OBVIOUS
  <2>6. given \in Refs /\ given.via = "mock" /\ given.number = n
    BY <2>3, <2>5 DEF Refs
  <2>7. PICK g : g = [step |-> "answered", row |-> d, op |-> op, via |-> "mock",
                      key |-> k, outcome |-> "done", given |-> given]
    OBVIOUS
  <2>8. /\ g \in CallerStates /\ g.step = "answered" /\ g.row = d /\ g.key = k
        /\ g.op = op /\ g.via = "mock" /\ g.outcome = "done" /\ g.given = given
    BY <1>2, <2>6, <2>7 DEF CallerStates, Kinds
  <2>9. caller' = [caller EXCEPT ![r] = g]
    BY <1>1, <1>2, <2>2, <2>4, <2>5, <2>7 DEF Answered
  <2>10. DocumentsGrow
    BY <1>1, <2>4 DEF DocumentsGrow
  <2>11. CallFits(g)'
    BY <1>1, <1>3, <1>4, <2>4, <2>6, <2>8 DEF CallFits
  <2>12. SupplierTypeOK' /\ ReferencesDiffer' /\ CommittedHasRef'
    <3>1. caller' \in [Requests -> CallerStates]
      BY <1>1, <2>8, <2>9
    <3> QED
      BY <1>1, <2>3, <2>4, <3>1
         DEF SupplierTypeOK, SupplierInv, ReferencesDiffer, CommittedHasRef
  <2> QED
    BY <2>8, <2>9, <2>10, <2>11, <2>12, CallsAdvance
<1>5. CASE op # "commit"
  <2>1. PICK outcome : outcome = IF op = "convert" /\ atMock[k] = 0
                                 THEN "not_found" ELSE "done"
    OBVIOUS
  <2>2. /\ Answered(r, outcome, None) /\ UNCHANGED <<atMock, serial>>
        /\ outcome \in {"not_found", "done"}
    BY <1>2, <1>5, <2>1 DEF MockAnswers
  <2>3. PICK g : g = [step |-> "answered", row |-> d, op |-> op, via |-> "mock",
                      key |-> k, outcome |-> outcome, given |-> None]
    OBVIOUS
  <2>4. /\ g \in CallerStates /\ g.step = "answered" /\ g.row = d /\ g.key = k
        /\ g.op = op /\ g.via = "mock" /\ g.outcome = outcome /\ g.given = None
    BY <1>2, <2>2, <2>3 DEF CallerStates, Kinds
  <2>5. caller' = [caller EXCEPT ![r] = g]
    BY <1>1, <1>2, <2>2, <2>3 DEF Answered
  <2>6. DocumentsGrow
    BY <1>1, <2>2 DEF DocumentsGrow
  <2>7. outcome = "not_found" => d \in moved \cup rekeyed
    <3> SUFFICES ASSUME outcome = "not_found", d \notin moved, d \notin rekeyed
                 PROVE  FALSE
      OBVIOUS
    <3>1. atMock[d] = 0 /\ ref[d] \in Refs /\ RowFits(d)
      BY <1>1, <1>2, <1>3, <1>5, <2>1
    <3>2. ref[d].via = "mock" => ref[d].number # 0
      BY <1>1, <3>1 DEF Refs
    <3>3. ref[d].via = "mock"
      BY <1>1, <1>3, <3>1, SupplierAssumption DEF RowFits, SupplierAssumption, Kinds
    <3> QED
      BY <1>1, <3>1, <3>2, <3>3 DEF RowFits, OwnFile
  <2>8. CallFits(g)'
    BY <1>1, <1>3, <1>5, <2>4, <2>7 DEF CallFits
  <2>9. SupplierTypeOK' /\ ReferencesDiffer' /\ CommittedHasRef'
    <3>1. caller' \in [Requests -> CallerStates]
      BY <1>1, <2>4, <2>5
    <3> QED
      BY <1>1, <2>2, <3>1
         DEF SupplierTypeOK, SupplierInv, ReferencesDiffer, CommittedHasRef
  <2> QED
    BY <2>4, <2>5, <2>6, <2>8, <2>9, CallsAdvance
<1> QED
  BY <1>4, <1>5

-----------------------------------------------------------------------------
LEMMA CarriedOutGrows ==
  ASSUME atBc \in [ExternalIds -> SUBSET Operations],
         NEW k \in ExternalIds, NEW op \in Operations
  PROVE  /\ CarriedOut(k, op) \in [ExternalIds -> SUBSET Operations]
         /\ \A e \in ExternalIds : atBc[e] \subseteq CarriedOut(k, op)[e]
         /\ op # "convert" => op \in CarriedOut(k, op)[k]
         /\ "commit" \in atBc[k] => op \in CarriedOut(k, op)[k]
<1>1. CASE op = "convert" /\ "commit" \notin atBc[k]
  BY <1>1 DEF CarriedOut
<1>2. CASE ~(op = "convert" /\ "commit" \notin atBc[k])
  BY <1>2 DEF CarriedOut
<1> QED
  BY <1>1, <1>2

LEMMA BcKeeps ==
  ASSUME SupplierInv, NEW r \in Requests, BcAnswers(r)
  PROVE  SupplierInv'
<1>1. /\ SupplierTypeOK /\ caller \in [Requests -> CallerStates]
      /\ caller[r] \in CallerStates /\ CallFits(caller[r])
      /\ caller[r].step = "calling" /\ caller[r].via = "bc_ai_agent"
      /\ atBc \in [ExternalIds -> SUBSET Operations]
      /\ UNCHANGED <<kind, bound, standing, atMock, serial, network, ref, ordered,
                     moved, rekeyed, calls>>
      /\ \A d \in Documents : RowFits(d) /\ ref[d] \in Refs \cup {None}
      /\ None \notin Refs /\ None \notin Kinds
  BY SupplierAssumption
     DEF SupplierInv, SupplierTypeOK, BcAnswers, SupplierAssumption
<1>2. PICK d, op, k : /\ d = caller[r].row /\ op = caller[r].op /\ k = caller[r].key
                      /\ d \in Documents /\ op \in Operations /\ k \in ExternalIds
  BY <1>1, CallerShapes
<1>3. bound = "bc_ai_agent" /\ (op # "commit" => k = d /\ ref[d] # None)
  BY <1>1, <1>2 DEF CallFits
<1>4. /\ atBc' = CarriedOut(k, op)
      /\ atBc' \in [ExternalIds -> SUBSET Operations]
      /\ \A e \in ExternalIds : atBc[e] \subseteq atBc'[e]
      /\ op # "convert" => op \in atBc'[k]
      /\ "commit" \in atBc[k] => op \in atBc'[k]
  BY <1>1, <1>2, CarriedOutGrows DEF BcAnswers
<1>5. PICK outcome, given :
        /\ outcome = IF op \in atBc'[k] THEN "done" ELSE "not_found"
        /\ given = IF op = "commit" THEN [via |-> "bc_ai_agent", number |-> k]
                   ELSE None
  OBVIOUS
<1>6. Answered(r, outcome, given)
  BY <1>2, <1>5 DEF BcAnswers
<1>7. /\ given \in Refs \cup {None}
      /\ given # None => given.via = "bc_ai_agent" /\ given.number = k
                         /\ op = "commit"
  BY <1>2, <1>5 DEF Refs
<1>8. PICK g : g = [step |-> "answered", row |-> d, op |-> op, via |-> "bc_ai_agent",
                    key |-> k, outcome |-> outcome, given |-> given]
  OBVIOUS
<1>9. /\ g \in CallerStates /\ g.step = "answered" /\ g.row = d /\ g.key = k
      /\ g.op = op /\ g.via = "bc_ai_agent" /\ g.outcome = outcome
      /\ g.given = given
  BY <1>2, <1>5, <1>7, <1>8 DEF CallerStates, Kinds
<1>10. caller' = [caller EXCEPT ![r] = g]
  BY <1>1, <1>2, <1>6, <1>8 DEF Answered
<1>11. DocumentsGrow
  BY <1>1, <1>4 DEF DocumentsGrow
<1>12. outcome = "not_found" => d \in moved \cup rekeyed
  <2> SUFFICES ASSUME outcome = "not_found", d \notin moved, d \notin rekeyed
               PROVE  FALSE
    OBVIOUS
  <2>1. op \notin atBc'[k]
    BY <1>5
  <2>2. op = "convert" /\ "commit" \notin atBc[k] /\ k = d /\ ref[d] # None
    BY <1>3, <1>4, <2>1
  <2>3. ref[d].via = "bc_ai_agent"
    BY <1>1, <1>2, <1>3, <2>2 DEF RowFits, Kinds
  <2> QED
    BY <1>1, <1>2, <2>2, <2>3 DEF RowFits, OnFile, OwnFile
<1>13. CallFits(g)'
  BY <1>1, <1>3, <1>4, <1>7, <1>9, <1>12 DEF CallFits
<1>14. SupplierTypeOK' /\ ReferencesDiffer' /\ CommittedHasRef'
  <2>1. caller' \in [Requests -> CallerStates]
    BY <1>1, <1>9, <1>10
  <2> QED
    BY <1>1, <1>4, <2>1
       DEF SupplierTypeOK, SupplierInv, ReferencesDiffer, CommittedHasRef
<1> QED
  BY <1>9, <1>10, <1>11, <1>13, <1>14, CallsAdvance

(* A call that failed, or is tried again. *)
LEMMA FailKeeps ==
  ASSUME SupplierInv, NEW r \in Requests, BcRefuses(r) \/ BcTimesOut(r)
  PROVE  SupplierInv'
<1>1. /\ SupplierTypeOK /\ caller \in [Requests -> CallerStates]
      /\ caller[r] \in CallerStates /\ CallFits(caller[r])
      /\ caller[r].step = "calling" /\ caller[r].via = "bc_ai_agent"
      /\ UNCHANGED <<kind, bound, standing, atBc, atMock, serial, ref, ordered, moved,
                     rekeyed, calls>>
      /\ MaxTries \in Nat
      /\ network \subseteq [key : ExternalIds, op : Operations]
  BY SupplierAssumption
     DEF SupplierInv, SupplierTypeOK, BcRefuses, BcTimesOut, SupplierAssumption
<1>2. PICK d, op, k, n :
        /\ d = caller[r].row /\ op = caller[r].op /\ k = caller[r].key
        /\ n = caller[r].tries /\ n \in 1..MaxTries
        /\ d \in Documents /\ op \in Operations /\ k \in ExternalIds
  BY <1>1, CallerShapes
<1>3. /\ bound = "bc_ai_agent" /\ (op # "commit" => k = d /\ ref[d] # None)
      /\ caller[r] = [step |-> "calling", row |-> d, op |-> op,
                      via |-> "bc_ai_agent", key |-> k, tries |-> n]
  BY <1>1, <1>2, CallerShapes DEF CallFits, CallerStates, Idle
<1>4. DocumentsGrow
  BY <1>1 DEF DocumentsGrow
<1>5. network' \subseteq [key : ExternalIds, op : Operations]
  BY <1>1, <1>2 DEF BcRefuses, BcTimesOut
<1>6. ASSUME NEW g \in CallerStates, caller' = [caller EXCEPT ![r] = g],
             g.step \in {"calling", "answered"}, g.row = d, g.op = op, g.key = k,
             g.via = "bc_ai_agent",
             g.step = "answered" => g.given = None /\ g.outcome = "failed"
      PROVE  SupplierInv'
  <2>1. CallFits(g)'
    BY <1>1, <1>2, <1>3, <1>6 DEF CallFits
  <2>2. caller' \in [Requests -> CallerStates]
    BY <1>1, <1>6
  <2>3. SupplierTypeOK' /\ ReferencesDiffer' /\ CommittedHasRef'
    BY <1>1, <1>5, <2>2
       DEF SupplierTypeOK, SupplierInv, ReferencesDiffer, CommittedHasRef
  <2> QED
    BY <1>4, <1>6, <2>1, <2>3, CallsAdvance
<1>7. CASE Answered(r, "failed", None)
  <2>1. PICK g : g = [step |-> "answered", row |-> d, op |-> op, via |-> "bc_ai_agent",
                      key |-> k, outcome |-> "failed", given |-> None]
    OBVIOUS
  <2>2. /\ g \in CallerStates /\ g.step = "answered" /\ g.row = d /\ g.key = k
        /\ g.op = op /\ g.via = "bc_ai_agent" /\ g.outcome = "failed"
        /\ g.given = None
    BY <1>2, <2>1 DEF CallerStates, Kinds
  <2>3. caller' = [caller EXCEPT ![r] = g]
    BY <1>1, <1>2, <1>7, <2>1 DEF Answered
  <2> QED
    BY <1>6, <2>2, <2>3
<1>8. CASE n < MaxTries /\ caller' = [caller EXCEPT ![r].tries = @ + 1]
  <2>1. PICK g : g = [step |-> "calling", row |-> d, op |-> op, via |-> "bc_ai_agent",
                      key |-> k, tries |-> n + 1]
    OBVIOUS
  <2>2. /\ g \in CallerStates /\ g.row = d /\ g.step = "calling" /\ g.key = k
        /\ g.op = op /\ g.via = "bc_ai_agent"
    BY <1>1, <1>2, <1>8, <2>1 DEF CallerStates, Kinds
  <2>3. [caller[r] EXCEPT !.tries = n + 1] = g
    BY <1>3, <2>1
  <2>4. caller' = [caller EXCEPT ![r] = [caller[r] EXCEPT !.tries = n + 1]]
    BY <1>2, <1>8
  <2>5. caller' = [caller EXCEPT ![r] = g]
    BY <2>3, <2>4
  <2> QED
    BY <1>6, <2>2, <2>5
<1> QED
  BY <1>2, <1>7, <1>8 DEF BcRefuses, BcTimesOut

(* What is carried out or switched beside the calls. *)
LEMMA AsideKeepsCalls ==
  ASSUME SupplierInv, UNCHANGED caller, DocumentsGrow, SupplierTypeOK',
         ReferencesDiffer', CommittedHasRef'
  PROVE  SupplierInv'
<1>1. ASSUME NEW q \in Requests PROVE CallFits(caller[q])'
  <2>1. PICK h \in CallerStates : h = caller[q]
    BY DEF SupplierInv, SupplierTypeOK
  <2>2. CallFits(h)
    BY <2>1 DEF SupplierInv
  <2>3. CallFits(h)'
    BY <2>2, CallKept
  <2> QED
    BY <2>1, <2>3 DEF CallFits
<1>2. \A d \in Documents : RowFits(d)'
  BY RowsKept
<1> QED
  BY <1>1, <1>2 DEF SupplierInv

LEMMA LateKeeps ==
  ASSUME SupplierInv, NEW n \in network, LateRequest(n)
  PROVE  SupplierInv'
<1>1. /\ SupplierTypeOK /\ n.key \in ExternalIds /\ n.op \in Operations
      /\ atBc \in [ExternalIds -> SUBSET Operations]
      /\ UNCHANGED <<kind, bound, standing, atMock, serial, caller, ref, ordered, moved,
                     rekeyed, calls>>
  BY DEF SupplierInv, SupplierTypeOK, LateRequest
<1>2. PICK k \in ExternalIds, op \in Operations : k = n.key /\ op = n.op
  BY <1>1
<1>3. /\ atBc' \in [ExternalIds -> SUBSET Operations]
      /\ \A e \in ExternalIds : atBc[e] \subseteq atBc'[e]
  BY <1>1, <1>2, CarriedOutGrows DEF LateRequest
<1>4. DocumentsGrow
  BY <1>1, <1>3 DEF DocumentsGrow
<1>5. SupplierTypeOK' /\ ReferencesDiffer' /\ CommittedHasRef'
  BY <1>1, <1>3
     DEF SupplierTypeOK, SupplierInv, ReferencesDiffer, CommittedHasRef, LateRequest
<1> QED
  BY <1>1, <1>4, <1>5, AsideKeepsCalls

LEMMA SwitchKeeps ==
  ASSUME SupplierInv, SwitchKind
  PROVE  SupplierInv'
<1>1. DocumentsGrow /\ UNCHANGED caller
  BY DEF SwitchKind, DocumentsGrow
<1>2. SupplierTypeOK' /\ ReferencesDiffer' /\ CommittedHasRef'
  BY DEF SwitchKind, SupplierInv, SupplierTypeOK, ReferencesDiffer, CommittedHasRef
<1> QED
  BY <1>1, <1>2, AsideKeepsCalls

(* A recorded reference is on file, under the quote's id unless the quote   *)
(* is known as committed under another; so it is the one the row had, if    *)
(* the row had one that is known to be on file there.                       *)
LEMMA RecordedFresh ==
  ASSUME SupplierInv, NEW r \in Requests, CallRecorded(r)
  PROVE  \/ UNCHANGED <<ref, standing, rekeyed>>
         \/ \E d \in Documents, given \in Refs :
              /\ ref' = [ref EXCEPT ![d] = given]
              /\ standing' = [standing EXCEPT ![d] = "committed"]
              /\ rekeyed' = rekeyed \/ rekeyed' = rekeyed \cup {d}
              /\ Unused(d, given) /\ given.via = bound /\ bound \in Kinds
              /\ OnFile(given) /\ (d \notin rekeyed' => OwnFile(d, given))
<1>1. /\ caller[r] \in CallerStates /\ CallFits(caller[r])
      /\ caller[r].step = "answered"
  BY DEF SupplierInv, SupplierTypeOK, CallRecorded
<1>2. PICK d, given, key :
        /\ d = caller[r].row /\ given = caller[r].given /\ key = caller[r].key
        /\ d \in Documents /\ given \in Refs \cup {None} /\ key \in ExternalIds
  BY <1>1, CallerShapes
<1>3. CASE ~(given # None /\ Unused(d, given))
  BY <1>2, <1>3 DEF CallRecorded
<1>4. CASE given # None /\ Unused(d, given)
  <2>1. /\ ref' = [ref EXCEPT ![d] = given]
        /\ standing' = [standing EXCEPT ![d] = "committed"]
        /\ rekeyed' = IF key # d THEN rekeyed \cup {d} ELSE rekeyed
    BY <1>2, <1>4 DEF CallRecorded
  <2>2. /\ given.via = bound /\ given \in Refs /\ bound \in Kinds
        /\ IF bound = "mock" THEN given.number = atMock[key]
           ELSE given.number = key /\ "commit" \in atBc[key]
    BY <1>1, <1>2, <1>4, CallerShapes DEF CallFits
  <2>3. OnFile(given)
    BY <1>2, <2>2 DEF OnFile
  <2>4. d \notin rekeyed' => OwnFile(d, given)
    BY <2>1, <2>2 DEF OwnFile
  <2> QED
    BY <1>2, <1>4, <2>1, <2>2, <2>3, <2>4
<1> QED
  BY <1>3, <1>4

LEMMA RecordKeeps ==
  ASSUME SupplierInv, NEW r \in Requests, CallRecorded(r)
  PROVE  SupplierInv'
<1>1. /\ SupplierTypeOK /\ caller \in [Requests -> CallerStates]
      /\ caller[r] \in CallerStates /\ caller[r].step = "answered"
      /\ ref \in [Documents -> Refs \cup {None}]
      /\ standing \in [Documents -> Standings] /\ rekeyed \subseteq Documents
      /\ ordered \in [Documents -> Kinds \cup {None}]
      /\ caller' = [caller EXCEPT ![r] = Idle]
      /\ UNCHANGED <<kind, bound, atBc, atMock, serial, network, moved, calls>>
      /\ None \notin Refs
  BY SupplierAssumption DEF SupplierAssumption, SupplierInv, SupplierTypeOK, CallRecorded
<1>2. CallFits(Idle)'
  BY DEF CallFits, Idle
<1>3. ordered' \in [Documents -> Kinds \cup {None}]
  BY <1>1, CallerShapes DEF CallRecorded
<1>4. /\ ref' \in [Documents -> Refs \cup {None}] /\ DocumentsGrow
      /\ standing' \in [Documents -> Standings] /\ rekeyed' \subseteq Documents
      /\ ReferencesDiffer' /\ CommittedHasRef'
  <2>1. CASE UNCHANGED <<ref, standing, rekeyed>>
    BY <1>1, <2>1 DEF DocumentsGrow, SupplierInv, ReferencesDiffer, CommittedHasRef
  <2>2. CASE \E d \in Documents, given \in Refs :
              /\ ref' = [ref EXCEPT ![d] = given]
              /\ standing' = [standing EXCEPT ![d] = "committed"]
              /\ rekeyed' = rekeyed \/ rekeyed' = rekeyed \cup {d}
              /\ Unused(d, given) /\ given.via = bound /\ bound \in Kinds
              /\ OnFile(given) /\ (d \notin rekeyed' => OwnFile(d, given))
    <3>1. PICK d \in Documents, given \in Refs :
              /\ ref' = [ref EXCEPT ![d] = given]
              /\ standing' = [standing EXCEPT ![d] = "committed"]
              /\ rekeyed' = rekeyed \/ rekeyed' = rekeyed \cup {d}
              /\ Unused(d, given) /\ given.via = bound /\ bound \in Kinds
              /\ OnFile(given) /\ (d \notin rekeyed' => OwnFile(d, given))
      BY <2>2
    <3>2. /\ ref' \in [Documents -> Refs \cup {None}] /\ ref'[d] = given
          /\ \A e \in Documents \ {d} : ref'[e] = ref[e]
          /\ standing' \in [Documents -> Standings] /\ rekeyed' \subseteq Documents
          /\ rekeyed \subseteq rekeyed'
          /\ \A e \in Documents \ {d} : standing'[e] = standing[e]
      BY <1>1, <3>1 DEF Standings
    <3>3. Fresh(d)'
      BY <1>1, <3>1, <3>2 DEF Fresh, OnFile, OwnFile
    <3>4. DocumentsGrow
      BY <1>1, <3>2, <3>3 DEF DocumentsGrow
    <3>5. ReferencesDiffer'
      BY <3>1, <3>2 DEF SupplierInv, ReferencesDiffer, Unused
    <3>6. CommittedHasRef'
      BY <1>1, <3>2 DEF SupplierInv, CommittedHasRef
    <3> QED
      BY <3>2, <3>4, <3>5, <3>6
  <2> QED
    BY <2>1, <2>2, RecordedFresh
<1>5. SupplierTypeOK'
  <2>1. caller' \in [Requests -> CallerStates]
    BY <1>1, IdleFits
  <2> QED
    BY <1>1, <1>3, <1>4, <2>1 DEF SupplierTypeOK
<1> QED
  BY <1>1, <1>2, <1>4, <1>5, IdleFits, CallsAdvance

LEMMA DropKeeps ==
  ASSUME SupplierInv, NEW r \in Requests, AnswerDropped(r)
  PROVE  SupplierInv'
<1>1. /\ caller \in [Requests -> CallerStates]
      /\ caller' = [caller EXCEPT ![r] = Idle]
      /\ UNCHANGED <<kind, bound, standing, atBc, atMock, serial, network, ref, ordered,
                     moved, rekeyed, calls>>
  BY DEF SupplierInv, SupplierTypeOK, AnswerDropped
<1>2. CallFits(Idle)'
  BY DEF CallFits, Idle
<1>3. DocumentsGrow
  BY <1>1 DEF DocumentsGrow
<1>4. SupplierTypeOK' /\ ReferencesDiffer' /\ CommittedHasRef'
  <2>1. caller' \in [Requests -> CallerStates]
    BY <1>1, IdleFits
  <2> QED
    BY <1>1, <2>1 DEF SupplierTypeOK, SupplierInv, ReferencesDiffer, CommittedHasRef
<1> QED
  BY <1>1, <1>2, <1>3, <1>4, IdleFits, CallsAdvance

LEMMA SupplierStepInv ==
  SupplierInv /\ [SupplierNext]_supplierVars => SupplierInv'
<1>1. ASSUME SupplierInv, SupplierNext PROVE SupplierInv'
  BY <1>1, SwitchKeeps, RestartKeeps, StatusReadKeeps, AloneKeeps, CallKeeps, MockKeeps,
     BcKeeps, FailKeeps, LateKeeps, RecordKeeps, DropKeeps DEF SupplierNext
<1>2. ASSUME SupplierInv, UNCHANGED supplierVars PROVE SupplierInv'
  BY <1>2 DEF supplierVars, SupplierInv, SupplierTypeOK, ReferencesDiffer,
     CommittedHasRef, RowFits, CallFits, OnFile, OwnFile
<1> QED
  BY <1>1, <1>2

LEMMA SupplierSound ==
  ASSUME SupplierInv
  PROVE  ReferencesSound
<1>1. ReferenceIsKnown
  BY DEF ReferenceIsKnown, SupplierInv, RowFits, OnFile
<1>2. ConversionFindsQuote
  <2> SUFFICES ASSUME NEW r \in Requests, caller[r].step = "answered",
                      caller[r].outcome = "not_found"
               PROVE  caller[r].row \in moved \cup rekeyed
    BY DEF ConversionFindsQuote
  <2>1. CallFits(caller[r])
    BY DEF SupplierInv
  <2> QED
    BY <2>1 DEF CallFits
<1> QED
  BY <1>1, <1>2 DEF ReferencesSound, SupplierInv

(* Quotes and the documents their supplier holds belong together, whatever  *)
(* key they were committed under and whatever times out, arrives late,      *)
(* restarts or is switched (bc-ai-agent-client, registry, mock provider and *)
(* the routes that call them).                                              *)
THEOREM ReferencesAlwaysSound == SupplierSpec => []ReferencesSound
<1> QED
  BY SupplierInitInv, SupplierStepInv, SupplierSound, PTL DEF SupplierSpec

(* Committed twice at once, or again after it was priced again, a quote     *)
(* keeps its reference unless the commit had another key or the provider    *)
(* bound since a restart does not hold the quote.                           *)
THEOREM ReferenceAlwaysStands ==
  SupplierSpec => [][ReferenceStands]_supplierVars
<1>1. ASSUME SupplierInv, SupplierNext PROVE ReferenceStands
  <2>1. CASE UNCHANGED ref
    BY <2>1 DEF ReferenceStands
  <2>2. ASSUME NEW r \in Requests, CallRecorded(r) PROVE ReferenceStands
    <3>1. CASE UNCHANGED <<ref, standing, rekeyed>>
      BY <3>1 DEF ReferenceStands
    <3>2. CASE ~UNCHANGED <<ref, standing, rekeyed>>
      <4>1. PICK d \in Documents, given \in Refs :
              /\ ref' = [ref EXCEPT ![d] = given]
              /\ rekeyed' = rekeyed \/ rekeyed' = rekeyed \cup {d}
              /\ given.via = bound /\ bound \in Kinds
              /\ d \notin rekeyed' => OwnFile(d, given)
        BY <1>1, <2>2, <3>2, RecordedFresh
      <4>2. ref \in [Documents -> Refs \cup {None}] /\ RowFits(d)
        BY <1>1 DEF SupplierInv, SupplierTypeOK
      <4>3. ASSUME ref[d] # None, d \notin moved \cup rekeyed' PROVE given = ref[d]
        <5>1. /\ bound # None /\ ref[d] \in Refs /\ d \notin rekeyed /\ d \notin moved
              /\ OwnFile(d, given)
          BY <4>1, <4>2, <4>3, SupplierAssumption DEF SupplierAssumption
        <5>2. ref[d].via = bound /\ OwnFile(d, ref[d])
          BY <4>2, <4>3, <5>1 DEF RowFits
        <5>3. given.via = ref[d].via /\ given.number = ref[d].number
          BY <4>1, <5>1, <5>2 DEF OwnFile
        <5> QED
          BY <5>1, <5>3 DEF Refs
      <4> QED
        BY <4>1, <4>2, <4>3 DEF ReferenceStands
    <3> QED
      BY <3>1, <3>2
  <2>3. UNCHANGED ref \/ \E r \in Requests : CallRecorded(r)
    BY <1>1 DEF SupplierNext, SwitchKind, RestartProcess, StatusRead, WritesAlone,
       CallBegins, MockAnswers, BcAnswers, BcRefuses, BcTimesOut, LateRequest,
       AnswerDropped
  <2> QED
    BY <2>1, <2>2, <2>3
<1>2. SupplierInv /\ [SupplierNext]_supplierVars => [ReferenceStands]_supplierVars
  BY <1>1
<1> QED
  BY <1>2, SupplierInitInv, SupplierStepInv, PTL DEF SupplierSpec

-----------------------------------------------------------------------------
(* The voice agent.                                                         *)

(* What an orchestrator goes by is what the rows of its own conversation    *)
(* say: nobody else writes them, a call in talk has its session in progress *)
(* and was not handed over, and what it reads and ships is within the cap   *)
(* unless a price came between its two reads.                               *)
AgentFits(g) ==
  g # Idle =>
    /\ g.conv \in DOMAIN conversations
    /\ g.quote <= Len(voiceQuotes)
    /\ ~conversations[g.conv].ended
    /\ conversations[g.conv].handed <=> g.handed
    /\ g.step = "opening" =>
         /\ ~g.handed
         /\ \A c \in Calls : sessions[c] # None => sessions[c].conv # g.conv
    /\ g.step # "opening" =>
         sessions[g.call] # None /\ sessions[g.call].conv = g.conv
    /\ g.step \in {"thinking", "reading", "shipping"} => ~g.handed
    /\ g.step \in {"thinking", "reading", "shipping", "ending"} =>
         sessions[g.call].status = "in_progress"
    /\ g.step = "closing" =>
         conversations[g.conv].kept /\ conversations[g.conv].said = g.said
    /\ g.step \in {"reading", "shipping"} =>
         /\ g.ships \in DOMAIN voiceQuotes
         /\ g.confidence \in Confidences /\ g.confidence >= Floor.commitQuote
    /\ g.step = "reading" =>
         voiceQuotes[g.ships].total <= DollarCap \/ voiceQuotes[g.ships].torn
    /\ g.step = "shipping" =>
         /\ g.total \in Totals
         /\ g.total <= DollarCap \/ voiceQuotes[g.ships].torn

(* No two orchestrators and no two sessions share a conversation. *)
OwnConversation ==
  \A q, r \in Requests :
    agent[q] # Idle /\ agent[r] # Idle /\ agent[q].conv = agent[r].conv => q = r

OwnSession ==
  \A c, e \in Calls :
    sessions[c] # None /\ sessions[e] # None /\ sessions[c].conv = sessions[e].conv
      => c = e

SessionFits(c) ==
  sessions[c] # None =>
    LET conv == conversations[sessions[c].conv] IN
    /\ sessions[c].conv \in DOMAIN conversations
    /\ IF sessions[c].status = "in_progress" THEN ~conv.ended
       ELSE /\ conv.kept
            /\ (sessions[c].status = "transferred")
                 = (sessions[c].outcome = "transferred")
            /\ conv.handed => sessions[c].outcome = "transferred"
            /\ sessions[c].outcome # "transferred" =>
                 sessions[c].outcome = IF conv.said = "booked" THEN "booked"
                                       ELSE "none"

DeedsFit ==
  \A d \in deeds :
    /\ d.tool \in Gated => d.confidence >= Floor[d.tool]
    /\ \E c \in Calls : sessions[c] # None /\ sessions[c].conv = d.conv

WithinBounds ==
  \A q \in DOMAIN voiceQuotes : voiceQuotes[q].sent <= DollarCap \/ voiceQuotes[q].torn

VoiceInv ==
  /\ VoiceTypeOK /\ OwnConversation /\ OwnSession /\ DeedsFit /\ WithinBounds
  /\ \A r \in Requests : AgentFits(agent[r])
  /\ \A c \in Calls : SessionFits(c)

LEMMA AgentShapes ==
  ASSUME NEW g \in AgentStates
  PROVE  /\ g.step \in AgentSteps <=> g # Idle
         /\ g # Idle => /\ g.call \in Calls /\ g.conv \in 1..MaxConversations
                        /\ g.turns \in 0..MaxSteps /\ g.quote \in 0..MaxVoiceQuotes
                        /\ g.said \in Outcomes /\ g.handed \in BOOLEAN
  BY DEF AgentStates, AgentSteps, Idle

LEMMA VoiceInitInv == VoiceInit => VoiceInv
<1> SUFFICES ASSUME VoiceInit PROVE VoiceInv
  OBVIOUS
<1>1. VoiceTypeOK
  BY VoiceAssumption
     DEF VoiceAssumption, VoiceInit, VoiceTypeOK, NoRequests, AgentStates
<1>2. \A r \in Requests : agent[r] = Idle
  BY DEF VoiceInit, NoRequests
<1>3. \A c \in Calls : sessions[c] = None
  BY DEF VoiceInit
<1>4. DeedsFit /\ WithinBounds
  BY DEF VoiceInit, DeedsFit, WithinBounds
<1> QED
  BY <1>1, <1>2, <1>3, <1>4
     DEF VoiceInv, AgentFits, SessionFits, OwnConversation, OwnSession

(* A price that lands on a quote while a commit has read its total only is  *)
(* marked, and stays marked.                                                *)
MarksKept ==
  /\ \A k \in DOMAIN voiceQuotes : voiceQuotes[k].torn => voiceQuotes'[k].torn
  /\ \A k \in DOMAIN voiceQuotes, q \in Requests :
       agent[q] # Idle /\ agent[q].step = "reading" /\ agent[q].ships = k =>
         voiceQuotes'[k].torn \/ voiceQuotes'[k].total = voiceQuotes[k].total

(* A step on behalf of one conversation. *)
WorkOf(m) ==
  /\ DOMAIN conversations \subseteq DOMAIN conversations'
  /\ \A k \in DOMAIN conversations : k # m => conversations'[k] = conversations[k]
  /\ \A c \in Calls :
       \/ sessions'[c] = sessions[c]
       \/ /\ sessions'[c] # None /\ sessions'[c].conv = m
          /\ sessions[c] = None \/ sessions[c].conv = m
  /\ Len(voiceQuotes) <= Len(voiceQuotes') /\ MarksKept

LEMMA OthersKept ==
  ASSUME VoiceInv, VoiceTypeOK', NEW m, WorkOf(m), NEW g \in AgentStates,
         AgentFits(g), g # Idle => g.conv # m, NEW q \in Requests, g = agent[q]
  PROVE  AgentFits(g)'
<1> SUFFICES ASSUME g # Idle PROVE AgentFits(g)'
  BY DEF AgentFits
<1>1. PICK call, k : /\ call = g.call /\ k = g.conv /\ k # m
                     /\ call \in Calls /\ k \in DOMAIN conversations
  BY AgentShapes DEF AgentFits
<1>2. /\ conversations'[k] = conversations[k] /\ k \in DOMAIN conversations'
      /\ Len(voiceQuotes) <= Len(voiceQuotes')
      /\ Len(voiceQuotes) \in Nat /\ Len(voiceQuotes') \in Nat
      /\ g.quote \in Nat
      /\ DOMAIN voiceQuotes \subseteq DOMAIN voiceQuotes'
  BY <1>1, AgentShapes, VoiceAssumption
     DEF WorkOf, VoiceInv, VoiceTypeOK, VoiceAssumption
<1>3. \A c \in Calls : sessions'[c] # sessions[c] =>
                         sessions'[c].conv # k /\ (sessions[c] # None => sessions[c].conv # k)
  BY <1>1 DEF WorkOf
<1>4. g.step = "opening" =>
        \A c \in Calls : sessions'[c] # None => sessions'[c].conv # k
  BY <1>1, <1>3 DEF AgentFits
<1>5. g.step # "opening" =>
        sessions'[call] = sessions[call] /\ sessions[call] # None
        /\ sessions[call].conv = k
  BY <1>1, <1>3 DEF AgentFits
<1>6. g.quote <= Len(voiceQuotes')
  BY <1>2 DEF AgentFits
<1>7. g.step \in {"thinking", "reading", "shipping", "ending"} =>
        sessions'[call].status = "in_progress"
  BY <1>1, <1>5 DEF AgentFits
<1>8. /\ g.step \in {"reading", "shipping"} => g.ships \in DOMAIN voiceQuotes'
      /\ g.step = "reading" =>
           voiceQuotes'[g.ships].total <= DollarCap \/ voiceQuotes'[g.ships].torn
      /\ g.step = "shipping" =>
           g.total <= DollarCap \/ voiceQuotes'[g.ships].torn
  BY <1>2 DEF AgentFits, WorkOf, MarksKept
<1> QED
  BY <1>1, <1>2, <1>4, <1>5, <1>6, <1>7, <1>8 DEF AgentFits

LEMMA SessionsKept ==
  ASSUME VoiceInv, NEW m, WorkOf(m), NEW c \in Calls,
         sessions'[c] # None, sessions'[c].conv # m
  PROVE  SessionFits(c)'
<1>1. sessions'[c] = sessions[c] /\ SessionFits(c)
  BY DEF WorkOf, VoiceInv
<1>2. PICK k : k = sessions[c].conv
  OBVIOUS
<1>3. /\ k \in DOMAIN conversations /\ k \in DOMAIN conversations'
      /\ conversations'[k] = conversations[k]
  BY <1>1, <1>2 DEF WorkOf, SessionFits
<1> QED
  BY <1>1, <1>2, <1>3 DEF SessionFits

(* Sessions stay with their conversation. *)
LEMMA SessionsStay ==
  ASSUME VoiceInv, NEW m, WorkOf(m), NEW c \in Calls, sessions[c] # None
  PROVE  sessions'[c] # None /\ sessions'[c].conv = sessions[c].conv
  BY DEF WorkOf

LEMMA VoiceAdvances ==
  ASSUME VoiceInv, NEW r \in Requests, NEW g \in AgentStates, NEW m,
         agent' = [agent EXCEPT ![r] = g], WorkOf(m), g # Idle => g.conv = m,
         \A q \in Requests : q # r /\ agent[q] # Idle => agent[q].conv # m,
         AgentFits(g)', VoiceTypeOK', OwnSession', WithinBounds',
         \A d \in deeds' \ deeds :
           /\ d.tool \in Gated => d.confidence >= Floor[d.tool]
           /\ \E c \in Calls : sessions'[c] # None /\ sessions'[c].conv = d.conv,
         \A c \in Calls : sessions'[c] # None /\ sessions'[c].conv = m =>
                            SessionFits(c)'
  PROVE  VoiceInv'
<1>1. agent \in [Requests -> AgentStates]
  BY DEF VoiceInv, VoiceTypeOK
<1>2. ASSUME NEW q \in Requests PROVE AgentFits(agent[q])'
  <2>1. CASE q = r
    <3>1. agent'[q] = g
      BY <1>1, <2>1
    <3> QED
      BY <3>1 DEF AgentFits
  <2>2. CASE q # r
    <3>1. PICK h \in AgentStates : h = agent[q] /\ h = agent'[q]
      BY <1>1, <2>2
    <3>2. AgentFits(h) /\ (h # Idle => h.conv # m)
      BY <2>2, <3>1 DEF VoiceInv
    <3>3. AgentFits(h)'
      BY <3>1, <3>2, OthersKept
    <3> QED
      BY <3>1, <3>3 DEF AgentFits
  <2> QED
    BY <2>1, <2>2
<1>3. OwnConversation'
  BY <1>1 DEF VoiceInv, OwnConversation
<1>4. \A c \in Calls : SessionFits(c)'
  <2> SUFFICES ASSUME NEW c \in Calls, sessions'[c] # None PROVE SessionFits(c)'
    BY DEF SessionFits
  <2> QED
    BY SessionsKept
<1>5. DeedsFit'
  <2>1. \A d \in deeds : \E c \in Calls :
          sessions'[c] # None /\ sessions'[c].conv = d.conv
    BY SessionsStay DEF VoiceInv, DeedsFit
  <2>2. \A d \in deeds : d.tool \in Gated => d.confidence >= Floor[d.tool]
    BY DEF VoiceInv, DeedsFit
  <2> QED
    BY <2>1, <2>2 DEF DeedsFit
<1> QED
  BY <1>2, <1>3, <1>4, <1>5 DEF VoiceInv

-----------------------------------------------------------------------------
(* A turn that touches no row but what its gated tool did. *)
LEMMA TurnKeeps ==
  ASSUME VoiceInv, NEW r \in Requests, NEW g \in AgentStates, agent[r] # Idle,
         g # Idle, g.conv = agent[r].conv, AgentFits(g),
         agent' = [agent EXCEPT ![r] = g],
         UNCHANGED <<sessions, conversations, voiceQuotes, staff>>,
         deeds' \subseteq Deeds,
         \A d \in deeds' \ deeds :
           /\ d.conv = agent[r].conv
           /\ d.tool \in Gated => d.confidence >= Floor[d.tool]
           /\ agent[r].step # "opening"
  PROVE  VoiceInv'
<1>1. /\ VoiceTypeOK /\ agent \in [Requests -> AgentStates]
      /\ agent[r] \in AgentStates /\ AgentFits(agent[r])
  BY DEF VoiceInv, VoiceTypeOK
<1>2. PICK m : m = agent[r].conv
  OBVIOUS
<1>3. WorkOf(m)
  <2>1. Len(voiceQuotes) \in Nat
    BY <1>1 DEF VoiceTypeOK
  <2> QED
    BY <2>1 DEF WorkOf, MarksKept
<1>4. \A q \in Requests : q # r /\ agent[q] # Idle => agent[q].conv # m
  BY <1>2 DEF VoiceInv, OwnConversation
<1>5. VoiceTypeOK'
  <2>1. agent' \in [Requests -> AgentStates]
    BY <1>1
  <2> QED
    BY <1>1, <2>1 DEF VoiceTypeOK
<1>6. AgentFits(g)'
  BY DEF AgentFits
<1>7. OwnSession' /\ WithinBounds'
  BY DEF VoiceInv, OwnSession, WithinBounds
<1>8. \A d \in deeds' \ deeds :
        \E c \in Calls : sessions'[c] # None /\ sessions'[c].conv = d.conv
  <2> TAKE d \in deeds' \ deeds
  <2>1. agent[r].call \in Calls
    BY <1>1, AgentShapes
  <2> QED
    BY <1>1, <2>1 DEF AgentFits
<1>9. \A c \in Calls : SessionFits(c)'
  BY DEF VoiceInv, SessionFits
<1> QED
  BY <1>2, <1>3, <1>4, <1>5, <1>6, <1>7, <1>8, <1>9, VoiceAdvances

LEMMA ThinksShape ==
  ASSUME VoiceInv, NEW r \in Requests, Thinks(r)
  PROVE  /\ agent[r] \in AgentStates /\ agent[r] # Idle /\ AgentFits(agent[r])
         /\ agent[r].step = "thinking"
         /\ Turned(r) \in AgentStates /\ Turned(r) # Idle /\ AgentFits(Turned(r))
         /\ Turned(r).step = "thinking" /\ Turned(r).conv = agent[r].conv
         /\ Turned(r).call = agent[r].call /\ Turned(r).handed = agent[r].handed
         /\ Turned(r).quote = agent[r].quote /\ Turned(r).said = agent[r].said
<1>1. /\ agent[r] \in AgentStates /\ AgentFits(agent[r])
      /\ agent[r].step = "thinking" /\ agent[r].turns < MaxSteps
  BY DEF VoiceInv, VoiceTypeOK, Thinks
<1>2. agent[r] # Idle
  BY <1>1, AgentShapes DEF AgentSteps
<1>3. PICK g : g = agent[r]
  OBVIOUS
<1>4. PICK n : n = g.turns /\ n \in 0..MaxSteps /\ n < MaxSteps
  BY <1>1, <1>2, <1>3, AgentShapes
<1>5. PICK t : t = [g EXCEPT !.turns = n + 1]
  OBVIOUS
<1>6. Turned(r) = t
  BY <1>3, <1>4, <1>5 DEF Turned
<1>7. /\ t \in AgentStates /\ t # Idle /\ t.step = g.step /\ t.conv = g.conv
      /\ t.call = g.call /\ t.handed = g.handed /\ t.quote = g.quote
      /\ t.said = g.said
  BY <1>1, <1>2, <1>3, <1>4, <1>5, VoiceAssumption
     DEF AgentStates, Idle, VoiceAssumption
<1>8. AgentFits(t)
  BY <1>1, <1>2, <1>3, <1>7 DEF AgentFits
<1> QED
  BY <1>1, <1>2, <1>3, <1>6, <1>7, <1>8

LEMMA QuietTurnKeeps ==
  ASSUME VoiceInv, NEW r \in Requests,
         Reply(r) \/ OutOfSteps(r) \/ ToolTells(r)
           \/ \E outcome \in Outcomes : LogCallSummary(r, outcome)
  PROVE  VoiceInv'
<1>0. deeds \subseteq Deeds
  BY DEF VoiceInv, VoiceTypeOK
<1>1. CASE Reply(r)
  <2>1. PICK t : t = Turned(r)
    OBVIOUS
  <2>2. PICK g : g = [t EXCEPT !.step = "ending"]
    OBVIOUS
  <2>3. Thinks(r)
    BY <1>1 DEF Reply
  <2>4. /\ g \in AgentStates /\ g # Idle /\ g.step = "ending" /\ g.conv = t.conv
        /\ g.call = t.call /\ g.handed = t.handed /\ g.quote = t.quote
    BY <2>1, <2>2, <2>3, ThinksShape DEF AgentStates, AgentSteps, Idle
  <2>5. AgentFits(g)
    BY <2>1, <2>3, <2>4, ThinksShape DEF AgentFits
  <2>6. /\ agent' = [agent EXCEPT ![r] = g]
        /\ UNCHANGED <<sessions, conversations, voiceQuotes, deeds, staff>>
    BY <1>1, <2>1, <2>2 DEF Reply, Becomes
  <2>7. agent[r] # Idle /\ g.conv = agent[r].conv
    BY <2>1, <2>3, <2>4, ThinksShape
  <2> QED
    BY <1>0, <2>4, <2>5, <2>6, <2>7, TurnKeeps
<1>2. CASE OutOfSteps(r)
  <2>1. PICK t : t = agent[r]
    OBVIOUS
  <2>2. PICK g : g = [t EXCEPT !.step = "ending"]
    OBVIOUS
  <2>3. /\ t \in AgentStates /\ t # Idle /\ t.step = "thinking" /\ AgentFits(t)
    BY <1>2, <2>1, AgentShapes DEF OutOfSteps, VoiceInv, VoiceTypeOK, AgentSteps
  <2>4. /\ g \in AgentStates /\ g # Idle /\ g.step = "ending" /\ g.conv = t.conv
        /\ g.call = t.call /\ g.handed = t.handed /\ g.quote = t.quote
    BY <2>2, <2>3 DEF AgentStates, AgentSteps, Idle
  <2>5. AgentFits(g)
    BY <2>3, <2>4 DEF AgentFits
  <2>6. /\ agent' = [agent EXCEPT ![r] = g]
        /\ UNCHANGED <<sessions, conversations, voiceQuotes, deeds, staff>>
    BY <1>2, <2>1, <2>2 DEF OutOfSteps, Becomes
  <2> QED
    BY <1>0, <2>1, <2>3, <2>4, <2>5, <2>6, TurnKeeps
<1>3. CASE ToolTells(r)
  BY <1>0, <1>3, ThinksShape, TurnKeeps DEF ToolTells, Becomes
<1>4. ASSUME NEW outcome \in Outcomes, LogCallSummary(r, outcome)
      PROVE  VoiceInv'
  <2>1. PICK t : t = Turned(r)
    OBVIOUS
  <2>2. PICK g : g = [t EXCEPT !.said = outcome]
    OBVIOUS
  <2>3. Thinks(r)
    BY <1>4 DEF LogCallSummary
  <2>4. /\ g \in AgentStates /\ g # Idle /\ g.step = "thinking" /\ g.conv = t.conv
        /\ g.call = t.call /\ g.handed = t.handed /\ g.quote = t.quote
    BY <2>1, <2>2, <2>3, ThinksShape DEF AgentStates, AgentSteps, Idle
  <2>5. AgentFits(g)
    BY <2>1, <2>3, <2>4, ThinksShape DEF AgentFits
  <2>6. /\ agent' = [agent EXCEPT ![r] = g]
        /\ UNCHANGED <<sessions, conversations, voiceQuotes, deeds, staff>>
    BY <1>4, <2>1, <2>2 DEF LogCallSummary, Becomes
  <2>7. agent[r] # Idle /\ g.conv = agent[r].conv
    BY <2>1, <2>3, <2>4, ThinksShape
  <2> QED
    BY <1>0, <2>4, <2>5, <2>6, <2>7, TurnKeeps
<1> QED
  BY <1>1, <1>2, <1>3, <1>4

LEMMA GatedTurnKeeps ==
  ASSUME VoiceInv, NEW r \in Requests, NEW confidence \in Confidences,
         CreateVoiceCustomer(r, confidence) \/ BookJob(r, confidence)
  PROVE  VoiceInv'
<1>1. PICK tool \in {"createCustomer", "bookJob"} :
        /\ Thinks(r) /\ Confident(tool, confidence) /\ Done(r, tool, confidence)
        /\ Becomes(r, Turned(r))
        /\ UNCHANGED <<sessions, conversations, voiceQuotes, staff>>
  BY DEF CreateVoiceCustomer, BookJob
<1>2. PICK d : d = [conv |-> agent[r].conv, tool |-> tool, confidence |-> confidence]
  OBVIOUS
<1>3. agent[r] \in AgentStates /\ agent[r] # Idle /\ agent[r].step = "thinking"
  BY <1>1, ThinksShape
<1>4. /\ d \in Deeds /\ d.conv = agent[r].conv
      /\ d.confidence >= Floor[d.tool]
  BY <1>1, <1>2, <1>3, AgentShapes DEF Deeds, Floor, Confident, Gated
<1>5. deeds' = deeds \cup {d} /\ deeds \subseteq Deeds
  BY <1>1, <1>2 DEF Done, VoiceInv, VoiceTypeOK
<1>6. agent' = [agent EXCEPT ![r] = Turned(r)]
  BY <1>1 DEF Becomes
<1> QED
  BY <1>1, <1>3, <1>4, <1>5, <1>6, ThinksShape, TurnKeeps

LEMMA ReadingKeeps ==
  ASSUME VoiceInv, NEW r \in Requests, NEW confidence \in Confidences,
         NEW claimed, NEW q \in DOMAIN voiceQuotes,
         CommitQuoteRead(r, confidence, claimed, q)
  PROVE  VoiceInv'
<1>1. PICK t : t = Turned(r)
  OBVIOUS
<1>3. PICK g : g = [t EXCEPT !.step = "reading", !.ships = q,
                             !.confidence = confidence]
  OBVIOUS
<1>4. /\ Thinks(r) /\ confidence >= Floor.commitQuote
      /\ voiceQuotes[q].total <= DollarCap
      /\ agent' = [agent EXCEPT ![r] = g]
      /\ UNCHANGED <<sessions, conversations, voiceQuotes, deeds, staff>>
  BY <1>1, <1>3
     DEF CommitQuoteRead, Confident, Gated, Floor, WithinCap, Becomes
<1>5. q \in 0..MaxVoiceQuotes /\ deeds \subseteq Deeds
  BY VoiceAssumption DEF VoiceInv, VoiceTypeOK, VoiceAssumption
<1>6. /\ g \in AgentStates /\ g # Idle /\ g.step = "reading" /\ g.conv = t.conv
      /\ g.call = t.call /\ g.handed = t.handed /\ g.quote = t.quote
      /\ g.ships = q /\ g.confidence = confidence
  BY <1>1, <1>3, <1>4, <1>5, ThinksShape DEF AgentStates, AgentSteps, Idle
<1>7. AgentFits(g)
  BY <1>1, <1>4, <1>5, <1>6, ThinksShape DEF AgentFits
<1>8. agent[r] # Idle /\ g.conv = agent[r].conv
  BY <1>1, <1>4, <1>6, ThinksShape
<1> QED
  BY <1>4, <1>5, <1>6, <1>7, <1>8, TurnKeeps

(* The lines that are shipped cost what the first read said, or the quote is *)
(* marked.                                                                  *)
LEMMA LinesKeep ==
  ASSUME VoiceInv, NEW r \in Requests, CommitQuoteLines(r)
  PROVE  VoiceInv'
<1>1. /\ AgentFits(agent[r]) /\ agent[r] \in AgentStates /\ agent[r].step = "reading"
      /\ voiceQuotes \in Seq(VoiceQuotes) /\ deeds \subseteq Deeds
      /\ UNCHANGED <<sessions, conversations, voiceQuotes, deeds, staff>>
  BY DEF VoiceInv, VoiceTypeOK, CommitQuoteLines
<1>2. PICK t, q : t = agent[r] /\ q = t.ships
  OBVIOUS
<1>3. /\ t # Idle /\ t \in AgentStates /\ AgentFits(t) /\ t.step = "reading"
      /\ q \in DOMAIN voiceQuotes
  BY <1>1, <1>2, AgentShapes DEF AgentFits, AgentSteps
<1>4. PICK total : total = voiceQuotes[q].total
  OBVIOUS
<1>5. total \in Totals /\ (total <= DollarCap \/ voiceQuotes[q].torn)
  <2>1. voiceQuotes[q] \in VoiceQuotes
    BY <1>1, <1>3
  <2> QED
    BY <1>2, <1>3, <1>4, <2>1 DEF VoiceQuotes, AgentFits
<1>6. PICK g : g = [t EXCEPT !.step = "shipping", !.total = total]
  OBVIOUS
<1>7. /\ g \in AgentStates /\ g # Idle /\ g.step = "shipping" /\ g.conv = t.conv
      /\ g.call = t.call /\ g.handed = t.handed /\ g.quote = t.quote
      /\ g.ships = q /\ g.total = total /\ g.confidence = t.confidence
  BY <1>2, <1>3, <1>5, <1>6 DEF AgentStates, AgentSteps, Idle
<1>8. AgentFits(g)
  BY <1>2, <1>3, <1>5, <1>7 DEF AgentFits
<1>9. agent' = [agent EXCEPT ![r] = g]
  BY <1>2, <1>4, <1>6 DEF CommitQuoteLines, Becomes
<1> QED
  BY <1>1, <1>2, <1>3, <1>7, <1>8, <1>9, TurnKeeps

-----------------------------------------------------------------------------
(* No other orchestrator works on a conversation one works on. *)
LEMMA OthersElsewhere ==
  ASSUME VoiceInv, NEW r \in Requests, agent[r] # Idle
  PROVE  \A q \in Requests : q # r /\ agent[q] # Idle => agent[q].conv # agent[r].conv
  BY DEF VoiceInv, OwnConversation

LEMMA StreamKeeps ==
  ASSUME VoiceInv, NEW r \in Requests, NEW call \in Calls, StreamStarts(r, call)
  PROVE  VoiceInv'
<1>1. /\ VoiceTypeOK /\ conversations \in Seq(Conversations)
      /\ Len(conversations) < MaxConversations /\ MaxConversations \in Nat
      /\ agent \in [Requests -> AgentStates] /\ Len(voiceQuotes) \in Nat
      /\ UNCHANGED <<sessions, voiceQuotes, deeds, staff>>
  BY VoiceAssumption
     DEF VoiceInv, VoiceTypeOK, StreamStarts, VoiceAssumption
<1>2. PICK conv : conv = [said |-> "none", handed |-> FALSE, kept |-> FALSE,
                          ended |-> FALSE]
  OBVIOUS
<1>3. conv \in Conversations /\ ~conv.handed /\ ~conv.ended
  BY <1>2 DEF Conversations, Outcomes
<1>4. conversations' = Append(conversations, conv)
  BY <1>2 DEF StreamStarts
<1>5. PICK m : m = Len(conversations) + 1
  OBVIOUS
<1>6. /\ conversations' \in Seq(Conversations)
      /\ Len(conversations') = m /\ m \in 1..MaxConversations
      /\ DOMAIN conversations' = DOMAIN conversations \cup {m}
      /\ m \notin DOMAIN conversations
      /\ \A k \in DOMAIN conversations : conversations'[k] = conversations[k]
      /\ conversations'[m] = conv
  BY <1>1, <1>3, <1>4, <1>5, AppendRow
<1>7. PICK g : g = Opened(call)
  OBVIOUS
<1>8. /\ g \in AgentStates /\ g # Idle /\ g.step = "opening" /\ g.conv = m
      /\ ~g.handed /\ g.quote = 0
  BY <1>5, <1>6, <1>7, VoiceAssumption
     DEF Opened, AgentStates, AgentSteps, Outcomes, Idle, VoiceAssumption
<1>9. agent' = [agent EXCEPT ![r] = g]
  BY <1>7 DEF StreamStarts
<1>10. \A c \in Calls : sessions'[c] # None => sessions'[c].conv # m
  BY <1>1, <1>6 DEF VoiceInv, SessionFits
<1>11. \A q \in Requests : q # r /\ agent[q] # Idle => agent[q].conv # m
  BY <1>6 DEF VoiceInv, AgentFits
<1>12. WorkOf(m)
  BY <1>1, <1>6 DEF WorkOf, MarksKept
<1>13. AgentFits(g)'
  BY <1>1, <1>3, <1>6, <1>8, <1>10 DEF AgentFits
<1>14. VoiceTypeOK' /\ OwnSession' /\ WithinBounds'
  <2>1. agent' \in [Requests -> AgentStates] /\ Len(conversations') <= MaxConversations
    BY <1>1, <1>6, <1>8, <1>9
  <2> QED
    BY <1>1, <1>6, <2>1 DEF VoiceTypeOK, VoiceInv, OwnSession, WithinBounds
<1> QED
  BY <1>1, <1>8, <1>9, <1>10, <1>11, <1>12, <1>13, <1>14, VoiceAdvances

(* The process stops, and with it every call in flight. *)
LEMMA StopKeeps ==
  ASSUME VoiceInv, agent' = NoRequests,
         UNCHANGED <<sessions, conversations, voiceQuotes, deeds, staff>>
  PROVE  VoiceInv'
<1>1. \A r \in Requests : agent'[r] = Idle
  BY DEF NoRequests
<1>2. VoiceTypeOK'
  BY DEF VoiceInv, VoiceTypeOK, NoRequests, AgentStates
<1>3. \A r \in Requests : AgentFits(agent[r])'
  BY <1>1 DEF AgentFits
<1> QED
  BY <1>1, <1>2, <1>3 DEF VoiceInv, OwnConversation, OwnSession, DeedsFit,
     WithinBounds, SessionFits

LEMMA OpensKeeps ==
  ASSUME VoiceInv, NEW r \in Requests, SessionOpens(r)
  PROVE  VoiceInv'
<1>1. /\ VoiceTypeOK /\ agent \in [Requests -> AgentStates]
      /\ agent[r] \in AgentStates /\ AgentFits(agent[r])
      /\ agent[r].step = "opening" /\ Len(voiceQuotes) \in Nat
      /\ sessions \in [Calls -> Sessions \cup {None}] /\ None \notin Sessions
      /\ UNCHANGED <<conversations, voiceQuotes, deeds, staff>>
  BY VoiceAssumption
     DEF VoiceInv, VoiceTypeOK, SessionOpens, VoiceAssumption
<1>2. PICK t, call, m : /\ t = agent[r] /\ call = t.call /\ m = t.conv
  OBVIOUS
<1>3. /\ t # Idle /\ call \in Calls /\ m \in 1..MaxConversations
      /\ m \in DOMAIN conversations /\ t.step = "opening" /\ ~t.handed
      /\ ~conversations[m].handed /\ ~conversations[m].ended
      /\ t.quote <= Len(voiceQuotes)
      /\ \A c \in Calls : sessions[c] # None => sessions[c].conv # m
  BY <1>1, <1>2, AgentShapes DEF AgentFits, AgentSteps
<1>4. CASE sessions[call] # None
  <2>1. agent' = NoRequests /\ UNCHANGED sessions
    BY <1>2, <1>4 DEF SessionOpens
  <2> QED
    BY <1>1, <2>1, StopKeeps
<1>5. CASE sessions[call] = None
  <2>1. PICK s : s = [conv |-> m, status |-> "in_progress", outcome |-> "none"]
    OBVIOUS
  <2>2. /\ s \in Sessions /\ s # None /\ s.conv = m /\ s.status = "in_progress"
    BY <1>1, <1>3, <2>1 DEF Sessions, CallStatus, Outcomes
  <2>3. PICK g : g = [t EXCEPT !.step = "thinking"]
    OBVIOUS
  <2>4. sessions' = [sessions EXCEPT ![call] = s] /\ agent' = [agent EXCEPT ![r] = g]
    BY <1>2, <1>5, <2>1, <2>3 DEF SessionOpens, Now
  <2>5. /\ g \in AgentStates /\ g # Idle /\ g.step = "thinking" /\ g.conv = m
        /\ g.call = call /\ g.handed = t.handed /\ g.quote = t.quote
    BY <1>1, <1>2, <1>3, <2>3 DEF AgentStates, AgentSteps, Idle
  <2>6. /\ sessions' \in [Calls -> Sessions \cup {None}] /\ sessions'[call] = s
        /\ \A c \in Calls \ {call} : sessions'[c] = sessions[c]
    BY <1>1, <1>3, <2>2, <2>4
  <2>7. WorkOf(m)
    BY <1>1, <1>5, <2>2, <2>6 DEF WorkOf, MarksKept
  <2>8. AgentFits(g)'
    BY <1>1, <1>3, <2>2, <2>5, <2>6 DEF AgentFits
  <2>9. VoiceTypeOK' /\ OwnSession' /\ WithinBounds'
    <3>1. agent' \in [Requests -> AgentStates]
      BY <1>1, <2>4, <2>5
    <3>2. OwnSession'
      BY <1>3, <2>2, <2>6 DEF VoiceInv, OwnSession
    <3> QED
      BY <1>1, <2>6, <3>1, <3>2 DEF VoiceTypeOK, VoiceInv, WithinBounds
  <2>10. \A c \in Calls : sessions'[c] # None /\ sessions'[c].conv = m =>
                             SessionFits(c)'
    <3> SUFFICES ASSUME NEW c \in Calls, sessions'[c] # None, sessions'[c].conv = m
                 PROVE  SessionFits(c)'
      OBVIOUS
    <3>1. sessions'[c] = s
      BY <1>3, <2>6
    <3> QED
      BY <1>1, <1>3, <2>2, <3>1 DEF SessionFits
  <2>11. \A q \in Requests : q # r /\ agent[q] # Idle => agent[q].conv # m
    BY <1>2, <1>3, OthersElsewhere
  <2> QED
    BY <1>1, <2>4, <2>5, <2>7, <2>8, <2>9, <2>10, <2>11, VoiceAdvances
<1> QED
  BY <1>4, <1>5

(* A change of what staff or a call does to quotes, beside everything else. *)
LEMMA QuotesKeep ==
  ASSUME VoiceInv, NEW r \in Requests, NEW g \in AgentStates, agent[r] # Idle,
         g # Idle, g.conv = agent[r].conv, AgentFits(g)', agent[r].step = "thinking"
           \/ agent[r].step = "shipping",
         agent' = [agent EXCEPT ![r] = g],
         UNCHANGED <<sessions, conversations, staff>>, MarksKept,
         voiceQuotes' \in Seq(VoiceQuotes), Len(voiceQuotes) <= Len(voiceQuotes'),
         Len(voiceQuotes') <= MaxVoiceQuotes, WithinBounds',
         deeds' \subseteq Deeds,
         \A d \in deeds' \ deeds :
           /\ d.conv = agent[r].conv
           /\ d.tool \in Gated => d.confidence >= Floor[d.tool]
  PROVE  VoiceInv'
<1>1. /\ VoiceTypeOK /\ agent \in [Requests -> AgentStates]
      /\ agent[r] \in AgentStates /\ AgentFits(agent[r])
  BY DEF VoiceInv, VoiceTypeOK
<1>2. PICK m : m = agent[r].conv
  OBVIOUS
<1>3. WorkOf(m)
  BY DEF WorkOf
<1>4. VoiceTypeOK'
  <2>1. agent' \in [Requests -> AgentStates]
    BY <1>1
  <2> QED
    BY <1>1, <2>1 DEF VoiceTypeOK
<1>5. OwnSession'
  BY DEF VoiceInv, OwnSession
<1>6. \A d \in deeds' \ deeds :
        \E c \in Calls : sessions'[c] # None /\ sessions'[c].conv = d.conv
  <2> TAKE d \in deeds' \ deeds
  <2>1. agent[r].call \in Calls
    BY <1>1, AgentShapes
  <2> QED
    BY <1>1, <2>1 DEF AgentFits
<1>7. \A c \in Calls : SessionFits(c)'
  BY DEF VoiceInv, SessionFits
<1> QED
  BY <1>2, <1>3, <1>4, <1>5, <1>6, <1>7, OthersElsewhere, VoiceAdvances

LEMMA PricedKeeps ==
  ASSUME VoiceInv, NEW q \in DOMAIN voiceQuotes, NEW total \in Totals,
         voiceQuotes' = Priced(q, total)
  PROVE  /\ voiceQuotes' \in Seq(VoiceQuotes) /\ Len(voiceQuotes') = Len(voiceQuotes)
         /\ DOMAIN voiceQuotes' = DOMAIN voiceQuotes
         /\ MarksKept /\ WithinBounds'
<1>1. voiceQuotes \in Seq(VoiceQuotes) /\ voiceQuotes[q] \in VoiceQuotes
  BY DEF VoiceInv, VoiceTypeOK
<1>2. PICK read : read = \E r \in Requests :
                          agent[r] # Idle /\ agent[r].step = "reading"
                            /\ agent[r].ships = q
  OBVIOUS
<1>3. PICK mark \in BOOLEAN : mark = (voiceQuotes[q].torn \/ read)
  BY <1>2
<1>4. PICK row : row = [voiceQuotes[q] EXCEPT !.total = total, !.status = "priced",
                                              !.torn = mark]
  OBVIOUS
<1>5. voiceQuotes' = [voiceQuotes EXCEPT ![q] = row]
  BY <1>2, <1>3, <1>4 DEF Priced
<1>6. /\ row \in VoiceQuotes /\ row.sent = voiceQuotes[q].sent
      /\ row.torn = mark
  BY <1>1, <1>4 DEF VoiceQuotes
<1>7. /\ voiceQuotes' \in Seq(VoiceQuotes) /\ Len(voiceQuotes') = Len(voiceQuotes)
      /\ DOMAIN voiceQuotes' = DOMAIN voiceQuotes
      /\ \A k \in DOMAIN voiceQuotes :
           voiceQuotes'[k] = IF k = q THEN row ELSE voiceQuotes[k]
  BY <1>1, <1>5, <1>6, ChangeRow
<1>8. voiceQuotes[q].torn => voiceQuotes'[q].torn
  BY <1>3, <1>6, <1>7
<1>9. read => voiceQuotes'[q].torn
  BY <1>3, <1>6, <1>7
<1>10. MarksKept
  BY <1>2, <1>7, <1>8, <1>9 DEF MarksKept
<1>11. WithinBounds'
  BY <1>6, <1>7, <1>8 DEF VoiceInv, WithinBounds
<1> QED
  BY <1>7, <1>10, <1>11

LEMMA ConfigureKeeps ==
  ASSUME VoiceInv, NEW r \in Requests, NEW total \in Totals,
         NEW confidence \in Confidences, Configure(r, total, confidence)
  PROVE  VoiceInv'
<1>1. /\ VoiceTypeOK /\ Thinks(r) /\ voiceQuotes \in Seq(VoiceQuotes)
      /\ Len(voiceQuotes) <= MaxVoiceQuotes /\ deeds \subseteq Deeds
      /\ UNCHANGED <<sessions, conversations, staff>>
      /\ MaxVoiceQuotes \in Nat /\ WithinBounds /\ DollarCap \in Nat
  BY VoiceAssumption
     DEF VoiceInv, VoiceTypeOK, Configure, VoiceAssumption
<1>2. PICK t, q : t = Turned(r) /\ q = agent[r].quote
  OBVIOUS
<1>3. /\ t \in AgentStates /\ t # Idle /\ t.step = "thinking"
      /\ t.conv = agent[r].conv /\ t.quote = q /\ AgentFits(t)
      /\ agent[r] # Idle /\ agent[r].step = "thinking" /\ q \in 0..MaxVoiceQuotes
      /\ q <= Len(voiceQuotes)
  BY <1>1, <1>2, ThinksShape, AgentShapes DEF AgentFits
<1>6. PICK d : d = [conv |-> agent[r].conv, tool |-> "quoteConfigurator",
                    confidence |-> confidence]
  OBVIOUS
<1>7. deeds' = deeds \cup {d}
  BY <1>6 DEF Configure, Done
<1>8. /\ deeds' \subseteq Deeds /\ d.conv = agent[r].conv /\ d.tool \notin Gated
  <2>1. agent[r].conv \in 1..MaxConversations
    BY <1>3, ThinksShape, AgentShapes, <1>1
  <2> QED
    BY <1>1, <1>6, <1>7, <2>1 DEF Deeds, Floor, Gated
<1>9. \A e \in deeds' \ deeds :
        /\ e.conv = agent[r].conv
        /\ e.tool \in Gated => e.confidence >= Floor[e.tool]
  BY <1>7, <1>8
<1>4. CASE q # 0 /\ voiceQuotes[q].status \notin {"void", "accepted"}
  <2>1. voiceQuotes' = Priced(q, total) /\ agent' = [agent EXCEPT ![r] = t]
    BY <1>2, <1>4 DEF Configure, Becomes
  <2>2. q \in DOMAIN voiceQuotes
    BY <1>1, <1>3, <1>4
  <2>3. /\ voiceQuotes' \in Seq(VoiceQuotes) /\ Len(voiceQuotes') = Len(voiceQuotes)
        /\ MarksKept /\ WithinBounds'
    BY <2>1, <2>2, PricedKeeps
  <2>8. AgentFits(t)'
    BY <1>1, <1>3, <2>3 DEF AgentFits
  <2>9. Len(voiceQuotes) <= Len(voiceQuotes')
    BY <1>1, <2>3
  <2> QED
    BY <1>1, <1>3, <1>8, <1>9, <2>1, <2>3, <2>8, <2>9, QuotesKeep
<1>5. CASE ~(q # 0 /\ voiceQuotes[q].status \notin {"void", "accepted"})
  <2>1. PICK row : row = [total |-> total, status |-> "priced", sent |-> 0,
                          torn |-> FALSE]
    OBVIOUS
  <2>2. row \in VoiceQuotes /\ row.sent = 0
    BY <2>1 DEF VoiceQuotes
  <2>3. PICK g, n : n = Len(voiceQuotes) + 1 /\ g = [t EXCEPT !.quote = n]
    OBVIOUS
  <2>4. /\ voiceQuotes' = Append(voiceQuotes, row) /\ Len(voiceQuotes) < MaxVoiceQuotes
        /\ agent' = [agent EXCEPT ![r] = g]
    BY <1>2, <1>5, <2>1, <2>3 DEF Configure, Becomes
  <2>5. /\ voiceQuotes' \in Seq(VoiceQuotes) /\ Len(voiceQuotes') = n
        /\ n \in 0..MaxVoiceQuotes /\ Len(voiceQuotes) <= n /\ n <= MaxVoiceQuotes
        /\ DOMAIN voiceQuotes' = DOMAIN voiceQuotes \cup {n}
        /\ \A k \in DOMAIN voiceQuotes : voiceQuotes'[k] = voiceQuotes[k]
        /\ voiceQuotes'[n] = row
    BY <1>1, <2>2, <2>3, <2>4, AppendRow
  <2>6. WithinBounds'
    BY <1>1, <2>2, <2>5 DEF WithinBounds
  <2>9. MarksKept
    BY <1>1, <2>5 DEF MarksKept
  <2>7. /\ g \in AgentStates /\ g # Idle /\ g.step = "thinking" /\ g.conv = t.conv
        /\ g.call = t.call /\ g.handed = t.handed /\ g.quote = n
    BY <1>3, <2>3, <2>5 DEF AgentStates, AgentSteps, Idle
  <2>8. AgentFits(g)'
    BY <1>1, <1>3, <2>5, <2>7 DEF AgentFits
  <2> QED
    BY <1>1, <1>3, <1>8, <1>9, <2>4, <2>5, <2>6, <2>7, <2>8, <2>9, QuotesKeep
<1> QED
  BY <1>4, <1>5

LEMMA ShippedKeeps ==
  ASSUME VoiceInv, NEW r \in Requests, CommitQuoteCall(r) \/ CommitQuoteRefused(r)
  PROVE  VoiceInv'
<1>1. /\ VoiceTypeOK /\ voiceQuotes \in Seq(VoiceQuotes) /\ AgentFits(agent[r])
      /\ Len(voiceQuotes) <= MaxVoiceQuotes /\ deeds \subseteq Deeds
      /\ agent[r] \in AgentStates /\ agent[r].step = "shipping"
      /\ UNCHANGED <<sessions, conversations, staff>>
      /\ MaxVoiceQuotes \in Nat /\ WithinBounds
  BY VoiceAssumption
     DEF VoiceInv, VoiceTypeOK, CommitQuoteCall, CommitQuoteRefused, VoiceAssumption
<1>2. PICK t, q, total, confidence :
        /\ t = agent[r] /\ q = t.ships /\ total = t.total
        /\ confidence = t.confidence
  OBVIOUS
<1>3. /\ t # Idle /\ t \in AgentStates /\ AgentFits(t) /\ t.step = "shipping"
      /\ t.conv \in 1..MaxConversations
      /\ q \in DOMAIN voiceQuotes /\ total \in Totals
      /\ total <= DollarCap \/ voiceQuotes[q].torn
      /\ confidence \in Confidences /\ confidence >= Floor.commitQuote
  BY <1>1, <1>2, AgentShapes DEF AgentFits, AgentSteps
<1>4. PICK g : g = [t EXCEPT !.step = "thinking", !.ships = 0, !.total = 0,
                             !.confidence = 0]
  OBVIOUS
<1>5. /\ g \in AgentStates /\ g # Idle /\ g.step = "thinking" /\ g.conv = t.conv
      /\ g.call = t.call /\ g.handed = t.handed /\ g.quote = t.quote
  <2>1. t \in AgentStates /\ t # Idle /\ 0 \in 0..MaxVoiceQuotes
    BY <1>1, <1>3
  <2> QED
    BY <1>4, <2>1 DEF AgentStates, AgentSteps, Idle
<1>6. agent' = [agent EXCEPT ![r] = g]
  BY <1>2, <1>4 DEF CommitQuoteCall, CommitQuoteRefused, Becomes
<1>7. AgentFits(g)
  BY <1>3, <1>5 DEF AgentFits
<1>8. CASE CommitQuoteRefused(r)
  <2>1. UNCHANGED <<voiceQuotes, deeds>>
    BY <1>8 DEF CommitQuoteRefused
  <2> QED
    BY <1>1, <1>2, <1>3, <1>5, <1>6, <1>7, <2>1, TurnKeeps
<1>9. CASE CommitQuoteCall(r)
  <2>1. PICK d : d = [conv |-> t.conv, tool |-> "commitQuote",
                      confidence |-> confidence]
    OBVIOUS
  <2>2. /\ deeds' = deeds \cup {d}
        /\ voiceQuotes' = IF voiceQuotes[q].sent # 0 THEN voiceQuotes
                          ELSE [voiceQuotes EXCEPT ![q].sent = total]
    BY <1>2, <1>9, <2>1 DEF CommitQuoteCall, Done
  <2>3. d \in Deeds /\ d.conv = t.conv /\ d.confidence >= Floor[d.tool]
    BY <1>3, <2>1 DEF Deeds, Floor
  <2>4. PICK row : row = [voiceQuotes[q] EXCEPT !.sent = total]
    OBVIOUS
  <2>5. row \in VoiceQuotes /\ row.sent = total /\ row.torn = voiceQuotes[q].torn
        /\ row.total = voiceQuotes[q].total
    <3>1. voiceQuotes[q] \in VoiceQuotes
      BY <1>1, <1>3
    <3> QED
      BY <1>3, <2>4, <3>1 DEF VoiceQuotes
  <2>6. /\ voiceQuotes' \in Seq(VoiceQuotes) /\ Len(voiceQuotes') = Len(voiceQuotes)
        /\ DOMAIN voiceQuotes' = DOMAIN voiceQuotes
        /\ \A k \in DOMAIN voiceQuotes :
             voiceQuotes'[k] = voiceQuotes[k] \/ (k = q /\ voiceQuotes'[k] = row)
    <3>1. CASE voiceQuotes[q].sent # 0
      BY <1>1, <2>2, <3>1
    <3>2. CASE voiceQuotes[q].sent = 0
      <4>1. voiceQuotes' = [voiceQuotes EXCEPT ![q] = row]
        BY <2>2, <2>4, <3>2
      <4> QED
        BY <1>1, <1>3, <2>5, <4>1, ChangeRow
    <3> QED
      BY <3>1, <3>2
  <2>7. WithinBounds'
    BY <1>1, <1>3, <2>5, <2>6 DEF WithinBounds
  <2>8. AgentFits(g)'
    BY <1>1, <1>5, <1>7, <2>6 DEF AgentFits
  <2>11. MarksKept
    BY <2>5, <2>6 DEF MarksKept
  <2>9. Len(voiceQuotes) <= Len(voiceQuotes') /\ Len(voiceQuotes') <= MaxVoiceQuotes
    BY <1>1, <2>6
  <2>10. deeds' \subseteq Deeds /\ \A e \in deeds' \ deeds : e = d
    BY <1>1, <2>2, <2>3
  <2> QED
    BY <1>1, <1>2, <1>3, <1>5, <1>6, <2>3, <2>6, <2>7, <2>8, <2>9, <2>10, <2>11, QuotesKeep
<1> QED
  BY <1>8, <1>9

-----------------------------------------------------------------------------
(* An orchestrator writes its conversation. *)
LEMMA ConversationKeeps ==
  ASSUME VoiceInv, NEW r \in Requests, agent[r] # Idle,
         agent[r].step # "opening", NEW row \in Conversations,
         conversations' = [conversations EXCEPT ![agent[r].conv] = row],
         UNCHANGED <<sessions, voiceQuotes, deeds, staff>>,
         NEW g \in AgentStates, agent' = [agent EXCEPT ![r] = g],
         g # Idle =>
           /\ g.conv = agent[r].conv /\ g.call = agent[r].call
           /\ g.quote = agent[r].quote /\ g.step \in {"ending", "closing"}
           /\ g.step = "ending" => agent[r].step = "thinking"
           /\ g.step = "closing" => row.kept /\ row.said = g.said
           /\ row.handed <=> g.handed
           /\ ~row.ended,
         IF sessions[agent[r].call].status = "in_progress" THEN ~row.ended
         ELSE /\ row.kept = conversations[agent[r].conv].kept
              /\ row.said = conversations[agent[r].conv].said
              /\ row.handed = conversations[agent[r].conv].handed
  PROVE  VoiceInv'
<1>1. /\ VoiceTypeOK /\ agent \in [Requests -> AgentStates]
      /\ agent[r] \in AgentStates /\ AgentFits(agent[r])
      /\ conversations \in Seq(Conversations) /\ Len(voiceQuotes) \in Nat
      /\ Len(conversations) <= MaxConversations
  BY DEF VoiceInv, VoiceTypeOK
<1>2. PICK t, call, m : t = agent[r] /\ call = t.call /\ m = t.conv
  OBVIOUS
<1>3. /\ call \in Calls /\ m \in DOMAIN conversations
      /\ sessions[call] # None /\ sessions[call].conv = m
      /\ t.quote <= Len(voiceQuotes)
  BY <1>1, <1>2, AgentShapes DEF AgentFits
<1>4. /\ conversations' \in Seq(Conversations)
      /\ Len(conversations') = Len(conversations)
      /\ DOMAIN conversations' = DOMAIN conversations
      /\ \A k \in DOMAIN conversations :
           conversations'[k] = IF k = m THEN row ELSE conversations[k]
  BY <1>1, <1>2, <1>3, ChangeRow
<1>5. WorkOf(m)
  BY <1>1, <1>4 DEF WorkOf, MarksKept
<1>6. VoiceTypeOK' /\ OwnSession' /\ WithinBounds'
  <2>1. agent' \in [Requests -> AgentStates] /\ Len(conversations') <= MaxConversations
    BY <1>1, <1>4
  <2> QED
    BY <1>1, <1>4, <2>1 DEF VoiceTypeOK, VoiceInv, OwnSession, WithinBounds
<1>7. \A q \in Requests : q # r /\ agent[q] # Idle => agent[q].conv # m
  BY <1>2, OthersElsewhere
<1>8. AgentFits(g)'
  BY <1>1, <1>2, <1>3, <1>4 DEF AgentFits
<1>9. ASSUME NEW c \in Calls, sessions'[c] # None, sessions'[c].conv = m
      PROVE  SessionFits(c)'
  <2>1. c = call /\ SessionFits(call)
    BY <1>3, <1>9 DEF VoiceInv, OwnSession
  <2>2. conversations'[m] = row /\ m \in DOMAIN conversations'
    BY <1>3, <1>4
  <2> QED
    BY <1>2, <1>3, <2>1, <2>2 DEF SessionFits
<1> QED
  BY <1>2, <1>5, <1>6, <1>7, <1>8, <1>9, VoiceAdvances

LEMMA EndingKeeps ==
  ASSUME VoiceInv, NEW r \in Requests,
         TransferToHuman(r) \/ PersistTranscript(r) \/ EndConversation(r)
  PROVE  VoiceInv'
<1>1. /\ AgentFits(agent[r]) /\ agent[r] \in AgentStates
      /\ conversations \in Seq(Conversations) /\ Idle \in AgentStates
  BY DEF VoiceInv, VoiceTypeOK, AgentStates
<1>2. /\ agent[r].step \in {"thinking", "ending", "closing"} /\ agent[r] # Idle
  BY <1>1, AgentShapes
     DEF TransferToHuman, Thinks, PersistTranscript, EndConversation, AgentSteps
<1>3. PICK t, call, m : t = agent[r] /\ call = t.call /\ m = t.conv
  OBVIOUS
<1>4. /\ m \in DOMAIN conversations /\ conversations[m] \in Conversations
      /\ ~conversations[m].ended
      /\ conversations[m].handed <=> t.handed
      /\ sessions[call] # None /\ sessions[call].conv = m
      /\ t.step = "thinking" => sessions[call].status = "in_progress"
      /\ t.step = "ending" => sessions[call].status = "in_progress"
      /\ t.said \in Outcomes
  BY <1>1, <1>2, <1>3, AgentShapes DEF AgentFits
<1>5. CASE TransferToHuman(r)
  <2>1. PICK u : u = Turned(r)
    OBVIOUS
  <2>2. /\ Thinks(r) /\ u \in AgentStates /\ u # Idle /\ u.step = "thinking"
        /\ u.conv = m /\ u.call = call /\ u.quote = t.quote
        /\ t.step = "thinking"
    BY <1>3, <1>5, <2>1, ThinksShape DEF TransferToHuman
  <2>3. PICK g : g = [u EXCEPT !.step = "ending", !.handed = TRUE]
    OBVIOUS
  <2>4. PICK row : row = [conversations[m] EXCEPT !.handed = TRUE]
    OBVIOUS
  <2>5. /\ row \in Conversations /\ row.handed /\ ~row.ended
    BY <1>4, <2>4 DEF Conversations
  <2>6. /\ g \in AgentStates /\ g # Idle /\ g.step = "ending" /\ g.conv = m
        /\ g.call = call /\ g.handed /\ g.quote = t.quote
    BY <2>2, <2>3 DEF AgentStates, AgentSteps, Idle
  <2>7. /\ conversations' = [conversations EXCEPT ![m] = row]
        /\ agent' = [agent EXCEPT ![r] = g]
        /\ UNCHANGED <<sessions, voiceQuotes, deeds, staff>>
    BY <1>3, <1>5, <2>1, <2>3, <2>4 DEF TransferToHuman, Becomes
  <2> QED
    BY <1>2, <1>3, <1>4, <2>2, <2>5, <2>6, <2>7, ConversationKeeps
<1>6. CASE PersistTranscript(r)
  <2>1. PICK g : g = [t EXCEPT !.step = "closing"]
    OBVIOUS
  <2>2. PICK row : row = [conversations[m] EXCEPT !.said = t.said, !.kept = TRUE]
    OBVIOUS
  <2>3. /\ row \in Conversations /\ row.kept /\ row.said = t.said
        /\ row.handed = conversations[m].handed /\ ~row.ended
    BY <1>4, <2>2 DEF Conversations
  <2>4. /\ g \in AgentStates /\ g # Idle /\ g.step = "closing" /\ g.conv = m
        /\ g.call = call /\ g.handed = t.handed /\ g.quote = t.quote
        /\ g.said = t.said
    BY <1>1, <1>2, <1>3, <2>1 DEF AgentStates, AgentSteps, Idle
  <2>5. /\ conversations' = [conversations EXCEPT ![m] = row]
        /\ agent' = [agent EXCEPT ![r] = g]
        /\ UNCHANGED <<sessions, voiceQuotes, deeds, staff>>
        /\ t.step = "ending"
    BY <1>3, <1>6, <2>1, <2>2 DEF PersistTranscript, Now
  <2> QED
    BY <1>2, <1>3, <1>4, <2>3, <2>4, <2>5, ConversationKeeps
<1>7. CASE EndConversation(r)
  <2>1. PICK row : row = [conversations[m] EXCEPT !.ended = TRUE]
    OBVIOUS
  <2>2. /\ row \in Conversations /\ row.kept = conversations[m].kept
        /\ row.said = conversations[m].said /\ row.handed = conversations[m].handed
    BY <1>4, <2>1 DEF Conversations
  <2>3. /\ conversations' = [conversations EXCEPT ![m] = row]
        /\ agent' = [agent EXCEPT ![r] = Idle]
        /\ UNCHANGED <<sessions, voiceQuotes, deeds, staff>>
        /\ t.step = "closing" /\ sessions[call].status # "in_progress"
    BY <1>3, <1>7, <2>1 DEF EndConversation, Becomes
  <2> QED
    BY <1>1, <1>2, <1>3, <1>4, <2>2, <2>3, ConversationKeeps
<1> QED
  BY <1>5, <1>6, <1>7

LEMMA ClosesKeeps ==
  ASSUME VoiceInv, NEW r \in Requests, CloseSession(r)
  PROVE  VoiceInv'
<1>1. /\ VoiceTypeOK /\ AgentFits(agent[r]) /\ agent[r] \in AgentStates
      /\ agent \in [Requests -> AgentStates] /\ Len(voiceQuotes) \in Nat
      /\ sessions \in [Calls -> Sessions \cup {None}] /\ None \notin Sessions
      /\ agent[r].step = "closing"
      /\ UNCHANGED <<conversations, agent, voiceQuotes, deeds, staff>>
      /\ conversations \in Seq(Conversations)
  BY VoiceAssumption
     DEF VoiceInv, VoiceTypeOK, CloseSession, VoiceAssumption
<1>2. PICK t, call, m, outcome :
        /\ t = agent[r] /\ call = t.call /\ m = t.conv
        /\ outcome = OutcomeOf(t.handed, t.said)
  OBVIOUS
<1>3. /\ t # Idle /\ call \in Calls /\ m \in DOMAIN conversations
      /\ sessions[call] # None /\ sessions[call].conv = m
      /\ sessions[call] \in Sessions
      /\ conversations[m].kept /\ conversations[m].said = t.said
      /\ conversations[m].handed <=> t.handed
      /\ ~conversations[m].ended /\ t.step = "closing"
      /\ t.quote <= Len(voiceQuotes) /\ t \in AgentStates
      /\ t.said \in Outcomes /\ t.handed \in BOOLEAN
  BY <1>1, <1>2, AgentShapes DEF AgentFits, AgentSteps
<1>4. PICK s : s = [sessions[call] EXCEPT
                      !.outcome = outcome,
                      !.status = IF outcome = "transferred" THEN "transferred"
                                 ELSE "completed"]
  OBVIOUS
<1>5. /\ outcome \in {"transferred", "booked", "none"}
      /\ t.handed => outcome = "transferred"
      /\ outcome # "transferred" =>
           outcome = IF t.said = "booked" THEN "booked" ELSE "none"
  BY <1>2, <1>3 DEF OutcomeOf
<1>6. /\ s \in Sessions /\ s # None /\ s.conv = m /\ s.outcome = outcome
      /\ s.status = IF outcome = "transferred" THEN "transferred" ELSE "completed"
  BY <1>1, <1>3, <1>4, <1>5 DEF Sessions, CallStatus, Outcomes
<1>7. sessions' = [sessions EXCEPT ![call] = s]
  BY <1>2, <1>4 DEF CloseSession
<1>8. /\ sessions' \in [Calls -> Sessions \cup {None}] /\ sessions'[call] = s
      /\ \A c \in Calls \ {call} : sessions'[c] = sessions[c]
  BY <1>1, <1>3, <1>6, <1>7
<1>9. WorkOf(m)
  BY <1>1, <1>3, <1>6, <1>8 DEF WorkOf, MarksKept
<1>10. AgentFits(t)'
  <2>1. /\ conversations'[m] = conversations[m] /\ m \in DOMAIN conversations'
        /\ Len(voiceQuotes') = Len(voiceQuotes)
        /\ sessions'[call] # None /\ sessions'[call].conv = m
    BY <1>1, <1>3, <1>6, <1>8
  <2> QED
    BY <1>2, <1>3, <2>1 DEF AgentFits
<1>11. agent' = [agent EXCEPT ![r] = t]
  BY <1>1, <1>2
<1>12. VoiceTypeOK' /\ OwnSession' /\ WithinBounds'
  <2>1. OwnSession'
    BY <1>3, <1>6, <1>8 DEF VoiceInv, OwnSession
  <2> QED
    BY <1>1, <1>8, <2>1 DEF VoiceTypeOK, VoiceInv, WithinBounds
<1>13. ASSUME NEW c \in Calls, sessions'[c] # None, sessions'[c].conv = m
       PROVE  SessionFits(c)'
  <2>1. c = call
    BY <1>3, <1>8, <1>13 DEF VoiceInv, OwnSession
  <2>2. /\ sessions'[c] = s /\ conversations'[m] = conversations[m]
        /\ m \in DOMAIN conversations' /\ s.status # "in_progress"
        /\ (s.status = "transferred") = (s.outcome = "transferred")
    BY <1>1, <1>3, <1>5, <1>6, <1>8, <2>1
  <2> QED
    BY <1>3, <1>5, <1>6, <2>2 DEF SessionFits
<1>14. \A q \in Requests : q # r /\ agent[q] # Idle => agent[q].conv # m
  BY <1>2, <1>3, OthersElsewhere
<1>15. t.conv = m
  BY <1>2
<1> QED
  BY <1>1, <1>3, <1>9, <1>10, <1>11, <1>12, <1>13, <1>14, <1>15, VoiceAdvances

LEMMA StaffKeeps ==
  ASSUME VoiceInv, NEW q \in DOMAIN voiceQuotes,
         NEW status \in {"committed", "accepted", "void"}, StaffMoves(q, status)
  PROVE  VoiceInv'
<1>1. /\ VoiceTypeOK /\ voiceQuotes \in Seq(VoiceQuotes) /\ WithinBounds
      /\ agent \in [Requests -> AgentStates]
      /\ UNCHANGED <<sessions, conversations, agent, deeds>>
  BY DEF VoiceInv, VoiceTypeOK, StaffMoves
<1>2. PICK row : row = [voiceQuotes[q] EXCEPT !.status = status]
  OBVIOUS
<1>3. /\ row \in VoiceQuotes /\ row.sent = voiceQuotes[q].sent
      /\ row.total = voiceQuotes[q].total /\ row.torn = voiceQuotes[q].torn
  <2>1. voiceQuotes[q] \in VoiceQuotes
    BY <1>1
  <2> QED
    BY <1>2, <2>1 DEF VoiceQuotes
<1>4. voiceQuotes' = [voiceQuotes EXCEPT ![q] = row]
  BY <1>2 DEF StaffMoves
<1>5. /\ voiceQuotes' \in Seq(VoiceQuotes) /\ Len(voiceQuotes') = Len(voiceQuotes)
      /\ DOMAIN voiceQuotes' = DOMAIN voiceQuotes
      /\ \A k \in DOMAIN voiceQuotes :
           voiceQuotes'[k] = IF k = q THEN row ELSE voiceQuotes[k]
  BY <1>1, <1>3, <1>4, ChangeRow
<1>6. VoiceTypeOK'
  <2>1. staff' \in 0..MaxStaff
    BY <1>1, VoiceAssumption DEF StaffMoves, VoiceTypeOK, VoiceAssumption
  <2> QED
    BY <1>1, <1>5, <2>1 DEF VoiceTypeOK
<1>7. WithinBounds'
  BY <1>1, <1>3, <1>5 DEF WithinBounds
<1>8. \A r \in Requests : AgentFits(agent[r])'
  BY <1>1, <1>3, <1>5 DEF VoiceInv, AgentFits
<1>9. \A c \in Calls : SessionFits(c)'
  BY <1>1 DEF VoiceInv, SessionFits
<1> QED
  BY <1>1, <1>6, <1>7, <1>8, <1>9
     DEF VoiceInv, OwnConversation, OwnSession, DeedsFit

LEMMA RepricingKeeps ==
  ASSUME VoiceInv, NEW q \in DOMAIN voiceQuotes, NEW total \in Totals,
         StaffReprices(q, total)
  PROVE  VoiceInv'
<1>1. /\ VoiceTypeOK /\ agent \in [Requests -> AgentStates]
      /\ UNCHANGED <<sessions, conversations, agent, deeds>>
      /\ voiceQuotes' = Priced(q, total)
  BY DEF VoiceInv, VoiceTypeOK, StaffReprices
<1>2. /\ voiceQuotes' \in Seq(VoiceQuotes) /\ Len(voiceQuotes') = Len(voiceQuotes)
      /\ DOMAIN voiceQuotes' = DOMAIN voiceQuotes /\ MarksKept /\ WithinBounds'
  BY <1>1, PricedKeeps
<1>3. VoiceTypeOK'
  <2>1. staff' \in 0..MaxStaff
    BY <1>1, VoiceAssumption DEF StaffReprices, VoiceTypeOK, VoiceAssumption
  <2> QED
    BY <1>1, <1>2, <2>1 DEF VoiceTypeOK
<1>4. ASSUME NEW r \in Requests PROVE AgentFits(agent[r])'
  <2>1. PICK g : g = agent[r] /\ g = agent'[r]
    BY <1>1
  <2>2. AgentFits(g) /\ (g # Idle /\ g.step = "reading" =>
          voiceQuotes'[g.ships].torn
            \/ voiceQuotes'[g.ships].total = voiceQuotes[g.ships].total)
    BY <1>2, <2>1 DEF VoiceInv, AgentFits, MarksKept
  <2>3. g # Idle /\ g.ships \in DOMAIN voiceQuotes /\ voiceQuotes[g.ships].torn =>
          voiceQuotes'[g.ships].torn
    BY <1>2 DEF MarksKept
  <2> QED
    BY <1>1, <1>2, <2>1, <2>2, <2>3 DEF AgentFits
<1>5. \A c \in Calls : SessionFits(c)'
  BY <1>1 DEF VoiceInv, SessionFits
<1> QED
  BY <1>1, <1>2, <1>3, <1>4, <1>5
     DEF VoiceInv, OwnConversation, OwnSession, DeedsFit

LEMMA VoiceStepInv ==
  VoiceInv /\ [VoiceNext]_voiceVars => VoiceInv'
<1>1. ASSUME VoiceInv, VoiceNext PROVE VoiceInv'
  <2>1. CASE VoiceProcessStops
    BY <1>1, <2>1, StopKeeps DEF VoiceProcessStops
  <2>2. CASE \E r \in Requests, tool \in DOMAIN Floor, confidence \in Confidences :
               Redirected(r, tool, confidence)
    BY <1>1, <2>2, EndingKeeps DEF Redirected
  <2>3. CASE \E r \in Requests, confidence, claimed \in Confidences,
                q \in DOMAIN voiceQuotes : CommitQuoteRead(r, confidence, claimed, q)
    BY <1>1, <2>3, ReadingKeeps
  <2>4. CASE \E r \in Requests, confidence \in Confidences :
               CreateVoiceCustomer(r, confidence) \/ BookJob(r, confidence)
    BY <1>1, <2>4, GatedTurnKeeps
  <2> QED
    BY <1>1, <2>1, <2>2, <2>3, <2>4, StreamKeeps, OpensKeeps, QuietTurnKeeps,
       ConfigureKeeps, LinesKeep, ShippedKeeps, EndingKeeps, ClosesKeeps,
       StaffKeeps, RepricingKeeps
       DEF VoiceNext
<1>2. ASSUME VoiceInv, UNCHANGED voiceVars PROVE VoiceInv'
  BY <1>2 DEF voiceVars, VoiceInv, VoiceTypeOK, OwnConversation, OwnSession,
     DeedsFit, WithinBounds, AgentFits, SessionFits
<1> QED
  BY <1>1, <1>2

LEMMA VoiceSound ==
  ASSUME VoiceInv
  PROVE  CallsSound
<1>1. CallAnsweredOnce
  <2>1. ASSUME NEW r \in Requests, agent[r] # Idle, agent[r].step # "opening"
        PROVE  /\ sessions[agent[r].call] # None
               /\ sessions[agent[r].call].conv = agent[r].conv
    BY <2>1 DEF VoiceInv, AgentFits
  <2> QED
    BY <2>1 DEF VoiceInv, DeedsFit, CallAnsweredOnce
<1>2. AgentKeepsBounds
  BY DEF VoiceInv, DeedsFit, WithinBounds, AgentKeepsBounds
<1>3. SessionTellsCall
  BY DEF VoiceInv, SessionFits, SessionTellsCall
<1> QED
  BY <1>1, <1>2, <1>3 DEF CallsSound

LEMMA HandedStaysOver ==
  ASSUME VoiceInv, VoiceNext
  PROVE  HandedOverIsOver
<1>1. ASSUME NEW d \in deeds', d \notin deeds
      PROVE  ~conversations[d.conv].handed
  <2>1. PICK r, tool, confidence :
          /\ r \in Requests /\ Done(r, tool, confidence)
          /\ agent[r].step \in {"thinking", "shipping"}
    BY <1>1 DEF VoiceNext, StreamStarts, SessionOpens, Reply, OutOfSteps, ToolTells,
       TransferToHuman, Redirected, CreateVoiceCustomer, BookJob, Configure,
       CommitQuoteRead, CommitQuoteLines, CommitQuoteCall, CommitQuoteRefused,
       LogCallSummary, PersistTranscript, CloseSession, EndConversation, VoiceProcessStops,
       StaffMoves, StaffReprices, Thinks
  <2>2. d.conv = agent[r].conv
    BY <1>1, <2>1 DEF Done
  <2>3. AgentFits(agent[r]) /\ agent[r] # Idle
    BY <2>1, AgentShapes DEF VoiceInv, VoiceTypeOK, AgentSteps
  <2> QED
    BY <2>1, <2>2, <2>3 DEF AgentFits
<1>2. ASSUME NEW c \in Calls, sessions[c] # None, sessions[c].status # "in_progress"
      PROVE  sessions'[c] = sessions[c]
  <2>1. sessions \in [Calls -> Sessions \cup {None}]
    BY DEF VoiceInv, VoiceTypeOK
  <2>2. ASSUME NEW r \in Requests, SessionOpens(r) PROVE sessions'[c] = sessions[c]
    BY <1>2, <2>1, <2>2 DEF SessionOpens
  <2>3. ASSUME NEW r \in Requests, CloseSession(r) PROVE sessions'[c] = sessions[c]
    BY <1>2, <2>1, <2>3 DEF CloseSession
  <2>4. \/ UNCHANGED sessions
        \/ \E r \in Requests : SessionOpens(r) \/ CloseSession(r)
    BY DEF VoiceNext, StreamStarts, Reply, OutOfSteps, ToolTells,
       TransferToHuman, Redirected, CreateVoiceCustomer, BookJob, Configure,
       CommitQuoteRead, CommitQuoteLines, CommitQuoteCall, CommitQuoteRefused,
       LogCallSummary, PersistTranscript, EndConversation, VoiceProcessStops, StaffMoves,
       StaffReprices
  <2> QED
    BY <2>2, <2>3, <2>4
<1> QED
  BY <1>1, <1>2 DEF HandedOverIsOver

(* A call is answered once, the agent stays within its floors and its cap,  *)
(* and a closed session says what its transcript says, wherever the process *)
(* stops (the stream handler, runAgentLoop and the CSR tools).              *)
THEOREM CallsAlwaysSound == VoiceSpec => []CallsSound
<1> QED
  BY VoiceInitInv, VoiceStepInv, VoiceSound, PTL DEF VoiceSpec

(* After a transfer the agent does nothing more in the call, and a closed   *)
(* session stays as it was closed.                                          *)
THEOREM HandedAlwaysOver == VoiceSpec => CallsHandedOver
<1>1. VoiceInv /\ [VoiceNext]_voiceVars => [HandedOverIsOver]_voiceVars
  BY HandedStaysOver
<1> QED
  BY <1>1, VoiceInitInv, VoiceStepInv, PTL DEF VoiceSpec, CallsHandedOver

-----------------------------------------------------------------------------
(* The corporate console.                                                   *)

(* A console request holds the rows of its own branch or person, the open   *)
(* ones exactly while nothing mixed with it; a plan it names exists, and an *)
(* edit that nothing mixed with has read the plan as it is.                 *)
AppointFits(g) ==
  g.step = "appointing" =>
    /\ g.open \subseteq {k \in DOMAIN posts : posts[k].site = g.row}
    /\ g.row \in overlapped \/ g.open = OpenPosts(g.row)

AssignFits(g) ==
  g.step = "assigning" =>
    /\ g.plan \in DOMAIN payPlans
    /\ g.open \subseteq {k \in DOMAIN onPlan : onPlan[k].user = g.row}
    /\ g.row \in overlapped \/ g.open = OpenPlans(g.row)

PatchFits(g) ==
  g.step = "patching" =>
    /\ g.row \in DOMAIN payPlans
    /\ g.row \in overlapped \/ g.read = payPlans[g.row]

AdminFits(g) == AppointFits(g) /\ AssignFits(g) /\ PatchFits(g)

AdminsMixed ==
  \A q, r \in Requests :
    admin[q] # Idle /\ admin[r] # Idle /\ admin[q].row = admin[r].row =>
      q = r \/ admin[r].row \in overlapped

(* Every row and every request in flight was asked for. *)
InFlight == {r \in Requests : admin[r] # Idle}
Asked ==
  /\ IsFiniteSet(InFlight)
  /\ Len(posts) + Len(onPlan) + Cardinality(InFlight) <= served

AdminInv ==
  /\ HubTypeOK /\ AdminsMixed /\ Asked
  /\ \A r \in Requests : AdminFits(admin[r])

(* Posts begin and credits are made on days that came; assignments name     *)
(* plans there are.                                                         *)
Past ==
  /\ \A k \in DOMAIN posts : posts[k].from <= today
  /\ \A c \in credits : c.day <= today
PlansExist == \A k \in DOMAIN onPlan : onPlan[k].plan \in DOMAIN payPlans

Succeeded(b) ==
  \A k \in DOMAIN posts : posts[k].site = b =>
    \/ /\ posts[k].to = None
       /\ \A n \in DOMAIN posts : posts[n].site = b => n <= k
    \/ \E n \in DOMAIN posts :
         /\ posts[n].site = b /\ k < n /\ posts[k].to = posts[n].from
         /\ \A x \in DOMAIN posts : posts[x].site = b /\ k < x => n <= x

(* An assignment ends as it was told to, or is open, or gave way to one     *)
(* that begins the day it ends.                                             *)
Chained ==
  \A k \in DOMAIN onPlan :
    /\ onPlan[k].until # None =>
         onPlan[k].to = onPlan[k].until /\ onPlan[k].from <= onPlan[k].until
    /\ onPlan[k].until = None =>
         \/ onPlan[k].to = None
         \/ /\ onPlan[k].from <= onPlan[k].to
            /\ \E n \in DOMAIN onPlan :
                 /\ k < n /\ onPlan[n].user = onPlan[k].user
                 /\ onPlan[n].from = onPlan[k].to

OpenAlone(u) == \A j, k \in OpenPlans(u) : j = k

HubInv ==
  /\ AdminInv /\ Past /\ PlansExist
  /\ \A b \in Sites : Succeeded(b)
  /\ Chained
  /\ \A u \in Staff \ overlapped : OpenAlone(u)
  /\ CreditIsEarned

LEMMA AdminShapes ==
  ASSUME NEW g \in AdminStates
  PROVE  /\ g.step \in {"appointing", "assigning", "patching"} <=> g # Idle
         /\ g.step = "appointing" =>
              /\ g.row \in Sites /\ g.user \in Staff
              /\ g.open \subseteq 1..MaxRequests
         /\ g.step = "assigning" =>
              /\ g.row \in Staff /\ g.plan \in PayPlans /\ g.from \in Days
              /\ g.open \subseteq 1..MaxRequests
         /\ g.step = "patching" =>
              /\ g.row \in PayPlans /\ g.read \in Terms
              /\ g.field \in {"base", "rate"}
  BY DEF AdminStates, Idle

LEMMA HubInitInv == HubInit => HubInv
<1> SUFFICES ASSUME HubInit PROVE HubInv
  OBVIOUS
<1>1. \A r \in Requests : admin[r] = Idle /\ Idle.step = "idle"
  BY DEF HubInit, NoRequests, Idle
<1>2. HubTypeOK
  BY HubAssumption
     DEF HubAssumption, HubInit, HubTypeOK, NoRequests, AdminStates, Days
<1>3. Asked
  <2>1. InFlight = {} /\ Len(posts) = 0 /\ Len(onPlan) = 0 /\ served = 0
    BY <1>1 DEF InFlight, HubInit
  <2> QED
    BY <2>1, FS_EmptySet DEF Asked
<1>4. DOMAIN posts = {} /\ DOMAIN onPlan = {} /\ credits = {}
  BY DEF HubInit
<1>5. \A r \in Requests : AdminFits(admin[r])
  BY <1>1 DEF AdminFits, AppointFits, AssignFits, PatchFits
<1>6. AdminsMixed
  BY <1>1 DEF AdminsMixed
<1> QED
  BY <1>2, <1>3, <1>4, <1>5, <1>6
     DEF HubInv, AdminInv, Past, PlansExist, Succeeded, Chained,
     OpenAlone, OpenPlans, CreditIsEarned

(* What becomes of the console when a request begins, and when it ends. *)
Begins(r, state) ==
  /\ Serve /\ admin[r] = Idle /\ overlapped' = MixedBy(overlapped, admin, state.row)
  /\ admin' = [admin EXCEPT ![r] = state]

Ends(r) ==
  /\ admin[r] # Idle
  /\ admin' = [admin EXCEPT ![r] = Idle] /\ UNCHANGED <<overlapped, served>>

LEMMA OneBegins ==
  ASSUME AdminInv, NEW r \in Requests, NEW state \in AdminStates, state # Idle,
         Begins(r, state), UNCHANGED <<posts, onPlan>>
  PROVE  /\ admin' \in [Requests -> AdminStates] /\ served' \in 0..MaxRequests
         /\ AdminsMixed' /\ Asked' /\ overlapped \subseteq overlapped'
         /\ \A q \in Requests : admin'[q] = IF q = r THEN state ELSE admin[q]
<1>1. /\ admin \in [Requests -> AdminStates] /\ served \in 0..MaxRequests
      /\ posts \in Seq(Posts) /\ onPlan \in Seq(Assignments)
  BY DEF AdminInv, HubTypeOK
<1>2. /\ admin' \in [Requests -> AdminStates] /\ served' \in 0..MaxRequests
      /\ \A q \in Requests : admin'[q] = IF q = r THEN state ELSE admin[q]
      /\ served' = served + 1 /\ admin[r] = Idle
  BY <1>1, HubAssumption DEF Begins, Serve, HubAssumption
<1>3. overlapped' = MixedBy(overlapped, admin, state.row)
  BY DEF Begins
<1>4. /\ overlapped \subseteq overlapped'
      /\ \/ state.row \in overlapped'
         \/ \A q \in Requests : admin[q] = Idle \/ admin[q].row # state.row
  BY <1>1, <1>3, MixedByBegin
<1>5. AdminsMixed'
  BY <1>2, <1>4 DEF AdminInv, AdminsMixed
<1>6. Asked'
  <2>1. InFlight' = InFlight \cup {r} /\ r \notin InFlight
    BY <1>2 DEF InFlight
  <2>2. IsFiniteSet(InFlight)
    BY DEF AdminInv, Asked
  <2>3. /\ IsFiniteSet(InFlight') /\ Cardinality(InFlight) \in Nat
        /\ Cardinality(InFlight') = Cardinality(InFlight) + 1
    BY <2>1, <2>2, FS_AddElement, FS_CardinalityType
  <2> QED
    BY <1>1, <1>2, <2>3 DEF AdminInv, Asked
<1> QED
  BY <1>2, <1>4, <1>5, <1>6

LEMMA OneEnds ==
  ASSUME AdminInv, NEW r \in Requests, Ends(r)
  PROVE  /\ admin' \in [Requests -> AdminStates] /\ served' \in 0..MaxRequests
         /\ AdminsMixed'
         /\ IsFiniteSet(InFlight') /\ Cardinality(InFlight') \in Nat
         /\ Len(posts) + Len(onPlan) + Cardinality(InFlight') + 1 <= served'
         /\ \A q \in Requests : admin'[q] = IF q = r THEN Idle ELSE admin[q]
<1>1. /\ admin \in [Requests -> AdminStates] /\ served \in 0..MaxRequests
      /\ posts \in Seq(Posts) /\ onPlan \in Seq(Assignments)
      /\ Idle \in AdminStates
  BY DEF AdminInv, HubTypeOK, AdminStates
<1>2. /\ admin' \in [Requests -> AdminStates] /\ served' = served
      /\ overlapped' = overlapped
      /\ \A q \in Requests : admin'[q] = IF q = r THEN Idle ELSE admin[q]
  BY <1>1 DEF Ends
<1>3. AdminsMixed'
  BY <1>2 DEF AdminInv, AdminsMixed
<1>4. InFlight' = InFlight \ {r} /\ r \in InFlight
  BY <1>2 DEF InFlight, Ends
<1>5. IsFiniteSet(InFlight) /\ Cardinality(InFlight) \in Nat
  BY FS_CardinalityType DEF AdminInv, Asked
<1>6. /\ IsFiniteSet(InFlight') /\ Cardinality(InFlight') \in Nat
      /\ Cardinality(InFlight') = Cardinality(InFlight) - 1
  BY <1>4, <1>5, FS_RemoveElement, FS_CardinalityType
<1>7. Len(posts) + Len(onPlan) + Cardinality(InFlight) <= served
  BY DEF AdminInv, Asked
<1>8. Len(posts) \in Nat /\ Len(onPlan) \in Nat
  BY <1>1
<1>9. Len(posts) + Len(onPlan) + Cardinality(InFlight') + 1 <= served'
  BY <1>1, <1>2, <1>5, <1>6, <1>7, <1>8
<1> QED
  BY <1>1, <1>2, <1>3, <1>6, <1>9

(* A request that begins holds what it read, and spoils nothing. *)
LEMMA BeginKeeps ==
  ASSUME HubInv, NEW r \in Requests, NEW state \in AdminStates, state # Idle,
         Begins(r, state), AdminFits(state),
         UNCHANGED <<today, sites, posts, payPlans, onPlan, credits>>
  PROVE  HubInv'
<1>1. /\ admin' \in [Requests -> AdminStates] /\ served' \in 0..MaxRequests
      /\ AdminsMixed' /\ Asked' /\ overlapped \subseteq overlapped'
      /\ \A q \in Requests : admin'[q] = IF q = r THEN state ELSE admin[q]
  BY OneBegins DEF HubInv
<1>2. HubTypeOK'
  BY <1>1 DEF HubInv, AdminInv, HubTypeOK
<1>3. \A g \in AdminStates : AdminFits(g) => AdminFits(g)'
  BY <1>1 DEF AdminFits, AppointFits, AssignFits, PatchFits, OpenPosts, OpenPlans
<1>4. ASSUME NEW q \in Requests PROVE AdminFits(admin[q])'
  <2>1. admin'[q] \in AdminStates /\ AdminFits(admin'[q])
    BY <1>1 DEF HubInv, AdminInv, HubTypeOK
  <2>2. PICK g \in AdminStates : g = admin'[q]
    BY <2>1
  <2>3. AdminFits(g)'
    BY <1>3, <2>1, <2>2
  <2> QED
    BY <2>2, <2>3 DEF AdminFits, AppointFits, AssignFits, PatchFits
<1>5. Past' /\ PlansExist' /\ Chained' /\ CreditIsEarned'
  BY DEF HubInv, Past, PlansExist, Chained, CreditIsEarned
<1>6. \A b \in Sites : Succeeded(b)'
  BY <1>1 DEF HubInv, Succeeded
<1>7. \A u \in Staff \ overlapped' : OpenAlone(u)'
  BY <1>1 DEF HubInv, OpenAlone, OpenPlans
<1> QED
  BY <1>1, <1>2, <1>4, <1>5, <1>6, <1>7 DEF HubInv, AdminInv

LEMMA ReadKeepsHub ==
  ASSUME HubInv, NEW r \in Requests,
         \/ \E b \in DOMAIN sites, u \in Staff : AppointRead(r, b, u)
         \/ \E p \in DOMAIN payPlans, field \in {"base", "rate"} :
              PatchPlanRead(r, p, field)
         \/ \E u \in Staff, p \in DOMAIN payPlans, from \in Days :
              AssignRead(r, u, p, from)
  PROVE  HubInv'
<1>1. /\ DOMAIN sites \subseteq Sites /\ DOMAIN payPlans \subseteq PayPlans
      /\ \A p \in DOMAIN payPlans : payPlans[p] \in Terms
      /\ posts \in Seq(Posts) /\ onPlan \in Seq(Assignments)
      /\ served \in 0..MaxRequests
  BY DEF HubInv, AdminInv, HubTypeOK
<1>2. DOMAIN posts \subseteq 1..MaxRequests /\ DOMAIN onPlan \subseteq 1..MaxRequests
  <2>1. /\ IsFiniteSet(InFlight)
        /\ Len(posts) + Len(onPlan) + Cardinality(InFlight) <= served
    BY DEF HubInv, AdminInv, Asked
  <2>2. Cardinality(InFlight) \in Nat
    BY <2>1, FS_CardinalityType
  <2>3. Len(posts) <= MaxRequests /\ Len(onPlan) <= MaxRequests
    BY <1>1, <2>1, <2>2, HubAssumption DEF HubAssumption
  <2>4. /\ DOMAIN posts = 1..Len(posts) /\ Len(posts) \in Nat
        /\ DOMAIN onPlan = 1..Len(onPlan) /\ Len(onPlan) \in Nat
    BY <1>1
  <2> QED
    BY <2>3, <2>4, HubAssumption DEF HubAssumption
<1>3. ASSUME NEW b \in DOMAIN sites, NEW u \in Staff, AppointRead(r, b, u)
      PROVE  HubInv'
  <2>1. PICK g : g = [step |-> "appointing", row |-> b, user |-> u,
                      open |-> OpenPosts(b)]
    OBVIOUS
  <2>2. g \in AdminStates /\ g # Idle /\ g.row = b
    BY <1>1, <1>2, <2>1 DEF AdminStates, OpenPosts, Idle
  <2>3. AdminFits(g)
    BY <2>1 DEF AdminFits, AppointFits, AssignFits, PatchFits, OpenPosts
  <2> QED
    BY <1>3, <2>1, <2>2, <2>3, BeginKeeps DEF AppointRead, Begins
<1>4. ASSUME NEW p \in DOMAIN payPlans, NEW field \in {"base", "rate"},
             PatchPlanRead(r, p, field)
      PROVE  HubInv'
  <2>1. PICK g : g = [step |-> "patching", row |-> p, read |-> payPlans[p],
                      field |-> field]
    OBVIOUS
  <2>2. g \in AdminStates /\ g # Idle /\ g.row = p
    BY <1>1, <2>1 DEF AdminStates, Idle
  <2>3. AdminFits(g)
    BY <2>1 DEF AdminFits, AppointFits, AssignFits, PatchFits
  <2> QED
    BY <1>4, <2>1, <2>2, <2>3, BeginKeeps DEF PatchPlanRead, Begins
<1>5. ASSUME NEW u \in Staff, NEW p \in DOMAIN payPlans, NEW from \in Days,
             AssignRead(r, u, p, from)
      PROVE  HubInv'
  <2>1. PICK g : g = [step |-> "assigning", row |-> u, plan |-> p, from |-> from,
                      open |-> OpenPlans(u)]
    OBVIOUS
  <2>2. g \in AdminStates /\ g # Idle /\ g.row = u
    BY <1>1, <1>2, <2>1 DEF AdminStates, OpenPlans, Idle
  <2>3. AdminFits(g)
    BY <2>1 DEF AdminFits, AppointFits, AssignFits, PatchFits, OpenPlans
  <2> QED
    BY <1>5, <2>1, <2>2, <2>3, BeginKeeps DEF AssignRead, Begins
<1> QED
  BY <1>3, <1>4, <1>5

LEMMA StopKeepsHub ==
  ASSUME HubInv, NEW r \in Requests, AdminStops(r)
  PROVE  HubInv'
<1>1. /\ Ends(r)
      /\ UNCHANGED <<today, sites, posts, payPlans, onPlan, credits, overlapped>>
  BY DEF AdminStops, Ends
<1>2. /\ admin' \in [Requests -> AdminStates] /\ served' \in 0..MaxRequests
      /\ AdminsMixed' /\ IsFiniteSet(InFlight') /\ Cardinality(InFlight') \in Nat
      /\ Len(posts) + Len(onPlan) + Cardinality(InFlight') + 1 <= served'
      /\ \A q \in Requests : admin'[q] = IF q = r THEN Idle ELSE admin[q]
  BY <1>1, OneEnds DEF HubInv
<1>3. HubTypeOK'
  BY <1>1, <1>2 DEF HubInv, AdminInv, HubTypeOK
<1>4. Asked'
  BY <1>1, <1>2, <1>3 DEF Asked, HubTypeOK
<1>5. ASSUME NEW q \in Requests PROVE AdminFits(admin[q])'
  <2>1. CASE q = r
    BY <1>2, <2>1 DEF AdminFits, AppointFits, AssignFits, PatchFits, Idle
  <2>2. CASE q # r
    BY <1>1, <1>2, <2>2
       DEF HubInv, AdminInv, AdminFits, AppointFits, AssignFits, PatchFits,
       OpenPosts, OpenPlans
  <2> QED
    BY <2>1, <2>2
<1>6. Past' /\ PlansExist' /\ Chained' /\ CreditIsEarned'
  BY <1>1 DEF HubInv, Past, PlansExist, Chained, CreditIsEarned
<1>7. \A b \in Sites : Succeeded(b)'
  BY <1>1 DEF HubInv, Succeeded
<1>8. \A u \in Staff \ overlapped' : OpenAlone(u)'
  BY <1>1 DEF HubInv, OpenAlone, OpenPlans
<1> QED
  BY <1>2, <1>3, <1>4, <1>5, <1>6, <1>7, <1>8 DEF HubInv, AdminInv

(* A day, a branch, a new plan and an invoice's credits leave the posts, the *)
(* assignments and the requests in flight alone.                            *)
LEMMA AsideKeepsHub ==
  ASSUME HubInv, HubTypeOK', UNCHANGED <<posts, onPlan, admin, overlapped>>,
         served <= served', today <= today',
         DOMAIN payPlans \subseteq DOMAIN payPlans',
         \A p \in DOMAIN payPlans : payPlans'[p] = payPlans[p],
         \A c \in credits' \ credits :
           /\ c.day <= today'
           /\ c.kind = "paid" =>
                \E k \in DOMAIN posts :
                  /\ posts[k].site = c.site /\ posts[k].user = c.user
                  /\ posts[k].from <= c.day
                  /\ posts[k].to = None \/ c.day <= posts[k].to
  PROVE  HubInv'
<1>1. /\ posts \in Seq(Posts) /\ onPlan \in Seq(Assignments)
      /\ served \in Nat /\ served' \in Nat /\ today \in Int /\ today' \in Int
      /\ credits \subseteq Credits
  BY DEF HubInv, AdminInv, HubTypeOK, Days
<1>2. AdminsMixed' /\ InFlight' = InFlight
  BY DEF HubInv, AdminInv, AdminsMixed, InFlight
<1>3. Asked'
  <2>1. /\ IsFiniteSet(InFlight)
        /\ Len(posts) + Len(onPlan) + Cardinality(InFlight) <= served
    BY DEF HubInv, AdminInv, Asked
  <2>2. Cardinality(InFlight) \in Nat
    BY <2>1, FS_CardinalityType
  <2> QED
    BY <1>1, <1>2, <2>1, <2>2 DEF Asked
<1>4. ASSUME NEW q \in Requests PROVE AdminFits(admin[q])'
  BY DEF HubInv, AdminInv, AdminFits, AppointFits, AssignFits, PatchFits,
     OpenPosts, OpenPlans
<1>5. Past'
  <2>1. \A k \in DOMAIN posts : posts[k].from \in Int
    <3>1. \A k \in DOMAIN posts : posts[k] \in Posts
      BY <1>1
    <3>2. \A p \in Posts : p.from \in Int
      BY DEF Posts, Days
    <3> QED
      BY <3>1, <3>2
  <2>2. \A c \in credits : c.day \in Int
    BY <1>1 DEF Credits, Days
  <2> QED
    BY <1>1, <2>1, <2>2 DEF HubInv, Past
<1>6. PlansExist' /\ Chained'
  BY DEF HubInv, PlansExist, Chained
<1>7. CreditIsEarned'
  BY DEF HubInv, CreditIsEarned
<1>8. \A b \in Sites : Succeeded(b)'
  BY DEF HubInv, Succeeded
<1>9. \A u \in Staff \ overlapped' : OpenAlone(u)'
  BY DEF HubInv, OpenAlone, OpenPlans
<1> QED
  BY <1>2, <1>3, <1>4, <1>5, <1>6, <1>7, <1>8, <1>9 DEF HubInv, AdminInv

LEMMA MonthType == \A day \in Days : Month(day) \in Nat /\ day \in Int
  BY HubAssumption DEF HubAssumption, Days, Month

LEMMA DaysAndBranchesKeep ==
  ASSUME HubInv,
         \/ DayPasses
         \/ \E b \in Sites : CreateBranch(b)
         \/ \E b \in DOMAIN sites, status \in SiteStatus, confirmation \in BOOLEAN :
              PatchBranch(b, status, confirmation)
         \/ \E p \in PayPlans, terms \in Terms : CreatePlan(p, terms)
  PROVE  HubInv'
<1>1. /\ today \in 0..LastDay /\ LastDay \in Nat /\ MaxRequests \in Nat
      /\ served \in 0..MaxRequests /\ HubTypeOK
  BY HubAssumption DEF HubInv, AdminInv, HubTypeOK, Days, HubAssumption
<1>2. CASE DayPasses
  <2>1. /\ today' \in Days /\ today <= today' /\ served' = served
        /\ UNCHANGED <<sites, posts, payPlans, onPlan, credits, admin, overlapped>>
    BY <1>1, <1>2 DEF DayPasses, Days
  <2>2. HubTypeOK'
    BY <1>1, <2>1 DEF HubTypeOK
  <2> QED
    BY <1>1, <2>1, <2>2, AsideKeepsHub
<1>3. ASSUME NEW b \in Sites, CreateBranch(b) PROVE HubInv'
  <2>1. /\ served' \in 0..MaxRequests /\ served <= served' /\ today <= today'
        /\ UNCHANGED <<today, posts, payPlans, onPlan, credits, admin, overlapped>>
        /\ sites' = [x \in DOMAIN sites \cup {b} |-> IF x = b THEN "active" ELSE sites[x]]
    BY <1>1, <1>3 DEF CreateBranch, Serve
  <2>2. HubTypeOK'
    BY <1>1, <2>1 DEF HubTypeOK, SiteStatus
  <2> QED
    BY <2>1, <2>2, AsideKeepsHub
<1>4. ASSUME NEW b \in DOMAIN sites, NEW status \in SiteStatus,
             NEW confirmation \in BOOLEAN, PatchBranch(b, status, confirmation)
      PROVE  HubInv'
  <2>1. /\ served' \in 0..MaxRequests /\ served <= served' /\ today <= today'
        /\ UNCHANGED <<today, posts, payPlans, onPlan, credits, admin, overlapped>>
        /\ sites' = [sites EXCEPT ![b] = status]
    BY <1>1, <1>4 DEF PatchBranch, Serve
  <2>2. HubTypeOK'
    BY <1>1, <2>1 DEF HubTypeOK
  <2> QED
    BY <2>1, <2>2, AsideKeepsHub
<1>5. ASSUME NEW p \in PayPlans, NEW terms \in Terms, CreatePlan(p, terms)
      PROVE  HubInv'
  <2>1. /\ served' \in 0..MaxRequests /\ served <= served' /\ today <= today'
        /\ UNCHANGED <<today, sites, posts, onPlan, credits, admin, overlapped>>
        /\ p \notin DOMAIN payPlans
        /\ payPlans' =
             [x \in DOMAIN payPlans \cup {p} |-> IF x = p THEN terms ELSE payPlans[x]]
    BY <1>1, <1>5 DEF CreatePlan, Serve
  <2>2. HubTypeOK'
    BY <1>1, <2>1 DEF HubTypeOK
  <2>3. /\ DOMAIN payPlans \subseteq DOMAIN payPlans'
        /\ \A x \in DOMAIN payPlans : payPlans'[x] = payPlans[x]
    BY <2>1
  <2> QED
    BY <2>1, <2>2, <2>3, AsideKeepsHub
<1> QED
  BY <1>2, <1>3, <1>4, <1>5

LEMMA CreditsKeepHub ==
  ASSUME HubInv, NEW i \in DOMAIN Sales, InvoicePaid(i) \/ InvoiceRefunded(i)
  PROVE  HubInv'
<1>1. /\ HubTypeOK /\ today \in Days /\ today \in Int /\ Month(today) \in Nat
      /\ posts \in Seq(Posts) /\ onPlan \in Seq(Assignments) /\ served \in Int
      /\ DOMAIN sites \subseteq Sites /\ credits \subseteq Credits
  BY MonthType DEF HubInv, AdminInv, HubTypeOK
<1>2. CASE InvoicePaid(i)
  <2>1. /\ Sales[i] \in Sites
        /\ UNCHANGED <<today, sites, posts, payPlans, onPlan, admin, overlapped, served>>
    BY <1>1, <1>2 DEF InvoicePaid
  <2>2. PICK k \in OpenPosts(Sales[i]) : \E a \in PlanInForce(posts[k].user, today) :
          credits' = credits \cup
            {[user |-> posts[k].user, site |-> Sales[i], source |-> i,
              kind |-> "paid", amount |-> payPlans[onPlan[a].plan].rate,
              month |-> Month(today), day |-> today]}
    BY <1>2 DEF InvoicePaid
  <2>3. /\ k \in DOMAIN posts /\ posts[k] \in Posts
        /\ posts[k].site = Sales[i] /\ posts[k].to = None
    BY <1>1, <2>2 DEF OpenPosts
  <2>4. posts[k].user \in Staff /\ posts[k].from <= today
    BY <2>3 DEF HubInv, Past, Posts
  <2>5. PICK a \in PlanInForce(posts[k].user, today) :
          credits' = credits \cup
            {[user |-> posts[k].user, site |-> Sales[i], source |-> i,
              kind |-> "paid", amount |-> payPlans[onPlan[a].plan].rate,
              month |-> Month(today), day |-> today]}
    BY <2>2
  <2>6. payPlans[onPlan[a].plan].rate \in Int
    <3>1. a \in DOMAIN onPlan
      BY <2>5 DEF PlanInForce, Covering
    <3>2. payPlans[onPlan[a].plan] \in Terms
      BY <3>1 DEF HubInv, PlansExist, AdminInv, HubTypeOK
    <3> QED
      BY <3>2, HubAssumption DEF HubAssumption, Terms
  <2>7. PICK c \in Credits :
          /\ credits' = credits \cup {c} /\ c.day = today
          /\ c.site = Sales[i] /\ c.user = posts[k].user
    <3>1. \A u \in Staff, b \in Sites, amount \in Int :
            [user |-> u, site |-> b, source |-> i, kind |-> "paid",
             amount |-> amount, month |-> Month(today), day |-> today] \in Credits
      BY <1>1 DEF Credits
    <3>2. PICK c \in Credits :
            c = [user |-> posts[k].user, site |-> Sales[i], source |-> i,
                 kind |-> "paid", amount |-> payPlans[onPlan[a].plan].rate,
                 month |-> Month(today), day |-> today]
      BY <2>1, <2>4, <2>6, <3>1
    <3> QED
      BY <2>5, <3>2
  <2>8. HubTypeOK'
    BY <1>1, <2>1, <2>7 DEF HubTypeOK
  <2>9. \A x \in credits' \ credits : x = c
    BY <2>7
  <2> QED
    BY <1>1, <2>1, <2>3, <2>4, <2>7, <2>8, <2>9, AsideKeepsHub
<1>3. CASE InvoiceRefunded(i)
  <2>1. UNCHANGED <<today, sites, posts, payPlans, onPlan, admin, overlapped, served>>
    BY <1>3 DEF InvoiceRefunded
  <2>2. \A x \in credits' \ credits : \E c \in credits :
          x = [c EXCEPT !.kind = "reversed", !.amount = -c.amount,
                        !.month = Month(today), !.day = today]
    BY <1>3 DEF InvoiceRefunded
  <2>3. ASSUME NEW x \in credits' \ credits
        PROVE  x \in Credits /\ x.day = today /\ x.kind = "reversed"
    <3>1. PICK c \in Credits :
            x = [c EXCEPT !.kind = "reversed", !.amount = -c.amount,
                          !.month = Month(today), !.day = today]
      BY <1>1, <2>2
    <3>2. /\ c.user \in Staff /\ c.site \in Sites /\ c.source \in DOMAIN Sales
          /\ c.amount \in Int
          /\ x = [user |-> c.user, site |-> c.site, source |-> c.source,
                  kind |-> "reversed", amount |-> -c.amount,
                  month |-> Month(today), day |-> today]
      BY <3>1 DEF Credits
    <3>3. \A a \in Int : -a \in Int
      OBVIOUS
    <3> QED
      BY <1>1, <3>2, <3>3 DEF Credits
  <2>4. credits' \subseteq Credits
    BY <1>1, <2>3
  <2>5. HubTypeOK'
    BY <1>1, <2>1, <2>4 DEF HubTypeOK
  <2> QED
    BY <1>1, <2>1, <2>3, <2>5, AsideKeepsHub
<1> QED
  BY <1>2, <1>3

LEMMA PatchKeepsHub ==
  ASSUME HubInv, NEW r \in Requests, PatchPlanWrite(r)
  PROVE  HubInv' /\ EditsOneField
<1>1. PICK g \in AdminStates : g = admin[r] /\ AdminFits(g)
  <2>1. admin[r] \in AdminStates
    BY DEF HubInv, AdminInv, HubTypeOK
  <2>2. AdminFits(admin[r])
    BY DEF HubInv, AdminInv
  <2> QED
    BY <2>1, <2>2
<1>2. /\ g.step = "patching" /\ g # Idle
      /\ g.row \in PayPlans /\ g.read \in Terms /\ g.field \in {"base", "rate"}
      /\ g.row \in DOMAIN payPlans
      /\ g.row \in overlapped \/ g.read = payPlans[g.row]
  <2>1. g.step = "patching"
    BY <1>1 DEF PatchPlanWrite
  <2> QED
    BY <1>1, <2>1, AdminShapes DEF AdminFits, PatchFits
<1>3. /\ Ends(r)
      /\ UNCHANGED <<today, sites, posts, onPlan, credits, overlapped>>
  BY <1>1, <1>2 DEF PatchPlanWrite, Ends
<1>4. PICK value \in IF g.field = "base" THEN Bases ELSE Rates :
        payPlans' = [payPlans EXCEPT ![g.row] = [g.read EXCEPT ![g.field] = value]]
  BY <1>1 DEF PatchPlanWrite
<1>5. PICK t \in Terms :
        /\ payPlans' = [payPlans EXCEPT ![g.row] = t]
        /\ t.base = g.read.base \/ t.rate = g.read.rate
  <2>1. CASE g.field = "base"
    <3>1. /\ [g.read EXCEPT !.base = value] \in Terms
          /\ [g.read EXCEPT !.base = value].rate = g.read.rate
      BY <1>2, <1>4, <2>1 DEF Terms
    <3> QED
      BY <1>4, <2>1, <3>1
  <2>2. CASE g.field = "rate"
    <3>1. /\ [g.read EXCEPT !.rate = value] \in Terms
          /\ [g.read EXCEPT !.rate = value].base = g.read.base
      BY <1>2, <1>4, <2>2 DEF Terms
    <3> QED
      BY <1>4, <2>2, <3>1
  <2> QED
    BY <1>2, <2>1, <2>2
<1>6. /\ DOMAIN payPlans' = DOMAIN payPlans
      /\ \A p \in DOMAIN payPlans :
           payPlans'[p] = IF p = g.row THEN t ELSE payPlans[p]
  BY <1>5
<1>7. EditsOneField
  BY <1>2, <1>5, <1>6 DEF EditsOneField
<1>8. /\ admin' \in [Requests -> AdminStates] /\ served' \in 0..MaxRequests
      /\ AdminsMixed' /\ IsFiniteSet(InFlight') /\ Cardinality(InFlight') \in Nat
      /\ Len(posts) + Len(onPlan) + Cardinality(InFlight') + 1 <= served'
      /\ \A q \in Requests : admin'[q] = IF q = r THEN Idle ELSE admin[q]
  BY <1>3, OneEnds DEF HubInv
<1>9. HubTypeOK'
  BY <1>3, <1>5, <1>6, <1>8 DEF HubInv, AdminInv, HubTypeOK
<1>10. Asked'
  BY <1>3, <1>8, <1>9 DEF Asked, HubTypeOK
<1>11. ASSUME NEW q \in Requests PROVE AdminFits(admin[q])'
  <2>1. CASE q = r
    BY <1>8, <2>1 DEF AdminFits, AppointFits, AssignFits, PatchFits, Idle
  <2>2. CASE q # r
    <3>1. PICK h \in AdminStates : h = admin[q] /\ AdminFits(h)
      BY DEF HubInv, AdminInv, HubTypeOK
    <3>2. h.step = "patching" => h.row # g.row \/ h.row \in overlapped
      BY <1>1, <1>2, <2>2, <3>1, AdminShapes DEF HubInv, AdminInv, AdminsMixed
    <3>3. AdminFits(h)'
      BY <1>3, <1>6, <3>1, <3>2
         DEF AdminFits, AppointFits, AssignFits, PatchFits, OpenPosts, OpenPlans
    <3> QED
      BY <1>8, <2>2, <3>1, <3>3 DEF AdminFits, AppointFits, AssignFits, PatchFits
  <2> QED
    BY <2>1, <2>2
<1>12. Past' /\ PlansExist' /\ Chained' /\ CreditIsEarned'
  BY <1>3, <1>6 DEF HubInv, Past, PlansExist, Chained, CreditIsEarned
<1>13. \A b \in Sites : Succeeded(b)'
  BY <1>3 DEF HubInv, Succeeded
<1>14. \A u \in Staff \ overlapped' : OpenAlone(u)'
  BY <1>3 DEF HubInv, OpenAlone, OpenPlans
<1> QED
  BY <1>7, <1>8, <1>9, <1>10, <1>11, <1>12, <1>13, <1>14 DEF HubInv, AdminInv

(* What a commit leaves: the rows it names are ended if they are open, and  *)
(* its own comes last.                                                      *)
LEMMA EndedPosts ==
  ASSUME NEW rows \in Seq(Posts), NEW ks, NEW day \in Days, NEW row \in Posts
  PROVE  /\ Append(Ended(rows, ks, day), row) \in Seq(Posts)
         /\ Len(Append(Ended(rows, ks, day), row)) = Len(rows) + 1
         /\ DOMAIN Append(Ended(rows, ks, day), row) = DOMAIN rows \cup {Len(rows) + 1}
         /\ Len(rows) \in Nat /\ DOMAIN rows = 1..Len(rows)
         /\ Append(Ended(rows, ks, day), row)[Len(rows) + 1] = row
         /\ \A k \in DOMAIN rows :
              /\ Append(Ended(rows, ks, day), row)[k].site = rows[k].site
              /\ Append(Ended(rows, ks, day), row)[k].user = rows[k].user
              /\ Append(Ended(rows, ks, day), row)[k].from = rows[k].from
              /\ Append(Ended(rows, ks, day), row)[k].to =
                   IF k \in ks /\ rows[k].to = None THEN day ELSE rows[k].to
<1>1. \A k \in DOMAIN rows : rows[k] \in Posts
  OBVIOUS
<1>2. \A p \in Posts : /\ [p EXCEPT !.to = day] \in Posts
                       /\ [p EXCEPT !.to = day].site = p.site
                       /\ [p EXCEPT !.to = day].user = p.user
                       /\ [p EXCEPT !.to = day].from = p.from
                       /\ [p EXCEPT !.to = day].to = day
  BY DEF Posts
<1>3. PICK ended : ended = Ended(rows, ks, day)
  OBVIOUS
<1>4. /\ DOMAIN rows = 1..Len(rows) /\ Len(rows) \in Nat
      /\ ended \in [1..Len(rows) -> Posts]
      /\ \A k \in DOMAIN rows :
           /\ ended[k].site = rows[k].site /\ ended[k].user = rows[k].user
           /\ ended[k].from = rows[k].from
           /\ ended[k].to = IF k \in ks /\ rows[k].to = None THEN day ELSE rows[k].to
  BY <1>1, <1>2, <1>3 DEF Ended
<1>5. ended \in Seq(Posts) /\ Len(ended) = Len(rows)
  BY <1>4
<1>6. /\ Append(ended, row) \in Seq(Posts)
      /\ Len(Append(ended, row)) = Len(rows) + 1
      /\ DOMAIN Append(ended, row) = DOMAIN rows \cup {Len(rows) + 1}
      /\ Append(ended, row)[Len(rows) + 1] = row
      /\ \A k \in DOMAIN rows : Append(ended, row)[k] = ended[k]
  BY <1>4, <1>5, AppendRow
<1> QED
  BY <1>3, <1>4, <1>6

LEMMA EndedPlans ==
  ASSUME NEW rows \in Seq(Assignments), NEW ks, NEW day \in Days,
         NEW row \in Assignments
  PROVE  /\ Append(Ended(rows, ks, day), row) \in Seq(Assignments)
         /\ Len(Append(Ended(rows, ks, day), row)) = Len(rows) + 1
         /\ DOMAIN Append(Ended(rows, ks, day), row) = DOMAIN rows \cup {Len(rows) + 1}
         /\ Len(rows) \in Nat /\ DOMAIN rows = 1..Len(rows)
         /\ Append(Ended(rows, ks, day), row)[Len(rows) + 1] = row
         /\ \A k \in DOMAIN rows :
              /\ Append(Ended(rows, ks, day), row)[k].user = rows[k].user
              /\ Append(Ended(rows, ks, day), row)[k].plan = rows[k].plan
              /\ Append(Ended(rows, ks, day), row)[k].from = rows[k].from
              /\ Append(Ended(rows, ks, day), row)[k].until = rows[k].until
              /\ Append(Ended(rows, ks, day), row)[k].to =
                   IF k \in ks /\ rows[k].to = None THEN day ELSE rows[k].to
<1>1. \A k \in DOMAIN rows : rows[k] \in Assignments
  OBVIOUS
<1>2. \A p \in Assignments : /\ [p EXCEPT !.to = day] \in Assignments
                             /\ [p EXCEPT !.to = day].user = p.user
                             /\ [p EXCEPT !.to = day].plan = p.plan
                             /\ [p EXCEPT !.to = day].from = p.from
                             /\ [p EXCEPT !.to = day].until = p.until
                             /\ [p EXCEPT !.to = day].to = day
  BY DEF Assignments
<1>3. PICK ended : ended = Ended(rows, ks, day)
  OBVIOUS
<1>4. /\ DOMAIN rows = 1..Len(rows) /\ Len(rows) \in Nat
      /\ ended \in [1..Len(rows) -> Assignments]
      /\ \A k \in DOMAIN rows :
           /\ ended[k].user = rows[k].user /\ ended[k].plan = rows[k].plan
           /\ ended[k].from = rows[k].from /\ ended[k].until = rows[k].until
           /\ ended[k].to = IF k \in ks /\ rows[k].to = None THEN day ELSE rows[k].to
  BY <1>1, <1>2, <1>3 DEF Ended
<1>5. ended \in Seq(Assignments) /\ Len(ended) = Len(rows)
  BY <1>4
<1>6. /\ Append(ended, row) \in Seq(Assignments)
      /\ Len(Append(ended, row)) = Len(rows) + 1
      /\ DOMAIN Append(ended, row) = DOMAIN rows \cup {Len(rows) + 1}
      /\ Append(ended, row)[Len(rows) + 1] = row
      /\ \A k \in DOMAIN rows : Append(ended, row)[k] = ended[k]
  BY <1>4, <1>5, AppendRow
<1> QED
  BY <1>3, <1>4, <1>6

(* An appointment ends the post it read open and begins its own the same    *)
(* day; the posts of other branches stay.                                   *)
LEMMA AppointKeepsHub ==
  ASSUME HubInv, NEW r \in Requests, AppointCommit(r)
  PROVE  HubInv'
<1>1. PICK g \in AdminStates : g = admin[r] /\ AdminFits(g)
  <2>1. admin[r] \in AdminStates
    BY DEF HubInv, AdminInv, HubTypeOK
  <2>2. AdminFits(admin[r])
    BY DEF HubInv, AdminInv
  <2> QED
    BY <2>1, <2>2
<1>2. /\ g.step = "appointing" /\ g # Idle /\ g.row \in Sites /\ g.user \in Staff
      /\ g.open \subseteq {k \in DOMAIN posts : posts[k].site = g.row}
      /\ OpenPosts(g.row) \subseteq g.open
  <2>1. g.step = "appointing" /\ OpenPosts(g.row) \subseteq g.open
    BY <1>1 DEF AppointCommit
  <2> QED
    BY <1>1, <2>1, AdminShapes DEF AdminFits, AppointFits
<1>3. /\ Ends(r)
      /\ UNCHANGED <<today, sites, payPlans, onPlan, credits, overlapped>>
  BY <1>1, <1>2 DEF AppointCommit, Ends
<1>4. /\ today \in Days /\ today \in Int /\ None \notin Days
      /\ posts \in Seq(Posts) /\ onPlan \in Seq(Assignments)
  BY MonthType, HubAssumption DEF HubInv, AdminInv, HubTypeOK, HubAssumption
<1>5. PICK row \in Posts : /\ posts' = Append(Ended(posts, g.open, today), row)
                           /\ row.site = g.row /\ row.user = g.user
                           /\ row.from = today /\ row.to = None
  <2>1. PICK row : row = [site |-> g.row, user |-> g.user, from |-> today, to |-> None]
    OBVIOUS
  <2>2. row \in Posts /\ row.site = g.row /\ row.user = g.user
        /\ row.from = today /\ row.to = None
    BY <1>2, <1>4, <2>1 DEF Posts
  <2>3. posts' = Append(Ended(posts, g.open, today), row)
    BY <1>1, <2>1 DEF AppointCommit
  <2> QED
    BY <2>2, <2>3
<1>6. /\ posts' \in Seq(Posts) /\ Len(posts') = Len(posts) + 1
      /\ DOMAIN posts' = DOMAIN posts \cup {Len(posts) + 1}
      /\ Len(posts) \in Nat /\ DOMAIN posts = 1..Len(posts)
      /\ posts'[Len(posts) + 1] = row
      /\ \A k \in DOMAIN posts :
           /\ posts'[k].site = posts[k].site /\ posts'[k].user = posts[k].user
           /\ posts'[k].from = posts[k].from
           /\ posts'[k].to =
                IF k \in g.open /\ posts[k].to = None THEN today ELSE posts[k].to
  BY <1>4, <1>5, EndedPosts
<1>7. /\ admin' \in [Requests -> AdminStates] /\ served' \in 0..MaxRequests
      /\ AdminsMixed' /\ IsFiniteSet(InFlight') /\ Cardinality(InFlight') \in Nat
      /\ Len(posts) + Len(onPlan) + Cardinality(InFlight') + 1 <= served'
      /\ \A q \in Requests : admin'[q] = IF q = r THEN Idle ELSE admin[q]
  BY <1>3, OneEnds DEF HubInv
<1>8. HubTypeOK'
  BY <1>3, <1>6, <1>7 DEF HubInv, AdminInv, HubTypeOK
<1>9. Asked'
  <2>1. Len(onPlan) \in Nat /\ onPlan' = onPlan
    BY <1>3, <1>4
  <2> QED
    BY <1>6, <1>7, <1>8, <2>1 DEF Asked, HubTypeOK
<1>10. ASSUME NEW b, b # g.row PROVE OpenPosts(b)' = OpenPosts(b)
  BY <1>2, <1>5, <1>6, <1>10 DEF OpenPosts
<1>11. ASSUME NEW q \in Requests PROVE AdminFits(admin[q])'
  <2>1. CASE q = r
    BY <1>7, <2>1 DEF AdminFits, AppointFits, AssignFits, PatchFits, Idle
  <2>2. CASE q # r
    <3>1. PICK h \in AdminStates : h = admin[q] /\ AdminFits(h)
      BY DEF HubInv, AdminInv, HubTypeOK
    <3>2. h.step = "appointing" => h.row # g.row \/ h.row \in overlapped
      BY <1>1, <1>2, <2>2, <3>1, AdminShapes DEF HubInv, AdminInv, AdminsMixed
    <3>3. AppointFits(h)'
      BY <1>3, <1>6, <1>10, <3>1, <3>2 DEF AdminFits, AppointFits
    <3>4. AssignFits(h)' /\ PatchFits(h)'
      BY <1>3, <3>1 DEF AdminFits, AssignFits, PatchFits, OpenPlans
    <3> QED
      BY <1>7, <2>2, <3>1, <3>3, <3>4 DEF AdminFits, AppointFits, AssignFits, PatchFits
  <2> QED
    BY <2>1, <2>2
<1>12. Past'
  <2>1. \A k \in DOMAIN posts : posts'[k].from <= today
    BY <1>6 DEF HubInv, Past
  <2>2. posts'[Len(posts) + 1].from <= today
    BY <1>4, <1>5, <1>6
  <2>3. \A k \in DOMAIN posts' : posts'[k].from <= today'
    BY <1>3, <1>6, <2>1, <2>2
  <2>4. \A c \in credits' : c.day <= today'
    BY <1>3 DEF HubInv, Past
  <2> QED
    BY <2>3, <2>4 DEF Past
<1>13. PlansExist' /\ Chained'
  BY <1>3 DEF HubInv, PlansExist, Chained
<1>14. CreditIsEarned'
  <2>1. ASSUME NEW c \in credits, c.kind = "paid"
        PROVE  \E k \in DOMAIN posts' :
                 /\ posts'[k].site = c.site /\ posts'[k].user = c.user
                 /\ posts'[k].from <= c.day
                 /\ posts'[k].to = None \/ c.day <= posts'[k].to
    <3>1. PICK k \in DOMAIN posts :
            /\ posts[k].site = c.site /\ posts[k].user = c.user
            /\ posts[k].from <= c.day /\ (posts[k].to = None \/ c.day <= posts[k].to)
      BY <2>1 DEF HubInv, CreditIsEarned
    <3>2. c.day <= today
      BY DEF HubInv, Past
    <3> QED
      BY <1>6, <3>1, <3>2
  <2> QED
    BY <1>3, <2>1 DEF CreditIsEarned
<1>15. ASSUME NEW b \in Sites PROVE Succeeded(b)'
  <2>1. Succeeded(b)
    BY DEF HubInv
  <2>2. CASE b # g.row
    <3>1. \A k \in DOMAIN posts' :
            posts'[k].site = b <=> k \in DOMAIN posts /\ posts[k].site = b
      BY <1>5, <1>6, <2>2
    <3>2. \A k \in DOMAIN posts : posts[k].site = b =>
            posts'[k].to = posts[k].to /\ posts'[k].from = posts[k].from
      BY <1>2, <1>6, <2>2
    <3> QED
      BY <1>6, <2>1, <3>1, <3>2 DEF Succeeded
  <2>3. CASE b = g.row
    <3>1. OpenPosts(b) \subseteq g.open
      BY <1>2, <2>3
    <3>2. ASSUME NEW k \in DOMAIN posts', posts'[k].site = b
          PROVE  \/ /\ posts'[k].to = None
                    /\ \A n \in DOMAIN posts' : posts'[n].site = b => n <= k
                 \/ \E n \in DOMAIN posts' :
                      /\ posts'[n].site = b /\ k < n /\ posts'[k].to = posts'[n].from
                      /\ \A x \in DOMAIN posts' : posts'[x].site = b /\ k < x => n <= x
      <4>1. CASE k = Len(posts) + 1
        BY <1>5, <1>6, <4>1
      <4>2. CASE k \in DOMAIN posts /\ posts[k].to = None
        <5>1. k \in g.open
          BY <1>6, <3>1, <3>2, <4>2 DEF OpenPosts
        <5>2. posts'[k].to = today
          BY <1>6, <4>2, <5>1
        <5>3. \A n \in DOMAIN posts : posts[n].site = b => n <= k
          <6>1. \A n \in DOMAIN posts : posts[n].from # None
            <7>1. \A n \in DOMAIN posts : posts[n] \in Posts
              BY <1>4
            <7> QED
              BY <1>4, <7>1 DEF Posts
          <6> QED
            BY <1>6, <2>1, <3>2, <4>2, <6>1 DEF Succeeded
        <5>4. \A x \in DOMAIN posts' : posts'[x].site = b /\ k < x =>
                x = Len(posts) + 1
          BY <1>6, <4>2, <5>3
        <5> QED
          BY <1>5, <1>6, <2>3, <4>2, <5>2, <5>4
      <4>3. CASE k \in DOMAIN posts /\ posts[k].to # None
        <5>1. PICK n \in DOMAIN posts :
                /\ posts[n].site = b /\ k < n /\ posts[k].to = posts[n].from
                /\ \A x \in DOMAIN posts : posts[x].site = b /\ k < x => n <= x
          BY <1>6, <2>1, <3>2, <4>3 DEF Succeeded
        <5>2. posts'[k].to = posts'[n].from /\ posts'[n].site = b
          BY <1>6, <4>3, <5>1
        <5>3. \A x \in DOMAIN posts' : posts'[x].site = b /\ k < x => n <= x
          BY <1>6, <5>1
        <5> QED
          BY <1>6, <5>1, <5>2, <5>3
      <4> QED
        BY <1>6, <4>1, <4>2, <4>3
    <3> QED
      BY <3>2 DEF Succeeded
  <2> QED
    BY <2>2, <2>3
<1>16. \A u \in Staff \ overlapped' : OpenAlone(u)'
  BY <1>3 DEF HubInv, OpenAlone, OpenPlans
<1> QED
  BY <1>7, <1>8, <1>9, <1>11, <1>12, <1>13, <1>14, <1>15, <1>16 DEF HubInv, AdminInv

(* An assignment ends the ones it read open on the day it begins, which is  *)
(* how those it ends are followed by it.                                    *)
LEMMA AssignKeepsHub ==
  ASSUME HubInv, NEW r \in Requests, AssignCommit(r)
  PROVE  HubInv'
<1>1. PICK g \in AdminStates : g = admin[r] /\ AdminFits(g)
  <2>1. admin[r] \in AdminStates
    BY DEF HubInv, AdminInv, HubTypeOK
  <2>2. AdminFits(admin[r])
    BY DEF HubInv, AdminInv
  <2> QED
    BY <2>1, <2>2
<1>2. /\ g.step = "assigning" /\ g # Idle
      /\ g.row \in Staff /\ g.plan \in PayPlans /\ g.from \in Days
      /\ g.plan \in DOMAIN payPlans
      /\ g.open \subseteq {k \in DOMAIN onPlan : onPlan[k].user = g.row}
      /\ g.row \in overlapped \/ g.open = OpenPlans(g.row)
      /\ \A k \in g.open : onPlan[k].to = None => onPlan[k].from <= g.from
  <2>1. /\ g.step = "assigning"
        /\ \A k \in g.open : onPlan[k].to = None => onPlan[k].from <= g.from
    BY <1>1 DEF AssignCommit
  <2> QED
    BY <1>1, <2>1, AdminShapes DEF AdminFits, AssignFits
<1>3. /\ Ends(r)
      /\ UNCHANGED <<today, sites, posts, payPlans, credits, overlapped>>
  BY <1>1, <1>2 DEF AssignCommit, Ends
<1>4. /\ None \notin Days /\ posts \in Seq(Posts) /\ onPlan \in Seq(Assignments)
      /\ LastDay \in Nat /\ \A d \in Days : d \in Int
  BY MonthType, HubAssumption DEF HubInv, AdminInv, HubTypeOK, HubAssumption
<1>5. PICK row \in Assignments :
        /\ onPlan' = Append(Ended(onPlan, g.open, g.from), row)
        /\ row.user = g.row /\ row.plan = g.plan
        /\ row.from = g.from /\ row.to = row.until
        /\ row.until # None => g.from <= row.until
  <2>1. PICK until \in {None} \cup {day \in EndDays : g.from <= day} :
          onPlan' = Append(Ended(onPlan, g.open, g.from),
            [user |-> g.row, plan |-> g.plan, from |-> g.from, to |-> until,
             until |-> until])
    <3>1. g = admin[r]
      BY <1>1
    <3> QED
      BY <3>1 DEF AssignCommit
  <2>2. PICK row : row = [user |-> g.row, plan |-> g.plan, from |-> g.from,
                          to |-> until, until |-> until]
    OBVIOUS
  <2>3. until \in Days \cup {None} /\ (until # None => g.from <= until)
    <3>1. CASE until = None
      BY <3>1
    <3>2. CASE until \in {day \in EndDays : g.from <= day}
      <4>1. EndDays \subseteq Days
        BY HubAssumption DEF HubAssumption
      <4> QED
        BY <3>2, <4>1
    <3> QED
      BY <2>1, <3>1, <3>2
  <2>4. /\ row \in Assignments /\ row.user = g.row /\ row.plan = g.plan
        /\ row.from = g.from /\ row.to = until /\ row.until = until
    BY <1>2, <2>2, <2>3 DEF Assignments
  <2>5. onPlan' = Append(Ended(onPlan, g.open, g.from), row)
    BY <2>1, <2>2
  <2> QED
    BY <2>3, <2>4, <2>5
<1>6. /\ onPlan' \in Seq(Assignments) /\ Len(onPlan') = Len(onPlan) + 1
      /\ DOMAIN onPlan' = DOMAIN onPlan \cup {Len(onPlan) + 1}
      /\ Len(onPlan) \in Nat /\ DOMAIN onPlan = 1..Len(onPlan)
      /\ onPlan'[Len(onPlan) + 1] = row
      /\ \A k \in DOMAIN onPlan :
           /\ onPlan'[k].user = onPlan[k].user /\ onPlan'[k].plan = onPlan[k].plan
           /\ onPlan'[k].from = onPlan[k].from
           /\ onPlan'[k].until = onPlan[k].until
           /\ onPlan'[k].to =
                IF k \in g.open /\ onPlan[k].to = None THEN g.from ELSE onPlan[k].to
  BY <1>2, <1>4, <1>5, EndedPlans
<1>7. /\ admin' \in [Requests -> AdminStates] /\ served' \in 0..MaxRequests
      /\ AdminsMixed' /\ IsFiniteSet(InFlight') /\ Cardinality(InFlight') \in Nat
      /\ Len(posts) + Len(onPlan) + Cardinality(InFlight') + 1 <= served'
      /\ \A q \in Requests : admin'[q] = IF q = r THEN Idle ELSE admin[q]
  BY <1>3, OneEnds DEF HubInv
<1>8. HubTypeOK'
  BY <1>3, <1>6, <1>7 DEF HubInv, AdminInv, HubTypeOK
<1>9. Asked'
  <2>1. Len(posts) \in Nat /\ posts' = posts
    BY <1>3, <1>4
  <2> QED
    BY <1>6, <1>7, <1>8, <2>1 DEF Asked, HubTypeOK
<1>10. ASSUME NEW u, u # g.row PROVE OpenPlans(u)' = OpenPlans(u)
  BY <1>2, <1>5, <1>6, <1>10 DEF OpenPlans
<1>11. ASSUME NEW q \in Requests PROVE AdminFits(admin[q])'
  <2>1. CASE q = r
    BY <1>7, <2>1 DEF AdminFits, AppointFits, AssignFits, PatchFits, Idle
  <2>2. CASE q # r
    <3>1. PICK h \in AdminStates : h = admin[q] /\ AdminFits(h)
      BY DEF HubInv, AdminInv, HubTypeOK
    <3>2. h.step = "assigning" => h.row # g.row \/ h.row \in overlapped
      BY <1>1, <1>2, <2>2, <3>1, AdminShapes DEF HubInv, AdminInv, AdminsMixed
    <3>3. AssignFits(h)'
      BY <1>3, <1>6, <1>10, <3>1, <3>2 DEF AdminFits, AssignFits
    <3>4. AppointFits(h)' /\ PatchFits(h)'
      BY <1>3, <3>1 DEF AdminFits, AppointFits, PatchFits, OpenPosts
    <3> QED
      BY <1>7, <2>2, <3>1, <3>3, <3>4 DEF AdminFits, AppointFits, AssignFits, PatchFits
  <2> QED
    BY <2>1, <2>2
<1>12. Past'
  BY <1>3 DEF HubInv, Past
<1>13. PlansExist'
  BY <1>2, <1>3, <1>5, <1>6 DEF HubInv, PlansExist
<1>14. CreditIsEarned'
  BY <1>3 DEF HubInv, CreditIsEarned
<1>15. Chained'
  <2> DEFINE Links(k) ==
        /\ onPlan[k].until # None =>
             onPlan[k].to = onPlan[k].until /\ onPlan[k].from <= onPlan[k].until
        /\ onPlan[k].until = None =>
             \/ onPlan[k].to = None
             \/ /\ onPlan[k].from <= onPlan[k].to
                /\ \E n \in DOMAIN onPlan :
                     /\ k < n /\ onPlan[n].user = onPlan[k].user
                     /\ onPlan[n].from = onPlan[k].to
  <2>1. ASSUME NEW k \in DOMAIN onPlan', k = Len(onPlan) + 1 PROVE Links(k)'
    BY <1>5, <1>6, <2>1
  <2>2. ASSUME NEW k \in DOMAIN onPlan PROVE Links(k)'
    <3>1. Links(k) /\ k \in Nat /\ k < Len(onPlan) + 1
      BY <1>6 DEF HubInv, Chained
    <3>2. onPlan[k] \in Assignments
      BY <1>4
    <3>3. onPlan[k].from \in Int /\ onPlan[k].to \in Days \cup {None}
      BY <1>4, <3>2 DEF Assignments
    <3>4. CASE k \in g.open /\ onPlan[k].to = None
      <4>1. onPlan[k].user = g.row /\ onPlan[k].from <= g.from
        BY <1>2, <3>4
      <4>2. onPlan'[k].to = g.from
        BY <1>6, <3>4
      <4>3. onPlan[k].until = None
        BY <3>1, <3>4
      <4>4. /\ Len(onPlan) + 1 \in DOMAIN onPlan' /\ k < Len(onPlan) + 1
            /\ onPlan'[Len(onPlan) + 1].user = onPlan'[k].user
            /\ onPlan'[Len(onPlan) + 1].from = onPlan'[k].to
        BY <1>5, <1>6, <3>1, <4>1, <4>2
      <4> QED
        BY <1>6, <4>1, <4>2, <4>3, <4>4
    <3>5. CASE ~(k \in g.open /\ onPlan[k].to = None)
      <4>1. onPlan'[k].to = onPlan[k].to
        BY <1>6, <3>5
      <4>2. ASSUME NEW n \in DOMAIN onPlan, onPlan[n].user = onPlan[k].user,
                   onPlan[n].from = onPlan[k].to
            PROVE  /\ n \in DOMAIN onPlan' /\ onPlan'[n].user = onPlan'[k].user
                   /\ onPlan'[n].from = onPlan'[k].to
        BY <1>6, <4>1, <4>2
      <4> QED
        BY <1>6, <3>1, <4>1, <4>2
    <3> QED
      BY <3>4, <3>5
  <2>3. \A k \in DOMAIN onPlan' : Links(k)'
    BY <1>6, <2>1, <2>2
  <2> QED
    BY <2>3 DEF Chained
<1>16. \A b \in Sites : Succeeded(b)'
  BY <1>3 DEF HubInv, Succeeded
<1>17. ASSUME NEW u \in Staff \ overlapped' PROVE OpenAlone(u)'
  <2>1. CASE u # g.row
    BY <1>3, <1>10, <1>17, <2>1 DEF HubInv, OpenAlone
  <2>2. CASE u = g.row
    <3>1. g.open = OpenPlans(u)
      BY <1>2, <1>3, <1>17, <2>2
    <3>2. \A k \in DOMAIN onPlan : onPlan[k].user = u => onPlan'[k].to # None
      BY <1>2, <1>4, <1>6, <3>1 DEF OpenPlans
    <3>3. \A k \in OpenPlans(u)' : k = Len(onPlan) + 1
      BY <1>6, <3>2 DEF OpenPlans
    <3> QED
      BY <3>3 DEF OpenAlone
  <2> QED
    BY <2>1, <2>2
<1> QED
  BY <1>7, <1>8, <1>9, <1>11, <1>12, <1>13, <1>14, <1>15, <1>16, <1>17
     DEF HubInv, AdminInv

LEMMA HubStepInv == HubInv /\ [HubNext]_hubVars => HubInv'
<1>1. ASSUME HubInv, HubNext PROVE HubInv'
  <2>1. ASSUME NEW r \in Requests,
               \/ \E b \in DOMAIN sites, u \in Staff : AppointRead(r, b, u)
               \/ \E p \in DOMAIN payPlans, field \in {"base", "rate"} :
                    PatchPlanRead(r, p, field)
               \/ \E u \in Staff, p \in DOMAIN payPlans, from \in Days :
                    AssignRead(r, u, p, from)
        PROVE  HubInv'
    BY <1>1, <2>1, ReadKeepsHub
  <2>2. ASSUME NEW r \in Requests,
               \/ AppointCommit(r)
               \/ PatchPlanWrite(r)
               \/ AssignCommit(r)
               \/ AdminStops(r)
        PROVE  HubInv'
    BY <1>1, <2>2, AppointKeepsHub, PatchKeepsHub, AssignKeepsHub, StopKeepsHub
  <2> QED
    BY <1>1, <2>1, <2>2, DaysAndBranchesKeep, CreditsKeepHub DEF HubNext
<1>2. HubInv /\ UNCHANGED hubVars => HubInv'
  BY DEF hubVars, HubInv, AdminInv, HubTypeOK, AdminsMixed, Asked, InFlight,
     AdminFits, AppointFits, AssignFits, PatchFits, OpenPosts, OpenPlans, Past,
     PlansExist, Succeeded, Chained, OpenAlone, CreditIsEarned
<1> QED
  BY <1>1, <1>2

(* A nonempty set of numbers below a bound has a greatest. *)
LEMMA Greatest ==
  ASSUME NEW n \in Nat, NEW M, M \subseteq 1..n, M # {}
  PROVE  \E k \in M : \A m \in M : m <= k
<1>1. PICK S : S = 1..n
  OBVIOUS
<1>2. PICK D : D = {k..n : k \in M}
  OBVIOUS
<1>3. D \subseteq SUBSET S /\ D # {} /\ IsFiniteSet(S)
  <2>1. \A k \in M : k..n \subseteq S
    BY <1>1
  <2>2. IsFiniteSet(S)
    BY <1>1, FS_Interval
  <2> QED
    BY <1>2, <2>1, <2>2
<1>4. PICK s \in D : \A t \in D : t \subseteq s => t = s
  BY ONLY <1>3, SmallestSubset
<1>5. PICK k \in M : s = k..n
  BY <1>2
<1>6. ASSUME NEW m \in M, ~(m <= k) PROVE FALSE
  <2>1. k \in 1..n /\ m \in 1..n /\ k < m
    BY <1>6
  <2>2. m..n \subseteq k..n /\ k \in k..n /\ k \notin m..n /\ m..n \in D
    BY <1>2, <2>1
  <2> QED
    BY <1>4, <1>5, <2>2
<1> QED
  BY <1>6

(* The last assignment to begin by an uncovered day, the newest if several, *)
(* ended as it was told to: one that gave way was followed by another.      *)
LEMMA NoGap ==
  ASSUME HubInv, NEW k \in DOMAIN onPlan, NEW day \in onPlan[k].from..LastDay,
         NEW u, u = onPlan[k].user
  PROVE  \/ Covering(u, day) # {}
         \/ \E n \in DOMAIN onPlan :
              /\ onPlan[n].user = u /\ onPlan[n].until # None
              /\ onPlan[n].until < day
              /\ \A m \in DOMAIN onPlan :
                   onPlan[m].user = u /\ onPlan[m].from <= day =>
                     onPlan[m].from <= onPlan[n].until
<1> SUFFICES ASSUME Covering(u, day) = {}
             PROVE  \E n \in DOMAIN onPlan :
                      /\ onPlan[n].user = u /\ onPlan[n].until # None
                      /\ onPlan[n].until < day
                      /\ \A m \in DOMAIN onPlan :
                           onPlan[m].user = u /\ onPlan[m].from <= day =>
                             onPlan[m].from <= onPlan[n].until
  OBVIOUS
<1>1. /\ onPlan \in Seq(Assignments) /\ DOMAIN onPlan = 1..Len(onPlan)
      /\ Len(onPlan) \in Nat /\ LastDay \in Nat /\ None \notin Days
  BY HubAssumption DEF HubInv, AdminInv, HubTypeOK, HubAssumption
<1>2. \A n \in DOMAIN onPlan :
        /\ onPlan[n].from \in 0..LastDay
        /\ onPlan[n].to # None => onPlan[n].to \in 0..LastDay
        /\ onPlan[n].until # None => onPlan[n].until \in 0..LastDay
  <2>1. \A n \in DOMAIN onPlan : onPlan[n] \in Assignments
    BY <1>1
  <2> QED
    BY <2>1 DEF Assignments, Days
<1>3. day \in 0..LastDay /\ onPlan[k].from <= day
  BY <1>1, <1>2
<1>4. PICK B : B = {n \in DOMAIN onPlan : onPlan[n].user = u /\ onPlan[n].from <= day}
  OBVIOUS
<1>5. k \in B
  BY <1>3, <1>4
<1>6. PICK first \in 0..LastDay :
        /\ \E n \in B : onPlan[n].from = first
        /\ \A n \in B : onPlan[n].from <= first
  <2>1. PICK M : M = {onPlan[n].from + 1 : n \in B}
    OBVIOUS
  <2>2. LastDay + 1 \in Nat /\ M # {} /\ M \subseteq 1..(LastDay + 1)
    <3>1. \A n \in B : onPlan[n].from \in 0..LastDay
      BY <1>2, <1>4
    <3>2. onPlan[k].from + 1 \in M
      BY <1>5, <2>1
    <3>3. ASSUME NEW m \in M PROVE m \in 1..(LastDay + 1)
      <4>1. PICK n \in B : m = onPlan[n].from + 1
        BY <2>1
      <4>2. onPlan[n].from \in 0..LastDay
        BY <3>1
      <4> QED
        BY <1>1, <4>1, <4>2
    <3> QED
      BY <1>1, <3>2, <3>3
  <2>3. PICK x \in M : \A m \in M : m <= x
    BY <2>2, Greatest
  <2>4. PICK n \in B : x = onPlan[n].from + 1
    BY <2>1
  <2>5. \A m \in B : onPlan[m].from + 1 <= onPlan[n].from + 1
    BY <2>1, <2>3, <2>4
  <2> QED
    BY <1>2, <1>4, <2>4, <2>5
<1>7. PICK n \in B : /\ onPlan[n].from = first
                     /\ \A m \in B : onPlan[m].from = first => m <= n
  <2>1. PICK M : M = {m \in B : onPlan[m].from = first}
    OBVIOUS
  <2>2. M # {} /\ M \subseteq 1..Len(onPlan)
    BY <1>1, <1>4, <1>6, <2>1
  <2>3. PICK x \in M : \A m \in M : m <= x
    BY <1>1, <2>2, Greatest
  <2> QED
    BY <2>1, <2>3
<1>8. onPlan[n].to # None /\ onPlan[n].to < day
  <2>1. n \notin Covering(u, day)
    OBVIOUS
  <2> QED
    BY <1>2, <1>3, <1>4, <2>1 DEF Covering
<1>9. onPlan[n].until # None
  <2> SUFFICES ASSUME onPlan[n].until = None PROVE FALSE
    OBVIOUS
  <2>1. PICK m \in DOMAIN onPlan :
          /\ n < m /\ onPlan[m].user = onPlan[n].user
          /\ onPlan[m].from = onPlan[n].to /\ onPlan[n].from <= onPlan[n].to
    BY <1>4, <1>8 DEF HubInv, Chained
  <2>2. m \in B
    BY <1>2, <1>3, <1>4, <1>8, <2>1
  <2>3. onPlan[m].from = first
    BY <1>2, <1>4, <1>6, <1>7, <2>1, <2>2
  <2> QED
    BY <1>1, <1>4, <1>7, <2>1, <2>2, <2>3
<1>10. onPlan[n].to = onPlan[n].until /\ onPlan[n].from <= onPlan[n].until
  BY <1>4, <1>9 DEF HubInv, Chained
<1>11. ASSUME NEW m \in DOMAIN onPlan, onPlan[m].user = u, onPlan[m].from <= day
       PROVE  onPlan[m].from <= onPlan[n].until
  <2>1. m \in B
    BY <1>4, <1>11
  <2> QED
    BY <1>2, <1>4, <1>6, <1>7, <1>9, <1>10, <1>11, <2>1
<1> QED
  BY <1>4, <1>8, <1>9, <1>10, <1>11

LEMMA HubSound == HubInv => PostsAndPaySound
<1> SUFFICES ASSUME HubInv PROVE PostsAndPaySound
  OBVIOUS
<1>1. /\ DOMAIN sites \subseteq Sites /\ posts \in Seq(Posts)
      /\ onPlan \in Seq(Assignments)
  BY DEF HubInv, AdminInv, HubTypeOK
<1>2. ManagersSucceed
  <2> SUFFICES ASSUME NEW b \in DOMAIN sites,
                      NEW k \in DOMAIN posts, posts[k].site = b
               PROVE  LET rows == {n \in DOMAIN posts : posts[n].site = b}
                          later == {n \in rows : n > k} IN
                      IF later = {} THEN posts[k].to = None
                      ELSE \E n \in later : /\ posts[k].to = posts[n].from
                                            /\ \A x \in later : n <= x
    BY DEF ManagersSucceed
  <2>1. Succeeded(b)
    BY <1>1 DEF HubInv
  <2>2. \A n \in DOMAIN posts : n \in Int
    BY <1>1
  <2>3. PICK later : later = {n \in DOMAIN posts : posts[n].site = b /\ n > k}
    OBVIOUS
  <2>4. IF later = {} THEN posts[k].to = None
        ELSE \E n \in later : posts[k].to = posts[n].from /\ \A x \in later : n <= x
    <3>1. CASE \E n \in DOMAIN posts :
                 /\ posts[n].site = b /\ k < n /\ posts[k].to = posts[n].from
                 /\ \A x \in DOMAIN posts : posts[x].site = b /\ k < x => n <= x
      BY <2>2, <2>3, <3>1
    <3>2. CASE /\ posts[k].to = None
               /\ \A n \in DOMAIN posts : posts[n].site = b => n <= k
      <4>1. later = {}
        BY <2>2, <2>3, <3>2
      <4> QED
        BY <3>2, <4>1
    <3> QED
      BY <2>1, <3>1, <3>2 DEF Succeeded
  <2>5. later = {n \in {m \in DOMAIN posts : posts[m].site = b} : n > k}
    BY <2>3
  <2> QED
    BY <2>4, <2>5
<1>3. NoPayGap
  BY NoGap DEF NoPayGap
<1>4. OneOpenPlan
  <2> SUFFICES ASSUME NEW u \in Staff \ overlapped
               PROVE  Cardinality(OpenPlans(u)) <= 1
    BY DEF OneOpenPlan
  <2>1. CASE OpenPlans(u) = {}
    BY <2>1, FS_EmptySet
  <2>2. CASE OpenPlans(u) # {}
    <3>1. PICK k : OpenPlans(u) = {k}
      BY <2>2 DEF HubInv, OpenAlone
    <3> QED
      BY <3>1, FS_Singleton
  <2> QED
    BY <2>1, <2>2
<1> QED
  BY <1>2, <1>3, <1>4 DEF HubInv, PostsAndPaySound

(* The managers of a branch follow one another without a gap, whoever       *)
(* appoints at once; nobody put on a plan is left without one but by the    *)
(* end an assignment was given; one assignment is open, unless two          *)
(* overlapped; a credit goes to somebody in post that day, whoever is       *)
(* appointed meanwhile (corporate-routes, 0016, commission-engine).         *)
THEOREM PostsAndPayAlwaysSound == HubSpec => []PostsAndPaySound
<1> QED
  BY HubInitInv, HubStepInv, HubSound, PTL DEF HubSpec

LEMMA ClosedStands == HubInv /\ [HubNext]_hubVars => [ClosedMonthStands]_hubVars
<1> SUFFICES ASSUME HubInv, HubNext, NEW u \in Staff,
                    NEW month \in 0..Month(LastDay), month < Month(today)
             PROVE  Commission(u, month)' = Commission(u, month)
  BY DEF ClosedMonthStands
<1>1. \A c \in credits' \ credits : c.month = Month(today)
  <2>1. CASE UNCHANGED credits
    BY <2>1
  <2>2. ASSUME NEW i \in DOMAIN Sales, InvoicePaid(i)
        PROVE  \A c \in credits' \ credits : c.month = Month(today)
    BY <2>2 DEF InvoicePaid
  <2>3. ASSUME NEW i \in DOMAIN Sales, InvoiceRefunded(i)
        PROVE  \A c \in credits' \ credits : c.month = Month(today)
    <3>1. credits \subseteq Credits
      BY DEF HubInv, AdminInv, HubTypeOK
    <3>2. \A c \in Credits :
            [c EXCEPT !.kind = "reversed", !.amount = -c.amount,
                      !.month = Month(today), !.day = today].month = Month(today)
      BY DEF Credits
    <3>3. \A x \in credits' \ credits : \E c \in credits :
            x = [c EXCEPT !.kind = "reversed", !.amount = -c.amount,
                          !.month = Month(today), !.day = today]
      BY <2>3 DEF InvoiceRefunded
    <3> QED
      BY <3>1, <3>2, <3>3
  <2> QED
    BY <2>1, <2>2, <2>3
       DEF HubNext, DayPasses, CreateBranch, PatchBranch, AppointRead,
       AppointCommit, CreatePlan, PatchPlanRead, PatchPlanWrite, AssignRead,
       AssignCommit, AdminStops
<1>2. credits \subseteq credits'
  BY DEF HubNext, DayPasses, CreateBranch, PatchBranch, AppointRead,
     AppointCommit, CreatePlan, PatchPlanRead, PatchPlanWrite, AssignRead,
     AssignCommit, AdminStops, InvoicePaid, InvoiceRefunded
<1>3. month # Month(today)
  <2>1. today \in Days
    BY DEF HubInv, AdminInv, HubTypeOK
  <2> QED
    BY <2>1, MonthType
<1>4. RowsOf(u, month)' = RowsOf(u, month)
  BY <1>1, <1>2, <1>3 DEF RowsOf
<1> QED
  BY <1>4 DEF Commission

LEMMA EditsKept == HubInv /\ [HubNext]_hubVars => [EditsOneField]_hubVars
<1> SUFFICES ASSUME HubInv, HubNext PROVE EditsOneField
  OBVIOUS
<1>1. ASSUME \A p \in DOMAIN payPlans : payPlans'[p] = payPlans[p]
      PROVE  EditsOneField
  BY <1>1 DEF EditsOneField
<1>2. ASSUME NEW p \in PayPlans, NEW terms \in Terms, CreatePlan(p, terms)
      PROVE  EditsOneField
  <2>1. \A x \in DOMAIN payPlans : payPlans'[x] = payPlans[x]
    BY <1>2 DEF CreatePlan
  <2> QED
    BY <1>1, <2>1
<1>3. ASSUME NEW r \in Requests, PatchPlanWrite(r) PROVE EditsOneField
  BY <1>3, PatchKeepsHub
<1> QED
  BY <1>1, <1>2, <1>3
     DEF HubNext, DayPasses, CreateBranch, PatchBranch, AppointRead,
     AppointCommit, PatchPlanRead, AssignRead, AssignCommit, AdminStops,
     InvoicePaid, InvoiceRefunded

(* The commission of a month that is over never changes, and an edit of a   *)
(* plan leaves the field it does not name, unless two edits overlapped      *)
(* (writeReversals, PATCH /comp-plans/:id).                                 *)
THEOREM ClosedMonthsAlwaysStand ==
  HubSpec => [][ClosedMonthStands /\ EditsOneField]_hubVars
<1>1. HubInv /\ [HubNext]_hubVars
        => [ClosedMonthStands /\ EditsOneField]_hubVars
  BY ClosedStands, EditsKept
<1> QED
  BY <1>1, HubInitInv, HubStepInv, PTL DEF HubSpec

-----------------------------------------------------------------------------
(* The dispatch board.                                                      *)

(* What a request in flight read is still so, unless somebody crossed it:   *)
(* the status an assignment or a transition starts from, a suggestion that  *)
(* is being decided and its job, and the day of the technician a proposal   *)
(* was checked against, as far as the dispatcher itself filled it.          *)
JobFits(g) ==
  /\ g.step \in {"assign", "unassign"} =>
       g.row \in crossed \/ g.from.status = board[g.row].status
  /\ g.step = "transition" =>
       g.row \in crossed \/ g.to \in BoardMatrix[board[g.row].status]

DecisionFits(g) ==
  g.step \in {"approve", "reject"} =>
    /\ g.row \in DOMAIN suggestions
    /\ g.row \in crossed \/ suggestions[g.row].status = "pending"
    /\ g.step = "approve" =>
         \E j \in BoardJobs :
           /\ j = suggestions[g.row].job
           /\ suggestions[g.row].status = "applied" => j \in crossed
           /\ j \in crossed \/ board[j].status = "unassigned" \/ board[j].tech = None

ProposalFits(g) ==
  g.step = "decide" =>
    /\ g.todo # <<>> /\ g.row = Head(g.todo).tech
    /\ g.auto => g.row \in crossed \/
         \A i \in BoardJobs : 0 < setBy[i] /\ board[i].tech = g.row =>
                                ~Overlaps(board[i].slot, Head(g.todo).slot)

FlightFits(g) == JobFits(g) /\ DecisionFits(g) /\ ProposalFits(g)

SetByRows == \A j \in BoardJobs : setBy[j] <= Len(suggestions)

DaysKept ==
  \A i, j \in BoardJobs :
    0 < setBy[i] /\ setBy[i] < setBy[j] /\ board[i].tech = board[j].tech =>
      board[i].tech \in crossed \/ ~Overlaps(board[i].slot, board[j].slot)

StatusLogged ==
  \A j \in BoardJobs :
    \/ logged[j] = board[j].status \/ 0 < unrecorded[j]
    \/ \E k \in DOMAIN suggestions :
         suggestions[k].job = j
         /\ (suggestions[k].status = "applied" \/ k \in crossed)

DispatchInv ==
  /\ DispatchTypeOK /\ SetByRows /\ DaysKept /\ StatusLogged
  /\ \A r \in Requests : FlightFits(dispatcher[r])

LEMMA ProposalType ==
  \A p \in Proposals : /\ p.job \in BoardJobs /\ p.tech \in Techs /\ p.slot \in Slots
                       /\ p.confident \in BOOLEAN
  BY DispatchAssumption DEF DispatchAssumption

LEMMA FlightShapes ==
  ASSUME NEW g \in DispatcherStates
  PROVE  /\ g.step \in {"assign", "unassign", "transition", "approve", "reject",
                        "capture", "next", "decide"} <=> g # Idle
         /\ g.step \in {"assign", "unassign"} => g.row \in BoardJobs /\ g.from \in BoardRows
         /\ g.step = "transition" => g.row \in BoardJobs /\ g.to \in BoardStatus
         /\ g.step \in {"approve", "reject"} => g.row \in 1..MaxSuggestions
         /\ g.step \in {"capture", "next"} => g.row = None /\ g.todo \in Seq(Proposals)
         /\ g.step = "decide" =>
              g.row \in Techs /\ g.todo \in Seq(Proposals) /\ g.auto \in BOOLEAN
  BY DEF DispatcherStates, Idle

LEMMA MatrixType ==
  /\ \A s \in BoardStatus : BoardMatrix[s] \subseteq BoardStatus
  /\ BoardMatrix["unassigned"] # {} /\ BoardMatrix["scheduled"] # {}
  BY DEF BoardMatrix, BoardStatus

LEMMA DispatchInitInv == DispatchInit => DispatchInv
<1> SUFFICES ASSUME DispatchInit PROVE DispatchInv
  OBVIOUS
<1>1. \A r \in Requests : dispatcher[r] = Idle /\ Idle.step = "idle"
  BY DEF DispatchInit, NoRequests, Idle
<1>2. board \in [BoardJobs -> BoardRows]
      /\ \A j \in BoardJobs : board[j].status = "unassigned"
  BY DEF DispatchInit, BoardRows, BoardStatus
<1>3. DispatchTypeOK
  BY <1>2, DispatchAssumption
     DEF DispatchAssumption, DispatchInit, DispatchTypeOK, NoRequests,
     DispatcherStates, BoardStatus
<1>4. SetByRows /\ DaysKept /\ StatusLogged
  BY <1>2 DEF DispatchInit, SetByRows, DaysKept, StatusLogged
<1>5. \A r \in Requests : FlightFits(dispatcher[r])
  BY <1>1 DEF FlightFits, JobFits, DecisionFits, ProposalFits
<1> QED
  BY <1>3, <1>4, <1>5 DEF DispatchInv

LEMMA DispatchSound == DispatchInv => BoardSound
<1> SUFFICES ASSUME DispatchInv PROVE BoardSound
  OBVIOUS
<1>1. NoDoubleBooking
  BY DEF DispatchInv, DaysKept, NoDoubleBooking
<1>2. LogTellsStatus
  BY DEF DispatchInv, StatusLogged, LogTellsStatus, AppliedTo
<1> QED
  BY <1>1, <1>2 DEF BoardSound

(* A request that begins, a proposal captured or checked, a run that ends:  *)
(* the rows stay, and the request fits what it read.                        *)
LEMMA FlightKeeps ==
  ASSUME DispatchInv, NEW r \in Requests, NEW g \in DispatcherStates,
         FlightFits(g), dispatcher' = [dispatcher EXCEPT ![r] = g],
         acts' \in 0..MaxActs, acts <= acts',
         UNCHANGED <<board, logged, setBy, unrecorded, suggestions, crossed>>
  PROVE  DispatchInv'
<1>1. dispatcher \in [Requests -> DispatcherStates]
  BY DEF DispatchInv, DispatchTypeOK
<1>2. /\ dispatcher' \in [Requests -> DispatcherStates]
      /\ \A q \in Requests : dispatcher'[q] = IF q = r THEN g ELSE dispatcher[q]
  BY <1>1
<1>3. DispatchTypeOK'
  <2>1. \A j \in BoardJobs : unrecorded'[j] <= acts'
    <3>1. /\ unrecorded \in [BoardJobs -> 0..MaxActs] /\ acts \in 0..MaxActs
          /\ MaxActs \in Nat /\ \A j \in BoardJobs : unrecorded[j] <= acts
      BY DispatchAssumption DEF DispatchAssumption, DispatchInv, DispatchTypeOK
    <3> QED
      BY <3>1
  <2> QED
    BY <1>2, <2>1 DEF DispatchInv, DispatchTypeOK
<1>4. \A h : FlightFits(h) => FlightFits(h)'
  BY DEF FlightFits, JobFits, DecisionFits, ProposalFits
<1>5. ASSUME NEW q \in Requests PROVE FlightFits(dispatcher[q])'
  <2>1. PICK h : h = dispatcher'[q]
    OBVIOUS
  <2>2. FlightFits(h)
    BY <1>2, <2>1 DEF DispatchInv
  <2>3. FlightFits(h)'
    BY <1>4, <2>2
  <2> QED
    BY <2>1, <2>3 DEF FlightFits, JobFits, DecisionFits, ProposalFits
<1>6. SetByRows' /\ DaysKept' /\ StatusLogged'
  BY DEF DispatchInv, SetByRows, DaysKept, StatusLogged
<1> QED
  BY <1>3, <1>5, <1>6 DEF DispatchInv

LEMMA BeginKeepsBoard ==
  ASSUME DispatchInv, NEW r \in Requests, NEW g \in DispatcherStates,
         FlightFits(g), Begin(r, g)
  PROVE  DispatchInv'
<1>1. /\ acts' \in 0..MaxActs /\ acts <= acts'
      /\ dispatcher' = [dispatcher EXCEPT ![r] = g]
      /\ UNCHANGED <<board, logged, setBy, unrecorded, suggestions, crossed>>
  BY DispatchAssumption
     DEF DispatchAssumption, Begin, DispatchInv, DispatchTypeOK
<1> QED
  BY <1>1, FlightKeeps

LEMMA ReadsKeepBoard ==
  ASSUME DispatchInv, NEW r \in Requests,
         \/ \E j \in BoardJobs :
              AssignJobRead(r, j) \/ UnassignRead(r, j) \/ TransitionRead(r, j)
         \/ \E k \in DOMAIN suggestions :
              ApproveSuggestionRead(r, k) \/ RejectSuggestionRead(r, k)
         \/ RunStart(r)
  PROVE  DispatchInv'
<1>1. /\ board \in [BoardJobs -> BoardRows] /\ suggestions \in Seq(Suggestions)
      /\ Len(suggestions) <= MaxSuggestions
  BY DEF DispatchInv, DispatchTypeOK
<1>2. \A j \in BoardJobs : board[j] \in BoardRows /\ board[j].status \in BoardStatus
  BY <1>1 DEF BoardRows
<1>3. ASSUME NEW j \in BoardJobs, NEW step \in {"assign", "unassign"},
             Begin(r, [step |-> step, row |-> j, from |-> board[j]])
      PROVE  DispatchInv'
  <2>1. PICK g : g = [step |-> step, row |-> j, from |-> board[j]]
    OBVIOUS
  <2>2. g \in DispatcherStates
    BY <1>2, <2>1 DEF DispatcherStates
  <2>3. FlightFits(g)
    BY <2>1 DEF FlightFits, JobFits, DecisionFits, ProposalFits
  <2> QED
    BY <1>3, <2>1, <2>2, <2>3, BeginKeepsBoard
<1>4. ASSUME NEW j \in BoardJobs, NEW to \in BoardMatrix[board[j].status],
             Begin(r, [step |-> "transition", row |-> j, to |-> to])
      PROVE  DispatchInv'
  <2>1. PICK g : g = [step |-> "transition", row |-> j, to |-> to]
    OBVIOUS
  <2>2. g \in DispatcherStates
    BY <1>2, <2>1, MatrixType DEF DispatcherStates
  <2>3. FlightFits(g)
    BY <2>1 DEF FlightFits, JobFits, DecisionFits, ProposalFits
  <2> QED
    BY <1>4, <2>1, <2>2, <2>3, BeginKeepsBoard
<1>5. ASSUME NEW k \in DOMAIN suggestions,
             ApproveSuggestionRead(r, k) \/ RejectSuggestionRead(r, k)
      PROVE  DispatchInv'
  <2>1. /\ k \in 1..MaxSuggestions /\ suggestions[k] \in Suggestions
        /\ suggestions[k].status = "pending"
    BY <1>1, <1>5, DispatchAssumption
       DEF DispatchAssumption, ApproveSuggestionRead, RejectSuggestionRead
  <2>2. PICK step \in {"approve", "reject"} :
          /\ Begin(r, [step |-> step, row |-> k])
          /\ step = "approve" =>
               \/ board[suggestions[k].job].status = "unassigned"
               \/ board[suggestions[k].job].tech = None
    BY <1>5 DEF ApproveSuggestionRead, RejectSuggestionRead
  <2>3. PICK g : g = [step |-> step, row |-> k]
    OBVIOUS
  <2>4. g \in DispatcherStates
    BY <2>1, <2>3 DEF DispatcherStates
  <2>5. suggestions[k].job \in BoardJobs
    BY <2>1 DEF Suggestions
  <2>6. FlightFits(g)
    BY <2>1, <2>2, <2>3, <2>5 DEF FlightFits, JobFits, DecisionFits, ProposalFits
  <2> QED
    BY <2>2, <2>3, <2>4, <2>6, BeginKeepsBoard
<1>6. CASE RunStart(r)
  <2>1. PICK g : g = [step |-> "capture", row |-> None, todo |-> <<>>]
    OBVIOUS
  <2>2. g \in DispatcherStates
    BY <2>1 DEF DispatcherStates
  <2>3. FlightFits(g)
    BY <2>1 DEF FlightFits, JobFits, DecisionFits, ProposalFits
  <2> QED
    BY <1>6, <2>1, <2>2, <2>3, BeginKeepsBoard DEF RunStart
<1>7. ASSUME NEW j \in BoardJobs,
             AssignJobRead(r, j) \/ UnassignRead(r, j) \/ TransitionRead(r, j)
      PROVE  DispatchInv'
  BY <1>3, <1>4, <1>7 DEF AssignJobRead, UnassignRead, TransitionRead
<1> QED
  BY <1>5, <1>6, <1>7

LEMMA RunsKeepBoard ==
  ASSUME DispatchInv, NEW r \in Requests,
         RunCapture(r) \/ RunCheck(r) \/ RunEnds(r)
  PROVE  DispatchInv'
<1>1. /\ UNCHANGED <<board, logged, setBy, unrecorded, suggestions, crossed>>
      /\ acts' \in 0..MaxActs /\ acts <= acts'
  BY DispatchAssumption
     DEF DispatchAssumption, DispatchInv, DispatchTypeOK, RunCapture, RunCheck, RunEnds
<1>2. PICK g \in DispatcherStates : g = dispatcher[r]
  BY DEF DispatchInv, DispatchTypeOK
<1>3. g.step \in {"capture", "next"} /\ g.row = None /\ g.todo \in Seq(Proposals)
  BY <1>2, FlightShapes DEF RunCapture, RunCheck, RunEnds
<1>4. dispatcher \in [Requests -> DispatcherStates]
  BY DEF DispatchInv, DispatchTypeOK
<1>5. CASE RunEnds(r)
  <2>1. Idle \in DispatcherStates /\ FlightFits(Idle)
    BY DEF DispatcherStates, FlightFits, JobFits, DecisionFits, ProposalFits, Idle
  <2> QED
    BY <1>1, <1>5, <2>1, FlightKeeps DEF RunEnds, End
<1>6. CASE RunCapture(r)
  <2>1. g.step = "capture"
    BY <1>2, <1>6 DEF RunCapture
  <2>2. PICK p \in Proposals : dispatcher' = [dispatcher EXCEPT ![r].todo = Append(@, p)]
    BY <1>6 DEF RunCapture
  <2>3. PICK h : h = [g EXCEPT !.todo = Append(@, p)]
    OBVIOUS
  <2>4. g = [step |-> "capture", row |-> None, todo |-> g.todo]
    BY <1>3, <2>1 DEF DispatcherStates, Idle
  <2>5. h = [step |-> "capture", row |-> None, todo |-> Append(g.todo, p)]
    <3>1. PICK todo : todo = Append(g.todo, p)
      OBVIOUS
    <3>2. PICK old : g = [step |-> "capture", row |-> None, todo |-> old]
      BY <2>4
    <3>3. h = [g EXCEPT !.todo = todo]
      BY <2>3, <3>1
    <3>4. [[step |-> "capture", row |-> None, todo |-> old] EXCEPT !.todo = todo]
            = [step |-> "capture", row |-> None, todo |-> todo]
      OBVIOUS
    <3> QED
      BY <3>1, <3>2, <3>3, <3>4
  <2>6. Append(g.todo, p) \in Seq(Proposals)
    BY <1>3
  <2>7. h \in DispatcherStates /\ FlightFits(h)
    BY <2>5, <2>6 DEF DispatcherStates, FlightFits, JobFits, DecisionFits, ProposalFits
  <2>8. dispatcher' = [dispatcher EXCEPT ![r] = h]
    BY <1>2, <1>4, <2>2, <2>3
  <2> QED
    BY <1>1, <2>7, <2>8, FlightKeeps
<1>7. CASE RunCheck(r)
  <2>1. PICK p : p = Head(g.todo)
    OBVIOUS
  <2>2. g.todo # <<>> /\ p \in Proposals
    BY <1>2, <1>3, <1>7, <2>1 DEF RunCheck
  <2>3. PICK h : h = [step |-> "decide", row |-> p.tech, todo |-> g.todo,
                      auto |-> InvariantsPass(p) /\ p.confident]
    OBVIOUS
  <2>4. dispatcher' = [dispatcher EXCEPT ![r] = h]
    BY <1>2, <1>4, <1>7, <2>1, <2>3 DEF RunCheck
  <2>5. /\ h.step = "decide" /\ h.row = p.tech /\ h.todo = g.todo
        /\ h.auto \in BOOLEAN /\ (h.auto => InvariantsPass(p))
    <3>1. p.confident \in BOOLEAN
      BY <2>2, ProposalType
    <3>2. PICK b \in BOOLEAN : b = (InvariantsPass(p) /\ p.confident)
      BY <3>1
    <3>3. h = [step |-> "decide", row |-> p.tech, todo |-> g.todo, auto |-> b]
      BY <2>3, <3>2
    <3>4. b => InvariantsPass(p)
      BY <3>2
    <3> QED
      BY <3>3, <3>4
  <2>6. h \in DispatcherStates
    <3>1. h = [step |-> "decide", row |-> p.tech, todo |-> g.todo, auto |-> h.auto]
      BY <2>3, <2>5
    <3>2. p.tech \in Techs
      BY <2>2, ProposalType
    <3> QED
      BY <1>3, <2>5, <3>1, <3>2 DEF DispatcherStates
  <2>7. FlightFits(h)
    BY <2>1, <2>2, <2>5
       DEF FlightFits, JobFits, DecisionFits, ProposalFits, InvariantsPass, BookedBy
  <2> QED
    BY <1>1, <2>4, <2>6, <2>7, FlightKeeps
<1> QED
  BY <1>5, <1>6, <1>7

(* Nothing takes back what the agent's tool did, one request at a time. *)
CountGrows ==
  /\ unrecorded' \in [BoardJobs -> 0..MaxActs]
  /\ \A j \in BoardJobs : unrecorded'[j] <= acts' /\ unrecorded[j] <= unrecorded'[j]

LEMMA Counted ==
  ASSUME DispatchInv, UNCHANGED unrecorded, acts' \in {acts, acts + 1}
  PROVE  CountGrows
<1>1. /\ unrecorded \in [BoardJobs -> 0..MaxActs] /\ acts \in 0..MaxActs
      /\ \A j \in BoardJobs : unrecorded[j] <= acts
      /\ MaxActs \in Nat
  BY DispatchAssumption DEF DispatchAssumption, DispatchInv, DispatchTypeOK
<1> QED
  BY <1>1 DEF CountGrows

(* A handler that writes: it crosses whoever relies on a row it changes,    *)
(* and the dispatcher's days change under the technician's name.            *)
BoardWrites(r, rows, next) ==
  /\ dispatcher' = [dispatcher EXCEPT ![r] = next]
  /\ Crosses(r, rows) /\ rows \subseteq BoardJobs \cup Techs \cup 1..MaxSuggestions
  /\ board' \in [BoardJobs -> BoardRows]
  /\ \A j \in BoardJobs \ rows : board'[j] = board[j]
  /\ suggestions' \in Seq(Suggestions) /\ Len(suggestions') <= MaxSuggestions
  /\ Len(suggestions) <= Len(suggestions')
  /\ \A k \in DOMAIN suggestions :
       /\ k \in DOMAIN suggestions' /\ suggestions'[k].job = suggestions[k].job
       /\ k \in rows \/ suggestions'[k].status = suggestions[k].status
       /\ suggestions'[k].status = "applied" =>
            suggestions[k].status = "applied" \/ suggestions[k].job \in rows
       /\ suggestions[k].status = "applied" =>
            suggestions'[k].status = "applied" \/ k \in crossed
  /\ setBy' \in [BoardJobs -> 0..MaxSuggestions]
  /\ \A j \in BoardJobs : setBy'[j] <= Len(suggestions')
  /\ \A j \in BoardJobs : 0 < setBy'[j] =>
       \/ /\ setBy'[j] = setBy[j]
          /\ board'[j].tech = board[j].tech /\ board'[j].slot = board[j].slot
       \/ board'[j].tech \in rows
  /\ CountGrows
  /\ logged' \in [BoardJobs -> BoardStatus]
  /\ \A j \in BoardJobs :
       \/ logged'[j] = board'[j].status \/ 0 < unrecorded'[j]
       \/ logged'[j] = logged[j] /\ board'[j].status = board[j].status
       \/ \E k \in DOMAIN suggestions' :
            suggestions'[k].job = j /\ suggestions'[k].status = "applied"

LEMMA ReliesOnRows ==
  ASSUME NEW q
  PROVE  /\ dispatcher[q].step \in {"assign", "unassign", "transition", "reject"} =>
              dispatcher[q].row \in ReliesOn(q)
         /\ dispatcher[q].step = "approve" =>
              /\ dispatcher[q].row \in ReliesOn(q)
              /\ suggestions[dispatcher[q].row].job \in ReliesOn(q)
         /\ dispatcher[q].step = "decide" => dispatcher[q].row \in ReliesOn(q)
  BY DEF ReliesOn, Idle

LEMMA OthersFit ==
  ASSUME DispatchInv, NEW r \in Requests, NEW rows, NEW next,
         BoardWrites(r, rows, next), NEW q \in Requests \ {r}
  PROVE  FlightFits(dispatcher[q])'
<1>1. PICK g \in DispatcherStates : g = dispatcher[q] /\ FlightFits(g)
  <2>1. dispatcher[q] \in DispatcherStates
    BY DEF DispatchInv, DispatchTypeOK
  <2>2. FlightFits(dispatcher[q])
    BY DEF DispatchInv
  <2> QED
    BY <2>1, <2>2
<1>2. dispatcher'[q] = g
  BY <1>1 DEF DispatchInv, DispatchTypeOK, BoardWrites
<1>3. /\ crossed \subseteq crossed'
      /\ \A x \in rows : x \in ReliesOn(q) => x \in crossed'
  BY DEF BoardWrites, Crosses
<1>4. JobFits(g)'
  <2>1. g.step \in {"assign", "unassign", "transition"} =>
          g.row \in BoardJobs /\ g.row \in ReliesOn(q)
    BY <1>1, FlightShapes, ReliesOnRows
  <2> QED
    BY <1>1, <1>3, <2>1 DEF BoardWrites, FlightFits, JobFits
<1>5. DecisionFits(g)'
  <2> SUFFICES ASSUME g.step \in {"approve", "reject"}
               PROVE  /\ g.row \in DOMAIN suggestions'
                      /\ g.row \in crossed' \/ suggestions'[g.row].status = "pending"
                      /\ g.step = "approve" =>
                           \E j \in BoardJobs :
                             /\ j = suggestions'[g.row].job
                             /\ suggestions'[g.row].status = "applied" => j \in crossed'
                             /\ \/ j \in crossed'
                                \/ board'[j].status = "unassigned"
                                \/ board'[j].tech = None
    BY DEF DecisionFits
  <2>1. /\ g.row \in DOMAIN suggestions /\ g.row \in ReliesOn(q)
        /\ g.row \in crossed \/ suggestions[g.row].status = "pending"
    BY <1>1, ReliesOnRows DEF FlightFits, DecisionFits
  <2>2. /\ g.row \in DOMAIN suggestions'
        /\ g.row \in crossed' \/ suggestions'[g.row].status = "pending"
    BY <1>3, <2>1 DEF BoardWrites
  <2>3. ASSUME g.step = "approve"
        PROVE  \E j \in BoardJobs :
                 /\ j = suggestions'[g.row].job
                 /\ suggestions'[g.row].status = "applied" => j \in crossed'
                 /\ \/ j \in crossed'
                    \/ board'[j].status = "unassigned"
                    \/ board'[j].tech = None
    <3>1. PICK j \in BoardJobs :
            /\ j = suggestions[g.row].job
            /\ suggestions[g.row].status = "applied" => j \in crossed
            /\ j \in crossed \/ board[j].status = "unassigned" \/ board[j].tech = None
      BY <1>1, <2>3 DEF FlightFits, DecisionFits
    <3>2. j \in ReliesOn(q)
      BY <1>1, <2>3, <3>1, ReliesOnRows
    <3>3. j \in rows => j \in crossed'
      BY <1>3, <3>2
    <3>4. j = suggestions'[g.row].job
      BY <2>1, <3>1 DEF BoardWrites
    <3>5. suggestions'[g.row].status = "applied" => j \in crossed'
      BY <1>3, <2>1, <3>1, <3>3 DEF BoardWrites
    <3>6. j \in crossed' \/ board'[j].status = "unassigned" \/ board'[j].tech = None
      BY <1>3, <3>1, <3>3 DEF BoardWrites
    <3> QED
      BY <3>4, <3>5, <3>6
  <2> QED
    BY <2>2, <2>3
<1>6. ProposalFits(g)'
  <2> SUFFICES ASSUME g.step = "decide"
               PROVE  /\ g.todo # <<>> /\ g.row = Head(g.todo).tech
                      /\ g.auto => g.row \in crossed' \/
                           \A i \in BoardJobs : 0 < setBy'[i] /\ board'[i].tech = g.row =>
                             ~Overlaps(board'[i].slot, Head(g.todo).slot)
    BY DEF ProposalFits, Overlaps, DefaultEnd
  <2>1. /\ g.todo # <<>> /\ g.row = Head(g.todo).tech
        /\ g.auto => g.row \in crossed \/
             \A i \in BoardJobs : 0 < setBy[i] /\ board[i].tech = g.row =>
               ~Overlaps(board[i].slot, Head(g.todo).slot)
    BY <1>1 DEF FlightFits, ProposalFits
  <2>2. g.row \in ReliesOn(q)
    BY <1>1, ReliesOnRows
  <2>3. g.row \in rows => g.row \in crossed'
    BY <1>3, <2>2
  <2>4. \A j \in BoardJobs : 0 < setBy'[j] =>
          \/ /\ setBy'[j] = setBy[j]
             /\ board'[j].tech = board[j].tech /\ board'[j].slot = board[j].slot
          \/ board'[j].tech \in rows
    BY DEF BoardWrites
  <2> QED
    BY <1>3, <2>1, <2>3, <2>4
<1> QED
  BY <1>2, <1>4, <1>5, <1>6 DEF FlightFits, JobFits, DecisionFits, ProposalFits

LEMMA WriteKeepsBoard ==
  ASSUME DispatchInv, NEW r \in Requests, NEW rows,
         NEW next \in DispatcherStates, next.step \in {"idle", "next", "capture"},
         BoardWrites(r, rows, next), acts' \in 0..MaxActs, DaysKept'
  PROVE  DispatchInv'
<1>1. dispatcher \in [Requests -> DispatcherStates]
  BY DEF DispatchInv, DispatchTypeOK
<1>2. /\ dispatcher' \in [Requests -> DispatcherStates] /\ dispatcher'[r] = next
      /\ crossed \subseteq crossed' /\ crossed' \subseteq crossed \cup rows
  BY <1>1 DEF BoardWrites, Crosses
<1>3. DispatchTypeOK'
  BY <1>2 DEF DispatchInv, DispatchTypeOK, BoardWrites, CountGrows
<1>4. SetByRows'
  BY DEF BoardWrites, SetByRows
<1>5. StatusLogged'
  <2> SUFFICES ASSUME NEW j \in BoardJobs, logged'[j] # board'[j].status,
                      ~(0 < unrecorded'[j])
               PROVE  \E k \in DOMAIN suggestions' :
                        suggestions'[k].job = j
                        /\ (suggestions'[k].status = "applied" \/ k \in crossed')
    BY DEF StatusLogged
  <2>1. CASE \E k \in DOMAIN suggestions' :
               suggestions'[k].job = j /\ suggestions'[k].status = "applied"
    BY <2>1
  <2>2. CASE logged'[j] = logged[j] /\ board'[j].status = board[j].status
    <3>0. ~(0 < unrecorded[j])
      BY DispatchAssumption
         DEF DispatchAssumption, DispatchInv, DispatchTypeOK, BoardWrites, CountGrows
    <3>1. PICK k \in DOMAIN suggestions :
            suggestions[k].job = j
            /\ (suggestions[k].status = "applied" \/ k \in crossed)
      BY <2>2, <3>0 DEF DispatchInv, StatusLogged
    <3> QED
      BY <1>2, <3>1 DEF BoardWrites
  <2> QED
    BY <2>1, <2>2 DEF BoardWrites
<1>6. FlightFits(dispatcher[r])'
  BY <1>2 DEF FlightFits, JobFits, DecisionFits, ProposalFits
<1>7. \A q \in Requests : FlightFits(dispatcher[q])'
  BY <1>6, OthersFit
<1> QED
  BY <1>3, <1>4, <1>5, <1>7 DEF DispatchInv

(* Rows that leave the dispatcher's hands overlap nothing of it. *)
LEMMA DaysStay ==
  ASSUME DispatchInv, crossed \subseteq crossed',
         \A j \in BoardJobs : 0 < setBy'[j] =>
           /\ setBy'[j] = setBy[j]
           /\ board'[j].tech = board[j].tech /\ board'[j].slot = board[j].slot,
         setBy' \in [BoardJobs -> 0..MaxSuggestions]
  PROVE  DaysKept'
<1> SUFFICES ASSUME NEW i \in BoardJobs, NEW j \in BoardJobs,
                    0 < setBy'[i], setBy'[i] < setBy'[j], board'[i].tech = board'[j].tech,
                    board'[i].tech \notin crossed'
             PROVE  ~Overlaps(board'[i].slot, board'[j].slot)
  BY DEF DaysKept, Overlaps, DefaultEnd
<1>1. 0 < setBy'[j]
  BY DispatchAssumption DEF DispatchAssumption
<1>2. /\ 0 < setBy[i] /\ setBy[i] < setBy[j] /\ board[i].tech = board[j].tech
      /\ board[i].tech \notin crossed
  BY <1>1
<1>3. ~Overlaps(board[i].slot, board[j].slot)
  BY <1>2 DEF DispatchInv, DaysKept
<1> QED
  BY <1>1, <1>3

LEMMA NothingHeard ==
  ASSUME NEW j, NEW heard, "canceled" \notin heard, suggestions \in Seq(Suggestions)
  PROVE  AfterEvents(j, heard) = suggestions
  BY DEF AfterEvents

LEMMA IdleFlight == Idle \in DispatcherStates /\ Idle.step = "idle"
  BY DEF DispatcherStates, Idle

(* Staff: what each handler writes, and that the log says so. *)
LEMMA AssignKeepsBoard ==
  ASSUME DispatchInv, NEW r \in Requests, AssignJobWrite(r)
  PROVE  DispatchInv'
<1>1. PICK g \in DispatcherStates : g = dispatcher[r]
  BY DEF DispatchInv, DispatchTypeOK
<1>2. g.step = "assign" /\ g.row \in BoardJobs /\ g.from \in BoardRows
  BY <1>1, FlightShapes DEF AssignJobWrite
<1>3. PICK j \in BoardJobs : j = g.row
  BY <1>2
<1>4. PICK scheduling \in BOOLEAN : scheduling = (g.from.status = "unassigned")
  OBVIOUS
<1>5. PICK t \in Techs, s \in Slots \cup {board[j].slot} :
        /\ board' = [board EXCEPT ![j] =
             [status |-> IF scheduling THEN "scheduled" ELSE @.status,
              tech |-> t, slot |-> s]]
        /\ logged' = IF scheduling THEN [logged EXCEPT ![j] = "scheduled"] ELSE logged
        /\ suggestions' = AfterEvents(j, IF scheduling THEN {"scheduled"} ELSE {})
        /\ setBy' = [setBy EXCEPT ![j] = 0]
        /\ Crosses(r, {j, t})
  BY <1>1, <1>3, <1>4 DEF AssignJobWrite
<1>6. /\ dispatcher' = [dispatcher EXCEPT ![r] = Idle] /\ acts' = acts
  BY DEF AssignJobWrite, End
<1>7. /\ board \in [BoardJobs -> BoardRows] /\ logged \in [BoardJobs -> BoardStatus]
      /\ setBy \in [BoardJobs -> 0..MaxSuggestions] /\ acts \in 0..MaxActs
      /\ suggestions \in Seq(Suggestions) /\ Len(suggestions) <= MaxSuggestions
      /\ MaxSuggestions \in Nat /\ \A i \in BoardJobs : setBy[i] <= Len(suggestions)
  BY DispatchAssumption DEF DispatchAssumption, DispatchInv, DispatchTypeOK, SetByRows
<1>8. suggestions' = suggestions
  BY <1>5, <1>7, NothingHeard
<1>9. board[j].status \in BoardStatus /\ board[j].slot \in Slots \cup {Unscheduled}
  BY <1>7 DEF BoardRows
<1>10. PICK row \in BoardRows :
         /\ board' = [board EXCEPT ![j] = row]
         /\ row.status = IF scheduling THEN "scheduled" ELSE board[j].status
  <2>1. PICK row : row = [status |-> IF scheduling THEN "scheduled" ELSE board[j].status,
                          tech |-> t, slot |-> s]
    OBVIOUS
  <2>2. row \in BoardRows
    BY <1>9, <2>1 DEF BoardRows, BoardStatus
  <2>3. row.status = IF scheduling THEN "scheduled" ELSE board[j].status
    BY <2>1
  <2>4. board' = [board EXCEPT ![j] = row]
    BY <1>5, <1>7, <2>1
  <2> QED
    BY <2>2, <2>3, <2>4
<1>11. /\ board' \in [BoardJobs -> BoardRows]
       /\ \A i \in BoardJobs : board'[i] = IF i = j THEN row ELSE board[i]
       /\ setBy' \in [BoardJobs -> 0..MaxSuggestions]
       /\ \A i \in BoardJobs : setBy'[i] = IF i = j THEN 0 ELSE setBy[i]
       /\ logged' \in [BoardJobs -> BoardStatus]
       /\ \A i \in BoardJobs :
            logged'[i] = IF i = j /\ scheduling THEN "scheduled" ELSE logged[i]
  BY <1>5, <1>7, <1>10 DEF BoardStatus
<1>12. Len(suggestions) \in Nat
  BY <1>7
<1>13. \A i \in BoardJobs : 0 < setBy'[i] =>
         /\ setBy'[i] = setBy[i]
         /\ board'[i].tech = board[i].tech /\ board'[i].slot = board[i].slot
  BY <1>11
<1>16. CountGrows
  BY Counted DEF AssignJobWrite
<1>14. BoardWrites(r, {j, t}, Idle)
  BY <1>5, <1>6, <1>7, <1>8, <1>10, <1>11, <1>12, <1>13, <1>16
     DEF BoardWrites
<1>15. DaysKept'
  BY <1>5, <1>11, <1>13, DaysStay DEF Crosses
<1> QED
  BY <1>6, <1>7, <1>14, <1>15, IdleFlight, WriteKeepsBoard

LEMMA UnassignKeepsBoard ==
  ASSUME DispatchInv, NEW r \in Requests, UnassignWrite(r)
  PROVE  DispatchInv'
<1>1. PICK g \in DispatcherStates : g = dispatcher[r]
  BY DEF DispatchInv, DispatchTypeOK
<1>2. g.step = "unassign" /\ g.row \in BoardJobs /\ g.from \in BoardRows
  BY <1>1, FlightShapes DEF UnassignWrite
<1>3. PICK j \in BoardJobs : j = g.row
  BY <1>2
<1>4. PICK reverting \in BOOLEAN :
        reverting = (g.from.status = "scheduled" /\ g.from.slot = Unscheduled)
  OBVIOUS
<1>5. /\ board' = [board EXCEPT ![j].tech = None,
                     ![j].status = IF reverting THEN "unassigned" ELSE @]
      /\ logged' = IF reverting THEN [logged EXCEPT ![j] = "unassigned"] ELSE logged
      /\ suggestions' = AfterEvents(j, IF reverting THEN {"unassigned"} ELSE {})
      /\ setBy' = [setBy EXCEPT ![j] = 0]
      /\ Crosses(r, {j})
  BY <1>1, <1>3, <1>4 DEF UnassignWrite
<1>6. /\ dispatcher' = [dispatcher EXCEPT ![r] = Idle] /\ acts' = acts
  BY DEF UnassignWrite, End
<1>7. /\ board \in [BoardJobs -> BoardRows] /\ logged \in [BoardJobs -> BoardStatus]
      /\ setBy \in [BoardJobs -> 0..MaxSuggestions] /\ acts \in 0..MaxActs
      /\ suggestions \in Seq(Suggestions) /\ Len(suggestions) <= MaxSuggestions
      /\ MaxSuggestions \in Nat /\ \A i \in BoardJobs : setBy[i] <= Len(suggestions)
  BY DispatchAssumption DEF DispatchAssumption, DispatchInv, DispatchTypeOK, SetByRows
<1>8. suggestions' = suggestions
  BY <1>5, <1>7, NothingHeard
<1>9. board[j] \in BoardRows
  BY <1>7
<1>10. PICK row \in BoardRows :
         /\ board' = [board EXCEPT ![j] = row]
         /\ row.status = IF reverting THEN "unassigned" ELSE board[j].status
  <2>1. PICK status : status = IF reverting THEN "unassigned" ELSE board[j].status
    OBVIOUS
  <2>2. PICK row : row = [board[j] EXCEPT !.tech = None, !.status = status]
    OBVIOUS
  <2>3. row \in BoardRows /\ row.status = status
    BY <1>9, <2>1, <2>2 DEF BoardRows, BoardStatus
  <2>4. board' = [board EXCEPT ![j] = row]
    BY <1>5, <1>7, <1>9, <2>1, <2>2 DEF BoardRows
  <2> QED
    BY <2>1, <2>3, <2>4
<1>11. /\ board' \in [BoardJobs -> BoardRows]
       /\ \A i \in BoardJobs : board'[i] = IF i = j THEN row ELSE board[i]
       /\ setBy' \in [BoardJobs -> 0..MaxSuggestions]
       /\ \A i \in BoardJobs : setBy'[i] = IF i = j THEN 0 ELSE setBy[i]
       /\ logged' \in [BoardJobs -> BoardStatus]
       /\ \A i \in BoardJobs :
            logged'[i] = IF i = j /\ reverting THEN "unassigned" ELSE logged[i]
  <2>1. /\ board' \in [BoardJobs -> BoardRows]
        /\ \A i \in BoardJobs : board'[i] = IF i = j THEN row ELSE board[i]
    BY <1>7, <1>10
  <2>2. /\ setBy' \in [BoardJobs -> 0..MaxSuggestions]
        /\ \A i \in BoardJobs : setBy'[i] = IF i = j THEN 0 ELSE setBy[i]
    BY <1>5, <1>7
  <2>3. /\ logged' \in [BoardJobs -> BoardStatus]
        /\ \A i \in BoardJobs :
             logged'[i] = IF i = j /\ reverting THEN "unassigned" ELSE logged[i]
    <3>1. logged' = IF reverting THEN [logged EXCEPT ![j] = "unassigned"] ELSE logged
      BY <1>5
    <3>2. CASE reverting
      BY <1>7, <3>1, <3>2 DEF BoardStatus
    <3>3. CASE ~reverting
      BY <1>7, <3>1, <3>3
    <3> QED
      BY <3>2, <3>3
  <2> QED
    BY <2>1, <2>2, <2>3
<1>12. Len(suggestions) \in Nat
  BY <1>7
<1>13. \A i \in BoardJobs : 0 < setBy'[i] =>
         /\ setBy'[i] = setBy[i]
         /\ board'[i].tech = board[i].tech /\ board'[i].slot = board[i].slot
  BY <1>11
<1>16. CountGrows
  BY Counted DEF UnassignWrite
<1>14. BoardWrites(r, {j}, Idle)
  BY <1>5, <1>6, <1>7, <1>8, <1>10, <1>11, <1>12, <1>13, <1>16
     DEF BoardWrites
<1>15. DaysKept'
  BY <1>5, <1>11, <1>13, DaysStay DEF Crosses
<1> QED
  BY <1>6, <1>7, <1>14, <1>15, IdleFlight, WriteKeepsBoard

LEMMA PatchKeepsBoard ==
  ASSUME DispatchInv, NEW r \in Requests, NEW j \in BoardJobs, PatchJob(r, j)
  PROVE  DispatchInv'
<1>1. /\ board \in [BoardJobs -> BoardRows] /\ logged \in [BoardJobs -> BoardStatus]
      /\ setBy \in [BoardJobs -> 0..MaxSuggestions] /\ acts \in 0..MaxActs
      /\ suggestions \in Seq(Suggestions) /\ Len(suggestions) <= MaxSuggestions
      /\ MaxSuggestions \in Nat /\ MaxActs \in Nat
      /\ \A i \in BoardJobs : setBy[i] <= Len(suggestions)
      /\ dispatcher \in [Requests -> DispatcherStates]
  BY DispatchAssumption DEF DispatchAssumption, DispatchInv, DispatchTypeOK, SetByRows
<1>2. /\ dispatcher' = [dispatcher EXCEPT ![r] = Idle] /\ acts' \in 0..MaxActs
      /\ UNCHANGED <<logged, suggestions>> /\ Crosses(r, {j})
      /\ setBy' = [setBy EXCEPT ![j] = 0]
  BY <1>1 DEF PatchJob
<1>3. PICK t \in {None, board[j].tech}, s \in {Unscheduled, board[j].slot} :
        board' = [board EXCEPT ![j].tech = t, ![j].slot = s]
  BY DEF PatchJob
<1>4. board[j] \in BoardRows
  BY <1>1
<1>5. PICK row \in BoardRows :
        board' = [board EXCEPT ![j] = row] /\ row.status = board[j].status
  <2>1. PICK row : row = [board[j] EXCEPT !.tech = t, !.slot = s]
    OBVIOUS
  <2>2. row \in BoardRows /\ row.status = board[j].status
    BY <1>3, <1>4, <2>1 DEF BoardRows
  <2>3. board' = [board EXCEPT ![j] = row]
    BY <1>1, <1>3, <1>4, <2>1 DEF BoardRows
  <2> QED
    BY <2>2, <2>3
<1>6. /\ board' \in [BoardJobs -> BoardRows]
      /\ \A i \in BoardJobs : board'[i] = IF i = j THEN row ELSE board[i]
      /\ setBy' \in [BoardJobs -> 0..MaxSuggestions]
      /\ \A i \in BoardJobs : setBy'[i] = IF i = j THEN 0 ELSE setBy[i]
  BY <1>1, <1>2, <1>5
<1>7. Len(suggestions) \in Nat
  BY <1>1
<1>8. \A i \in BoardJobs : 0 < setBy'[i] =>
        /\ setBy'[i] = setBy[i]
        /\ board'[i].tech = board[i].tech /\ board'[i].slot = board[i].slot
  BY <1>6
<1>11. CountGrows
  BY Counted DEF PatchJob
<1>9. BoardWrites(r, {j}, Idle)
  BY <1>1, <1>2, <1>5, <1>6, <1>7, <1>8, <1>11 DEF BoardWrites
<1>10. DaysKept'
  BY <1>2, <1>6, <1>8, DaysStay DEF Crosses
<1> QED
  BY <1>2, <1>9, <1>10, IdleFlight, WriteKeepsBoard

LEMMA TransitionKeepsBoard ==
  ASSUME DispatchInv, NEW r \in Requests, TransitionWrite(r)
  PROVE  DispatchInv'
<1>1. PICK g \in DispatcherStates : g = dispatcher[r]
  BY DEF DispatchInv, DispatchTypeOK
<1>2. g.step = "transition" /\ g.row \in BoardJobs /\ g.to \in BoardStatus
  BY <1>1, FlightShapes DEF TransitionWrite
<1>3. PICK j \in BoardJobs : j = g.row
  BY <1>2
<1>4. /\ board \in [BoardJobs -> BoardRows] /\ logged \in [BoardJobs -> BoardStatus]
      /\ setBy \in [BoardJobs -> 0..MaxSuggestions] /\ acts \in 0..MaxActs
      /\ suggestions \in Seq(Suggestions) /\ Len(suggestions) <= MaxSuggestions
      /\ MaxSuggestions \in Nat /\ \A i \in BoardJobs : setBy[i] <= Len(suggestions)
  BY DispatchAssumption DEF DispatchAssumption, DispatchInv, DispatchTypeOK, SetByRows
<1>5. /\ board' = [board EXCEPT ![j].status = g.to]
      /\ logged' = [logged EXCEPT ![j] = g.to]
      /\ Crosses(r, {j}) /\ UNCHANGED <<setBy, suggestions, acts>>
      /\ dispatcher' = [dispatcher EXCEPT ![r] = Idle]
  BY <1>1, <1>3 DEF TransitionWrite, End
<1>6. board[j] \in BoardRows
  BY <1>4
<1>7. PICK row \in BoardRows : /\ board' = [board EXCEPT ![j] = row]
                               /\ row.status = g.to /\ row.tech = board[j].tech
                               /\ row.slot = board[j].slot
  <2>1. PICK row : row = [board[j] EXCEPT !.status = g.to]
    OBVIOUS
  <2>2. row \in BoardRows /\ row.status = g.to
        /\ row.tech = board[j].tech /\ row.slot = board[j].slot
    BY <1>2, <1>6, <2>1 DEF BoardRows
  <2>3. board' = [board EXCEPT ![j] = row]
    BY <1>4, <1>5, <2>1
  <2> QED
    BY <2>2, <2>3
<1>8. /\ board' \in [BoardJobs -> BoardRows]
      /\ \A i \in BoardJobs : board'[i] = IF i = j THEN row ELSE board[i]
      /\ logged' \in [BoardJobs -> BoardStatus]
      /\ \A i \in BoardJobs : logged'[i] = IF i = j THEN g.to ELSE logged[i]
  BY <1>2, <1>4, <1>5, <1>7
<1>9. Len(suggestions) \in Nat
  BY <1>4
<1>10. \A i \in BoardJobs : 0 < setBy'[i] =>
         /\ setBy'[i] = setBy[i]
         /\ board'[i].tech = board[i].tech /\ board'[i].slot = board[i].slot
  BY <1>5, <1>7, <1>8
<1>13. CountGrows
  BY Counted DEF TransitionWrite
<1>11. BoardWrites(r, {j}, Idle)
  BY <1>4, <1>5, <1>7, <1>8, <1>9, <1>10, <1>13 DEF BoardWrites
<1>12. DaysKept'
  BY <1>4, <1>5, <1>10, DaysStay DEF Crosses
<1> QED
  BY <1>4, <1>5, <1>11, <1>12, IdleFlight, WriteKeepsBoard

(* Suggestions: approved, rejected, or made and applied by a run. *)
LEMMA ApproveKeepsBoard ==
  ASSUME DispatchInv, NEW r \in Requests, ApproveSuggestionWrite(r)
  PROVE  DispatchInv'
<1>1. PICK g \in DispatcherStates : g = dispatcher[r] /\ DecisionFits(g)
  <2>1. dispatcher[r] \in DispatcherStates /\ FlightFits(dispatcher[r])
    BY DEF DispatchInv, DispatchTypeOK
  <2> QED
    BY <2>1 DEF FlightFits
<1>2. /\ board \in [BoardJobs -> BoardRows] /\ logged \in [BoardJobs -> BoardStatus]
      /\ setBy \in [BoardJobs -> 0..MaxSuggestions] /\ acts \in 0..MaxActs
      /\ suggestions \in Seq(Suggestions) /\ Len(suggestions) <= MaxSuggestions
      /\ MaxSuggestions \in Nat /\ \A i \in BoardJobs : setBy[i] <= Len(suggestions)
  BY DispatchAssumption DEF DispatchAssumption, DispatchInv, DispatchTypeOK, SetByRows
<1>3. g.step = "approve"
  BY <1>1 DEF ApproveSuggestionWrite
<1>4. PICK k \in DOMAIN suggestions : k = g.row /\ k \in 1..MaxSuggestions
  BY <1>1, <1>3, FlightShapes DEF DecisionFits
<1>5. PICK s \in Suggestions : s = suggestions[k]
  BY <1>2
<1>6. s.job \in BoardJobs /\ s.tech \in Techs /\ s.slot \in Slots
  BY DEF Suggestions
<1>7. /\ board' = [board EXCEPT ![s.job] = Scheduled(@, s.tech, s.slot)]
      /\ setBy' = [setBy EXCEPT ![s.job] = 0]
      /\ suggestions' = [suggestions EXCEPT ![k].status = "applied"]
      /\ Crosses(r, {k, s.job, s.tech}) /\ UNCHANGED <<logged, acts>>
      /\ dispatcher' = [dispatcher EXCEPT ![r] = Idle]
  BY <1>1, <1>4, <1>5 DEF ApproveSuggestionWrite, End
<1>8. board[s.job] \in BoardRows
  BY <1>2, <1>6
<1>9. PICK row \in BoardRows : board' = [board EXCEPT ![s.job] = row]
  <2>1. PICK row : row = [board[s.job] EXCEPT !.status = "scheduled",
                            !.tech = s.tech, !.slot = s.slot]
    OBVIOUS
  <2>2. row \in BoardRows
    BY <1>6, <1>8, <2>1 DEF BoardRows, BoardStatus
  <2>3. board' = [board EXCEPT ![s.job] = row]
    BY <1>2, <1>6, <1>7, <2>1 DEF Scheduled
  <2> QED
    BY <2>2, <2>3
<1>10. PICK after \in Suggestions :
         /\ suggestions' = [suggestions EXCEPT ![k] = after]
         /\ after.job = s.job /\ after.status = "applied"
  <2>1. PICK after : after = [s EXCEPT !.status = "applied"]
    OBVIOUS
  <2>2. after \in Suggestions /\ after.job = s.job /\ after.status = "applied"
    BY <2>1 DEF Suggestions
  <2>3. suggestions' = [suggestions EXCEPT ![k] = after]
    BY <1>2, <1>5, <1>7, <2>1
  <2> QED
    BY <2>2, <2>3
<1>11. /\ suggestions' \in Seq(Suggestions) /\ Len(suggestions') = Len(suggestions)
       /\ DOMAIN suggestions' = DOMAIN suggestions
       /\ \A i \in DOMAIN suggestions :
            suggestions'[i] = IF i = k THEN after ELSE suggestions[i]
  BY <1>2, <1>10, ChangeRow
<1>12. /\ board' \in [BoardJobs -> BoardRows]
       /\ \A i \in BoardJobs : board'[i] = IF i = s.job THEN row ELSE board[i]
       /\ setBy' \in [BoardJobs -> 0..MaxSuggestions]
       /\ \A i \in BoardJobs : setBy'[i] = IF i = s.job THEN 0 ELSE setBy[i]
  BY <1>2, <1>6, <1>7, <1>9
<1>13. Len(suggestions) \in Nat
  BY <1>2
<1>14. \A i \in BoardJobs : 0 < setBy'[i] =>
         /\ setBy'[i] = setBy[i]
         /\ board'[i].tech = board[i].tech /\ board'[i].slot = board[i].slot
  BY <1>12
<1>15. \A i \in DOMAIN suggestions :
         /\ i \in DOMAIN suggestions' /\ suggestions'[i].job = suggestions[i].job
         /\ i \in {k, s.job, s.tech} \/ suggestions'[i].status = suggestions[i].status
         /\ suggestions'[i].status = "applied" =>
              suggestions[i].status = "applied"
              \/ suggestions[i].job \in {k, s.job, s.tech}
         /\ suggestions[i].status = "applied" => suggestions'[i].status = "applied"
  BY <1>5, <1>10, <1>11
<1>16. \A i \in BoardJobs :
         \/ logged'[i] = logged[i] /\ board'[i].status = board[i].status
         \/ \E n \in DOMAIN suggestions' :
              suggestions'[n].job = i /\ suggestions'[n].status = "applied"
  BY <1>7, <1>10, <1>11, <1>12
<1>19. CountGrows
  BY Counted DEF ApproveSuggestionWrite
<1>17. BoardWrites(r, {k, s.job, s.tech}, Idle)
  <2>1. /\ {k, s.job, s.tech} \subseteq BoardJobs \cup Techs \cup 1..MaxSuggestions
        /\ \A i \in BoardJobs \ {k, s.job, s.tech} : board'[i] = board[i]
    BY <1>4, <1>6, <1>12
  <2>2. /\ Len(suggestions') <= MaxSuggestions /\ Len(suggestions) <= Len(suggestions')
        /\ \A i \in BoardJobs : setBy'[i] <= Len(suggestions')
    BY <1>2, <1>11, <1>12, <1>13
  <2>3. logged' \in [BoardJobs -> BoardStatus]
    BY <1>2, <1>7
  <2> QED
    BY <1>7, <1>11, <1>12, <1>14, <1>15, <1>16, <1>19, <2>1, <2>2, <2>3
       DEF BoardWrites
<1>18. DaysKept'
  BY <1>7, <1>12, <1>14, DaysStay DEF Crosses
<1> QED
  BY <1>2, <1>7, <1>17, <1>18, IdleFlight, WriteKeepsBoard

LEMMA RejectKeepsBoard ==
  ASSUME DispatchInv, NEW r \in Requests, RejectSuggestionWrite(r)
  PROVE  DispatchInv'
<1>1. PICK g \in DispatcherStates : g = dispatcher[r] /\ DecisionFits(g)
  <2>1. dispatcher[r] \in DispatcherStates /\ FlightFits(dispatcher[r])
    BY DEF DispatchInv, DispatchTypeOK
  <2> QED
    BY <2>1 DEF FlightFits
<1>2. /\ board \in [BoardJobs -> BoardRows] /\ logged \in [BoardJobs -> BoardStatus]
      /\ setBy \in [BoardJobs -> 0..MaxSuggestions] /\ acts \in 0..MaxActs
      /\ suggestions \in Seq(Suggestions) /\ Len(suggestions) <= MaxSuggestions
      /\ MaxSuggestions \in Nat /\ \A i \in BoardJobs : setBy[i] <= Len(suggestions)
  BY DispatchAssumption DEF DispatchAssumption, DispatchInv, DispatchTypeOK, SetByRows
<1>3. g.step = "reject"
  BY <1>1 DEF RejectSuggestionWrite
<1>4. PICK k \in DOMAIN suggestions :
        /\ k = g.row /\ k \in 1..MaxSuggestions
        /\ k \in crossed \/ suggestions[k].status = "pending"
  BY <1>1, <1>3, FlightShapes DEF DecisionFits
<1>5. PICK s \in Suggestions : s = suggestions[k]
  BY <1>2
<1>6. /\ suggestions' = [suggestions EXCEPT ![k].status = "rejected"]
      /\ Crosses(r, {k}) /\ UNCHANGED <<board, logged, setBy, acts>>
      /\ dispatcher' = [dispatcher EXCEPT ![r] = Idle]
  BY <1>1, <1>4 DEF RejectSuggestionWrite, End
<1>7. PICK after \in Suggestions :
        /\ suggestions' = [suggestions EXCEPT ![k] = after]
        /\ after.job = s.job /\ after.status = "rejected"
  <2>1. PICK after : after = [s EXCEPT !.status = "rejected"]
    OBVIOUS
  <2>2. after \in Suggestions /\ after.job = s.job /\ after.status = "rejected"
    BY <2>1 DEF Suggestions
  <2>3. suggestions' = [suggestions EXCEPT ![k] = after]
    BY <1>2, <1>5, <1>6, <2>1
  <2> QED
    BY <2>2, <2>3
<1>8. /\ suggestions' \in Seq(Suggestions) /\ Len(suggestions') = Len(suggestions)
      /\ DOMAIN suggestions' = DOMAIN suggestions
      /\ \A i \in DOMAIN suggestions :
           suggestions'[i] = IF i = k THEN after ELSE suggestions[i]
  BY <1>2, <1>7, ChangeRow
<1>9. Len(suggestions) \in Nat
  BY <1>2
<1>10. \A i \in DOMAIN suggestions :
         /\ i \in DOMAIN suggestions' /\ suggestions'[i].job = suggestions[i].job
         /\ i \in {k} \/ suggestions'[i].status = suggestions[i].status
         /\ suggestions'[i].status = "applied" => suggestions[i].status = "applied"
         /\ suggestions[i].status = "applied" =>
              suggestions'[i].status = "applied" \/ i \in crossed
  BY <1>4, <1>5, <1>7, <1>8
<1>13. CountGrows
  BY Counted DEF RejectSuggestionWrite
<1>11. BoardWrites(r, {k}, Idle)
  BY <1>2, <1>4, <1>6, <1>8, <1>9, <1>10, <1>13 DEF BoardWrites
<1>12. DaysKept'
  BY <1>2, <1>6, DaysStay DEF Crosses
<1> QED
  BY <1>2, <1>6, <1>11, <1>12, IdleFlight, WriteKeepsBoard

LEMMA PersistKeepsBoard ==
  ASSUME DispatchInv, NEW r \in Requests, RunPersist(r)
  PROVE  DispatchInv'
<1>1. PICK g \in DispatcherStates : g = dispatcher[r] /\ ProposalFits(g)
  <2>1. dispatcher[r] \in DispatcherStates /\ FlightFits(dispatcher[r])
    BY DEF DispatchInv, DispatchTypeOK
  <2> QED
    BY <2>1 DEF FlightFits
<1>2. /\ board \in [BoardJobs -> BoardRows] /\ logged \in [BoardJobs -> BoardStatus]
      /\ setBy \in [BoardJobs -> 0..MaxSuggestions] /\ acts \in 0..MaxActs
      /\ suggestions \in Seq(Suggestions) /\ Len(suggestions) \in Nat
      /\ MaxSuggestions \in Nat /\ \A i \in BoardJobs : setBy[i] <= Len(suggestions)
  BY DispatchAssumption DEF DispatchAssumption, DispatchInv, DispatchTypeOK, SetByRows
<1>3. /\ g.step = "decide" /\ Len(suggestions) < MaxSuggestions
      /\ g.todo \in Seq(Proposals) /\ g.auto \in BOOLEAN
  <2>1. g.step = "decide" /\ Len(suggestions) < MaxSuggestions
    BY <1>1 DEF RunPersist
  <2> QED
    BY <2>1, FlightShapes
<1>4. PICK p \in Proposals :
        /\ p = Head(g.todo) /\ g.row = p.tech /\ g.todo # <<>>
        /\ g.auto => p.tech \in crossed \/
             \A i \in BoardJobs : 0 < setBy[i] /\ board[i].tech = p.tech =>
                                    ~Overlaps(board[i].slot, p.slot)
  BY <1>1, <1>3 DEF ProposalFits
<1>5. p.job \in BoardJobs /\ p.tech \in Techs /\ p.slot \in Slots
  BY ProposalType
<1>6. PICK new \in Suggestions :
        /\ suggestions' = Append(suggestions, new) /\ new.job = p.job
        /\ new.status = IF g.auto THEN "applied" ELSE "pending"
  <2>1. PICK new : new = [job |-> p.job, tech |-> p.tech, slot |-> p.slot,
                          status |-> IF g.auto THEN "applied" ELSE "pending"]
    OBVIOUS
  <2>2. new \in Suggestions /\ new.job = p.job
        /\ new.status = IF g.auto THEN "applied" ELSE "pending"
    BY <1>5, <2>1 DEF Suggestions
  <2> QED
    BY <1>1, <1>4, <2>1, <2>2 DEF RunPersist
<1>7. /\ suggestions' \in Seq(Suggestions) /\ Len(suggestions') = Len(suggestions) + 1
      /\ DOMAIN suggestions' = DOMAIN suggestions \cup {Len(suggestions) + 1}
      /\ \A k \in DOMAIN suggestions : suggestions'[k] = suggestions[k]
      /\ suggestions'[Len(suggestions) + 1] = new
  BY <1>2, <1>6, AppendRow
<1>8. PICK next \in DispatcherStates :
        /\ next.step \in {"idle", "next"}
        /\ dispatcher' = [dispatcher EXCEPT ![r] = next]
  <2>1. PICK rest : rest = Tail(g.todo)
    OBVIOUS
  <2>2. rest \in Seq(Proposals)
    BY <1>3, <1>4, <2>1
  <2>3. dispatcher' = [dispatcher EXCEPT ![r] =
          IF rest = <<>> THEN Idle ELSE [step |-> "next", row |-> None, todo |-> rest]]
    BY <1>1, <2>1 DEF RunPersist
  <2>4. [step |-> "next", row |-> None, todo |-> rest] \in DispatcherStates
    BY <2>2 DEF DispatcherStates
  <2> QED
    BY <2>3, <2>4, IdleFlight
<1>9. UNCHANGED <<logged, acts>>
  BY DEF RunPersist
<1>12. CountGrows
  BY Counted DEF RunPersist
<1>10. CASE ~g.auto
  <2>1. UNCHANGED <<board, setBy>> /\ Crosses(r, {})
    BY <1>1, <1>10 DEF RunPersist
  <2>2. BoardWrites(r, {}, next)
    BY <1>2, <1>3, <1>7, <1>8, <1>9, <1>12, <2>1 DEF BoardWrites
  <2>3. DaysKept'
    BY <1>2, <2>1, DaysStay DEF Crosses
  <2> QED
    BY <1>2, <1>8, <1>9, <2>2, <2>3, WriteKeepsBoard
<1>11. CASE g.auto
  <2>1. /\ board' = [board EXCEPT ![p.job] = Scheduled(@, p.tech, p.slot)]
        /\ setBy' = [setBy EXCEPT ![p.job] = Len(suggestions) + 1]
        /\ Crosses(r, {p.job, p.tech})
    BY <1>1, <1>4, <1>11 DEF RunPersist
  <2>2. PICK row \in BoardRows :
          /\ board' = [board EXCEPT ![p.job] = row]
          /\ row.tech = p.tech /\ row.slot = p.slot
    <3>1. PICK row : row = [board[p.job] EXCEPT !.status = "scheduled",
                              !.tech = p.tech, !.slot = p.slot]
      OBVIOUS
    <3>2. board[p.job] \in BoardRows
      BY <1>2, <1>5
    <3>3. row \in BoardRows /\ row.tech = p.tech /\ row.slot = p.slot
      BY <1>5, <3>1, <3>2 DEF BoardRows, BoardStatus
    <3>4. board' = [board EXCEPT ![p.job] = row]
      BY <1>2, <1>5, <2>1, <3>1 DEF Scheduled
    <3> QED
      BY <3>3, <3>4
  <2>3. /\ board' \in [BoardJobs -> BoardRows]
        /\ \A i \in BoardJobs : board'[i] = IF i = p.job THEN row ELSE board[i]
        /\ setBy' \in [BoardJobs -> 0..MaxSuggestions]
        /\ \A i \in BoardJobs :
             setBy'[i] = IF i = p.job THEN Len(suggestions) + 1 ELSE setBy[i]
    BY <1>2, <1>3, <1>5, <2>1, <2>2
  <2>4. \A j \in BoardJobs : 0 < setBy'[j] =>
          \/ /\ setBy'[j] = setBy[j]
             /\ board'[j].tech = board[j].tech /\ board'[j].slot = board[j].slot
          \/ board'[j].tech \in {p.job, p.tech}
    BY <2>2, <2>3
  <2>5. \A j \in BoardJobs : setBy'[j] <= Len(suggestions')
    BY <1>2, <1>7, <2>3
  <2>6. \A j \in BoardJobs :
          \/ logged'[j] = logged[j] /\ board'[j].status = board[j].status
          \/ \E k \in DOMAIN suggestions' :
               suggestions'[k].job = j /\ suggestions'[k].status = "applied"
    BY <1>6, <1>7, <1>9, <1>11, <2>3
  <2>7. \A k \in DOMAIN suggestions : k \in DOMAIN suggestions'
    BY <1>7
  <2>8. BoardWrites(r, {p.job, p.tech}, next)
    <3>1. /\ {p.job, p.tech} \subseteq BoardJobs \cup Techs \cup 1..MaxSuggestions
          /\ \A i \in BoardJobs \ {p.job, p.tech} : board'[i] = board[i]
      BY <1>5, <2>3
    <3>2. Len(suggestions') <= MaxSuggestions /\ Len(suggestions) <= Len(suggestions')
      BY <1>2, <1>3, <1>7
    <3>3. logged' \in [BoardJobs -> BoardStatus]
      BY <1>2, <1>9
    <3> QED
      BY <1>7, <1>8, <1>12, <2>1, <2>3, <2>4, <2>5, <2>6, <2>7, <3>1, <3>2, <3>3
         DEF BoardWrites
  <2>9. DaysKept'
    <3> SUFFICES ASSUME NEW i \in BoardJobs, NEW j \in BoardJobs,
                        0 < setBy'[i], setBy'[i] < setBy'[j],
                        board'[i].tech = board'[j].tech, board'[i].tech \notin crossed'
                 PROVE  ~Overlaps(board'[i].slot, board'[j].slot)
      BY DEF DaysKept, Overlaps, DefaultEnd
    <3>1. crossed \subseteq crossed' /\ 0 < setBy'[j]
      BY <1>2, <2>1, <2>3 DEF Crosses
    <3>2. i # p.job
      BY <1>2, <2>3
    <3>3. /\ setBy'[i] = setBy[i] /\ board'[i] = board[i]
          /\ board[i].tech \notin crossed
      BY <2>3, <3>1, <3>2
    <3>4. CASE j = p.job
      <4>1. board'[j].tech = p.tech /\ board'[j].slot = p.slot
        BY <2>2, <2>3, <3>4
      <4> QED
        BY <1>4, <1>11, <3>3, <4>1
    <3>5. CASE j # p.job
      <4>1. setBy'[j] = setBy[j] /\ board'[j] = board[j]
        BY <2>3, <3>5
      <4>2. ~Overlaps(board[i].slot, board[j].slot)
        BY <3>3, <4>1 DEF DispatchInv, DaysKept
      <4> QED
        BY <3>3, <4>1, <4>2
    <3> QED
      BY <3>4, <3>5
  <2> QED
    BY <1>2, <1>8, <1>9, <2>8, <2>9, WriteKeepsBoard
<1> QED
  BY <1>3, <1>10, <1>11

(* The agent's own tool: the job leaves the dispatcher's hands, and the     *)
(* count tells that the log may be behind.                                  *)
LEMMA AppliesKeepsBoard ==
  ASSUME DispatchInv, NEW r \in Requests, RunApplies(r)
  PROVE  DispatchInv'
<1>1. PICK g \in DispatcherStates : g = dispatcher[r] /\ g.step = "capture"
  BY DEF DispatchInv, DispatchTypeOK, RunApplies
<1>2. /\ board \in [BoardJobs -> BoardRows] /\ logged \in [BoardJobs -> BoardStatus]
      /\ setBy \in [BoardJobs -> 0..MaxSuggestions] /\ acts \in 0..MaxActs
      /\ suggestions \in Seq(Suggestions) /\ Len(suggestions) <= MaxSuggestions
      /\ MaxSuggestions \in Nat /\ MaxActs \in Nat
      /\ \A i \in BoardJobs : setBy[i] <= Len(suggestions)
      /\ unrecorded \in [BoardJobs -> 0..MaxActs]
      /\ \A i \in BoardJobs : unrecorded[i] <= acts
      /\ dispatcher \in [Requests -> DispatcherStates]
  BY DispatchAssumption DEF DispatchAssumption, DispatchInv, DispatchTypeOK, SetByRows
<1>3. PICK p \in Proposals :
        /\ board' = [board EXCEPT ![p.job] = Scheduled(@, p.tech, p.slot)]
        /\ setBy' = [setBy EXCEPT ![p.job] = 0]
        /\ unrecorded' = [unrecorded EXCEPT ![p.job] = @ + 1]
        /\ Crosses(r, {p.job, p.tech})
  BY DEF RunApplies
<1>4. /\ acts < MaxActs /\ acts' = acts + 1
      /\ UNCHANGED <<logged, suggestions>>
      /\ dispatcher' = [dispatcher EXCEPT ![r] = g]
  BY <1>1, <1>2 DEF RunApplies
<1>5. p.job \in BoardJobs /\ p.tech \in Techs /\ p.slot \in Slots
  BY ProposalType
<1>6. PICK row \in BoardRows : board' = [board EXCEPT ![p.job] = row]
  <2>1. PICK row : row = [board[p.job] EXCEPT !.status = "scheduled",
                            !.tech = p.tech, !.slot = p.slot]
    OBVIOUS
  <2>2. board[p.job] \in BoardRows
    BY <1>2, <1>5
  <2>3. row \in BoardRows
    BY <1>5, <2>1, <2>2 DEF BoardRows, BoardStatus
  <2>4. board' = [board EXCEPT ![p.job] = row]
    BY <1>2, <1>3, <1>5, <2>1 DEF Scheduled
  <2> QED
    BY <2>3, <2>4
<1>7. /\ board' \in [BoardJobs -> BoardRows]
      /\ \A i \in BoardJobs : board'[i] = IF i = p.job THEN row ELSE board[i]
      /\ setBy' \in [BoardJobs -> 0..MaxSuggestions]
      /\ \A i \in BoardJobs : setBy'[i] = IF i = p.job THEN 0 ELSE setBy[i]
  BY <1>2, <1>3, <1>5, <1>6
<1>8. /\ CountGrows /\ 0 < unrecorded'[p.job] /\ acts' \in 0..MaxActs
  <2>1. \A i \in BoardJobs : unrecorded[i] \in 0..MaxActs /\ unrecorded[i] + 1 <= acts'
    BY <1>2, <1>4
  <2>2. \A i \in BoardJobs :
          unrecorded'[i] = IF i = p.job THEN unrecorded[i] + 1 ELSE unrecorded[i]
    BY <1>2, <1>3, <1>5
  <2>3. acts' \in 0..MaxActs
    BY <1>2, <1>4
  <2>4. unrecorded' \in [BoardJobs -> 0..MaxActs]
    <3>1. unrecorded[p.job] + 1 \in 0..MaxActs
      BY <1>2, <1>5, <2>1, <2>3
    <3> QED
      BY <1>2, <1>3, <1>5, <3>1
  <2>5. \A i \in BoardJobs : unrecorded'[i] <= acts' /\ unrecorded[i] <= unrecorded'[i]
    BY <1>2, <2>1, <2>2, <2>3
  <2> QED
    BY <1>2, <1>5, <2>1, <2>2, <2>3, <2>4, <2>5 DEF CountGrows
<1>9. Len(suggestions) \in Nat
  BY <1>2
<1>10. \A i \in BoardJobs : 0 < setBy'[i] =>
         /\ setBy'[i] = setBy[i]
         /\ board'[i].tech = board[i].tech /\ board'[i].slot = board[i].slot
  BY <1>7
<1>11. \A i \in BoardJobs :
         \/ 0 < unrecorded'[i]
         \/ logged'[i] = logged[i] /\ board'[i].status = board[i].status
  BY <1>4, <1>7, <1>8
<1>12. BoardWrites(r, {p.job, p.tech}, g)
  <2>1. /\ {p.job, p.tech} \subseteq BoardJobs \cup Techs \cup 1..MaxSuggestions
        /\ \A i \in BoardJobs \ {p.job, p.tech} : board'[i] = board[i]
    BY <1>5, <1>7
  <2> QED
    BY <1>2, <1>3, <1>4, <1>7, <1>8, <1>9, <1>10, <1>11, <2>1 DEF BoardWrites
<1>13. DaysKept'
  BY <1>3, <1>7, <1>10, DaysStay DEF Crosses
<1> QED
  BY <1>1, <1>8, <1>12, <1>13, WriteKeepsBoard

LEMMA DispatchStepInv == DispatchInv /\ [DispatchNext]_dispatchVars => DispatchInv'
<1>1. ASSUME DispatchInv, DispatchNext PROVE DispatchInv'
  <2>1. ASSUME NEW r \in Requests, NEW j \in BoardJobs,
               \/ AssignJobRead(r, j) \/ UnassignRead(r, j)
               \/ PatchJob(r, j) \/ TransitionRead(r, j)
        PROVE  DispatchInv'
    BY <1>1, <2>1, PatchKeepsBoard, ReadsKeepBoard
  <2>2. ASSUME NEW r \in Requests,
               \/ AssignJobWrite(r) \/ UnassignWrite(r) \/ TransitionWrite(r)
               \/ RunStart(r) \/ RunCapture(r) \/ RunCheck(r) \/ RunPersist(r)
               \/ RunEnds(r) \/ RunApplies(r)
        PROVE  DispatchInv'
    BY <1>1, <2>2, AssignKeepsBoard, UnassignKeepsBoard, TransitionKeepsBoard,
       ReadsKeepBoard, RunsKeepBoard, PersistKeepsBoard, AppliesKeepsBoard
  <2>3. ASSUME NEW r \in Requests,
               \/ \E k \in DOMAIN suggestions :
                    ApproveSuggestionRead(r, k) \/ RejectSuggestionRead(r, k)
               \/ ApproveSuggestionWrite(r) \/ RejectSuggestionWrite(r)
        PROVE  DispatchInv'
    BY <1>1, <2>3, ReadsKeepBoard, ApproveKeepsBoard, RejectKeepsBoard
  <2> QED
    BY <1>1, <2>1, <2>2, <2>3 DEF DispatchNext
<1>2. DispatchInv /\ UNCHANGED dispatchVars => DispatchInv'
  BY DEF dispatchVars, DispatchInv, DispatchTypeOK, SetByRows, DaysKept,
     StatusLogged, FlightFits, JobFits, DecisionFits, ProposalFits
<1> QED
  BY <1>1, <1>2

(* Two jobs the dispatcher gave one technician do not overlap while nobody  *)
(* moved them or crossed his day, and the log ends with the status of each  *)
(* job but for suggestions that were applied and jobs the agent's tool      *)
(* scheduled, whatever staff and runs do at once (dispatcher-runner,        *)
(* dispatcher-tools, assignment-routes, jobs-routes).                       *)
THEOREM BoardAlwaysSound == DispatchSpec => []BoardSound
<1> QED
  BY DispatchInitInv, DispatchStepInv, DispatchSound, PTL DEF DispatchSpec

(* Which steps write a job's status or a suggestion's. *)
LEMMA BoardWriters ==
  ASSUME DispatchInv, DispatchNext
  PROVE  \/ board' = board /\ UNCHANGED suggestions
         \/ \E r \in Requests :
              \/ \E j \in BoardJobs : PatchJob(r, j)
              \/ AssignJobWrite(r) \/ UnassignWrite(r) \/ TransitionWrite(r)
              \/ RunPersist(r) \/ RunApplies(r)
              \/ ApproveSuggestionWrite(r) \/ RejectSuggestionWrite(r)
  BY DEF DispatchNext, AssignJobRead, UnassignRead, TransitionRead, Begin,
     RunStart, RunCapture, RunCheck, RunEnds, ApproveSuggestionRead,
     RejectSuggestionRead

LEMMA FinishedStays == DispatchInv /\ DispatchNext => FinishedJobsStay
<1> SUFFICES ASSUME DispatchInv, DispatchNext, NEW j \in BoardJobs,
                    BoardMatrix[board[j].status] = {},
                    board'[j].status # board[j].status
             PROVE  \/ AppliedTo(j)' # AppliedTo(j) \/ j \in crossed'
                    \/ unrecorded'[j] # unrecorded[j]
  BY DEF FinishedJobsStay
<1>1. /\ board \in [BoardJobs -> BoardRows] /\ suggestions \in Seq(Suggestions)
      /\ Len(suggestions) \in Nat
  BY DEF DispatchInv, DispatchTypeOK
<1>2. /\ board[j].status # "unassigned" /\ board[j].status # "scheduled"
      /\ board[j] \in BoardRows
  BY <1>1, MatrixType
<1>3. ASSUME NEW r \in Requests, NEW i \in BoardJobs, PatchJob(r, i) PROVE FALSE
  <2>1. PICK t, s : board' = [board EXCEPT ![i].tech = t, ![i].slot = s]
    BY <1>3 DEF PatchJob
  <2> QED
    BY <1>1, <1>2, <2>1 DEF BoardRows
<1>4. ASSUME NEW r \in Requests,
             AssignJobWrite(r) \/ UnassignWrite(r) \/ TransitionWrite(r)
      PROVE  j \in crossed
  <2>1. PICK g \in DispatcherStates : g = dispatcher[r] /\ JobFits(g)
    <3>1. dispatcher[r] \in DispatcherStates /\ FlightFits(dispatcher[r])
      BY DEF DispatchInv, DispatchTypeOK
    <3> QED
      BY <3>1 DEF FlightFits
  <2>2. g.step \in {"assign", "unassign", "transition"}
    BY <1>4, <2>1 DEF AssignJobWrite, UnassignWrite, TransitionWrite
  <2>3. g.row \in BoardJobs
    BY <2>2, FlightShapes
  <2>4. CASE g.step = "assign"
    <3>1. AssignJobWrite(r)
      BY <1>4, <2>1, <2>4 DEF UnassignWrite, TransitionWrite
    <3>2. j = g.row /\ g.from.status = "unassigned"
      BY <1>1, <1>2, <2>1, <2>3, <3>1 DEF AssignJobWrite
    <3> QED
      BY <1>2, <2>1, <2>4, <3>2 DEF JobFits
  <2>5. CASE g.step = "unassign"
    <3>1. UnassignWrite(r)
      BY <1>4, <2>1, <2>5 DEF AssignJobWrite, TransitionWrite
    <3>2. PICK reverting \in BOOLEAN :
            /\ reverting = (g.from.status = "scheduled" /\ g.from.slot = Unscheduled)
            /\ board' = [board EXCEPT ![g.row].tech = None,
                           ![g.row].status = IF reverting THEN "unassigned" ELSE @]
      BY <2>1, <3>1 DEF UnassignWrite
    <3>3. board[g.row] \in BoardRows
      BY <1>1, <2>3
    <3>4. j = g.row /\ reverting
      BY <1>1, <1>2, <2>3, <3>2, <3>3 DEF BoardRows
    <3> QED
      BY <1>2, <2>1, <2>5, <3>2, <3>4 DEF JobFits
  <2>6. CASE g.step = "transition"
    <3>1. TransitionWrite(r)
      BY <1>4, <2>1, <2>6 DEF AssignJobWrite, UnassignWrite
    <3>2. j = g.row
      BY <1>1, <2>1, <2>3, <3>1 DEF TransitionWrite
    <3> QED
      BY <2>1, <2>6, <3>2 DEF JobFits
  <2> QED
    BY <2>2, <2>4, <2>5, <2>6
<1>5. ASSUME NEW r \in Requests, AssignJobWrite(r) \/ UnassignWrite(r) \/ TransitionWrite(r)
      PROVE  j \in crossed'
  BY <1>4, <1>5 DEF AssignJobWrite, UnassignWrite, TransitionWrite, Crosses
<1>6. ASSUME NEW r \in Requests, RunPersist(r) PROVE AppliedTo(j)' # AppliedTo(j)
  <2>1. PICK g \in DispatcherStates : g = dispatcher[r] /\ ProposalFits(g)
    <3>1. dispatcher[r] \in DispatcherStates /\ FlightFits(dispatcher[r])
      BY DEF DispatchInv, DispatchTypeOK
    <3> QED
      BY <3>1 DEF FlightFits
  <2>2. PICK p : p = Head(g.todo)
    OBVIOUS
  <2>3. /\ suggestions' = Append(suggestions,
             [job |-> p.job, tech |-> p.tech, slot |-> p.slot,
              status |-> IF g.auto THEN "applied" ELSE "pending"])
        /\ board' = IF g.auto THEN [board EXCEPT ![p.job] = Scheduled(@, p.tech, p.slot)]
                    ELSE board
    BY <1>6, <2>1, <2>2 DEF RunPersist
  <2>4. g.auto /\ j = p.job
    BY <1>1, <2>3
  <2>5. PICK new : new = [job |-> p.job, tech |-> p.tech, slot |-> p.slot,
                          status |-> IF g.auto THEN "applied" ELSE "pending"]
    OBVIOUS
  <2>6. /\ Len(suggestions) + 1 \in DOMAIN suggestions'
        /\ suggestions'[Len(suggestions) + 1] = new
        /\ Len(suggestions) + 1 \notin DOMAIN suggestions
    <3>1. suggestions' = Append(suggestions, new)
      BY <2>3, <2>5
    <3> QED
      BY <1>1, <3>1
  <2>7. new.job = j /\ new.status = "applied"
    BY <2>4, <2>5
  <2>8. Len(suggestions) + 1 \in AppliedTo(j)' /\ Len(suggestions) + 1 \notin AppliedTo(j)
    BY <2>6, <2>7 DEF AppliedTo
  <2> QED
    BY <2>8
<1>7. ASSUME NEW r \in Requests, ApproveSuggestionWrite(r)
      PROVE  AppliedTo(j)' # AppliedTo(j) \/ j \in crossed'
  <2>1. PICK g \in DispatcherStates : g = dispatcher[r] /\ DecisionFits(g)
    <3>1. dispatcher[r] \in DispatcherStates /\ FlightFits(dispatcher[r])
      BY DEF DispatchInv, DispatchTypeOK
    <3> QED
      BY <3>1 DEF FlightFits
  <2>2. g.step = "approve"
    BY <1>7, <2>1 DEF ApproveSuggestionWrite
  <2>3. PICK k \in DOMAIN suggestions :
          /\ k = g.row /\ suggestions[k].job \in BoardJobs
          /\ suggestions[k].status = "applied" => suggestions[k].job \in crossed
    BY <2>1, <2>2 DEF DecisionFits
  <2>4. /\ board' = [board EXCEPT ![suggestions[k].job] =
                       Scheduled(@, suggestions[k].tech, suggestions[k].slot)]
        /\ suggestions' = [suggestions EXCEPT ![k].status = "applied"]
        /\ crossed \subseteq crossed'
    BY <1>7, <2>1, <2>3 DEF ApproveSuggestionWrite, Crosses
  <2>5. j = suggestions[k].job
    BY <1>1, <2>3, <2>4
  <2>6. CASE suggestions[k].status = "applied"
    BY <2>3, <2>4, <2>5, <2>6
  <2>7. CASE suggestions[k].status # "applied"
    <3>1. suggestions[k] \in Suggestions
      BY <1>1
    <3>2. PICK after : after = [suggestions[k] EXCEPT !.status = "applied"]
      OBVIOUS
    <3>3. after.job = j /\ after.status = "applied"
      BY <2>5, <3>1, <3>2 DEF Suggestions
    <3>4. suggestions' = [suggestions EXCEPT ![k] = after]
      BY <1>1, <2>4, <3>2
    <3>5. k \in DOMAIN suggestions' /\ suggestions'[k] = after
      BY <1>1, <3>4
    <3>6. k \in AppliedTo(j)' /\ k \notin AppliedTo(j)
      BY <2>7, <3>3, <3>5 DEF AppliedTo
    <3> QED
      BY <3>6
  <2> QED
    BY <2>6, <2>7
<1>8. ASSUME NEW r \in Requests, RejectSuggestionWrite(r) PROVE FALSE
  BY <1>8 DEF RejectSuggestionWrite
<1>9. ASSUME NEW r \in Requests, RunApplies(r) PROVE unrecorded'[j] # unrecorded[j]
  <2>1. PICK p \in Proposals :
          /\ board' = [board EXCEPT ![p.job] = Scheduled(@, p.tech, p.slot)]
          /\ unrecorded' = [unrecorded EXCEPT ![p.job] = @ + 1]
    BY <1>9 DEF RunApplies
  <2>2. j = p.job
    BY <1>1, <2>1
  <2>3. unrecorded \in [BoardJobs -> 0..MaxActs] /\ MaxActs \in Nat
    BY DispatchAssumption DEF DispatchAssumption, DispatchInv, DispatchTypeOK
  <2> QED
    BY <2>1, <2>2, <2>3
<1> QED
  BY <1>3, <1>5, <1>6, <1>7, <1>8, <1>9, BoardWriters

LEMMA ApprovalsTakeNobodysJob ==
  DispatchInv /\ DispatchNext => ApprovalTakesNobodysJob /\ RejectedStaysRejected
<1> SUFFICES ASSUME DispatchInv, DispatchNext
             PROVE  ApprovalTakesNobodysJob /\ RejectedStaysRejected
  OBVIOUS
<1>1. suggestions \in Seq(Suggestions) /\ Len(suggestions) \in Nat
  BY DEF DispatchInv, DispatchTypeOK
<1>2. ASSUME \A k \in DOMAIN suggestions :
               suggestions'[k].status = suggestions[k].status
               \/ suggestions'[k].status = "rejected"
      PROVE  ApprovalTakesNobodysJob /\ RejectedStaysRejected
  BY <1>2 DEF ApprovalTakesNobodysJob, RejectedStaysRejected
<1>3. ASSUME NEW r \in Requests,
             \/ \E j \in BoardJobs : PatchJob(r, j)
             \/ AssignJobWrite(r) \/ UnassignWrite(r) \/ TransitionWrite(r)
             \/ RunApplies(r)
      PROVE  suggestions' = suggestions
  <2>1. CASE (\E j \in BoardJobs : PatchJob(r, j)) \/ TransitionWrite(r) \/ RunApplies(r)
    BY <2>1 DEF PatchJob, TransitionWrite, RunApplies
  <2>2. CASE AssignJobWrite(r)
    <3>1. PICK heard : "canceled" \notin heard /\ suggestions' = AfterEvents(dispatcher[r].row, heard)
      BY <2>2 DEF AssignJobWrite
    <3> QED
      BY <1>1, <3>1, NothingHeard
  <2>3. CASE UnassignWrite(r)
    <3>1. PICK heard : "canceled" \notin heard /\ suggestions' = AfterEvents(dispatcher[r].row, heard)
      BY <2>3 DEF UnassignWrite
    <3> QED
      BY <1>1, <3>1, NothingHeard
  <2> QED
    BY <1>3, <2>1, <2>2, <2>3
<1>4. ASSUME NEW r \in Requests, RunPersist(r)
      PROVE  \A k \in DOMAIN suggestions : suggestions'[k] = suggestions[k]
  <2>1. PICK new : suggestions' = Append(suggestions, new)
    BY <1>4 DEF RunPersist
  <2> QED
    BY <1>1, <2>1
<1>5. ASSUME NEW r \in Requests, RejectSuggestionWrite(r)
      PROVE  \A k \in DOMAIN suggestions :
               suggestions'[k].status = suggestions[k].status
               \/ suggestions'[k].status = "rejected"
  <2>1. suggestions' = [suggestions EXCEPT ![dispatcher[r].row].status = "rejected"]
    BY <1>5 DEF RejectSuggestionWrite
  <2>2. \A s \in Suggestions : [s EXCEPT !.status = "rejected"].status = "rejected"
    BY DEF Suggestions
  <2> QED
    BY <1>1, <2>1, <2>2
<1>6. ASSUME NEW r \in Requests, ApproveSuggestionWrite(r)
      PROVE  ApprovalTakesNobodysJob /\ RejectedStaysRejected
  <2>1. PICK g \in DispatcherStates : g = dispatcher[r] /\ DecisionFits(g)
    <3>1. dispatcher[r] \in DispatcherStates /\ FlightFits(dispatcher[r])
      BY DEF DispatchInv, DispatchTypeOK
    <3> QED
      BY <3>1 DEF FlightFits
  <2>2. g.step = "approve"
    BY <1>6, <2>1 DEF ApproveSuggestionWrite
  <2>3. PICK k \in DOMAIN suggestions :
          /\ k = g.row /\ (k \in crossed \/ suggestions[k].status = "pending")
          /\ \E j \in BoardJobs :
               /\ j = suggestions[k].job
               /\ j \in crossed \/ board[j].status = "unassigned" \/ board[j].tech = None
    BY <2>1, <2>2 DEF DecisionFits
  <2>4. suggestions' = [suggestions EXCEPT ![k].status = "applied"]
    BY <1>6, <2>1, <2>3 DEF ApproveSuggestionWrite
  <2>5. \A n \in DOMAIN suggestions : n # k => suggestions'[n] = suggestions[n]
    BY <1>1, <2>4
  <2> QED
    BY <2>3, <2>5 DEF ApprovalTakesNobodysJob, RejectedStaysRejected
<1> QED
  BY <1>2, <1>3, <1>4, <1>5, <1>6, BoardWriters

(* A finished job is taken up again only by applying a suggestion, by the   *)
(* agent's own tool or across another request, an approval takes no         *)
(* scheduled job from its technician, and a suggestion rejected unseen by   *)
(* an approval stays rejected.                                              *)
THEOREM BoardAlwaysStands ==
  DispatchSpec =>
    [][FinishedJobsStay /\ ApprovalTakesNobodysJob /\ RejectedStaysRejected]_dispatchVars
<1>1. DispatchInv /\ [DispatchNext]_dispatchVars
        => [FinishedJobsStay /\ ApprovalTakesNobodysJob
            /\ RejectedStaysRejected]_dispatchVars
  BY FinishedStays, ApprovalsTakeNobodysJob
<1> QED
  BY <1>1, DispatchInitInv, DispatchStepInv, PTL DEF DispatchSpec

-----------------------------------------------------------------------------
(* Intake.                                                                  *)

(* A request knows a customer and a note that exist; of a customer deleted  *)
(* under it the deletion is on record; and a delivery that matched goes to  *)
(* the branch of the customer.                                              *)
HandFits(d) ==
  /\ d # Idle /\ d.client # NoClient =>
       d.client \in ClientIds /\ (clients[d.client].gone => d.client \in blurred)
  /\ d.step = "linking" => d.note \in DOMAIN notes
  /\ d.step \in {"matched", "looked"} /\ d.client # NoClient =>
       d.town = clients[d.client].town

DeskFits == \A r \in Requests : HandFits(desk[r])

RowsPlaced ==
  /\ \A n \in DOMAIN notes : notes[n].client # NoClient => notes[n].client \in ClientIds
  /\ NoteFollowsClient
  /\ \A k \in DOMAIN leads : leads[k].client \in ClientIds

OneNotePerRef ==
  \A m, n \in DOMAIN notes : notes[m].ref # None /\ notes[m].ref = notes[n].ref => m = n

Overlapped == \E contact \in Contacts : contact \in blurred

SubmitsLead(d) == d.step \in {"found", "fresh"}

(* While no two leads overlapped: an open draft of the last minutes is the  *)
(* only one for its door, a lead that saw none is still right, and no other *)
(* lead is for the same customer, or for none yet.                          *)
LeadsApart ==
  /\ \A k \in DOMAIN leads :
       leads[k].recent /\ leads[k].draft =>
         Repeats(leads[k].client, leads[k].design) = {k}
  /\ \A r \in Requests :
       /\ desk[r].step = "fresh" /\ desk[r].client # NoClient =>
            Repeats(desk[r].client, desk[r].design) = {}
       /\ \A q \in Requests :
            SubmitsLead(desk[q]) /\ SubmitsLead(desk[r]) /\ q # r =>
              desk[q].client # desk[r].client

IntakeInv ==
  /\ IntakeTypeOK /\ Len(notes) <= MaxNotes
  /\ DeskFits /\ RowsPlaced /\ OneNotePerRef
  /\ Overlapped \/ LeadsApart

LEMMA DeskShapes ==
  ASSUME NEW d \in DeskStates
  PROVE  /\ d # Idle => d.client \in 0..MaxClients
         /\ d.step \in {"noting", "booking", "linking"} => d.client \in 1..MaxClients
         /\ d = Idle <=> d.step = "idle"
         /\ d.step = "linking" => d.note \in 1..MaxNotes
         /\ d.step \in {"matched", "looked"} =>
              d.ref \in SourceRefs \cup {None} /\ d.town \in Towns
         /\ SubmitsLead(d) => d.contact \in Contacts /\ d.design \in Designs
         /\ SubmitsLead(d) <=> d # Idle /\ "design" \in DOMAIN d
  BY IntakeAssumption DEF DeskStates, Idle, SubmitsLead

LEMMA DeskOf ==
  ASSUME IntakeInv, NEW r \in Requests
  PROVE  desk[r] \in DeskStates /\ HandFits(desk[r])
  BY DEF IntakeInv, IntakeTypeOK, DeskFits

LEMMA IntakeInitInv == IntakeInit => IntakeInv
<1> SUFFICES ASSUME IntakeInit PROVE IntakeInv
  OBVIOUS
<1>1. /\ clients = <<>> /\ notes = <<>> /\ leads = <<>> /\ bookings = <<>>
      /\ desk = [r \in Requests |-> Idle] /\ errands = 0
  BY DEF IntakeInit, NoRequests
<1>2. Idle \in DeskStates /\ Idle.step = "idle"
  BY DEF DeskStates, Idle
<1>3. IntakeTypeOK /\ Len(notes) <= MaxNotes
  BY <1>1, <1>2, IntakeAssumption DEF IntakeTypeOK
<1>4. DOMAIN notes = {} /\ DOMAIN leads = {}
  BY <1>1
<1>5. DeskFits
  BY <1>1, <1>2 DEF DeskFits, HandFits
<1>6. RowsPlaced /\ OneNotePerRef
  BY <1>4 DEF RowsPlaced, OneNotePerRef, NoteFollowsClient
<1>7. LeadsApart
  BY <1>1, <1>2, <1>4 DEF LeadsApart, SubmitsLead
<1> QED
  BY <1>3, <1>5, <1>6, <1>7 DEF IntakeInv

(* What a request has in hand stays good while customers are only added and *)
(* edited, notes only added and changed in place.                           *)
LEMMA HandKeeps ==
  ASSUME NEW d \in DeskStates, HandFits(d), blurred \subseteq blurred',
         DOMAIN notes \subseteq DOMAIN notes',
         \A c \in ClientIds :
           /\ c \in DOMAIN clients' /\ clients'[c].town = clients[c].town
           /\ d # Idle /\ c = d.client /\ clients'[c].gone =>
                clients[c].gone \/ c \in blurred'
  PROVE  HandFits(d)'
<1>1. d \in DeskStates
  OBVIOUS
<1>2. d.step \in {"matched", "looked"} => d # Idle
  BY DeskShapes
<1> QED
  BY <1>2 DEF HandFits, ClientIds

(* A request moves on, and at most a booking is written. *)
LEMMA DeskStep ==
  ASSUME IntakeInv, NEW r \in Requests, NEW d \in DeskStates,
         desk' = [desk EXCEPT ![r] = d], UNCHANGED <<clients, notes, leads>>,
         bookings' \in Seq(ClientIds), errands' \in 0..MaxErrands,
         blurred \subseteq blurred', HandFits(d)',
         SubmitsLead(d) =>
           \/ Overlapped'
           \/ /\ d.step = "fresh" /\ d.client # NoClient =>
                   Repeats(d.client, d.design) = {}
              /\ \A q \in Requests \ {r} :
                   SubmitsLead(desk[q]) => desk[q].client # d.client
  PROVE  IntakeInv'
<1>1. /\ desk' \in [Requests -> DeskStates] /\ desk'[r] = d
      /\ \A q \in Requests \ {r} : desk'[q] = desk[q]
  BY DEF IntakeInv, IntakeTypeOK
<1>2. IntakeTypeOK' /\ (Len(notes) <= MaxNotes)'
  BY <1>1 DEF IntakeInv, IntakeTypeOK, ClientIds
<1>3. DeskFits'
  <2>1. SUFFICES ASSUME NEW q \in Requests, q # r PROVE HandFits(desk[q])'
    BY <1>1 DEF DeskFits
  <2>2. PICK g \in DeskStates : g = desk[q] /\ HandFits(g)
    BY DeskOf
  <2>3. HandFits(g)'
    BY <2>2, HandKeeps DEF ClientIds
  <2> QED
    BY <1>1, <2>1, <2>2, <2>3 DEF HandFits
<1>4. RowsPlaced' /\ OneNotePerRef'
  BY DEF IntakeInv, RowsPlaced, OneNotePerRef, NoteFollowsClient, ClientIds
<1>5. ASSUME ~Overlapped' PROVE LeadsApart'
  <2>1. ~Overlapped /\ LeadsApart
    BY <1>5 DEF Overlapped, IntakeInv
  <2>2. ASSUME NEW k \in DOMAIN leads, leads[k].recent, leads[k].draft
        PROVE  Repeats(leads[k].client, leads[k].design)' = {k}
    BY <2>1, <2>2 DEF LeadsApart, Repeats
  <2>3. ASSUME NEW q \in Requests, desk'[q].step = "fresh",
               desk'[q].client # NoClient
        PROVE  Repeats(desk[q].client, desk[q].design)' = {}
    <3>1. Repeats(desk'[q].client, desk'[q].design) = {}
      BY <1>1, <1>5, <2>1, <2>3 DEF LeadsApart, SubmitsLead
    <3> QED
      BY <3>1 DEF Repeats
  <2>4. ASSUME NEW p \in Requests, NEW q \in Requests, p # q,
               SubmitsLead(desk'[p]), SubmitsLead(desk'[q])
        PROVE  desk'[p].client # desk'[q].client
    <3>1. CASE p = r
      BY <1>1, <1>5, <2>4, <3>1
    <3>2. CASE q = r
      BY <1>1, <1>5, <2>4, <3>2
    <3>3. CASE p # r /\ q # r
      BY <1>1, <2>1, <2>4, <3>3 DEF LeadsApart
    <3> QED
      BY <3>1, <3>2, <3>3
  <2> QED
    BY <2>2, <2>3, <2>4 DEF LeadsApart, SubmitsLead
<1> QED
  BY <1>2, <1>3, <1>4, <1>5 DEF IntakeInv

LEMMA IdleDesk == Idle \in DeskStates /\ Idle.step = "idle" /\ ~SubmitsLead(Idle)
  BY DEF DeskStates, Idle, SubmitsLead

LEMMA IdleInHand == HandFits(Idle)'
  BY IdleDesk DEF HandFits

LEMMA ErrandCounts ==
  ASSUME IntakeInv, NEW r, NEW d, Errand(r, d)
  PROVE  /\ desk[r] = Idle /\ desk' = [desk EXCEPT ![r] = d]
         /\ errands' \in 0..MaxErrands
  BY IntakeAssumption DEF IntakeInv, IntakeTypeOK, Errand

LEMMA NewestMatch ==
  ASSUME IntakeInv, NEW contact
  PROVE  Match(contact) = NoClient \/ Match(contact) \in Living
<1>1. Matching(contact) \subseteq 1..Len(clients) /\ Len(clients) \in Nat
  BY DEF IntakeInv, IntakeTypeOK, Matching, Living, ClientIds
<1>2. CASE Matching(contact) = {}
  BY <1>2 DEF Match
<1>3. CASE Matching(contact) # {}
  <2>1. \E c \in Matching(contact) : \A b \in Matching(contact) : b <= c
    BY <1>1, <1>3, Greatest
  <2>2. Match(contact) \in Matching(contact)
    BY <1>3, <2>1 DEF Match
  <2> QED
    BY <2>2 DEF Matching
<1> QED
  BY <1>2, <1>3

LEMMA LivingClients ==
  ASSUME IntakeInv
  PROVE  /\ clients \in Seq(ClientRows) /\ Len(clients) \in 0..MaxClients
         /\ ClientIds = 1..Len(clients)
         /\ \A c \in Living : /\ c \in 1..MaxClients /\ c \in ClientIds
                              /\ ~clients[c].gone /\ c # NoClient
         /\ \A c \in ClientIds : clients[c] \in ClientRows
<1>1. clients \in Seq(ClientRows) /\ Len(clients) <= MaxClients /\ Len(clients) \in Nat
  BY DEF IntakeInv, IntakeTypeOK
<1>2. ClientIds = 1..Len(clients)
  BY <1>1 DEF ClientIds
<1> QED
  BY <1>1, <1>2, IntakeAssumption DEF Living, NoClient

LEMMA StaffReadsKeepIntake ==
  ASSUME IntakeInv, NEW r \in Requests, NEW c \in ClientIds,
         \/ NoteRead(r, c) \/ BookRead(r, c)
         \/ \E n \in DOMAIN notes : LinkRead(r, n, c)
  PROVE  IntakeInv'
<1>1. c \in Living /\ UNCHANGED <<clients, notes, leads, bookings, blurred>>
  BY DEF NoteRead, BookRead, LinkRead
<1>2. PICK d : /\ Errand(r, d)
               /\ \/ d \in {[step |-> "noting", client |-> c], [step |-> "booking", client |-> c]}
                  \/ \E n \in DOMAIN notes : d = [step |-> "linking", client |-> c, note |-> n]
  BY DEF NoteRead, BookRead, LinkRead
<1>3. c \in 1..MaxClients /\ c \in ClientIds /\ ~clients[c].gone
  BY <1>1, LivingClients
<1>4. notes \in Seq(NoteRows) /\ Len(notes) \in 0..MaxNotes
  BY DEF IntakeInv, IntakeTypeOK
<1>5. DOMAIN notes \subseteq 1..MaxNotes
  BY <1>4, IntakeAssumption
<1>6. /\ d \in DeskStates /\ d.client = c /\ ~SubmitsLead(d)
      /\ d.step \in {"noting", "booking", "linking"}
      /\ d.step = "linking" => d.note \in DOMAIN notes
  BY <1>2, <1>3, <1>5 DEF DeskStates, SubmitsLead
<1>7. HandFits(d)'
  BY <1>1, <1>3, <1>6 DEF HandFits, ClientIds
<1>8. bookings' \in Seq(ClientIds)
  BY <1>1 DEF IntakeInv, IntakeTypeOK
<1> QED
  BY <1>1, <1>2, <1>6, <1>7, <1>8, ErrandCounts, DeskStep

LEMMA MatchKeepsIntake ==
  ASSUME IntakeInv, NEW r \in Requests, NEW source \in SourceRefs \cup {None},
         NEW contact, IngestMatch(r, source, contact)
  PROVE  IntakeInv'
<1>1. PICK c : c = Match(contact)
  OBVIOUS
<1>2. PICK t : t = IF c = NoClient THEN IntakeTown ELSE clients[c].town
  OBVIOUS
<1>3. PICK d : d = [step |-> "matched", client |-> c, ref |-> source, town |-> t]
  OBVIOUS
<1>4. Errand(r, d) /\ UNCHANGED <<clients, notes, leads, bookings, blurred>>
  BY <1>1, <1>2, <1>3 DEF IngestMatch
<1>5. c = NoClient \/ c \in Living
  BY <1>1, NewestMatch
<1>6. c \in 0..MaxClients /\ t \in Towns
      /\ (c # NoClient => c \in ClientIds /\ ~clients[c].gone /\ t = clients[c].town)
  BY <1>2, <1>5, LivingClients, IntakeAssumption DEF NoClient, ClientRows
<1>7. d \in DeskStates /\ ~SubmitsLead(d)
  BY <1>3, <1>6 DEF DeskStates, SubmitsLead
<1>8. HandFits(d)'
  BY <1>3, <1>4, <1>6 DEF HandFits, ClientIds
<1>9. bookings' \in Seq(ClientIds)
  BY <1>4 DEF IntakeInv, IntakeTypeOK
<1> QED
  BY <1>4, <1>7, <1>8, <1>9, ErrandCounts, DeskStep

LEMMA EndsKeepIntake ==
  ASSUME IntakeInv, NEW r \in Requests, Proceeds(r, Idle),
         UNCHANGED <<clients, notes, leads, blurred>>, bookings' \in Seq(ClientIds)
  PROVE  IntakeInv'
<1>1. errands' \in 0..MaxErrands /\ desk' = [desk EXCEPT ![r] = Idle]
  BY DEF IntakeInv, IntakeTypeOK, Proceeds
<1> QED
  BY <1>1, IdleDesk, IdleInHand, DeskStep

LEMMA LookKeepsIntake ==
  ASSUME IntakeInv, NEW r \in Requests, IngestLook(r)
  PROVE  IntakeInv'
<1>1. PICK g \in DeskStates : g = desk[r] /\ HandFits(g)
  BY DeskOf
<1>2. PICK d : d = [g EXCEPT !.step = "looked"]
  OBVIOUS
<1>3. /\ g.step = "matched" /\ UNCHANGED <<clients, notes, leads, bookings, blurred>>
      /\ Proceeds(r, Idle) \/ Proceeds(r, d)
  BY <1>1, <1>2 DEF IngestLook
<1>4. bookings' \in Seq(ClientIds)
  BY <1>3 DEF IntakeInv, IntakeTypeOK
<1>5. CASE Proceeds(r, Idle)
  BY <1>3, <1>4, <1>5, EndsKeepIntake
<1>6. CASE Proceeds(r, d)
  <2>1. /\ d \in DeskStates /\ d.step = "looked" /\ d.client = g.client
        /\ d.town = g.town /\ d # Idle /\ g # Idle
    BY <1>1, <1>2, <1>3 DEF DeskStates, Idle
  <2>2. HandFits(d)' /\ ~SubmitsLead(d)
    BY <1>1, <1>3, <2>1 DEF HandFits, ClientIds, SubmitsLead
  <2>3. errands' \in 0..MaxErrands /\ desk' = [desk EXCEPT ![r] = d]
    BY <1>6 DEF IntakeInv, IntakeTypeOK, Proceeds
  <2> QED
    BY <1>3, <1>4, <2>1, <2>2, <2>3, DeskStep
<1> QED
  BY <1>3, <1>5, <1>6

LEMMA BookKeepsIntake ==
  ASSUME IntakeInv, NEW r \in Requests, BookWrite(r)
  PROVE  IntakeInv'
<1>1. PICK g \in DeskStates : g = desk[r] /\ HandFits(g)
  BY DeskOf
<1>2. g.client \in ClientIds
  BY <1>1, DeskShapes, IntakeAssumption DEF BookWrite, HandFits, NoClient
<1>3. bookings' \in Seq(ClientIds)
  BY <1>1, <1>2 DEF BookWrite, IntakeInv, IntakeTypeOK
<1> QED
  BY <1>3, EndsKeepIntake DEF BookWrite

LEMMA FindKeepsIntake ==
  ASSUME IntakeInv, NEW r \in Requests, NEW contact \in Contacts,
         NEW design \in Designs, LeadFind(r, contact, design)
  PROVE  IntakeInv'
<1>1. PICK c \in IF LocalClients(contact) = {} THEN {NoClient} ELSE LocalClients(contact) :
        /\ Errand(r, [step |-> "found", client |-> c, contact |-> contact,
                      design |-> design])
        /\ blurred' = IF Leading(c, contact) = {} THEN blurred
                      ELSE blurred \cup {contact}
  BY DEF LeadFind
<1>2. PICK d : d = [step |-> "found", client |-> c, contact |-> contact,
                    design |-> design]
  OBVIOUS
<1>3. c \in 0..MaxClients /\ (c # NoClient => c \in ClientIds /\ ~clients[c].gone)
  BY <1>1, LivingClients, IntakeAssumption DEF LocalClients, Matching, NoClient
<1>4. /\ d \in DeskStates /\ d.step = "found" /\ d.client = c
      /\ UNCHANGED <<clients, notes, leads, bookings>> /\ blurred \subseteq blurred'
  BY <1>1, <1>2, <1>3 DEF DeskStates, LeadFind
<1>5. HandFits(d)'
  BY <1>3, <1>4 DEF HandFits, ClientIds
<1>6. ASSUME ~Overlapped', NEW q \in Requests \ {r}, SubmitsLead(desk[q])
      PROVE  desk[q].client # c
  <2>1. q \notin Leading(c, contact)
    BY <1>1, <1>6 DEF Overlapped
  <2> QED
    BY <1>6, <2>1, DeskOf, DeskShapes DEF Leading
<1>7. bookings' \in Seq(ClientIds)
  BY <1>4 DEF IntakeInv, IntakeTypeOK
<1> QED
  BY <1>1, <1>2, <1>4, <1>5, <1>6, <1>7, ErrandCounts, DeskStep

LEMMA LeadLookKeepsIntake ==
  ASSUME IntakeInv, NEW r \in Requests, LeadLook(r)
  PROVE  IntakeInv'
<1>1. PICK g \in DeskStates : g = desk[r] /\ HandFits(g)
  BY DeskOf
<1>2. PICK d : d = [g EXCEPT !.step = "fresh"]
  OBVIOUS
<1>3. g.step = "found" /\ UNCHANGED <<clients, notes, leads, bookings, blurred>>
  BY <1>1 DEF LeadLook
<1>4. bookings' \in Seq(ClientIds)
  BY <1>3 DEF IntakeInv, IntakeTypeOK
<1>5. CASE Repeats(g.client, g.design) = {}
  <2>1. /\ d \in DeskStates /\ d.step = "fresh" /\ d.client = g.client
        /\ d.design = g.design /\ d # Idle /\ g # Idle
    BY <1>1, <1>2, <1>3 DEF DeskStates, Idle
  <2>2. HandFits(d)'
    BY <1>1, <1>3, <2>1 DEF HandFits, ClientIds
  <2>3. errands' \in 0..MaxErrands /\ desk' = [desk EXCEPT ![r] = d]
    BY <1>1, <1>2, <1>5 DEF LeadLook, IntakeInv, IntakeTypeOK, Proceeds
  <2>4. SubmitsLead(desk[r])
    BY <1>1, <1>3 DEF SubmitsLead
  <2>5. Overlapped' \/
        \A q \in Requests \ {r} : SubmitsLead(desk[q]) => desk[q].client # d.client
    BY <1>1, <1>3, <2>1, <2>4 DEF IntakeInv, LeadsApart, Overlapped
  <2> QED
    BY <1>3, <1>4, <1>5, <2>1, <2>2, <2>3, <2>5, DeskStep
<1>6. CASE Repeats(g.client, g.design) # {}
  BY <1>1, <1>3, <1>4, <1>6, EndsKeepIntake DEF LeadLook
<1> QED
  BY <1>5, <1>6

(* Customers are only added and edited; one who is deleted under a request  *)
(* is on record.                                                            *)
LEMMA ClientsStep ==
  ASSUME IntakeInv, UNCHANGED <<notes, leads, bookings, desk>>,
         clients' \in Seq(ClientRows), Len(clients') <= MaxClients,
         errands' \in 0..MaxErrands, blurred \subseteq blurred',
         \A c \in ClientIds :
           /\ c \in DOMAIN clients' /\ clients'[c].town = clients[c].town
           /\ clients'[c].gone =>
                clients[c].gone \/ c \in blurred' \/ c \notin ClientsInHand
  PROVE  IntakeInv'
<1>1. ClientIds \subseteq ClientIds'
  BY DEF ClientIds
<1>2. IntakeTypeOK' /\ (Len(notes) <= MaxNotes)'
  <2>1. bookings' \in Seq(ClientIds')
    BY <1>1, SeqSubset DEF IntakeInv, IntakeTypeOK
  <2> QED
    BY <2>1 DEF IntakeInv, IntakeTypeOK
<1>3. DeskFits'
  <2>1. SUFFICES ASSUME NEW q \in Requests PROVE HandFits(desk[q])'
    BY DEF DeskFits
  <2>2. PICK g \in DeskStates : g = desk[q] /\ HandFits(g)
    BY DeskOf
  <2>3. g # Idle => g.client \in ClientsInHand
    BY <2>2 DEF ClientsInHand
  <2>4. HandFits(g)'
    BY <2>2, <2>3, HandKeeps
  <2> QED
    BY <2>2, <2>4 DEF HandFits
<1>4. RowsPlaced' /\ OneNotePerRef'
  BY <1>1 DEF IntakeInv, RowsPlaced, OneNotePerRef, NoteFollowsClient, ClientIds
<1>5. ASSUME ~Overlapped' PROVE LeadsApart'
  <2>1. LeadsApart
    BY <1>5 DEF Overlapped, IntakeInv
  <2>2. \A c, e : Repeats(c, e)' = Repeats(c, e)
    BY DEF Repeats
  <2> QED
    BY <2>1, <2>2 DEF LeadsApart
<1> QED
  BY <1>2, <1>3, <1>4, <1>5 DEF IntakeInv

LEMMA CustomersKeepIntake ==
  ASSUME IntakeInv,
         \/ \E town \in Towns, contact \in Contacts : CreateCustomer(town, contact)
         \/ \E c \in ClientIds, contact \in Contacts : PatchCustomer(c, contact)
         \/ \E c \in ClientIds : DeleteCustomer(c)
  PROVE  IntakeInv'
<1>1. /\ clients \in Seq(ClientRows) /\ Len(clients) \in 0..MaxClients
      /\ ClientIds = 1..Len(clients) /\ DOMAIN clients = 1..Len(clients)
      /\ \A c \in ClientIds : clients[c] \in ClientRows
  BY LivingClients DEF ClientIds
<1>2. errands \in 0..MaxErrands
  BY DEF IntakeInv, IntakeTypeOK
<1>3. ASSUME NEW town \in Towns, NEW contact \in Contacts,
             CreateCustomer(town, contact)
      PROVE  IntakeInv'
  <2>1. NewClient(town, contact) \in ClientRows
    BY DEF NewClient, ClientRows
  <2>2. /\ clients' = Append(clients, NewClient(town, contact))
        /\ Len(clients) < MaxClients
        /\ UNCHANGED <<notes, leads, bookings, desk, blurred, errands>>
    BY <1>3 DEF CreateCustomer
  <2>3. /\ clients' \in Seq(ClientRows) /\ Len(clients') <= MaxClients
        /\ \A c \in ClientIds : c \in DOMAIN clients' /\ clients'[c] = clients[c]
    BY <1>1, <2>1, <2>2, AppendRow, IntakeAssumption
  <2> QED
    BY <1>2, <2>2, <2>3, ClientsStep
<1>4. ASSUME NEW c \in ClientIds, NEW contact \in Contacts, PatchCustomer(c, contact)
      PROVE  IntakeInv'
  <2>1. PICK row : row = [clients[c] EXCEPT !.contact = contact]
    OBVIOUS
  <2>2. row \in ClientRows /\ row.town = clients[c].town /\ row.gone = clients[c].gone
    BY <1>1, <2>1 DEF ClientRows
  <2>3. clients' = [clients EXCEPT ![c] = row]
    BY <1>1, <1>4, <2>1 DEF PatchCustomer
  <2>4. /\ clients' \in Seq(ClientRows) /\ Len(clients') = Len(clients)
        /\ DOMAIN clients' = DOMAIN clients
        /\ \A b \in DOMAIN clients : clients'[b] = IF b = c THEN row ELSE clients[b]
    BY <1>1, <2>2, <2>3, ChangeRow
  <2>5. /\ UNCHANGED <<notes, leads, bookings, desk, blurred>>
        /\ errands' \in 0..MaxErrands
    BY <1>2, <1>4, IntakeAssumption DEF PatchCustomer
  <2> QED
    BY <1>1, <2>2, <2>4, <2>5, ClientsStep
<1>5. ASSUME NEW c \in ClientIds, DeleteCustomer(c) PROVE IntakeInv'
  <2>1. PICK row : row = [clients[c] EXCEPT !.gone = TRUE]
    OBVIOUS
  <2>2. row \in ClientRows /\ row.town = clients[c].town
    BY <1>1, <2>1 DEF ClientRows
  <2>3. clients' = [clients EXCEPT ![c] = row]
    BY <1>1, <1>5, <2>1 DEF DeleteCustomer
  <2>4. /\ clients' \in Seq(ClientRows) /\ Len(clients') = Len(clients)
        /\ DOMAIN clients' = DOMAIN clients
        /\ \A b \in DOMAIN clients : clients'[b] = IF b = c THEN row ELSE clients[b]
    BY <1>1, <2>2, <2>3, ChangeRow
  <2>5. /\ UNCHANGED <<notes, leads, bookings, desk, errands>>
        /\ blurred \subseteq blurred' /\ (c \in blurred' \/ c \notin ClientsInHand)
    BY <1>5 DEF DeleteCustomer
  <2> QED
    BY <1>1, <1>2, <2>2, <2>4, <2>5, ClientsStep
<1> QED
  BY <1>3, <1>4, <1>5

(* A note is written or linked, and the request is done. *)
LEMMA NotesStep ==
  ASSUME IntakeInv, NEW r \in Requests, Proceeds(r, Idle),
         UNCHANGED <<clients, leads, bookings, blurred>>,
         notes' \in Seq(NoteRows), Len(notes') <= MaxNotes,
         DOMAIN notes \subseteq DOMAIN notes',
         \A n \in DOMAIN notes' : notes'[n].client # NoClient =>
           /\ notes'[n].client \in ClientIds
           /\ notes'[n].town = clients[notes'[n].client].town,
         OneNotePerRef'
  PROVE  IntakeInv'
<1>1. /\ desk' = [desk EXCEPT ![r] = Idle] /\ errands' = errands
      /\ desk \in [Requests -> DeskStates]
  BY DEF IntakeInv, IntakeTypeOK, Proceeds
<1>2. /\ desk' \in [Requests -> DeskStates] /\ desk'[r] = Idle
      /\ \A q \in Requests \ {r} : desk'[q] = desk[q]
  BY <1>1, IdleDesk
<1>3. IntakeTypeOK'
  BY <1>1, <1>2 DEF IntakeInv, IntakeTypeOK, ClientIds
<1>4. DeskFits'
  <2>1. SUFFICES ASSUME NEW q \in Requests, q # r PROVE HandFits(desk[q])'
    BY <1>2, IdleInHand DEF DeskFits, HandFits
  <2>2. PICK g \in DeskStates : g = desk[q] /\ HandFits(g)
    BY DeskOf
  <2>3. HandFits(g)'
    BY <2>2, HandKeeps DEF ClientIds
  <2> QED
    BY <1>2, <2>1, <2>2, <2>3 DEF HandFits
<1>5. RowsPlaced'
  BY DEF IntakeInv, RowsPlaced, NoteFollowsClient, ClientIds
<1>6. ASSUME ~Overlapped' PROVE LeadsApart'
  <2>1. LeadsApart
    BY <1>6 DEF Overlapped, IntakeInv
  <2>2. \A c, e : Repeats(c, e)' = Repeats(c, e)
    BY DEF Repeats
  <2> QED
    BY <1>2, <2>1, <2>2, IdleDesk DEF LeadsApart
<1> QED
  BY <1>3, <1>4, <1>5, <1>6 DEF IntakeInv

LEMMA NotesType ==
  ASSUME IntakeInv
  PROVE  /\ notes \in Seq(NoteRows) /\ Len(notes) \in 0..MaxNotes
         /\ DOMAIN notes = 1..Len(notes)
         /\ \A n \in DOMAIN notes : notes[n] \in NoteRows
  BY IntakeAssumption DEF IntakeInv, IntakeTypeOK

(* A note more, of a reference nobody recorded. *)
LEMMA NoteMore ==
  ASSUME IntakeInv, NEW r \in Requests, Proceeds(r, Idle), NEW row \in NoteRows,
         UNCHANGED <<clients, leads, bookings, blurred>>,
         Len(notes) < MaxNotes, notes' = Append(notes, row),
         Recorded(row.ref) = {},
         row.client # NoClient =>
           row.client \in ClientIds /\ row.town = clients[row.client].town
  PROVE  IntakeInv'
<1>1. /\ notes' \in Seq(NoteRows) /\ Len(notes') <= MaxNotes
      /\ DOMAIN notes' = DOMAIN notes \cup {Len(notes) + 1}
      /\ Len(notes) + 1 \notin DOMAIN notes
      /\ \A n \in DOMAIN notes : notes'[n] = notes[n]
      /\ notes'[Len(notes) + 1] = row
  BY NotesType, AppendRow, IntakeAssumption
<1>2. OneNotePerRef'
  BY <1>1 DEF IntakeInv, OneNotePerRef, Recorded
<1>3. \A n \in DOMAIN notes' : notes'[n].client # NoClient =>
        /\ notes'[n].client \in ClientIds
        /\ notes'[n].town = clients[notes'[n].client].town
  BY <1>1 DEF IntakeInv, RowsPlaced, NoteFollowsClient
<1> QED
  BY <1>1, <1>2, <1>3, NotesStep

LEMMA NotesKeepIntake ==
  ASSUME IntakeInv, NEW r \in Requests,
         NoteWrite(r) \/ IngestInsert(r) \/ LinkWrite(r)
  PROVE  IntakeInv'
<1>1. PICK g \in DeskStates : g = desk[r] /\ HandFits(g)
  BY DeskOf
<1>2. g # Idle /\ Proceeds(r, Idle) /\ UNCHANGED <<clients, leads, bookings, blurred>>
  BY <1>1, IdleDesk DEF NoteWrite, IngestInsert, LinkWrite
<1>3. /\ g.client \in 0..MaxClients
      /\ g.client # NoClient => g.client \in ClientIds
                                /\ clients[g.client] \in ClientRows
  BY <1>1, <1>2, DeskShapes, LivingClients DEF HandFits
<1>4. CASE NoteWrite(r)
  <2>1. g.step = "noting" /\ Len(notes) < MaxNotes
    BY <1>1, <1>4 DEF NoteWrite
  <2>2. g.client # NoClient
    BY <1>1, <2>1, DeskShapes DEF NoClient
  <2>3. PICK row : row = [town |-> clients[g.client].town, client |-> g.client, ref |-> None]
    OBVIOUS
  <2>4. notes' = Append(notes, row)
    BY <1>1, <1>4, <2>3 DEF NoteWrite
  <2>5. row \in NoteRows
    BY <1>3, <2>2, <2>3 DEF NoteRows, ClientRows
  <2>6. Recorded(row.ref) = {}
    BY <2>3 DEF Recorded
  <2> QED
    BY <1>2, <1>3, <2>1, <2>3, <2>4, <2>5, <2>6, NoteMore
<1>5. CASE IngestInsert(r)
  <2>1. g.step = "looked"
    BY <1>1, <1>5 DEF IngestInsert
  <2>2. PICK row : row = [town |-> g.town, client |-> g.client, ref |-> g.ref]
    OBVIOUS
  <2>3. row \in NoteRows
    BY <1>1, <1>3, <2>1, <2>2, DeskShapes DEF NoteRows
  <2>4. row.client # NoClient =>
          row.client \in ClientIds /\ row.town = clients[row.client].town
    BY <1>1, <1>3, <2>1, <2>2 DEF HandFits
  <2>5. CASE Recorded(g.ref) = {}
    <3>1. Len(notes) < MaxNotes /\ notes' = Append(notes, row)
      BY <1>1, <1>5, <2>2, <2>5 DEF IngestInsert
    <3> QED
      BY <1>2, <2>2, <2>3, <2>4, <2>5, <3>1, NoteMore
  <2>6. CASE Recorded(g.ref) # {}
    <3>1. UNCHANGED notes
      BY <1>1, <1>5, <2>6 DEF IngestInsert
    <3>2. bookings' \in Seq(ClientIds)
      BY <1>2 DEF IntakeInv, IntakeTypeOK
    <3> QED
      BY <1>2, <3>1, <3>2, EndsKeepIntake
  <2> QED
    BY <2>5, <2>6
<1>6. CASE LinkWrite(r)
  <2>1. g.step = "linking" /\ g.note \in DOMAIN notes
    BY <1>1, <1>6 DEF LinkWrite, HandFits
  <2>2. g.client # NoClient
    BY <1>1, <2>1, DeskShapes DEF NoClient
  <2>3. PICK row : row = [[notes[g.note] EXCEPT !.client = g.client]
                            EXCEPT !.town = clients[g.client].town]
    OBVIOUS
  <2>4. /\ row \in NoteRows /\ row.client = g.client
        /\ row.town = clients[g.client].town /\ row.ref = notes[g.note].ref
    BY <1>3, <2>1, <2>2, <2>3, NotesType DEF NoteRows, ClientRows
  <2>5. notes' = [notes EXCEPT ![g.note] = row]
    BY <1>1, <1>6, <2>1, <2>3, NotesType DEF LinkWrite
  <2>6. /\ notes' \in Seq(NoteRows) /\ Len(notes') = Len(notes)
        /\ DOMAIN notes' = DOMAIN notes
        /\ \A n \in DOMAIN notes : notes'[n] = IF n = g.note THEN row ELSE notes[n]
    BY <2>1, <2>4, <2>5, NotesType, ChangeRow
  <2>7. \A n \in DOMAIN notes' : notes'[n].client # NoClient =>
          /\ notes'[n].client \in ClientIds
          /\ notes'[n].town = clients[notes'[n].client].town
    BY <1>3, <2>2, <2>4, <2>6 DEF IntakeInv, RowsPlaced, NoteFollowsClient
  <2>8. OneNotePerRef'
    BY <2>1, <2>4, <2>6 DEF IntakeInv, OneNotePerRef
  <2>9. Len(notes') <= MaxNotes
    BY <2>6 DEF IntakeInv
  <2> QED
    BY <1>2, <2>6, <2>7, <2>8, <2>9, NotesStep
<1> QED
  BY <1>4, <1>5, <1>6

LEMMA LeadsType ==
  ASSUME IntakeInv
  PROVE  /\ leads \in Seq(LeadRows) /\ DOMAIN leads = 1..Len(leads)
         /\ Len(leads) \in Nat
         /\ \A k \in DOMAIN leads : leads[k] \in LeadRows
  BY DEF IntakeInv, IntakeTypeOK

(* A draft that ages or is priced repeats nothing any more. *)
LEMMA DraftsKeepIntake ==
  ASSUME IntakeInv, NEW k \in DOMAIN leads, LeadAges(k) \/ LeadPriced(k)
  PROVE  IntakeInv'
<1>1. PICK row \in {[leads[k] EXCEPT !.recent = FALSE], [leads[k] EXCEPT !.draft = FALSE]} :
        leads' = [leads EXCEPT ![k] = row]
  BY LeadsType DEF LeadAges, LeadPriced
<1>2. /\ row \in LeadRows /\ row.client = leads[k].client
      /\ row.design = leads[k].design /\ ~(row.recent /\ row.draft)
  BY <1>1, LeadsType DEF LeadRows
<1>3. /\ leads' \in Seq(LeadRows) /\ DOMAIN leads' = DOMAIN leads
      /\ \A l \in DOMAIN leads : leads'[l] = IF l = k THEN row ELSE leads[l]
  BY <1>1, <1>2, LeadsType, ChangeRow
<1>4. UNCHANGED <<clients, notes, bookings, desk, blurred, errands>>
  BY DEF LeadAges, LeadPriced
<1>5. IntakeTypeOK' /\ (Len(notes) <= MaxNotes)' /\ OneNotePerRef'
  BY <1>3, <1>4 DEF IntakeInv, IntakeTypeOK, ClientIds, OneNotePerRef
<1>6. DeskFits'
  <2>1. SUFFICES ASSUME NEW q \in Requests PROVE HandFits(desk[q])'
    BY DEF DeskFits
  <2>2. HandFits(desk[q])
    BY DeskOf
  <2> QED
    BY <1>4, <2>2 DEF HandFits, ClientIds
<1>7. RowsPlaced'
  BY <1>2, <1>3, <1>4 DEF IntakeInv, RowsPlaced, NoteFollowsClient, ClientIds
<1>8. ASSUME ~Overlapped' PROVE LeadsApart'
  <2>1. LeadsApart
    BY <1>4, <1>8 DEF Overlapped, IntakeInv
  <2>2. ASSUME NEW c, NEW e PROVE Repeats(c, e)' = Repeats(c, e) \ {k}
    BY <1>2, <1>3 DEF Repeats
  <2>3. ASSUME NEW l \in DOMAIN leads', leads'[l].recent, leads'[l].draft
        PROVE  Repeats(leads[l].client, leads[l].design)' = {l}
    <3>1. l \in DOMAIN leads /\ l # k /\ leads'[l] = leads[l]
      BY <1>2, <1>3, <2>3
    <3>2. Repeats(leads[l].client, leads[l].design) = {l}
      BY <2>1, <2>3, <3>1 DEF LeadsApart
    <3>3. Repeats(leads'[l].client, leads'[l].design) = {l}
      BY <3>1, <3>2
    <3> QED
      BY <1>2, <1>3, <3>1, <3>2 DEF Repeats
  <2>4. ASSUME NEW q \in Requests, desk[q].step = "fresh", desk[q].client # NoClient
        PROVE  Repeats(desk[q].client, desk[q].design)' = {}
    <3>1. Repeats(desk[q].client, desk[q].design) = {}
      BY <2>1, <2>4 DEF LeadsApart
    <3> QED
      BY <1>2, <1>3, <1>4, <3>1 DEF Repeats
  <2> QED
    BY <1>4, <2>1, <2>3, <2>4 DEF LeadsApart
<1> QED
  BY <1>5, <1>6, <1>7, <1>8 DEF IntakeInv

(* The customer of the lead is new, or the one found, whom no other lead is *)
(* for unless two overlapped.                                               *)
LEMMA CommitKeepsIntake ==
  ASSUME IntakeInv, NEW r \in Requests, LeadCommit(r)
  PROVE  IntakeInv'
<1>1. PICK g \in DeskStates : g = desk[r] /\ HandFits(g)
  BY DeskOf
<1>2. /\ g.step = "fresh" /\ g # Idle /\ g.contact \in Contacts /\ g.design \in Designs
      /\ g.client \in 0..MaxClients
  BY <1>1, IdleDesk, DeskShapes DEF LeadCommit, SubmitsLead
<1>3. PICK c : c = IF g.client = NoClient THEN Len(clients) + 1 ELSE g.client
  OBVIOUS
<1>4. PICK row : row = [client |-> c, design |-> g.design, recent |-> TRUE, draft |-> TRUE]
  OBVIOUS
<1>5. /\ clients' = IF g.client = NoClient
                    THEN Append(clients, NewClient(IntakeTown, g.contact))
                    ELSE clients
      /\ Len(clients') <= MaxClients /\ leads' = Append(leads, row)
      /\ Proceeds(r, Idle) /\ UNCHANGED <<notes, bookings, blurred>>
  BY <1>1, <1>3, <1>4 DEF LeadCommit
<1>6. /\ clients \in Seq(ClientRows) /\ ClientIds = 1..Len(clients)
      /\ Len(clients) \in 0..MaxClients /\ DOMAIN clients = ClientIds
  BY LivingClients DEF ClientIds
<1>7. /\ clients' \in Seq(ClientRows) /\ c \in DOMAIN clients' /\ c \in 1..MaxClients
      /\ \A b \in ClientIds : b \in DOMAIN clients' /\ clients'[b] = clients[b]
      /\ g.client = NoClient => c \notin ClientIds
  <2>1. CASE g.client = NoClient
    <3>1. NewClient(IntakeTown, g.contact) \in ClientRows
      BY <1>2, IntakeAssumption DEF NewClient, ClientRows
    <3> QED
      BY <1>3, <1>5, <1>6, <2>1, <3>1, AppendRow, IntakeAssumption
  <2>2. CASE g.client # NoClient
    BY <1>1, <1>2, <1>3, <1>5, <1>6, <2>2, IntakeAssumption DEF HandFits
  <2> QED
    BY <2>1, <2>2
<1>8. row \in LeadRows
  BY <1>2, <1>4, <1>7 DEF LeadRows
<1>9. /\ leads' \in Seq(LeadRows) /\ DOMAIN leads' = DOMAIN leads \cup {Len(leads) + 1}
      /\ Len(leads) + 1 \notin DOMAIN leads
      /\ \A k \in DOMAIN leads : leads'[k] = leads[k]
      /\ leads'[Len(leads) + 1] = row
  BY <1>5, <1>8, LeadsType, AppendRow
<1>10. /\ desk' \in [Requests -> DeskStates] /\ desk'[r] = Idle
       /\ \A q \in Requests \ {r} : desk'[q] = desk[q]
       /\ errands' = errands
  BY <1>5, IdleDesk DEF Proceeds, IntakeInv, IntakeTypeOK
<1>11. ClientIds \subseteq ClientIds' /\ c \in ClientIds'
  BY <1>7 DEF ClientIds
<1>12. IntakeTypeOK' /\ (Len(notes) <= MaxNotes)'
  <2>1. bookings' \in Seq(ClientIds')
    BY <1>5, <1>11, SeqSubset DEF IntakeInv, IntakeTypeOK
  <2> QED
    BY <1>5, <1>7, <1>9, <1>10, <2>1 DEF IntakeInv, IntakeTypeOK
<1>13. DeskFits'
  <2>1. SUFFICES ASSUME NEW q \in Requests, q # r PROVE HandFits(desk[q])'
    BY <1>10, IdleInHand DEF DeskFits, HandFits
  <2>2. PICK h \in DeskStates : h = desk[q] /\ HandFits(h)
    BY DeskOf
  <2>3. HandFits(h)'
    BY <1>5, <1>7, <2>2, HandKeeps
  <2> QED
    BY <1>10, <2>1, <2>2, <2>3 DEF HandFits
<1>14. RowsPlaced' /\ OneNotePerRef'
  <2>1. \A k \in DOMAIN leads' : leads'[k].client \in ClientIds'
    BY <1>4, <1>9, <1>11 DEF IntakeInv, RowsPlaced
  <2> QED
    BY <1>5, <1>7, <1>11, <2>1
       DEF IntakeInv, RowsPlaced, NoteFollowsClient, OneNotePerRef
<1>15. ASSUME ~Overlapped' PROVE LeadsApart'
  <2>1. LeadsApart
    BY <1>5, <1>15 DEF Overlapped, IntakeInv
  <2>2. ASSUME NEW b, NEW e
        PROVE  Repeats(b, e)' = IF b = c /\ e = g.design
                                THEN Repeats(b, e) \cup {Len(leads) + 1}
                                ELSE Repeats(b, e)
    BY <1>4, <1>9 DEF Repeats
  <2>3. Repeats(c, g.design) = {}
    <3>1. CASE g.client = NoClient
      BY <1>7, <3>1 DEF Repeats, IntakeInv, RowsPlaced
    <3>2. CASE g.client # NoClient
      BY <1>1, <1>2, <1>3, <2>1, <3>2 DEF LeadsApart
    <3> QED
      BY <3>1, <3>2
  <2>4. ASSUME NEW k \in DOMAIN leads', leads'[k].recent, leads'[k].draft
        PROVE  Repeats(leads[k].client, leads[k].design)' = {k}
    <3>1. CASE k = Len(leads) + 1
      <4>1. \A l \in DOMAIN leads :
              ~(/\ leads[l].client = c /\ leads[l].design = g.design
                /\ leads[l].recent /\ leads[l].draft)
        BY <2>3 DEF Repeats
      <4> QED
        BY <1>4, <1>9, <3>1, <4>1 DEF Repeats
    <3>2. CASE k \in DOMAIN leads
      <4>1. Repeats(leads[k].client, leads[k].design) = {k}
        BY <1>9, <2>1, <2>4, <3>2 DEF LeadsApart
      <4>2. ~(leads[k].client = c /\ leads[k].design = g.design)
        BY <2>3, <4>1
      <4> QED
        BY <1>4, <1>9, <3>2, <4>1, <4>2 DEF Repeats
    <3> QED
      BY <1>9, <2>4, <3>1, <3>2
  <2>5. ASSUME NEW q \in Requests, desk'[q].step = "fresh", desk'[q].client # NoClient
        PROVE  Repeats(desk[q].client, desk[q].design)' = {}
    <3>1. q # r /\ desk'[q] = desk[q]
      BY <1>10, <2>5, IdleDesk
    <3>2. Repeats(desk[q].client, desk[q].design) = {}
      BY <2>1, <2>5, <3>1 DEF LeadsApart
    <3>3. desk[q].client # c
      <4>1. CASE g.client = NoClient
        <5>1. desk[q] # Idle
          BY <2>5, <3>1, IdleDesk
        <5> QED
          BY <1>7, <2>5, <3>1, <4>1, <5>1, DeskOf DEF HandFits
      <4>2. CASE g.client # NoClient
        BY <1>1, <1>2, <1>3, <2>1, <2>5, <3>1, <4>2 DEF LeadsApart, SubmitsLead
      <4> QED
        BY <4>1, <4>2
    <3> QED
      BY <1>4, <1>9, <3>1, <3>2, <3>3 DEF Repeats
  <2>6. \A p, q \in Requests :
          SubmitsLead(desk'[p]) /\ SubmitsLead(desk'[q]) /\ p # q =>
            desk'[p].client # desk'[q].client
    <3>1. \A p \in Requests : SubmitsLead(desk'[p]) => p # r /\ desk'[p] = desk[p]
      BY <1>10, IdleDesk
    <3> QED
      BY <2>1, <3>1 DEF LeadsApart
  <2> QED
    BY <2>4, <2>5, <2>6 DEF LeadsApart, SubmitsLead
<1> QED
  BY <1>12, <1>13, <1>14, <1>15 DEF IntakeInv

LEMMA IntakeStepInv == IntakeInv /\ [IntakeNext]_intakeVars => IntakeInv'
<1> SUFFICES ASSUME IntakeInv, [IntakeNext]_intakeVars PROVE IntakeInv'
  OBVIOUS
<1>1. CASE UNCHANGED intakeVars
  BY <1>1 DEF intakeVars, IntakeInv, IntakeTypeOK, ClientIds, DeskFits, HandFits,
     RowsPlaced, NoteFollowsClient, OneNotePerRef, Overlapped, LeadsApart,
     SubmitsLead, Repeats
<1>2. ASSUME NEW r \in Requests, DeskStops(r) PROVE IntakeInv'
  <2>1. bookings' \in Seq(ClientIds)
    BY <1>2 DEF DeskStops, IntakeInv, IntakeTypeOK
  <2> QED
    BY <1>2, <2>1, EndsKeepIntake DEF DeskStops
<1>3. CASE IntakeNext
  BY <1>2, <1>3, CustomersKeepIntake, StaffReadsKeepIntake, NotesKeepIntake,
     MatchKeepsIntake, LookKeepsIntake, BookKeepsIntake, FindKeepsIntake,
     LeadLookKeepsIntake, CommitKeepsIntake, DraftsKeepIntake DEF IntakeNext
<1> QED
  BY <1>1, <1>3

LEMMA IntakeIsSound == IntakeInv => IntakeSound
<1> SUFFICES ASSUME IntakeInv PROVE IntakeSound
  OBVIOUS
<1>1. ASSUME NEW source \in SourceRefs PROVE Cardinality(Recorded(source)) <= 1
  <2>1. CASE Recorded(source) = {}
    BY <2>1, FS_EmptySet
  <2>2. ASSUME NEW n \in Recorded(source) PROVE Cardinality(Recorded(source)) <= 1
    <3>1. Recorded(source) = {n}
      BY <2>2 DEF Recorded, IntakeInv, OneNotePerRef
    <3>2. Cardinality({n}) = 1
      BY FS_Singleton
    <3> QED
      BY <3>1, <3>2
  <2> QED
    BY <2>1, <2>2
<1>2. LeadOnce
  BY DEF LeadOnce, IntakeInv, Overlapped, LeadsApart, Repeats
<1> QED
  BY <1>1, <1>2 DEF IntakeSound, NoteOnce, IntakeInv, RowsPlaced

(* However often deliveries repeat and whatever staff and leads do at once, *)
(* a note is recorded once, in its customer's branch, and a lead that       *)
(* overlapped no other makes one draft (crm-routes, public-widget-routes).  *)
THEOREM IntakeAlwaysSound == IntakeSpec => []IntakeSound
<1> QED
  BY IntakeInitInv, IntakeStepInv, IntakeIsSound, PTL DEF IntakeSpec

(* Only linking by hand moves a note. *)
LEMMA LinksStay == IntakeInv /\ IntakeNext => TriageStands
<1> SUFFICES ASSUME IntakeInv, IntakeNext, NEW n \in DOMAIN notes,
                    notes'[n].client # notes[n].client
             PROVE  \E r \in Requests : desk[r].step = "linking" /\ desk[r].note = n
  BY DEF TriageStands
<1>1. PICK r \in Requests : NoteWrite(r) \/ IngestInsert(r) \/ LinkWrite(r)
  BY DEF IntakeNext, CreateCustomer, PatchCustomer, DeleteCustomer, NoteRead,
     IngestMatch, IngestLook, LinkRead, BookRead, BookWrite, LeadFind, LeadLook,
     LeadCommit, LeadAges, LeadPriced, DeskStops
<1>2. \A row : Append(notes, row)[n] = notes[n]
  BY NotesType
<1>3. LinkWrite(r)
  BY <1>1, <1>2 DEF NoteWrite, IngestInsert
<1>4. desk[r].note = n
  BY <1>3, NotesType DEF LinkWrite
<1> QED
  BY <1>3, <1>4 DEF LinkWrite

(* What a request writes is for the customer it has in hand. *)
LEMMA WrittenInHand ==
  ASSUME IntakeInv, NEW r \in Requests, NEW c \in ClientIds \ Living,
         desk[r] # Idle, desk[r].client = c
  PROVE  c \in blurred
  BY DeskOf, LivingClients DEF HandFits, Living, NoClient

LEMMA DeletedStayQuiet == IntakeInv /\ IntakeNext => DeletedStaysQuiet
<1> SUFFICES ASSUME IntakeInv, IntakeNext, NEW c \in ClientIds \ Living, c \notin blurred
             PROVE  /\ \A n \in DOMAIN notes' :
                         notes'[n].client = c => n \in DOMAIN notes /\ notes[n].client = c
                    /\ \A k \in DOMAIN leads' : leads'[k].client = c => k \in DOMAIN leads
                    /\ \A b \in DOMAIN bookings' : bookings'[b] = c => b \in DOMAIN bookings
  BY DEF DeletedStaysQuiet
<1>1. \A r \in Requests : desk[r] # Idle => desk[r].client # c
  BY WrittenInHand
<1>2. \A r \in Requests : desk[r].step # "idle" => desk[r].client # c
  BY <1>1, IdleDesk
<1>3. ASSUME NEW r \in Requests, NoteWrite(r) \/ IngestInsert(r) \/ LinkWrite(r)
      PROVE  \A n \in DOMAIN notes' :
               notes'[n].client = c => n \in DOMAIN notes /\ notes[n].client = c
  <2>1. desk[r].client # c /\ Len(notes) \in Nat
    BY <1>2, <1>3, NotesType DEF NoteWrite, IngestInsert, LinkWrite
  <2>2. CASE UNCHANGED notes
    BY <2>2
  <2>3. ASSUME NEW t, NEW s,
               notes' = Append(notes, [town |-> t, client |-> desk[r].client, ref |-> s])
        PROVE  \A n \in DOMAIN notes' :
                 notes'[n].client = c => n \in DOMAIN notes /\ notes[n].client = c
    <3>1. \A row : /\ DOMAIN Append(notes, row) = DOMAIN notes \cup {Len(notes) + 1}
                   /\ Append(notes, row)[Len(notes) + 1] = row
                   /\ \A n \in DOMAIN notes : Append(notes, row)[n] = notes[n]
      BY NotesType
    <3> QED
      BY <2>1, <2>3, <3>1
  <2>4. CASE LinkWrite(r)
    <3>1. \A n \in DOMAIN notes' : /\ n \in DOMAIN notes
                                   /\ \/ notes'[n] = notes[n]
                                      \/ notes'[n].client = desk[r].client
      BY <2>4, NotesType DEF LinkWrite, NoteRows
    <3> QED
      BY <2>1, <3>1
  <2> QED
    BY <1>3, <2>2, <2>3, <2>4 DEF NoteWrite, IngestInsert
<1>4. ASSUME NEW r \in Requests, LeadCommit(r)
      PROVE  \A k \in DOMAIN leads' : leads'[k].client = c => k \in DOMAIN leads
  <2>1. c # Len(clients) + 1 /\ desk[r].client # c
    BY <1>2, <1>4, LivingClients DEF LeadCommit
  <2>2. PICK row : leads' = Append(leads, row) /\ row.client # c
    BY <1>4, <2>1 DEF LeadCommit
  <2>3. /\ DOMAIN leads' = DOMAIN leads \cup {Len(leads) + 1}
        /\ leads'[Len(leads) + 1] = row
    BY <2>2, LeadsType
  <2> QED
    BY <2>2, <2>3
<1>5. ASSUME NEW r \in Requests, BookWrite(r)
      PROVE  \A b \in DOMAIN bookings' : bookings'[b] = c => b \in DOMAIN bookings
  <2>1. desk[r].client # c /\ bookings' = Append(bookings, desk[r].client)
        /\ bookings \in Seq(ClientIds)
    BY <1>2, <1>5 DEF BookWrite, IntakeInv, IntakeTypeOK
  <2> QED
    BY <2>1
<1>6. ASSUME NEW k \in DOMAIN leads, LeadAges(k) \/ LeadPriced(k)
      PROVE  DOMAIN leads' = DOMAIN leads
  BY <1>6, LeadsType DEF LeadAges, LeadPriced
<1>7. \/ UNCHANGED notes \/ \E r \in Requests : NoteWrite(r) \/ IngestInsert(r) \/ LinkWrite(r)
  BY DEF IntakeNext, CreateCustomer, PatchCustomer, DeleteCustomer, NoteRead,
     IngestMatch, IngestLook, LinkRead, BookRead, BookWrite, LeadFind, LeadLook,
     LeadCommit, LeadAges, LeadPriced, DeskStops
<1>8. \/ UNCHANGED leads \/ \E r \in Requests : LeadCommit(r)
      \/ \E k \in DOMAIN leads : LeadAges(k) \/ LeadPriced(k)
  BY DEF IntakeNext, CreateCustomer, PatchCustomer, DeleteCustomer, NoteRead,
     NoteWrite, IngestMatch, IngestLook, IngestInsert, LinkRead, LinkWrite,
     BookRead, BookWrite, LeadFind, LeadLook, DeskStops
<1>9. \/ UNCHANGED bookings \/ \E r \in Requests : BookWrite(r)
  BY DEF IntakeNext, CreateCustomer, PatchCustomer, DeleteCustomer, NoteRead,
     NoteWrite, IngestMatch, IngestLook, IngestInsert, LinkRead, LinkWrite,
     BookRead, LeadFind, LeadLook, LeadCommit, LeadAges, LeadPriced, DeskStops
<1> QED
  BY <1>3, <1>4, <1>5, <1>6, <1>7, <1>8, <1>9

(* What staff linked stays linked, and a deleted customer's record ends     *)
(* with what was in hand at the deletion.                                   *)
THEOREM IntakeAlwaysStands ==
  IntakeSpec => [][TriageStands /\ DeletedStaysQuiet]_intakeVars
<1>1. IntakeInv /\ [IntakeNext]_intakeVars =>
        [TriageStands /\ DeletedStaysQuiet]_intakeVars
  BY LinksStay, DeletedStayQuiet
<1> QED
  BY <1>1, IntakeInitInv, IntakeStepInv, PTL DEF IntakeSpec
=============================================================================
