---------------------------- MODULE Memberships ----------------------------
(***************************************************************************)
(* Who may act where.  A person is invited into a branch, redeems the       *)
(* invitation and becomes a member; every request resolves its scope from   *)
(* the caller's memberships, and the scope decides who may invite whom.     *)
(* Redeeming checks the invitation outside the transaction that creates the *)
(* membership, so a revocation may come in between.                         *)
(***************************************************************************)
EXTENDS Platform

CONSTANTS
  People,      \* accounts, one e-mail address each
  Offices,     \* branches
  OfficeRoles, \* manager, dispatcher, tech and csr in the code
  Founders,    \* the seeded memberships, a sequence
  MaxInvites   \* bound on the invitations a behaviour creates

VARIABLES
  invitations, \* the invitations rows, oldest first
  members,     \* the memberships rows, oldest first
  guest,       \* [Requests -> the redeem or revoke request in flight]
  raced        \* invitations that were mixed

membershipsVars == <<invitations, members, guest, raced>>

Invitations == DOMAIN invitations

(* A scope is the caller's strongest membership; corporate has no branch.  *)
Corporate == [role |-> "corporate_admin", office |-> None]
Scopes == {Corporate} \cup [role : OfficeRoles, office : Offices]

Memberships ==
  [user : People, scope : Scopes, invitation : 0..MaxInvites]

InvitationRows ==
  [email : People, scope : [role : OfficeRoles, office : Offices],
   inviter : People, expired : BOOLEAN, redeemed : BOOLEAN, revoked : BOOLEAN]

(* The seed makes memberships that no invitation stands behind. *)
ASSUME MembershipsAssumption ==
  /\ MaxInvites \in Nat
  /\ Founders \in Seq([user : People, scope : Scopes, invitation : {0}])

GuestStates ==
  {Idle} \cup [step : {"redeeming", "revoking"}, row : 1..MaxInvites]

MembershipsInit ==
  /\ members = Founders /\ invitations = <<>>
  /\ guest = NoRequests /\ raced = {}

Held(p) ==
  {members[k].scope : k \in {n \in DOMAIN members : members[n].user = p}}

(* resolveScope: corporate beats branch; among several branch memberships   *)
(* the first the query happens to return.                                   *)
ScopesOf(p) == IF Corporate \in Held(p) THEN {Corporate} ELSE Held(p)

(* Mutant: a manager may invite another manager. *)
Mutant_CanInvitePeer(inviter, target) ==
  \/ inviter = Corporate
  \/ target.office = inviter.office /\ inviter.role = "manager"

CanInvite(inviter, target) ==
  \/ inviter = Corporate
  \/ /\ target.office = inviter.office
     /\ inviter.role = "manager"
     /\ target.role \in {"dispatcher", "tech", "csr"}

(* Mutant: the row does not say who invited. *)
Mutant_CreateInviteAnonymous(p, target, email) ==
  /\ Len(invitations) < MaxInvites
  /\ \E scope \in ScopesOf(p) : CanInvite(scope, target)
  /\ invitations' = Append(invitations,
       [email |-> email, scope |-> target, inviter |-> None, expired |-> FALSE,
        redeemed |-> FALSE, revoked |-> FALSE])
  /\ UNCHANGED <<members, guest, raced>>

(* Neither an earlier invitation nor a membership of the address is looked  *)
(* up.                                                                      *)
CreateInvite(p, target, email) ==
  /\ Len(invitations) < MaxInvites
  /\ \E scope \in ScopesOf(p) : CanInvite(scope, target)
  /\ invitations' = Append(invitations,
       [email |-> email, scope |-> target, inviter |-> p, expired |-> FALSE,
        redeemed |-> FALSE, revoked |-> FALSE])
  /\ UNCHANGED <<members, guest, raced>>

InviteExpires(i) ==
  /\ ~invitations[i].expired
  /\ invitations' = [invitations EXCEPT ![i].expired = TRUE]
  /\ UNCHANGED <<members, guest, raced>>

InScope(scope, i) == scope = Corporate \/ scope.office = invitations[i].scope.office

(* A redeemed invitation can still be revoked; a second revocation answers  *)
(* alreadyRevoked.                                                          *)
RevokeInviteRead(r, p, i) ==
  /\ guest[r] = Idle
  /\ \E scope \in ScopesOf(p) : InScope(scope, i)
  /\ ~invitations[i].revoked
  /\ raced' = MixedBy(raced, guest, i)
  /\ guest' = [guest EXCEPT ![r] = [step |-> "revoking", row |-> i]]
  /\ UNCHANGED <<invitations, members>>

RevokeInviteWrite(r) ==
  /\ guest[r].step = "revoking"
  /\ invitations' = [invitations EXCEPT ![guest[r].row].revoked = TRUE]
  /\ guest' = [guest EXCEPT ![r] = Idle]
  /\ UNCHANGED <<members, raced>>

(* Mutant: a revocation is not looked at. *)
Mutant_RedeemableRevoked(i) == ~invitations[i].redeemed /\ ~invitations[i].expired

Redeemable(i) ==
  ~invitations[i].revoked /\ ~invitations[i].redeemed /\ ~invitations[i].expired

(* The caller's e-mail address must be the invited one. *)
RedeemRead(r, p, i) ==
  /\ guest[r] = Idle /\ Redeemable(i) /\ p = invitations[i].email
  /\ raced' = MixedBy(raced, guest, i)
  /\ guest' = [guest EXCEPT ![r] = [step |-> "redeeming", row |-> i]]
  /\ UNCHANGED <<invitations, members>>

(* Mutant: no unique index on active memberships. *)
Mutant_FreeAlways(m) == TRUE

(* memberships_unique_active: one membership of a person in a branch.       *)
Free(m) ==
  \A k \in DOMAIN members :
    members[k].user = m.user => members[k].scope.office # m.scope.office

GrantedBy(i) ==
  [user |-> invitations[i].email, scope |-> invitations[i].scope,
   invitation |-> i]

RedeemWrite(r) ==
  LET i == guest[r].row IN
  /\ guest[r].step = "redeeming" /\ Free(GrantedBy(i))
  /\ members' = Append(members, GrantedBy(i))
  /\ invitations' = [invitations EXCEPT ![i].redeemed = TRUE]
  /\ guest' = [guest EXCEPT ![r] = Idle]
  /\ UNCHANGED raced

(* The unique index refuses the membership: the transaction rolls back and  *)
(* the invitation stays as it was.                                          *)
RedeemRefused(r) ==
  /\ guest[r].step = "redeeming" /\ ~Free(GrantedBy(guest[r].row))
  /\ guest' = [guest EXCEPT ![r] = Idle]
  /\ UNCHANGED <<invitations, members, raced>>

(* The process stops before the write. *)
GuestStops(r) ==
  /\ guest[r] # Idle
  /\ guest' = [guest EXCEPT ![r] = Idle]
  /\ UNCHANGED <<invitations, members, raced>>

MembershipsNext ==
  \/ \E p, email \in People, role \in OfficeRoles, o \in Offices :
       CreateInvite(p, [role |-> role, office |-> o], email)
  \/ \E i \in Invitations : InviteExpires(i)
  \/ \E r \in Requests, p \in People, i \in Invitations : RevokeInviteRead(r, p, i)
  \/ \E r \in Requests : RevokeInviteWrite(r)
  \/ \E r \in Requests, p \in People, i \in Invitations : RedeemRead(r, p, i)
  \/ \E r \in Requests : RedeemWrite(r)
  \/ \E r \in Requests : RedeemRefused(r)
  \/ \E r \in Requests : GuestStops(r)

MembershipsSpec == MembershipsInit /\ [][MembershipsNext]_membershipsVars
-----------------------------------------------------------------------------
(* Every invitation row, membership and request in flight is one the code   *)
(* can produce.                                                             *)
MembershipsTypeOK ==
  /\ invitations \in Seq(InvitationRows) /\ Len(invitations) <= MaxInvites
  /\ members \in Seq(Memberships)
  /\ guest \in [Requests -> GuestStates]
  /\ raced \subseteq Invitations

(* However invitations chain, every member that was not seeded was invited  *)
(* by a corporate admin, or into a role other than manager by a manager of  *)
(* that same branch.                                                        *)
AuthorityDescends ==
  \A k \in Len(Founders) + 1..Len(members) :
    LET m == members[k]
        inviter == invitations[m.invitation].inviter IN
    \/ Corporate \in Held(inviter)
    \/ /\ m.scope.role # "manager"
       /\ [role |-> "manager", office |-> m.scope.office] \in Held(inviter)

(* An invitation makes at most one membership, and it does as soon as it is *)
(* marked redeemed, even when it is redeemed twice at once.                 *)
RedeemedOnce ==
  \A i \in Invitations :
    Cardinality({k \in DOMAIN members : members[k].invitation = i}) =
      IF invitations[i].redeemed THEN 1 ELSE 0

(* Once an invitation is revoked nobody joins with it, unless it was being  *)
(* redeemed and revoked together.                                           *)
RevokedKeepsOut ==
  \A i \in Invitations :
     ~invitations[i].redeemed /\ invitations'[i].redeemed /\ i \notin raced
       => ~invitations[i].revoked

(* Who is in, and by whose authority. *)
MembersInvited ==
  /\ AuthorityDescends
  /\ RedeemedOnce
=============================================================================
