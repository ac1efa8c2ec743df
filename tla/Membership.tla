----------------------------- MODULE Membership -----------------------------
(***************************************************************************)
(* The membership of one space: its owner, its members and the rights      *)
(* delegated to them, and the invitations that let users in                *)
(* (SpacesService, SpaceInvitationsService, SpacesAccessService).          *)
(*                                                                         *)
(* Each operation is one SpacesTransactionService.run whose mutate first   *)
(* increments the space's mutationVersion, so what succeeds is one atomic  *)
(* step and what throws is no step; module SpaceWrites models the          *)
(* transaction.  Module UserDeletion adds the users' own lifecycle.        *)
(***************************************************************************)
EXTENDS Integers

CONSTANTS
    User,          \* user ids
    Invitation,    \* invitation ids
    Permission,    \* the rights an owner may delegate
    Ttl            \* life of an invitation: seven days

ASSUME MembershipAssumption == Ttl \in Nat \ {0}

VARIABLES
    space,         \* the space document
    members,       \* membership documents: user -> document
    invitations,   \* invitation documents: id -> document
    lastEvent      \* the latest membership event about each user

vars == <<space, members, invitations, lastEvent>>

NoOne == "no one"

SpaceDocument ==
    [state : {"none"}, owner : {NoOne}] \cup [state : {"live", "deleted"}, owner : User]

MemberDocument ==
    [status : {"active", "left", "removed"}, permissions : SUBSET Permission,
     endReason : {"none", "member_left", "member_removed", "space_deleted", "user_deleted"}]

(* expiresIn is what the clock still has to run to expiresAt.              *)
InvitationDocument ==
    [status : {"pending", "accepted", "revoked"}, expiresIn : 0 .. Ttl,
     acceptedBy : User \cup {NoOne}]

Kind == {"none", "joined", "left", "removed", "permissions-updated",
         "ownership-transferred", "space-deleted"}

Store(f, id, document) ==
    [x \in DOMAIN f \cup {id} |-> IF x = id THEN document ELSE f[x]]

-----------------------------------------------------------------------------
(* Access.                                                                 *)

IsLive == space.state = "live"

IsMember(u) == u \in DOMAIN members /\ members[u].status = "active"

(* requireMember and requireOwner, after serializeMutation has found the   *)
(* space not deleted.                                                      *)
RequireMember(u) == IsLive /\ IsMember(u)

RequireOwner(u) == RequireMember(u) /\ space.owner = u

(* Mutant of Journal: only the first event about a user is stored.         *)
JournalFirst(u, kind) == [lastEvent EXCEPT ![u] = IF @ = "none" THEN kind ELSE @]

(* event: one more entry in the journal of memberships.                    *)
Journal(u, kind) == [lastEvent EXCEPT ![u] = kind]

-----------------------------------------------------------------------------
(* SpacesService.                                                          *)

CreateSpace(u) ==
    /\ space.state = "none"
    /\ space' = [state |-> "live", owner |-> u]
    /\ members' = Store(members, u,
            [status |-> "active", permissions |-> {}, endReason |-> "none"])
    /\ lastEvent' = Journal(u, "joined")
    /\ UNCHANGED invitations

(* updatePermissions: dto names the rights to set and to clear.            *)
UpdatePermissions(actor, u, granted, withdrawn) ==
    /\ RequireOwner(actor)
    /\ space.owner # u
    /\ IsMember(u)
    /\ members' = [members EXCEPT ![u].permissions = (@ \cup granted) \ withdrawn]
    /\ lastEvent' = Journal(u, "permissions-updated")
    /\ UNCHANGED <<space, invitations>>

(* Mutant of MayLeave: the owner may leave like anyone.                    *)
AnyMemberMayLeave(u) == RequireMember(u)

MayLeave(u) == RequireMember(u) /\ space.owner # u

(* Mutants of Ended: resetPermissions is forgotten; the status and the     *)
(* reason change places.                                                   *)
EndedWithRights(u, status, reason) ==
    [members[u] EXCEPT !.status = status, !.endReason = reason]

EndedSwapped(u, status, reason) ==
    [status |-> reason, permissions |-> {}, endReason |-> status]

(* resetPermissions and the membership update of leave and removeMember.   *)
Ended(u, status, reason) ==
    [status |-> status, permissions |-> {}, endReason |-> reason]

Leave(u) ==
    /\ MayLeave(u)
    /\ members' = [members EXCEPT ![u] = Ended(u, "left", "member_left")]
    /\ lastEvent' = Journal(u, "left")
    /\ UNCHANGED <<space, invitations>>

RemoveMember(actor, u) ==
    /\ RequireOwner(actor)
    /\ space.owner # u
    /\ IsMember(u)
    /\ members' = [members EXCEPT ![u] = Ended(u, "removed", "member_removed")]
    /\ lastEvent' = Journal(u, "removed")
    /\ UNCHANGED <<space, invitations>>

TransferOwnership(actor, u) ==
    /\ RequireOwner(actor)
    /\ space.owner # u
    /\ IsMember(u)
    /\ members' = [members EXCEPT ![actor].permissions = {}, ![u].permissions = {}]
    /\ space' = [space EXCEPT !.owner = u]
    /\ lastEvent' = Journal(u, "ownership-transferred")
    /\ UNCHANGED invitations

(* Mutants of AllEnded and AllRevoked: a former member's record is         *)
(* rewritten with the active ones; the pending invitations survive.        *)
HistoryEnded ==
    [u \in DOMAIN members |->
        [members[u] EXCEPT !.status = "removed", !.endReason = "space_deleted"]]

NoneRevoked == invitations

AllEnded ==
    [u \in DOMAIN members |->
        IF IsMember(u)
        THEN [members[u] EXCEPT !.status = "removed", !.endReason = "space_deleted"]
        ELSE members[u]]

AllRevoked ==
    [i \in DOMAIN invitations |->
        IF invitations[i].status = "pending"
        THEN [invitations[i] EXCEPT !.status = "revoked"]
        ELSE invitations[i]]

RemoveSpace(actor) ==
    /\ RequireOwner(actor)
    /\ space' = [space EXCEPT !.state = "deleted"]
    /\ members' = AllEnded
    /\ invitations' = AllRevoked
    /\ lastEvent' = Journal(actor, "space-deleted")

-----------------------------------------------------------------------------
(* SpaceInvitationsService.                                                *)

CreateInvitation(actor, i) ==
    /\ RequireOwner(actor)
    /\ i \notin DOMAIN invitations
    /\ invitations' = Store(invitations, i,
            [status |-> "pending", expiresIn |-> Ttl, acceptedBy |-> NoOne])
    /\ UNCHANGED <<space, members, lastEvent>>

(* Mutant of IsPending: the expiry is not looked at.                       *)
IsPendingForever(i) == i \in DOMAIN invitations /\ invitations[i].status = "pending"

(* pendingInvitation, and the test revoke makes.                           *)
IsPending(i) ==
    /\ i \in DOMAIN invitations
    /\ invitations[i].status = "pending"
    /\ invitations[i].expiresIn > 0

RevokeInvitation(actor, i) ==
    /\ RequireOwner(actor)
    /\ IsPending(i)
    /\ invitations' = [invitations EXCEPT ![i].status = "revoked"]
    /\ UNCHANGED <<space, members, lastEvent>>

(* The upsert of accept: $set leaves the stored endReason of an earlier    *)
(* membership in place ($unset removes endedAt only).                      *)
Joined(u) ==
    [status |-> "active", permissions |-> {},
     endReason |-> IF u \in DOMAIN members THEN members[u].endReason ELSE "none"]

Accept(u, i) ==
    /\ IsLive
    /\ IsPending(i)
    /\ ~IsMember(u)
    /\ invitations' = [invitations EXCEPT ![i].status = "accepted", ![i].acceptedBy = u]
    /\ members' = Store(members, u, Joined(u))
    /\ lastEvent' = Journal(u, "joined")
    /\ UNCHANGED space

(* Time passes: pending invitations come closer to their expiry.           *)
Aged ==
    [i \in DOMAIN invitations |->
        IF IsPending(i) THEN [invitations[i] EXCEPT !.expiresIn = @ - 1]
        ELSE invitations[i]]

Tick ==
    /\ invitations' = Aged
    /\ UNCHANGED <<space, members, lastEvent>>

-----------------------------------------------------------------------------

Init ==
    /\ space = [state |-> "none", owner |-> NoOne]
    /\ members = [u \in {} |-> 0]
    /\ invitations = [i \in {} |-> 0]
    /\ lastEvent = [u \in User |-> "none"]

(* What a request of user u may do.                                        *)
Request(u) ==
    \/ CreateSpace(u)
    \/ \E v \in User, p \in Permission :
            \/ UpdatePermissions(u, v, {p}, {})
            \/ UpdatePermissions(u, v, {}, {p})
    \/ Leave(u)
    \/ \E v \in User : RemoveMember(u, v) \/ TransferOwnership(u, v)
    \/ RemoveSpace(u)
    \/ \E i \in Invitation :
            CreateInvitation(u, i) \/ RevokeInvitation(u, i) \/ Accept(u, i)

Next == (\E u \in User : Request(u)) \/ Tick

Spec == Init /\ [][Next]_vars

-----------------------------------------------------------------------------
(* Properties.                                                             *)

(* The type invariant.                                                     *)
TypeOK ==
    /\ space \in SpaceDocument
    /\ DOMAIN members \subseteq User
    /\ members \in [DOMAIN members -> MemberDocument]
    /\ DOMAIN invitations \subseteq Invitation
    /\ invitations \in [DOMAIN invitations -> InvitationDocument]
    /\ lastEvent \in [User -> Kind]

(* A live space has an owner and the owner is an active member, whatever   *)
(* leaves, removals and transfers follow one another (leave and            *)
(* removeMember refuse the owner; requireOwner itself needs the active     *)
(* membership, so a space that lost it could never be repaired).           *)
OwnerIsActive == IsLive => IsMember(space.owner)

(* A deleted space is closed for good: no membership is active and no      *)
(* invitation, expired ones included, is left to be taken up.              *)
DeletedSpaceIsClosed ==
    space.state = "deleted" =>
        /\ \A u \in User : ~IsMember(u)
        /\ \A i \in DOMAIN invitations : invitations[i].status # "pending"

(* Delegated rights are never inherited: who owns the space holds none of  *)
(* his own, so handing the space over leaves him a plain member, and who   *)
(* left or was removed holds none, so joining again gives none back.       *)
RightsAreNotInherited ==
    \A u \in DOMAIN members :
        (IsLive /\ (space.owner = u \/ ~IsMember(u))) => members[u].permissions = {}

(* The journal tells the truth: the latest event about a user says he is   *)
(* in exactly when his membership is active.                               *)
JournalIsTrue ==
    IsLive => \A u \in User :
        IsMember(u) <=>
            lastEvent[u] \in {"joined", "permissions-updated", "ownership-transferred"}

(* One joins by invitation only: whoever becomes a member of the space     *)
(* takes up one invitation that was pending and not expired, and takes it  *)
(* from everyone else.                                                     *)
JoinsByInvitation ==
    [][\A u \in User : ~IsMember(u) /\ IsMember(u)' /\ space.state # "none" =>
        \E i \in DOMAIN invitations :
            /\ invitations[i].status = "pending" /\ invitations[i].expiresIn > 0
            /\ invitations'[i].status = "accepted" /\ invitations'[i].acceptedBy = u
            /\ \A v \in User \ {u} : IsMember(v)' <=> IsMember(v)]_vars

(* History is kept: an ended membership keeps how it ended until its user  *)
(* joins again, an invitation once accepted or revoked stays so, and a     *)
(* deleted space never comes back.                                         *)
HistoryIsKept ==
    [][/\ \A u \in DOMAIN members :
            ~IsMember(u) => u \in DOMAIN members' /\ (IsMember(u)' \/ members'[u] = members[u])
       /\ \A i \in DOMAIN invitations :
            invitations[i].status # "pending" => invitations'[i] = invitations[i]
       /\ space.state = "deleted" => space' = space]_vars
=============================================================================
