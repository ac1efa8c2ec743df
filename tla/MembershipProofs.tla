-------------------------- MODULE MembershipProofs --------------------------
(***************************************************************************)
(* Theorems of Membership, for every set of users, invitations and rights. *)
(***************************************************************************)
EXTENDS Membership, TLAPS

(* The inductive invariant: before the space exists nobody is in it, which *)
(* CreateSpace needs to leave no rights behind, and nothing is journalled. *)
NothingBeforeCreation ==
    space.state = "none" =>
        /\ \A u \in User : u \notin DOMAIN members /\ lastEvent[u] = "none"
        /\ DOMAIN invitations = {}

(* The events after which the user is a member.                            *)
EventOfMember == {"joined", "permissions-updated", "ownership-transferred"}

IInv ==
    /\ TypeOK
    /\ NothingBeforeCreation
    /\ OwnerIsActive
    /\ RightsAreNotInherited
    /\ DeletedSpaceIsClosed
    /\ JournalIsTrue

USE DEF SpaceDocument, MemberDocument, InvitationDocument, Kind

LEMMA TypeFacts ==
    ASSUME TypeOK
    PROVE  /\ \A u \in DOMAIN members : members[u] \in MemberDocument /\ u \in User
           /\ \A i \in DOMAIN invitations : invitations[i] \in InvitationDocument
           /\ members \in [DOMAIN members -> MemberDocument]
           /\ IsLive => space.owner \in User
BY DEF TypeOK, IsLive

(* A write of one membership document.                                     *)
LEMMA StoreFacts ==
    ASSUME TypeOK, NEW u \in User, NEW document \in MemberDocument,
           \/ members' = Store(members, u, document)
           \/ u \in DOMAIN members /\ members' = [members EXCEPT ![u] = document]
    PROVE  /\ DOMAIN members' = DOMAIN members \cup {u}
           /\ members' \in [DOMAIN members' -> MemberDocument]
           /\ DOMAIN members' \subseteq User
           /\ members'[u] = document
           /\ \A v \in DOMAIN members \ {u} : members'[v] = members[v]
<1>1. members \in [DOMAIN members -> MemberDocument] /\ DOMAIN members \subseteq User
  BY DEF TypeOK
<1>2. CASE members' = Store(members, u, document)
  BY <1>1, <1>2 DEF Store
<1>3. CASE u \in DOMAIN members /\ members' = [members EXCEPT ![u] = document]
  BY <1>1, <1>3
<1>4. QED
  BY <1>2, <1>3

LEMMA JournalFacts ==
    ASSUME TypeOK, NEW u \in User, NEW kind \in Kind
    PROVE  /\ Journal(u, kind) \in [User -> Kind]
           /\ Journal(u, kind)[u] = kind
           /\ \A v \in User \ {u} : Journal(u, kind)[v] = lastEvent[v]
BY DEF TypeOK, Journal

LEMMA CreateSpaceKeeps ==
    ASSUME IInv, NEW u \in User, CreateSpace(u)
    PROVE  IInv'
<1> DEFINE document == [status |-> "active", permissions |-> {}, endReason |-> "none"]
<1>1. /\ space.state = "none" /\ space' = [state |-> "live", owner |-> u]
      /\ members' = Store(members, u, document) /\ UNCHANGED invitations
      /\ lastEvent' = Journal(u, "joined")
  BY DEF CreateSpace
<1>2. document \in MemberDocument
  OBVIOUS
<1> HIDE DEF document
<1>3. /\ DOMAIN members' = {u} /\ members' \in [DOMAIN members' -> MemberDocument]
      /\ members'[u] = document
  BY <1>1, <1>2, StoreFacts DEF IInv, NothingBeforeCreation, TypeOK
<1>4. TypeOK'
  BY <1>1, <1>3, JournalFacts DEF IInv, TypeOK
<1>5. OwnerIsActive' /\ RightsAreNotInherited'
  BY <1>1, <1>3 DEF OwnerIsActive, RightsAreNotInherited, IsLive, IsMember, document
<1>6. NothingBeforeCreation' /\ DeletedSpaceIsClosed'
  BY <1>1 DEF NothingBeforeCreation, DeletedSpaceIsClosed
<1>7. JournalIsTrue'
  <2>1. lastEvent'[u] = "joined" /\ \A v \in User \ {u} : lastEvent'[v] = lastEvent[v]
    BY <1>1, JournalFacts DEF IInv
  <2>3. \A v \in User : lastEvent[v] = "none"
    BY <1>1 DEF IInv, NothingBeforeCreation
  <2>2. \A v \in User : IsMember(v)' <=> v = u
    BY <1>3 DEF IsMember, document
  <2>4. QED
    BY <2>1, <2>2, <2>3 DEF JournalIsTrue
<1>8. QED
  BY <1>4, <1>5, <1>6, <1>7 DEF IInv

(* A write of the membership of one user, not the owner, of a live space.  *)
LEMMA MemberWriteKeeps ==
    ASSUME IInv, IsLive, NEW u \in User, NEW document \in MemberDocument,
           u # space.owner,
           document.status # "active" => document.permissions = {},
           NEW kind \in Kind, lastEvent' = Journal(u, kind),
           document.status = "active" <=> kind \in EventOfMember,
           \/ members' = Store(members, u, document)
           \/ u \in DOMAIN members /\ members' = [members EXCEPT ![u] = document],
           UNCHANGED space,
           DOMAIN invitations' \subseteq Invitation,
           invitations' \in [DOMAIN invitations' -> InvitationDocument]
    PROVE  IInv'
<1>1. /\ DOMAIN members' = DOMAIN members \cup {u} /\ DOMAIN members' \subseteq User
      /\ members' \in [DOMAIN members' -> MemberDocument]
      /\ members'[u] = document
      /\ \A v \in DOMAIN members \ {u} : members'[v] = members[v]
  <2>1. TypeOK
    BY DEF IInv
  <2>2. CASE members' = Store(members, u, document)
    BY <2>1, <2>2, StoreFacts
  <2>3. CASE u \in DOMAIN members /\ members' = [members EXCEPT ![u] = document]
    BY <2>1, <2>3, StoreFacts
  <2>4. QED
    BY <2>2, <2>3
<1>2. TypeOK'
  BY <1>1, JournalFacts DEF IInv, TypeOK
<1>3. OwnerIsActive'
  BY <1>1 DEF IInv, OwnerIsActive, IsLive, IsMember
<1>4. RightsAreNotInherited'
  BY <1>1 DEF IInv, RightsAreNotInherited, IsLive, IsMember
<1>5. NothingBeforeCreation' /\ DeletedSpaceIsClosed'
  BY DEF IsLive, NothingBeforeCreation, DeletedSpaceIsClosed
<1>6. JournalIsTrue'
  <2> SUFFICES ASSUME NEW v \in User
               PROVE  IsMember(v)' <=> lastEvent'[v] \in EventOfMember
    BY DEF JournalIsTrue, EventOfMember
  <2>1. CASE v = u
    BY <1>1, <2>1, JournalFacts DEF IInv, IsMember
  <2>2. CASE v # u
    <3>1. lastEvent'[v] = lastEvent[v]
      BY <2>2, JournalFacts DEF IInv
    <3>2. IsMember(v)' <=> IsMember(v)
      BY <1>1, <2>2 DEF IsMember
    <3>3. QED
      BY <3>1, <3>2 DEF IInv, JournalIsTrue, EventOfMember
  <2>3. QED
    BY <2>1, <2>2
<1>7. QED
  BY <1>2, <1>3, <1>4, <1>5, <1>6 DEF IInv

LEMMA UpdatePermissionsKeeps ==
    ASSUME IInv, NEW actor \in User, NEW u \in User,
           NEW granted \in SUBSET Permission, NEW withdrawn \in SUBSET Permission,
           UpdatePermissions(actor, u, granted, withdrawn)
    PROVE  IInv'
<1> DEFINE document ==
        [members[u] EXCEPT !.permissions = (@ \cup granted) \ withdrawn]
<1>1. /\ IsLive /\ u # space.owner /\ u \in DOMAIN members
      /\ members[u].status = "active"
      /\ UNCHANGED <<space, invitations>>
  BY DEF UpdatePermissions, RequireOwner, RequireMember, IsMember
<1>2. /\ members' = [members EXCEPT ![u] = document]
      /\ lastEvent' = Journal(u, "permissions-updated")
  BY DEF UpdatePermissions
<1>3. document \in MemberDocument /\ document.status = "active"
  <2>1. members[u] \in MemberDocument
    BY <1>1, TypeFacts DEF IInv
  <2>2. document = [status |-> members[u].status, endReason |-> members[u].endReason,
                    permissions |-> (members[u].permissions \cup granted) \ withdrawn]
    BY <2>1
  <2>3. QED
    BY <1>1, <2>1, <2>2
<1> HIDE DEF document
<1>4. DOMAIN invitations' \subseteq Invitation /\ invitations' \in [DOMAIN invitations' -> InvitationDocument]
  BY <1>1 DEF IInv, TypeOK
<1>5. QED
  BY <1>1, <1>2, <1>3, <1>4, MemberWriteKeeps DEF EventOfMember

(* Leave and RemoveMember.                                                 *)
LEMMA EndKeeps ==
    ASSUME IInv, NEW u \in User, IsLive, u # space.owner, IsMember(u),
           NEW status \in {"left", "removed"},
           NEW reason \in {"member_left", "member_removed"},
           members' = [members EXCEPT ![u] = Ended(u, status, reason)],
           lastEvent' = Journal(u, status), UNCHANGED <<space, invitations>>
    PROVE  IInv'
<1>1. /\ Ended(u, status, reason) \in MemberDocument
      /\ Ended(u, status, reason).permissions = {}
      /\ Ended(u, status, reason).status # "active"
  BY DEF Ended
<1>2. u \in DOMAIN members
  BY DEF IsMember
<1>3. DOMAIN invitations' \subseteq Invitation /\ invitations' \in [DOMAIN invitations' -> InvitationDocument]
  BY DEF IInv, TypeOK
<1>4. QED
  BY <1>1, <1>2, <1>3, MemberWriteKeeps DEF EventOfMember

LEMMA LeaveKeeps ==
    ASSUME IInv, NEW u \in User, Leave(u)
    PROVE  IInv'
BY EndKeeps DEF Leave, MayLeave, RequireMember

LEMMA RemoveMemberKeeps ==
    ASSUME IInv, NEW actor \in User, NEW u \in User, RemoveMember(actor, u)
    PROVE  IInv'
BY EndKeeps DEF RemoveMember, RequireOwner, RequireMember

LEMMA AcceptKeeps ==
    ASSUME IInv, NEW u \in User, NEW i \in Invitation, Accept(u, i)
    PROVE  IInv'
<1>1. /\ IsLive /\ ~IsMember(u) /\ i \in DOMAIN invitations
      /\ members' = Store(members, u, Joined(u)) /\ UNCHANGED space
      /\ lastEvent' = Journal(u, "joined")
      /\ invitations' = [invitations EXCEPT ![i].status = "accepted", ![i].acceptedBy = u]
  BY DEF Accept, IsPending
<1>2. u # space.owner
  BY <1>1 DEF IInv, OwnerIsActive
<1>3. Joined(u) \in MemberDocument /\ Joined(u).status = "active"
  BY TypeFacts DEF Joined, IInv
<1>4. DOMAIN invitations' \subseteq Invitation /\ invitations' \in [DOMAIN invitations' -> InvitationDocument]
  BY <1>1 DEF IInv, TypeOK
<1>5. QED
  BY <1>1, <1>2, <1>3, <1>4, MemberWriteKeeps DEF EventOfMember

LEMMA TransferOwnershipKeeps ==
    ASSUME IInv, NEW actor \in User, NEW u \in User, TransferOwnership(actor, u)
    PROVE  IInv'
<1>1. /\ IsLive /\ IsMember(actor) /\ space.owner = actor /\ IsMember(u) /\ u # actor
      /\ members' = [members EXCEPT ![actor].permissions = {}, ![u].permissions = {}]
      /\ space' = [space EXCEPT !.owner = u] /\ UNCHANGED invitations
      /\ lastEvent' = Journal(u, "ownership-transferred")
  BY DEF TransferOwnership, RequireOwner, RequireMember
<1>2. /\ actor \in DOMAIN members /\ u \in DOMAIN members
      /\ space' = [state |-> "live", owner |-> u]
  BY <1>1 DEF IInv, TypeOK, IsLive, IsMember
<1>3. /\ DOMAIN members' = DOMAIN members
      /\ members' \in [DOMAIN members -> MemberDocument]
      /\ \A v \in DOMAIN members : members'[v].status = members[v].status
      /\ \A v \in DOMAIN members \ {actor, u} : members'[v] = members[v]
      /\ members'[actor].permissions = {} /\ members'[u].permissions = {}
  BY <1>1, <1>2, TypeFacts DEF IInv
<1>4. TypeOK'
  <2>1. lastEvent' \in [User -> Kind]
    BY <1>1, JournalFacts DEF IInv
  <2>2. space' \in SpaceDocument
    BY <1>2
  <2>3. DOMAIN members' \subseteq User /\ members' \in [DOMAIN members' -> MemberDocument]
    BY <1>3 DEF IInv, TypeOK
  <2>4. QED
    BY <1>1, <2>1, <2>2, <2>3 DEF IInv, TypeOK
<1>5. OwnerIsActive' /\ RightsAreNotInherited'
  BY <1>1, <1>2, <1>3 DEF IInv, OwnerIsActive, RightsAreNotInherited, IsLive, IsMember
<1>6. NothingBeforeCreation' /\ DeletedSpaceIsClosed'
  BY <1>2 DEF NothingBeforeCreation, DeletedSpaceIsClosed
<1>7. JournalIsTrue'
  <2>1. \A v \in User : IsMember(v)' <=> IsMember(v)
    BY <1>3 DEF IsMember
  <2>2. /\ lastEvent'[u] = "ownership-transferred"
        /\ \A v \in User \ {u} : lastEvent'[v] = lastEvent[v]
    BY <1>1, JournalFacts DEF IInv
  <2>3. QED
    BY <1>1, <2>1, <2>2 DEF IInv, JournalIsTrue
<1>8. QED
  BY <1>4, <1>5, <1>6, <1>7 DEF IInv

LEMMA RemoveSpaceKeeps ==
    ASSUME IInv, NEW actor \in User, RemoveSpace(actor)
    PROVE  IInv'
<1>1. /\ IsLive /\ space' = [space EXCEPT !.state = "deleted"]
      /\ members' = AllEnded /\ invitations' = AllRevoked
      /\ lastEvent' = Journal(actor, "space-deleted")
  BY DEF RemoveSpace, RequireOwner, RequireMember
<1>2. space' = [state |-> "deleted", owner |-> space.owner] /\ space.owner \in User
  BY <1>1 DEF IInv, TypeOK, IsLive
<1>3. /\ DOMAIN members' = DOMAIN members
      /\ \A v \in DOMAIN members : members'[v] \in MemberDocument
      /\ \A v \in DOMAIN members : members'[v].status # "active"
  BY <1>1, TypeFacts DEF IInv, AllEnded, IsMember
<1>4. /\ DOMAIN invitations' = DOMAIN invitations
      /\ \A i \in DOMAIN invitations : invitations'[i] \in InvitationDocument
      /\ \A i \in DOMAIN invitations : invitations'[i].status # "pending"
  BY <1>1, TypeFacts DEF IInv, AllRevoked
<1>5. TypeOK'
  <2>1. members' \in [DOMAIN members' -> MemberDocument]
    BY <1>1, <1>3 DEF AllEnded
  <2>2. invitations' \in [DOMAIN invitations' -> InvitationDocument]
    BY <1>1, <1>4 DEF AllRevoked
  <2>3. lastEvent' \in [User -> Kind]
    BY <1>1, JournalFacts DEF IInv
  <2>4. QED
    BY <1>2, <1>3, <1>4, <2>1, <2>2, <2>3 DEF IInv, TypeOK
<1>6. /\ NothingBeforeCreation' /\ OwnerIsActive' /\ RightsAreNotInherited'
      /\ JournalIsTrue'
  BY <1>2 DEF NothingBeforeCreation, OwnerIsActive, RightsAreNotInherited, IsLive,
     JournalIsTrue
<1>7. DeletedSpaceIsClosed'
  BY <1>3, <1>4 DEF DeletedSpaceIsClosed, IsMember
<1>8. QED
  BY <1>5, <1>6, <1>7 DEF IInv

(* What CreateInvitation, RevokeInvitation and Tick share.                 *)
LEMMA InvitationWriteKeeps ==
    ASSUME IInv, UNCHANGED <<space, members, lastEvent>>,
           DOMAIN invitations' \subseteq Invitation,
           \A i \in DOMAIN invitations' : invitations'[i] \in InvitationDocument,
           invitations' = [i \in DOMAIN invitations' |-> invitations'[i]],
           \/ IsLive
           \/ /\ DOMAIN invitations' = DOMAIN invitations
              /\ \A i \in DOMAIN invitations :
                    invitations'[i].status = invitations[i].status
    PROVE  IInv'
<1>1. TypeOK'
  BY DEF IInv, TypeOK
<1>2. OwnerIsActive' /\ RightsAreNotInherited'
  BY DEF IInv, OwnerIsActive, RightsAreNotInherited, IsLive, IsMember
<1>3. NothingBeforeCreation' /\ DeletedSpaceIsClosed'
  BY DEF IInv, NothingBeforeCreation, DeletedSpaceIsClosed, IsLive, IsMember
<1>4. JournalIsTrue'
  BY DEF IInv, JournalIsTrue, IsLive, IsMember
<1>5. QED
  BY <1>1, <1>2, <1>3, <1>4 DEF IInv

LEMMA CreateInvitationKeeps ==
    ASSUME IInv, NEW actor \in User, NEW i \in Invitation, CreateInvitation(actor, i)
    PROVE  IInv'
<1>1. [status |-> "pending", expiresIn |-> Ttl, acceptedBy |-> NoOne] \in InvitationDocument
  BY MembershipAssumption
<1>2. QED
  BY <1>1, TypeFacts, InvitationWriteKeeps
     DEF CreateInvitation, RequireOwner, RequireMember, Store, IInv, TypeOK

LEMMA RevokeInvitationKeeps ==
    ASSUME IInv, NEW actor \in User, NEW i \in Invitation, RevokeInvitation(actor, i)
    PROVE  IInv'
<1>1. /\ IsLive /\ i \in DOMAIN invitations
      /\ invitations' = [invitations EXCEPT ![i].status = "revoked"]
      /\ UNCHANGED <<space, members, lastEvent>>
  BY DEF RevokeInvitation, RequireOwner, RequireMember, IsPending
<1>2. invitations' \in [DOMAIN invitations' -> InvitationDocument]
  BY <1>1 DEF IInv, TypeOK
<1>3. DOMAIN invitations' \subseteq Invitation
  BY <1>1 DEF IInv, TypeOK
<1>4. QED
  BY <1>1, <1>2, <1>3, InvitationWriteKeeps

LEMMA TickKeeps ==
    ASSUME IInv, Tick
    PROVE  IInv'
<1>1. \A i \in DOMAIN invitations :
        /\ Aged[i] \in InvitationDocument /\ Aged[i].status = invitations[i].status
  <2> SUFFICES ASSUME NEW i \in DOMAIN invitations
               PROVE  /\ Aged[i] \in InvitationDocument
                      /\ Aged[i].status = invitations[i].status
    OBVIOUS
  <2>1. invitations[i] \in InvitationDocument
    BY TypeFacts DEF IInv
  <2>2. CASE IsPending(i)
    <3>1. invitations[i].expiresIn - 1 \in 0 .. Ttl
      BY <2>1, <2>2, MembershipAssumption DEF IsPending
    <3>2. Aged[i] = [invitations[i] EXCEPT !.expiresIn = @ - 1]
      BY <2>2 DEF Aged
    <3>3. QED
      BY <2>1, <3>1, <3>2
  <2>3. CASE ~IsPending(i)
    BY <2>1, <2>3 DEF Aged
  <2>4. QED
    BY <2>2, <2>3
<1>2. DOMAIN Aged = DOMAIN invitations /\ Aged = [i \in DOMAIN Aged |-> Aged[i]]
  BY DEF Aged
<1>3. QED
  BY <1>1, <1>2, InvitationWriteKeeps DEF Tick, IInv, TypeOK

-----------------------------------------------------------------------------

LEMMA InitKeeps == Init => IInv
BY DEF Init, IInv, TypeOK, NothingBeforeCreation, OwnerIsActive,
       RightsAreNotInherited, DeletedSpaceIsClosed, JournalIsTrue, IsLive, IsMember

LEMMA NextKeeps ==
    ASSUME IInv, [Next]_vars
    PROVE  IInv'
<1>1. ASSUME NEW u \in User, Request(u)
      PROVE  IInv'
  <2>1. CASE CreateSpace(u) \/ Leave(u) \/ RemoveSpace(u)
    BY <2>1, CreateSpaceKeeps, LeaveKeeps, RemoveSpaceKeeps
  <2>2. ASSUME NEW v \in User, NEW p \in Permission,
               UpdatePermissions(u, v, {p}, {}) \/ UpdatePermissions(u, v, {}, {p})
        PROVE  IInv'
    <3>1. {p} \in SUBSET Permission /\ {} \in SUBSET Permission
      OBVIOUS
    <3>2. QED
      BY <2>2, <3>1, UpdatePermissionsKeeps
  <2>3. ASSUME NEW v \in User, RemoveMember(u, v) \/ TransferOwnership(u, v)
        PROVE  IInv'
    BY <2>3, RemoveMemberKeeps, TransferOwnershipKeeps
  <2>4. ASSUME NEW i \in Invitation,
               CreateInvitation(u, i) \/ RevokeInvitation(u, i) \/ Accept(u, i)
        PROVE  IInv'
    BY <2>4, CreateInvitationKeeps, RevokeInvitationKeeps, AcceptKeeps
  <2>5. QED
    BY <1>1, <2>1, <2>2, <2>3, <2>4 DEF Request
<1>2. CASE UNCHANGED vars
  BY <1>2 DEF vars, IInv, TypeOK, NothingBeforeCreation, OwnerIsActive,
       RightsAreNotInherited, DeletedSpaceIsClosed, JournalIsTrue, IsLive, IsMember
<1>3. QED
  BY <1>1, <1>2, TickKeeps DEF Next

(* The inductive invariant holds throughout.                               *)
THEOREM MembershipInvariant == Spec => []IInv
<1>1. IInv /\ [Next]_vars => IInv'
  BY NextKeeps
<1>2. QED
  BY <1>1, InitKeeps, PTL DEF Spec

(* Every document keeps its shape.                                         *)
THEOREM MembershipTypeCorrect == Spec => []TypeOK
<1>1. IInv => TypeOK
  BY DEF IInv
<1>2. QED
  BY <1>1, MembershipInvariant, PTL

(* A live space never loses its active owner.                              *)
THEOREM OwnerStaysActive == Spec => []OwnerIsActive
<1>1. IInv => OwnerIsActive
  BY DEF IInv
<1>2. QED
  BY <1>1, MembershipInvariant, PTL

(* Neither the owner nor a former member holds delegated rights.           *)
THEOREM RightsEndWithMembership == Spec => []RightsAreNotInherited
<1>1. IInv => RightsAreNotInherited
  BY DEF IInv
<1>2. QED
  BY <1>1, MembershipInvariant, PTL

(* A deleted space has no member and no invitation to take up.             *)
THEOREM DeletedSpaceStaysClosed == Spec => []DeletedSpaceIsClosed
<1>1. IInv => DeletedSpaceIsClosed
  BY DEF IInv
<1>2. QED
  BY <1>1, MembershipInvariant, PTL

(* The journal says of every user whether he is in the space.              *)
THEOREM JournalTellsTheTruth == Spec => []JournalIsTrue
<1>1. IInv => JournalIsTrue
  BY DEF IInv
<1>2. QED
  BY <1>1, MembershipInvariant, PTL

-----------------------------------------------------------------------------
(* What a step does to the documents it finds, from their types alone:     *)
(* module UserDeletion, where OwnerIsActive does not hold, uses these too. *)

(* The types, which every operation keeps whatever else holds.             *)
LEMMA RequestTypes ==
    ASSUME TypeOK, NEW u \in User, Request(u)
    PROVE  TypeOK'
<1> DEFINE MembersOK == DOMAIN members \subseteq User /\ members \in [DOMAIN members -> MemberDocument]
           InvitationsOK == /\ DOMAIN invitations \subseteq Invitation
                            /\ invitations \in [DOMAIN invitations -> InvitationDocument]
<1>1. ASSUME NEW v \in User, NEW document \in MemberDocument,
             \/ members' = Store(members, v, document)
             \/ v \in DOMAIN members /\ members' = [members EXCEPT ![v] = document]
      PROVE  MembersOK'
  <2>1. CASE members' = Store(members, v, document)
    BY <2>1, StoreFacts
  <2>2. CASE v \in DOMAIN members /\ members' = [members EXCEPT ![v] = document]
    BY <2>2, StoreFacts
  <2>3. QED
    BY <1>1, <2>1, <2>2
<1>2. ASSUME NEW v \in User, NEW kind \in Kind, lastEvent' = Journal(v, kind)
      PROVE  lastEvent' \in [User -> Kind]
  BY <1>2, JournalFacts
<1>3. TypeOK <=> space \in SpaceDocument /\ MembersOK /\ InvitationsOK /\ lastEvent \in [User -> Kind]
  BY DEF TypeOK
<1>4. (space \in SpaceDocument /\ MembersOK /\ InvitationsOK /\ lastEvent \in [User -> Kind])' => TypeOK'
  BY DEF TypeOK
<1>5. CASE CreateSpace(u)
  <2>1. [status |-> "active", permissions |-> {}, endReason |-> "none"] \in MemberDocument
    OBVIOUS
  <2>2. MembersOK'
    BY <1>1, <1>5, <2>1 DEF CreateSpace
  <2>3. space' \in SpaceDocument /\ InvitationsOK' /\ lastEvent' \in [User -> Kind]
    BY <1>2, <1>3, <1>5 DEF CreateSpace
  <2>4. QED
    BY <1>4, <2>2, <2>3
<1>6. ASSUME NEW v \in User, NEW status \in {"left", "removed"},
             NEW reason \in {"member_left", "member_removed"}, IsMember(v),
             members' = [members EXCEPT ![v] = Ended(v, status, reason)]
      PROVE  MembersOK'
  <2>1. Ended(v, status, reason) \in MemberDocument /\ v \in DOMAIN members
    BY <1>6 DEF Ended, IsMember
  <2>2. QED
    BY <1>1, <1>6, <2>1
<1>7. CASE Leave(u)
  <2>1. MembersOK'
    BY <1>6, <1>7 DEF Leave, MayLeave, RequireMember
  <2>2. space' \in SpaceDocument /\ InvitationsOK' /\ lastEvent' \in [User -> Kind]
    BY <1>2, <1>3, <1>7 DEF Leave
  <2>3. QED
    BY <1>4, <2>1, <2>2
<1>8. ASSUME NEW v \in User, RemoveMember(u, v)
      PROVE  TypeOK'
  <2>1. MembersOK'
    BY <1>6, <1>8 DEF RemoveMember
  <2>2. space' \in SpaceDocument /\ InvitationsOK' /\ lastEvent' \in [User -> Kind]
    BY <1>2, <1>3, <1>8 DEF RemoveMember
  <2>3. QED
    BY <1>4, <2>1, <2>2
<1>9. ASSUME NEW v \in User, NEW granted \in SUBSET Permission,
             NEW withdrawn \in SUBSET Permission,
             UpdatePermissions(u, v, granted, withdrawn)
      PROVE  TypeOK'
  <2>1. v \in DOMAIN members /\ members[v] \in MemberDocument
    BY <1>9, TypeFacts DEF UpdatePermissions, IsMember
  <2>2. [members[v] EXCEPT !.permissions = (@ \cup granted) \ withdrawn] \in MemberDocument
    BY <2>1
  <2>3. members' = [members EXCEPT
            ![v] = [members[v] EXCEPT !.permissions = (@ \cup granted) \ withdrawn]]
    BY <1>9, <2>1 DEF UpdatePermissions
  <2>4. MembersOK'
    BY <1>1, <2>1, <2>2, <2>3
  <2>5. space' \in SpaceDocument /\ InvitationsOK' /\ lastEvent' \in [User -> Kind]
    BY <1>2, <1>3, <1>9 DEF UpdatePermissions
  <2>6. QED
    BY <1>4, <2>4, <2>5
<1>10. ASSUME NEW v \in User, TransferOwnership(u, v)
       PROVE  TypeOK'
  <2>1. MembersOK'
    BY <1>3, <1>10, TypeFacts DEF TransferOwnership, RequireOwner, RequireMember, IsMember
  <2>2. space' \in SpaceDocument
    BY <1>3, <1>10 DEF TransferOwnership, RequireOwner, RequireMember, IsLive
  <2>3. InvitationsOK' /\ lastEvent' \in [User -> Kind]
    BY <1>2, <1>3, <1>10 DEF TransferOwnership
  <2>4. QED
    BY <1>4, <2>1, <2>2, <2>3
<1>11. CASE RemoveSpace(u)
  <2>1. space' \in SpaceDocument
    BY <1>3, <1>11 DEF RemoveSpace, RequireOwner, RequireMember, IsLive
  <2>2. MembersOK'
    <3>1. \A v \in DOMAIN members : AllEnded[v] \in MemberDocument
      BY TypeFacts DEF AllEnded
    <3>2. QED
      BY <1>3, <1>11, <3>1 DEF RemoveSpace, AllEnded
  <2>3. InvitationsOK'
    <3>1. \A i \in DOMAIN invitations : AllRevoked[i] \in InvitationDocument
      BY TypeFacts DEF AllRevoked
    <3>2. QED
      BY <1>3, <1>11, <3>1 DEF RemoveSpace, AllRevoked
  <2>4. lastEvent' \in [User -> Kind]
    BY <1>2, <1>11 DEF RemoveSpace
  <2>5. QED
    BY <1>4, <2>1, <2>2, <2>3, <2>4
<1>12. ASSUME NEW i \in Invitation, CreateInvitation(u, i)
       PROVE  TypeOK'
  <2>1. [status |-> "pending", expiresIn |-> Ttl, acceptedBy |-> NoOne] \in InvitationDocument
    BY MembershipAssumption
  <2>2. InvitationsOK'
    BY <1>3, <1>12, <2>1, TypeFacts DEF CreateInvitation, Store
  <2>3. QED
    BY <1>3, <1>4, <1>12, <2>2 DEF CreateInvitation
<1>13. ASSUME NEW i \in Invitation, RevokeInvitation(u, i)
       PROVE  TypeOK'
  <2>1. InvitationsOK'
    BY <1>3, <1>13, TypeFacts DEF RevokeInvitation, IsPending
  <2>2. QED
    BY <1>3, <1>4, <1>13, <2>1 DEF RevokeInvitation
<1>14. ASSUME NEW i \in Invitation, Accept(u, i)
       PROVE  TypeOK'
  <2>1. Joined(u) \in MemberDocument
    BY TypeFacts DEF Joined
  <2>2. MembersOK'
    BY <1>1, <1>14, <2>1 DEF Accept
  <2>3. InvitationsOK'
    BY <1>3, <1>14, TypeFacts DEF Accept, IsPending
  <2>4. QED
    BY <1>2, <1>3, <1>4, <1>14, <2>2, <2>3 DEF Accept
<1>15. \A p \in Permission : {p} \in SUBSET Permission /\ {} \in SUBSET Permission
  OBVIOUS
<1>16. QED
  BY <1>5, <1>7, <1>8, <1>9, <1>10, <1>11, <1>12, <1>13, <1>14, <1>15 DEF Request

LEMMA TickTypes ==
    ASSUME TypeOK, Tick
    PROVE  TypeOK'
<1>1. \A i \in DOMAIN invitations : Aged[i] \in InvitationDocument
  <2> SUFFICES ASSUME NEW i \in DOMAIN invitations
               PROVE  Aged[i] \in InvitationDocument
    OBVIOUS
  <2>1. invitations[i] \in InvitationDocument
    BY TypeFacts
  <2>2. CASE IsPending(i)
    <3>1. invitations[i].expiresIn - 1 \in 0 .. Ttl
      BY <2>1, <2>2, MembershipAssumption DEF IsPending
    <3>2. Aged[i] = [invitations[i] EXCEPT !.expiresIn = @ - 1]
      BY <2>2 DEF Aged
    <3>3. QED
      BY <2>1, <3>1, <3>2
  <2>3. CASE ~IsPending(i)
    BY <2>1, <2>3 DEF Aged
  <2>4. QED
    BY <2>2, <2>3
<1>2. DOMAIN Aged = DOMAIN invitations /\ Aged = [i \in DOMAIN Aged |-> Aged[i]]
  BY DEF Aged
<1>3. QED
  BY <1>1, <1>2 DEF Tick, TypeOK

(* No membership vanishes, an ended one changes only when its user joins   *)
(* again, and one joins by creating the space or by an invitation.         *)
LEMMA MemberSteps ==
    ASSUME TypeOK, NEW u \in User, Request(u)
    PROVE  /\ DOMAIN members \subseteq DOMAIN members'
           /\ \A v \in DOMAIN members : ~IsMember(v) =>
                IsMember(v)' \/ members'[v] = members[v]
           /\ \A v \in User : ~IsMember(v) /\ IsMember(v)' =>
                CreateSpace(v) \/ \E i \in Invitation : Accept(v, i)
<1> USE DEF IsMember
<1>1. ASSUME NEW actor \in User, CreateSpace(actor)
      PROVE  /\ DOMAIN members' = DOMAIN members \cup {actor} /\ IsMember(actor)'
             /\ \A v \in DOMAIN members \ {actor} : members'[v] = members[v]
  BY <1>1 DEF CreateSpace, Store
<1>2. ASSUME NEW actor \in User, NEW i \in Invitation, Accept(actor, i)
      PROVE  /\ DOMAIN members' = DOMAIN members \cup {actor} /\ IsMember(actor)'
             /\ \A v \in DOMAIN members \ {actor} : members'[v] = members[v]
  BY <1>2 DEF Accept, Store, Joined
<1> DEFINE Same == /\ DOMAIN members' = DOMAIN members
                   /\ \A v \in DOMAIN members :
                        ~IsMember(v) => ~IsMember(v)' /\ members'[v] = members[v]
<1>3. ASSUME NEW actor \in User, NEW v \in User,
             NEW granted \in SUBSET Permission, NEW withdrawn \in SUBSET Permission,
             UpdatePermissions(actor, v, granted, withdrawn)
      PROVE  Same
  BY <1>3, TypeFacts DEF UpdatePermissions
<1>4. ASSUME NEW v \in User, NEW status \in {"left", "removed"}, NEW reason, IsMember(v),
             members' = [members EXCEPT ![v] = Ended(v, status, reason)]
      PROVE  Same
  BY <1>4, TypeFacts
<1>5. ASSUME NEW actor \in User, NEW v \in User, TransferOwnership(actor, v)
      PROVE  Same
  BY <1>5, TypeFacts DEF TransferOwnership, RequireOwner, RequireMember
<1>6. ASSUME NEW actor \in User, RemoveSpace(actor)
      PROVE  Same
  BY <1>6, TypeFacts DEF RemoveSpace, AllEnded
<1>7. ASSUME members' = members
      PROVE  Same
  BY <1>7
<1>8. CASE CreateSpace(u)
  BY <1>1, <1>8
<1>9. ASSUME NEW i \in Invitation, Accept(u, i)
      PROVE  /\ DOMAIN members \subseteq DOMAIN members'
             /\ \A v \in DOMAIN members : ~IsMember(v) =>
                  IsMember(v)' \/ members'[v] = members[v]
             /\ \A v \in User : ~IsMember(v) /\ IsMember(v)' => v = u
  BY <1>2, <1>9
<1>10. CASE Leave(u) \/ \E v \in User : RemoveMember(u, v)
  <2>1. Same
    BY <1>4, <1>10 DEF Leave, MayLeave, RequireMember, RemoveMember
  <2>2. QED
    BY <2>1
<1>11. CASE \E v \in User, p \in Permission :
            UpdatePermissions(u, v, {p}, {}) \/ UpdatePermissions(u, v, {}, {p})
  <2>1. \A p \in Permission : {p} \in SUBSET Permission /\ {} \in SUBSET Permission
    OBVIOUS
  <2>2. Same
    BY <1>3, <1>11, <2>1
  <2>3. QED
    BY <2>2
<1>12. CASE RemoveSpace(u) \/ \E v \in User : TransferOwnership(u, v)
  <2>1. Same
    BY <1>5, <1>6, <1>12
  <2>2. QED
    BY <2>1
<1>13. CASE \E i \in Invitation : CreateInvitation(u, i) \/ RevokeInvitation(u, i)
  BY <1>7, <1>13 DEF CreateInvitation, RevokeInvitation
<1>14. QED
  BY <1>8, <1>9, <1>10, <1>11, <1>12, <1>13 DEF Request

(* An invitation that is not pending any more does not change.             *)
LEMMA InvitationSteps ==
    ASSUME TypeOK, NEW u \in User, Request(u)
    PROVE  \A i \in DOMAIN invitations :
                invitations[i].status # "pending" => invitations'[i] = invitations[i]
<1>1. ASSUME NEW i \in Invitation, CreateInvitation(u, i)
      PROVE  \A j \in DOMAIN invitations : invitations'[j] = invitations[j]
  BY <1>1 DEF CreateInvitation, Store
<1>2. ASSUME NEW i \in Invitation, RevokeInvitation(u, i) \/ Accept(u, i)
      PROVE  /\ invitations[i].status = "pending"
             /\ \A j \in DOMAIN invitations \ {i} : invitations'[j] = invitations[j]
  BY <1>2, TypeFacts DEF RevokeInvitation, Accept, IsPending, TypeOK
<1>3. CASE RemoveSpace(u)
  BY <1>3 DEF RemoveSpace, AllRevoked
<1>4. CASE UNCHANGED invitations
  BY <1>4
<1>5. QED
  BY <1>1, <1>2, <1>3, <1>4
  DEF Request, CreateSpace, UpdatePermissions, Leave, RemoveMember, TransferOwnership

OwnerPresent == IsMember(space.owner)

(* A space with an owner keeps an owner in it, unless he had gone before.  *)
LEMMA SpaceSteps ==
    ASSUME TypeOK, NEW u \in User, Request(u)
    PROVE  /\ space.state = "deleted" => space' = space
           /\ IsLive' => OwnerPresent' \/ (IsLive /\ space' = space /\ ~OwnerPresent)
<1> USE DEF IsLive
<1>1. CASE CreateSpace(u)
  <2>1. space.state = "none" /\ space'.owner = u
    BY <1>1 DEF CreateSpace
  <2>2. u \in DOMAIN members' /\ members'[u].status = "active"
    BY <1>1 DEF CreateSpace, Store
  <2>3. QED
    BY <2>1, <2>2 DEF OwnerPresent, IsMember
<1>2. ASSUME NEW v \in User, TransferOwnership(u, v)
      PROVE  space.state = "live" /\ OwnerPresent'
  <2>1. /\ space.state = "live" /\ space' = [space EXCEPT !.owner = v]
        /\ v \in DOMAIN members /\ members[v].status = "active"
        /\ members' = [members EXCEPT ![u].permissions = {}, ![v].permissions = {}]
    BY <1>2 DEF TransferOwnership, RequireOwner, RequireMember, IsMember
  <2>2. space'.owner = v
    BY <2>1 DEF TypeOK
  <2>3. v \in DOMAIN members' /\ members'[v].status = "active"
    BY <2>1, TypeFacts
  <2>4. QED
    BY <2>1, <2>2, <2>3 DEF OwnerPresent, IsMember
<1>3. CASE RemoveSpace(u)
  <2>1. space' = [space EXCEPT !.state = "deleted"] /\ space.state = "live"
    BY <1>3 DEF RemoveSpace, RequireOwner, RequireMember
  <2>2. space'.state = "deleted"
    BY <2>1 DEF TypeOK
  <2>3. QED
    BY <2>1, <2>2
<1>4. ASSUME UNCHANGED space,
             \A v \in DOMAIN members : v = space.owner /\ IsMember(v) => IsMember(v)'
      PROVE  /\ space.state = "deleted" => space' = space
             /\ IsLive' => OwnerPresent' \/ (IsLive /\ space' = space /\ ~OwnerPresent)
  <2>1. OwnerPresent => OwnerPresent'
    BY <1>4 DEF OwnerPresent, IsMember
  <2>2. QED
    BY <1>4, <2>1
<1>5. ASSUME NEW v \in User, NEW document, v # space.owner,
             \/ members' = Store(members, v, document)
             \/ members' = [members EXCEPT ![v] = document]
      PROVE  \A w \in DOMAIN members : w = space.owner /\ IsMember(w) => IsMember(w)'
  BY <1>5 DEF IsMember, Store
<1>6. CASE Leave(u) \/ \E v \in User : RemoveMember(u, v)
  BY <1>4, <1>5, <1>6 DEF Leave, MayLeave, RemoveMember
<1>7. ASSUME NEW v \in User,
             NEW granted \in SUBSET Permission, NEW withdrawn \in SUBSET Permission,
             UpdatePermissions(u, v, granted, withdrawn)
      PROVE  /\ UNCHANGED space
             /\ \A w \in DOMAIN members : IsMember(w) => IsMember(w)'
  BY <1>7, TypeFacts DEF UpdatePermissions, IsMember
<1>8. ASSUME NEW i \in Invitation, Accept(u, i)
      PROVE  /\ UNCHANGED space
             /\ \A w \in DOMAIN members : IsMember(w) => IsMember(w)'
  BY <1>8, TypeFacts DEF Accept, IsMember, Store, Joined
<1>9. ASSUME NEW i \in Invitation, CreateInvitation(u, i) \/ RevokeInvitation(u, i)
      PROVE  UNCHANGED <<space, members>>
  BY <1>9 DEF CreateInvitation, RevokeInvitation
<1>10. CASE \E v \in User, p \in Permission :
            UpdatePermissions(u, v, {p}, {}) \/ UpdatePermissions(u, v, {}, {p})
  <2>1. \A p \in Permission : {p} \in SUBSET Permission /\ {} \in SUBSET Permission
    OBVIOUS
  <2>2. QED
    BY <1>4, <1>7, <1>10, <2>1
<1>11. CASE \E i \in Invitation :
                CreateInvitation(u, i) \/ RevokeInvitation(u, i) \/ Accept(u, i)
  BY <1>4, <1>8, <1>9, <1>11 DEF IsMember
<1>12. QED
  BY <1>1, <1>2, <1>3, <1>6, <1>10, <1>11 DEF Request

LEMMA TickSteps ==
    ASSUME TypeOK, Tick
    PROVE  /\ UNCHANGED <<space, members, lastEvent>>
           /\ DOMAIN invitations' = DOMAIN invitations
           /\ \A i \in DOMAIN invitations :
                invitations[i].status # "pending" => invitations'[i] = invitations[i]
BY DEF Tick, Aged, IsPending

(* Whoever becomes a member takes up one pending invitation.               *)
THEOREM InvitationIsTakenUp == Spec => JoinsByInvitation
<1>1. ASSUME IInv, [Next]_vars, NEW u \in User,
             ~IsMember(u), IsMember(u)', space.state # "none"
      PROVE  \E i \in DOMAIN invitations :
                /\ invitations[i].status = "pending" /\ invitations[i].expiresIn > 0
                /\ invitations'[i].status = "accepted" /\ invitations'[i].acceptedBy = u
                /\ \A v \in User \ {u} : IsMember(v)' <=> IsMember(v)
  <2>1. ~UNCHANGED members
    BY <1>1 DEF IsMember
  <2>2. PICK v \in User : Request(v)
    BY <1>1, <2>1 DEF Next, Tick, vars
  <2>3. PICK i \in Invitation : Accept(u, i)
    BY <1>1, <2>2, MemberSteps DEF IInv, CreateSpace
  <2>4. /\ i \in DOMAIN invitations
        /\ invitations[i].status = "pending" /\ invitations[i].expiresIn > 0
        /\ invitations' = [invitations EXCEPT ![i].status = "accepted", ![i].acceptedBy = u]
        /\ members' = Store(members, u, Joined(u))
    BY <2>3 DEF Accept, IsPending
  <2>5. invitations'[i].status = "accepted" /\ invitations'[i].acceptedBy = u
    <3>1. invitations[i] \in InvitationDocument
      BY <1>1, <2>4, TypeFacts DEF IInv
    <3>2. invitations'[i] = [invitations[i] EXCEPT !.status = "accepted", !.acceptedBy = u]
      BY <1>1, <2>4 DEF IInv, TypeOK
    <3>3. QED
      BY <3>1, <3>2
  <2>6. \A w \in User \ {u} : IsMember(w)' <=> IsMember(w)
    BY <2>4 DEF IsMember, Store
  <2>7. QED
    BY <2>4, <2>5, <2>6
<1>2. IInv /\ [Next]_vars =>
        [\A u \in User : ~IsMember(u) /\ IsMember(u)' /\ space.state # "none" =>
            \E i \in DOMAIN invitations :
                /\ invitations[i].status = "pending" /\ invitations[i].expiresIn > 0
                /\ invitations'[i].status = "accepted" /\ invitations'[i].acceptedBy = u
                /\ \A v \in User \ {u} : IsMember(v)' <=> IsMember(v)]_vars
  BY <1>1
<1>3. QED
  BY <1>2, MembershipInvariant, PTL DEF Spec, JoinsByInvitation

(* How a membership or an invitation ended is not rewritten.               *)
THEOREM HistoryStays == Spec => HistoryIsKept
<1>1. ASSUME IInv, [Next]_vars
      PROVE  /\ \A u \in DOMAIN members :
                    ~IsMember(u) => /\ u \in DOMAIN members'
                                    /\ IsMember(u)' \/ members'[u] = members[u]
             /\ \A i \in DOMAIN invitations :
                    invitations[i].status # "pending" => invitations'[i] = invitations[i]
             /\ space.state = "deleted" => space' = space
  <2>1. ASSUME NEW v \in User, Request(v)
        PROVE  /\ \A u \in DOMAIN members :
                    ~IsMember(u) => /\ u \in DOMAIN members'
                                    /\ IsMember(u)' \/ members'[u] = members[u]
               /\ \A i \in DOMAIN invitations :
                    invitations[i].status # "pending" => invitations'[i] = invitations[i]
               /\ space.state = "deleted" => space' = space
    BY <1>1, <2>1, MemberSteps, InvitationSteps, SpaceSteps DEF IInv
  <2>2. CASE Tick
    BY <1>1, <2>2, TickSteps DEF IInv
  <2>3. CASE UNCHANGED vars
    BY <2>3 DEF vars
  <2>4. QED
    BY <1>1, <2>1, <2>2, <2>3 DEF Next
<1>2. IInv /\ [Next]_vars =>
        [/\ \A u \in DOMAIN members :
              ~IsMember(u) => u \in DOMAIN members' /\ (IsMember(u)' \/ members'[u] = members[u])
         /\ \A i \in DOMAIN invitations :
              invitations[i].status # "pending" => invitations'[i] = invitations[i]
         /\ space.state = "deleted" => space' = space]_vars
  BY <1>1
<1>3. QED
  BY <1>2, MembershipInvariant, PTL DEF Spec, HistoryIsKept
=============================================================================
