---------------------------- MODULE SpaceWrites -----------------------------
(***************************************************************************)
(* The transaction every write to a space runs in (BudgetWriteService.run, *)
(* SpacesTransactionService.run with SpacesService.mutate, and             *)
(* SpaceInvitationsService.accept): concurrent requests, each one a        *)
(* MongoDB transaction that increments the space's mutationVersion, checks *)
(* the actor's membership, does its work and commits, and that the driver  *)
(* retries on a write conflict.                                            *)
(*                                                                         *)
(* MongoDB is external, modelled by its snapshot isolation: a transaction  *)
(* reads the state of its first operation, and a write to a document that  *)
(* another open transaction has written, or that was committed after the   *)
(* snapshot, is a write conflict.  The worker that deletes users writes    *)
(* memberships outside any transaction (module UserDeletion).              *)
(***************************************************************************)
EXTENDS Integers, FiniteSets

CONSTANTS
    User,
    Owner,       \* the owner of the space
    Erased,      \* users whose membership the deletion worker ends
    Request      \* ids of the requests: bounds how many are made

ASSUME SpaceWritesAssumption == Owner \in User /\ Erased \subseteq User \ {Owner}

ASSUME RequestAssumption == IsFiniteSet(Request)

(* The ids of users are no names of other documents, and "none" is no id.  *)
ASSUME IdsAssumption ==
    {"space", "ledger", "none"} \cap User = {} /\ "none" \notin Request

VARIABLES
    db,          \* the committed documents
    locks,       \* the open transaction that has written each document
    requests     \* the state of each request

vars == <<db, locks, requests>>

None == "none"

(* "space" stands for the space document (TRUE: not deleted), "ledger" for *)
(* the space's accounts, rows and snapshots (the number of writes), and a  *)
(* user for that user's membership (TRUE: active).                         *)
Document == {"space", "ledger"} \cup User

IsDatabase(f) ==
    /\ DOMAIN f = Document
    /\ f["ledger"] \in 0 .. Cardinality(Request)
    /\ \A d \in Document \ {"ledger"} : f[d] \in BOOLEAN

Kind == {"write", "join", "leave", "delete"}

Open == {"begun", "serialized", "authorised", "ready"}

Blank == [pc |-> "unsent", actor |-> None, kind |-> None,
          view |-> <<>>, wrote |-> {}, stale |-> {},
          committed |-> FALSE, reply |-> None]

(* A request without a transaction.                                        *)
Closed(q, pc) == [q EXCEPT !.pc = pc, !.view = <<>>, !.wrote = {}, !.stale = {}]

Holds(r, d) == d \in requests[r].wrote

IsOpen(r) == requests[r].pc \in Open

-----------------------------------------------------------------------------
(* MongoDB.                                                                *)

CanWrite(r, ds) ==
    \A d \in ds : locks[d] \in {None, r} /\ d \notin requests[r].stale

(* Transaction r writes the documents ds, whose new values are in view.    *)
Write(r, ds, view, pc) ==
    /\ CanWrite(r, ds)
    /\ locks' = [d \in Document |-> IF d \in ds THEN r ELSE locks[d]]
    /\ requests' = [requests EXCEPT ![r].pc = pc, ![r].view = view,
                                    ![r].wrote = @ \cup ds]
    /\ UNCHANGED db

(* Mutant of Unlocked: the session is never ended.                         *)
StillLocked(r) == locks

(* The end of a transaction, by commit, abort or endSession.               *)
Unlocked(r) == [d \in Document |-> IF locks[d] = r THEN None ELSE locks[d]]

(* Transaction r ends without effect; the request goes on as `request`.    *)
Abort(r, request) ==
    /\ locks' = Unlocked(r)
    /\ requests' = [requests EXCEPT ![r] = request]
    /\ UNCHANGED db

(* Everyone whose snapshot is older than a write of ds.                    *)
Outdated(rs, ds) ==
    [q \in Request |->
        IF rs[q].pc \in Open THEN [rs[q] EXCEPT !.stale = @ \cup ds] ELSE rs[q]]

-----------------------------------------------------------------------------
(* A request.                                                              *)

Send(r, u, kind) ==
    /\ requests[r].pc = "unsent"
    /\ requests' = [requests EXCEPT ![r].pc = "sent", ![r].actor = u, ![r].kind = kind]
    /\ UNCHANGED <<db, locks>>

(* The first operation of the transaction takes the snapshot: for accept,  *)
(* pendingInvitation; for the others, the read half of serializeMutation.  *)
Begin(r) ==
    /\ requests[r].pc = "sent"
    /\ requests' = [requests EXCEPT ![r].pc = "begun", ![r].view = db]
    /\ UNCHANGED <<db, locks>>

Answer(r, reply) == [Closed(requests[r], "answered") EXCEPT !.reply = reply]

(* Mutant of SerializedDocuments: the space is read and not written.       *)
NothingSerialized == {}

SerializedDocuments == {"space"}

(* Mutant of Found: a deleted space is found too.                          *)
FoundDeleted(r) == TRUE

Found(r) == requests[r].view["space"]

(* serializeMutation: found and incremented, or 404.                       *)
Serialize(r) ==
    /\ requests[r].pc = "begun"
    /\ IF Found(r)
       THEN Write(r, SerializedDocuments, requests[r].view, "serialized")
       ELSE Abort(r, Answer(r, "refused"))

(* requireMember, requirePermission and requireOwner; leave refuses the    *)
(* owner; accept refuses a member.                                         *)
MayAct(kind, actor, view) ==
    /\ kind = "join" <=> ~view[actor]
    /\ kind = "leave" => actor # Owner
    /\ kind = "delete" => actor = Owner

Authorise(r) ==
    LET q == requests[r]
    IN  /\ q.pc = "serialized"
        /\ IF MayAct(q.kind, q.actor, q.view)
           THEN /\ requests' = [requests EXCEPT ![r].pc = "authorised"]
                /\ UNCHANGED <<db, locks>>
           ELSE Abort(r, Answer(r, "refused"))

Members(view) == {u \in User : view[u]}

(* The work of the request, as it sees the database.                       *)
Work(r) ==
    LET q == requests[r]
    IN  /\ q.pc = "authorised"
        /\ \/ /\ q.kind = "write"
              /\ Write(r, {"ledger"}, [q.view EXCEPT !["ledger"] = @ + 1], "ready")
           \/ /\ q.kind = "join"
              /\ Write(r, {q.actor}, [q.view EXCEPT ![q.actor] = TRUE], "ready")
           \/ /\ q.kind = "leave"
              /\ Write(r, {q.actor}, [q.view EXCEPT ![q.actor] = FALSE], "ready")
           \/ /\ q.kind = "delete"
              /\ Write(r, {"space"} \cup Members(q.view),
                       [d \in Document |->
                           IF d \in {"space"} \cup Members(q.view) THEN FALSE
                           ELSE q.view[d]],
                       "ready")

(* What r is about to write at its step.                                   *)
NextWrites(r) ==
    LET q == requests[r]
    IN  CASE q.pc = "begun" /\ Found(r) -> SerializedDocuments
          [] q.pc = "authorised" /\ q.kind = "write" -> {"ledger"}
          [] q.pc = "authorised" /\ q.kind \in {"join", "leave"} -> {q.actor}
          [] q.pc = "authorised" /\ q.kind = "delete" -> {"space"} \cup Members(q.view)
          [] OTHER -> {}

(* A write conflict aborts the transaction and withTransaction begins it   *)
(* again.                                                                  *)
Conflict(r) ==
    /\ ~CanWrite(r, NextWrites(r))
    /\ Abort(r, Closed(requests[r], "sent"))

(* The server commits.                                                     *)
Commit(r) ==
    LET q == requests[r]
    IN  /\ q.pc = "ready"
        /\ db' = [d \in Document |-> IF Holds(r, d) THEN q.view[d] ELSE db[d]]
        /\ locks' = Unlocked(r)
        /\ requests' = [Outdated(requests, q.wrote) EXCEPT
                ![r] = [Closed(q, "committed") EXCEPT !.committed = TRUE]]

(* The acknowledgement arrives.                                            *)
Acknowledge(r) ==
    /\ requests[r].pc = "committed"
    /\ requests' = [requests EXCEPT ![r] = Answer(r, "ok")]
    /\ UNCHANGED <<db, locks>>

(* Mutant of GivenUp: the whole operation is run again.                    *)
RunAgain(r) == Closed(requests[r], "sent")

GivenUp(r) == Answer(r, "unavailable")

(* Fifteen seconds have passed, or the connection has failed for good: the *)
(* catch block turns any error that is not an HttpException into a 503.    *)
(* The outcome of a commit whose acknowledgement is lost is not looked at. *)
Unavailable(r) ==
    /\ requests[r].pc \in Open \cup {"sent", "committed"}
    /\ Abort(r, GivenUp(r))

(* The server process dies; MongoDB aborts its open transaction.           *)
Crash(r) ==
    /\ requests[r].pc \in Open \cup {"sent", "committed"}
    /\ Abort(r, Answer(r, None))

(* The deletion worker: updateMany outside any transaction; it waits for a *)
(* transaction that has written the document.                              *)
Erase(u) ==
    /\ u \in Erased
    /\ db[u] /\ locks[u] = None
    /\ db' = [db EXCEPT ![u] = FALSE]
    /\ requests' = Outdated(requests, {u})
    /\ UNCHANGED locks

-----------------------------------------------------------------------------

Init ==
    /\ \E s \in SUBSET User :
        /\ Owner \in s
        /\ db = [d \in Document |->
                    CASE d = "space" -> TRUE [] d = "ledger" -> 0 [] OTHER -> d \in s]
    /\ locks = [d \in Document |-> None]
    /\ requests = [r \in Request |-> Blank]

Progress(r) ==
    \/ Begin(r) \/ Serialize(r) \/ Authorise(r) \/ Work(r) \/ Conflict(r)
    \/ Commit(r) \/ Acknowledge(r)

Next ==
    \/ \E r \in Request :
        \/ \E u \in User, kind \in Kind : Send(r, u, kind)
        \/ Progress(r) \/ Unavailable(r) \/ Crash(r)
    \/ \E u \in User : Erase(u)

Spec == Init /\ [][Next]_vars

(* The server and the driver go on with every request; nothing is asked of *)
(* timeouts.                                                               *)
FairSpec == Spec /\ \A r \in Request : WF_vars(Progress(r))

-----------------------------------------------------------------------------
(* Properties.                                                             *)

(* The type invariant.                                                     *)
TypeOK ==
    /\ IsDatabase(db)
    /\ locks \in [Document -> Request \cup {None}]
    /\ \A r \in Request :
        LET q == requests[r]
        IN  /\ q.pc \in Open \cup {"unsent", "sent", "committed", "answered"}
            /\ q.actor \in User \cup {None} /\ q.kind \in Kind \cup {None}
            /\ IsOpen(r) => IsDatabase(q.view)
            /\ q.wrote \subseteq Document /\ q.stale \subseteq Document
            /\ q.committed \in BOOLEAN
            /\ q.reply \in {None, "ok", "refused", "unavailable"}
            /\ \A d \in Document : locks[d] = r <=> IsOpen(r) /\ Holds(r, d)

(* No write is lost and none is applied twice, however often conflicts     *)
(* make the driver run the work again: the ledger has exactly the writes   *)
(* of the requests that committed.                                         *)
NoWriteIsLost ==
    db["ledger"] =
        Cardinality({r \in Request : requests[r].committed /\ requests[r].kind = "write"})

(* Joining never slips past the deletion of the space: once the space is   *)
(* deleted no membership is active, although accept finds its invitation   *)
(* before it takes its turn and the two write different memberships.       *)
DeletedSpaceIsEmpty == ~db["space"] => Members(db) = {}

(* A request takes effect only by a user entitled to it at that moment,    *)
(* not at the earlier moment of the check: nothing between requireMember   *)
(* and the commit takes the membership away ("mutations take account of    *)
(* the current rights when membership changes concurrently",               *)
(* group-membership specification).  Only the deletion worker can: it ends *)
(* memberships without touching mutationVersion.                           *)
ActsByRight ==
    [][\A r \in Request :
        requests'[r].committed /\ ~requests[r].committed =>
            /\ db["space"]
            /\ requests[r].actor \in Erased \/ MayAct(requests[r].kind, requests[r].actor, db)]_vars

(* Every request is answered without the help of the timeout: conflicts    *)
(* are retried but two requests never keep each other out for ever.        *)
EveryRequestIsAnswered ==
    \A r \in Request : requests[r].pc = "sent" ~> requests[r].pc = "answered"

(* What docs/space-finances-api.md says of a 503: the operation was rolled *)
(* back in full.                                                           *)
UnavailableMeansRollback ==
    \A r \in Request : requests[r].reply = "unavailable" => ~requests[r].committed

(* The write path is serial.                                               *)
Serial == INSTANCE SerialSpace WITH
            alive <- db["space"], member <- Members(db), written <- db["ledger"]

ImplementsSerial == Serial!Spec
=============================================================================
