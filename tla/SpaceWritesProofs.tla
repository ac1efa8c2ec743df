------------------------- MODULE SpaceWritesProofs --------------------------
(***************************************************************************)
(* Theorems of SpaceWrites, for every set of users, any finite set of      *)
(* requests and any set of erased users.  The argument: the lock on the    *)
(* space document lets one transaction at a time past serializeMutation;   *)
(* a commit makes the snapshots of all others stale in that document; so   *)
(* what the one at its turn has read of the space is what the database     *)
(* holds, except for memberships the deletion worker has ended meanwhile.  *)
(***************************************************************************)
EXTENDS SpaceWrites, FiniteSetTheorems, TLAPS

(* The transactions that have had their turn on the space document.        *)
Turn == {"serialized", "authorised", "ready"}

Value == BOOLEAN \cup Nat

IsState(f) ==
    /\ f \in [Document -> Value]
    /\ f["ledger"] \in Nat
    /\ \A d \in Document \ {"ledger"} : f[d] \in BOOLEAN

Records ==
    [pc : Open \cup {"unsent", "sent", "committed", "answered"},
     actor : User \cup {None}, kind : Kind \cup {None},
     view : {<<>>} \cup [Document -> Value],
     wrote : SUBSET Document, stale : SUBSET Document,
     committed : BOOLEAN,
     reply : {None, "ok", "refused", "unavailable"}]

Shape ==
    /\ IsState(db)
    /\ locks \in [Document -> Request \cup {None}]
    /\ requests \in [Request -> Records]

(* A request that has not taken effect has no mark of it; a transaction    *)
(* exists only while the request is open.                                  *)
Lifecycle(q) ==
    /\ q.pc \in {"unsent", "sent"} \cup Open => q.committed = FALSE
    /\ q.pc # "unsent" => q.actor \in User /\ q.kind \in Kind
    /\ q.pc \notin Open => q.wrote = {} /\ q.stale = {}

(* A snapshot differs from the database b only in the documents known to   *)
(* be stale; while the space document is not stale, those are memberships  *)
(* that the deletion worker has ended.  The ledger only grows.             *)
Snapshot(q, b) ==
    /\ q.pc \in Open => IsState(q.view) /\ q.wrote \cap q.stale = {}
    /\ q.pc \in Open \ {"ready"} => \A d \in Document \ q.stale : q.view[d] = b[d]
    /\ q.pc \in Open /\ "space" \notin q.stale =>
            \A d \in q.stale : d \in Erased /\ b[d] = FALSE
    /\ q.pc \in Open \ {"ready"} => q.view["ledger"] <= b["ledger"]
    /\ q.pc = "ready" => q.view["ledger"] <= b["ledger"] + 1

(* What a transaction has written at each point, and what it found.        *)
Pending(q, b) ==
    /\ q.pc = "begun" => q.wrote = {}
    /\ q.pc \in {"serialized", "authorised"} => q.wrote = {"space"}
    /\ q.pc \in Turn => "space" \in q.wrote /\ b["space"] = TRUE
    /\ q.pc \in {"authorised", "ready"} =>
            q.actor \in Erased \/ MayAct(q.kind, q.actor, b)

(* The work of a transaction that is ready to commit.                      *)
Done(q, b) ==
    q.pc = "ready" =>
        /\ q.kind = "write" =>
                /\ q.wrote = {"space", "ledger"}
                /\ q.view["space"] = TRUE /\ q.view["ledger"] = b["ledger"] + 1
        /\ q.kind = "join" =>
                /\ q.wrote = {"space", q.actor}
                /\ q.view["space"] = TRUE /\ q.view[q.actor] = TRUE
        /\ q.kind = "leave" =>
                /\ q.wrote = {"space", q.actor}
                /\ q.view["space"] = TRUE /\ q.view[q.actor] = FALSE
        /\ q.kind = "delete" =>
                /\ "ledger" \notin q.wrote
                /\ \A d \in q.wrote : q.view[d] = FALSE
                /\ \A u \in User : b[u] => u \in q.wrote

RequestInv(q, b) == Lifecycle(q) /\ Snapshot(q, b) /\ Pending(q, b) /\ Done(q, b)

LockInv ==
    \A r \in Request, d \in Document : locks[d] = r <=> IsOpen(r) /\ Holds(r, d)

IInv ==
    /\ Shape
    /\ LockInv
    /\ \A r \in Request : RequestInv(requests[r], db)
    /\ NoWriteIsLost
    /\ DeletedSpaceIsEmpty

USE DEF None

LEMMA InitInv == Init => IInv
<1> SUFFICES ASSUME Init PROVE IInv
  OBVIOUS
<1>1. PICK s \in SUBSET User :
        db = [d \in Document |->
                 CASE d = "space" -> TRUE [] d = "ledger" -> 0 [] OTHER -> d \in s]
  BY DEF Init
<1>2. locks = [d \in Document |-> None] /\ requests = [r \in Request |-> Blank]
  BY DEF Init
<1>4. db["ledger"] = 0 /\ db["space"] = TRUE
  BY <1>1 DEF Document
<1>3. ASSUME NEW u \in User PROVE db[u] \in BOOLEAN
  <2>1. db[u] = (u \in s)
    BY <1>1, IdsAssumption DEF Document
  <2>2. (u \in s) \in BOOLEAN
    OBVIOUS
  <2>3. QED
    BY <2>1, <2>2, Zenon
<1>5. IsState(db)
  <2>1. \A d \in Document \ {"ledger"} : db[d] \in BOOLEAN
    BY <1>3, <1>4 DEF Document
  <2>2. \A d \in Document : db[d] \in Value
    BY <2>1, <1>4 DEF Value
  <2>3. DOMAIN db = Document /\ db = [d \in Document |-> db[d]]
    BY <1>1, Zenon
  <2>4. QED
    BY <1>4, <2>1, <2>2, <2>3 DEF IsState
<1>6. Shape
  BY <1>2, <1>5 DEF Shape, Records, Blank, Open
<1>7. LockInv
  BY <1>2, IdsAssumption DEF LockInv, IsOpen, Open, Blank
<1>8. \A r \in Request : RequestInv(requests[r], db)
  BY <1>2 DEF RequestInv, Lifecycle, Snapshot, Pending, Done, Turn, Open, Blank
<1>9. NoWriteIsLost
  <2>1. {r \in Request : requests[r].committed /\ requests[r].kind = "write"} = {}
    BY <1>2 DEF Blank
  <2>2. QED
    BY <2>1, <1>4, FS_EmptySet DEF NoWriteIsLost
<1>10. DeletedSpaceIsEmpty
  BY <1>4 DEF DeletedSpaceIsEmpty
<1>11. QED
  BY <1>6, <1>7, <1>8, <1>9, <1>10 DEF IInv

-----------------------------------------------------------------------------
(* The steps of one request that leave the database as it is.              *)

(* Of a record that takes the place of request r without a commit, LockInv *)
(* and RequestInv of that record are all there is to show.                 *)
LEMMA OwnStep ==
    ASSUME IInv, NEW r \in Request, NEW q \in Records,
           db' = db, requests' = [requests EXCEPT ![r] = q],
           locks' \in [Document -> Request \cup {None}],
           LockInv', RequestInv(q, db),
           q.committed = requests[r].committed,
           q.kind = requests[r].kind \/ q.committed = FALSE
    PROVE  IInv'
<1>1. Shape'
  BY DEF IInv, Shape
<1>2. \A s \in Request : RequestInv(requests'[s], db')
  BY DEF IInv, Shape
<1>3. {s \in Request : requests'[s].committed /\ requests'[s].kind = "write"}
        = {s \in Request : requests[s].committed /\ requests[s].kind = "write"}
  BY DEF IInv, Shape
<1>4. NoWriteIsLost' /\ DeletedSpaceIsEmpty'
  BY <1>3 DEF IInv, NoWriteIsLost, DeletedSpaceIsEmpty, Members
<1>5. QED
  BY <1>1, <1>2, <1>4 DEF IInv

(* A transaction ends without effect.                                      *)
LEMMA AbortKeeps ==
    ASSUME IInv, NEW r \in Request, NEW q \in Records, Abort(r, q),
           q.pc \notin Open, q.wrote = {}, q.stale = {},
           q.committed = requests[r].committed,
           q.pc = "sent" => q.committed = FALSE, q.pc # "unsent",
           q.actor = requests[r].actor, q.kind = requests[r].kind,
           requests[r].pc # "unsent"
    PROVE  IInv'
<1>1. locks' = Unlocked(r) /\ requests' = [requests EXCEPT ![r] = q] /\ db' = db
  BY DEF Abort
<1>2. locks' \in [Document -> Request \cup {None}]
  BY <1>1 DEF IInv, Shape, Unlocked
<1>3. LockInv'
  BY <1>1, IdsAssumption DEF IInv, Shape, LockInv, IsOpen, Holds, Unlocked
<1>4. RequestInv(q, db)
  BY DEF RequestInv, Lifecycle, Snapshot, Pending, Done, Turn, Open, IInv
<1>5. QED
  BY <1>1, <1>2, <1>3, <1>4, OwnStep

(* A step that takes or gives no lock.                                     *)
LEMMA QuietKeeps ==
    ASSUME IInv, NEW r \in Request, NEW q \in Records,
           UNCHANGED <<db, locks>>, requests' = [requests EXCEPT ![r] = q],
           RequestInv(q, db), q.wrote = requests[r].wrote,
           q.wrote # {} => q.pc \in Open /\ IsOpen(r),
           q.committed = requests[r].committed,
           q.kind = requests[r].kind \/ q.committed = FALSE
    PROVE  IInv'
<1>1. LockInv'
  BY DEF IInv, Shape, LockInv, IsOpen, Holds
<1>2. QED
  BY <1>1, OwnStep DEF IInv, Shape

LEMMA RecordFacts ==
    ASSUME IInv, NEW r \in Request
    PROVE  requests[r] \in Records /\ RequestInv(requests[r], db)
BY DEF IInv, Shape

LEMMA SendKeeps ==
    ASSUME IInv, NEW r \in Request, NEW u \in User, NEW kind \in Kind,
           Send(r, u, kind)
    PROVE  IInv'
<1> DEFINE q == [requests[r] EXCEPT !.pc = "sent", !.actor = u, !.kind = kind]
<1>1. requests[r].pc = "unsent" /\ requests' = [requests EXCEPT ![r] = q]
  BY DEF Send, IInv, Shape
<1>2. q \in Records
  BY RecordFacts DEF Records
<1>3. RequestInv(q, db) /\ q.wrote = {} /\ q.committed = FALSE
        /\ requests[r].wrote = {} /\ requests[r].committed = FALSE
  BY <1>1, RecordFacts
  DEF Records, RequestInv, Lifecycle, Snapshot, Pending, Done, Turn, Open
<1>4. QED
  BY <1>1, <1>2, <1>3, QuietKeeps DEF Send

LEMMA BeginKeeps ==
    ASSUME IInv, NEW r \in Request, Begin(r)
    PROVE  IInv'
<1> DEFINE q == [requests[r] EXCEPT !.pc = "begun", !.view = db]
<1>1. requests[r].pc = "sent" /\ requests' = [requests EXCEPT ![r] = q]
  BY DEF Begin, IInv, Shape
<1>2. q \in Records
  BY RecordFacts DEF Records, Open, IInv, Shape, IsState
<1>3. /\ RequestInv(q, db) /\ q.wrote = {} /\ requests[r].wrote = {}
      /\ q.committed = requests[r].committed /\ q.kind = requests[r].kind
  BY <1>1, RecordFacts DEF Records, RequestInv, Lifecycle, Snapshot, Pending, Done,
     Turn, Open, IInv, Shape, IsState
<1>4. QED
  BY <1>1, <1>2, <1>3, QuietKeeps DEF Begin

LEMMA AcknowledgeKeeps ==
    ASSUME IInv, NEW r \in Request, Acknowledge(r)
    PROVE  IInv'
<1> DEFINE q == Answer(r, "ok")
<1>1. requests[r].pc = "committed" /\ requests' = [requests EXCEPT ![r] = q]
  BY DEF Acknowledge
<1>2. q \in Records
  BY RecordFacts DEF Records, Answer, Closed
<1>3. /\ RequestInv(q, db) /\ q.wrote = {} /\ requests[r].wrote = {}
      /\ q.committed = requests[r].committed /\ q.kind = requests[r].kind
  BY <1>1, RecordFacts DEF Records, RequestInv, Lifecycle, Snapshot, Pending, Done,
     Turn, Open, Answer, Closed
<1>4. QED
  BY <1>1, <1>2, <1>3, QuietKeeps DEF Acknowledge

(* The records that an abort leaves behind.                                *)
LEMMA AnswerFacts ==
    ASSUME IInv, NEW r \in Request, requests[r].pc \in Open \cup {"sent", "committed"},
           NEW reply \in {None, "ok", "refused", "unavailable"}
    PROVE  Abort(r, Answer(r, reply)) => IInv'
<1> DEFINE q == Answer(r, reply)
<1>1. q \in Records
  BY RecordFacts DEF Records, Answer, Closed
<1>2. /\ q.pc = "answered" /\ q.wrote = {} /\ q.stale = {}
      /\ q.committed = requests[r].committed
      /\ q.actor = requests[r].actor /\ q.kind = requests[r].kind
      /\ requests[r].pc # "unsent"
  BY RecordFacts DEF Records, Answer, Closed, Open
<1> HIDE DEF q
<1>3. QED
  BY <1>1, <1>2, AbortKeeps DEF Open, q

LEMMA ConflictKeeps ==
    ASSUME IInv, NEW r \in Request, Conflict(r)
    PROVE  IInv'
<1> DEFINE q == Closed(requests[r], "sent")
<1>1. requests[r].pc \in {"begun", "authorised"}
  <2>1. NextWrites(r) # {}
    BY DEF Conflict, CanWrite
  <2>2. QED
    BY <2>1 DEF NextWrites
<1>2. q \in Records
  BY RecordFacts DEF Records, Closed
<1>3. /\ q.pc = "sent" /\ q.wrote = {} /\ q.stale = {}
      /\ q.committed = FALSE /\ requests[r].committed = FALSE
      /\ q.actor = requests[r].actor /\ q.kind = requests[r].kind
      /\ requests[r].pc # "unsent"
  BY <1>1, RecordFacts DEF Records, Closed, Open, RequestInv, Lifecycle
<1> HIDE DEF q
<1>4. Abort(r, q)
  BY DEF Conflict, q
<1>5. QED
  BY <1>2, <1>3, <1>4, AbortKeeps DEF Open

(* A transaction writes documents it may write.                            *)
LEMMA WriteKeeps ==
    ASSUME IInv, NEW r \in Request, IsOpen(r),
           NEW ds \in SUBSET Document, NEW view, NEW pc \in Turn,
           Write(r, ds, view, pc), view \in [Document -> Value],
           RequestInv([requests[r] EXCEPT !.pc = pc, !.view = view, !.wrote = @ \cup ds], db)
    PROVE  IInv'
<1> DEFINE q == [requests[r] EXCEPT !.pc = pc, !.view = view, !.wrote = @ \cup ds]
<1>1. /\ CanWrite(r, ds) /\ db' = db
      /\ locks' = [d \in Document |-> IF d \in ds THEN r ELSE locks[d]]
      /\ requests' = [requests EXCEPT ![r] = q]
  BY DEF Write, IInv, Shape
<1>2. q \in Records
  BY RecordFacts DEF Records, Turn, Open
<1>3. /\ q.pc = pc /\ q.wrote = requests[r].wrote \cup ds /\ pc \in Open
      /\ q.committed = requests[r].committed /\ q.kind = requests[r].kind
  BY RecordFacts DEF Records, Turn, Open
<1> HIDE DEF q
<1>4. locks' \in [Document -> Request \cup {None}]
  BY <1>1 DEF IInv, Shape
<1>5. LockInv'
  <2> SUFFICES ASSUME NEW s \in Request, NEW d \in Document
               PROVE  locks'[d] = s <=> requests'[s].pc \in Open /\ d \in requests'[s].wrote
    BY DEF LockInv, IsOpen, Holds
  <2>1. locks[d] = s <=> requests[s].pc \in Open /\ d \in requests[s].wrote
    BY DEF IInv, LockInv, IsOpen, Holds
  <2>2. d \in ds => locks[d] = None \/ locks[d] = r
    BY <1>1 DEF CanWrite
  <2>3. locks'[d] = IF d \in ds THEN r ELSE locks[d]
    BY <1>1
  <2>4. CASE s = r
    <3>1. requests'[s] = q
      BY <1>1, <2>4 DEF IInv, Shape
    <3>2. QED
      BY <3>1, <1>3, <2>1, <2>3, <2>4 DEF IsOpen
  <2>5. CASE s # r
    <3>1. requests'[s] = requests[s]
      BY <1>1, <2>5 DEF IInv, Shape
    <3>2. QED
      BY <3>1, <2>1, <2>2, <2>3, <2>5, IdsAssumption
  <2>6. QED
    BY <2>4, <2>5
<1>6. RequestInv(q, db)
  BY DEF q
<1>7. QED
  BY <1>1, <1>2, <1>3, <1>4, <1>5, <1>6, OwnStep

(* What the snapshot of a request whose space document is not stale says   *)
(* of the database.                                                        *)
LEMMA SnapshotFacts ==
    ASSUME IInv, NEW r \in Request, requests[r].pc \in Open \ {"ready"},
           "space" \notin requests[r].stale
    PROVE  LET q == requests[r]
           IN  /\ IsState(q.view)
               /\ \A d \in Document \ q.stale : q.view[d] = db[d]
               /\ \A d \in q.stale : d \in Erased /\ db[d] = FALSE
               /\ q.view["ledger"] = db["ledger"]
               /\ q.view["space"] = db["space"]
<1>1. Erased \subseteq User /\ "ledger" \notin User
  BY SpaceWritesAssumption, IdsAssumption
<1>2. QED
  BY <1>1, RecordFacts DEF RequestInv, Snapshot, Document

LEMMA SerializeKeeps ==
    ASSUME IInv, NEW r \in Request, Serialize(r)
    PROVE  IInv'
<1> DEFINE q == requests[r]
           p == [q EXCEPT !.pc = "serialized", !.view = q.view,
                          !.wrote = @ \cup SerializedDocuments]
<1>1. q.pc = "begun"
  BY DEF Serialize
<1>2. CASE ~Found(r)
  BY <1>1, <1>2, AnswerFacts DEF Serialize, Open
<1>3. CASE Found(r)
  <2>1. Write(r, SerializedDocuments, q.view, "serialized")
    BY <1>3 DEF Serialize
  <2>2. "space" \notin q.stale
    BY <2>1 DEF Write, CanWrite, SerializedDocuments
  <2>3. q.view["space"] = TRUE /\ db["space"] = TRUE
    BY <1>1, <1>3, <2>2, SnapshotFacts DEF Found, Open, IsState, Document
  <2>4. q \in Records /\ RequestInv(q, db) /\ q.view \in [Document -> Value]
    BY <1>1, <2>2, RecordFacts, SnapshotFacts DEF Open, IsState
  <2>5. /\ p.pc = "serialized" /\ p.wrote = {"space"} /\ p.view = q.view
        /\ p.stale = q.stale /\ p.committed = q.committed
        /\ p.actor = q.actor /\ p.kind = q.kind
    BY <1>1, <2>4 DEF Records, RequestInv, Pending, SerializedDocuments
  <2>6. RequestInv(p, db)
    <3>1. Lifecycle(p)
      BY <1>1, <2>4, <2>5 DEF RequestInv, Lifecycle, Open
    <3>2. Snapshot(p, db)
      BY <1>1, <2>2, <2>4, <2>5 DEF RequestInv, Snapshot, Open
    <3>3. Pending(p, db) /\ Done(p, db)
      BY <2>3, <2>5 DEF Pending, Done, Turn
    <3>4. QED
      BY <3>1, <3>2, <3>3 DEF RequestInv
  <2>7. QED
    BY <1>1, <2>1, <2>4, <2>6, WriteKeeps
    DEF IsOpen, Open, Turn, SerializedDocuments, Document
<1>4. QED
  BY <1>2, <1>3

LEMMA AuthoriseKeeps ==
    ASSUME IInv, NEW r \in Request, Authorise(r)
    PROVE  IInv'
<1> DEFINE q == requests[r]
           p == [q EXCEPT !.pc = "authorised"]
<1>1. q.pc = "serialized"
  BY DEF Authorise
<1>2. CASE ~MayAct(q.kind, q.actor, q.view)
  BY <1>1, <1>2, AnswerFacts DEF Authorise, Open
<1>3. CASE MayAct(q.kind, q.actor, q.view)
  <2>1. requests' = [requests EXCEPT ![r] = p] /\ UNCHANGED <<db, locks>>
    BY <1>3 DEF Authorise, IInv, Shape
  <2>2. q \in Records /\ RequestInv(q, db)
    BY RecordFacts
  <2>3. /\ p \in Records /\ p.pc = "authorised" /\ p.wrote = q.wrote
        /\ p.view = q.view /\ p.stale = q.stale /\ p.committed = q.committed
        /\ p.actor = q.actor /\ p.kind = q.kind
    BY <2>2 DEF Records, Open
  <2>4. "space" \notin q.stale /\ q.actor \in User
    BY <1>1, <2>2 DEF RequestInv, Snapshot, Pending, Lifecycle, Turn, Open
  <2>5. q.actor \in Erased \/ MayAct(q.kind, q.actor, db)
    <3>1. CASE q.actor \in q.stale
      BY <1>1, <2>4, <3>1, SnapshotFacts DEF Open
    <3>2. CASE q.actor \notin q.stale
      BY <1>1, <1>3, <2>4, <3>2, SnapshotFacts DEF Open, MayAct, Document
    <3>3. QED
      BY <3>1, <3>2
  <2>6. RequestInv(p, db)
    <3>1. Lifecycle(p)
      BY <1>1, <2>2, <2>3 DEF RequestInv, Lifecycle, Open
    <3>2. Snapshot(p, db)
      BY <1>1, <2>2, <2>3 DEF RequestInv, Snapshot, Open
    <3>3. Pending(p, db) /\ Done(p, db)
      BY <1>1, <2>2, <2>3, <2>5 DEF RequestInv, Pending, Done, Turn
    <3>4. QED
      BY <3>1, <3>2, <3>3 DEF RequestInv
  <2> HIDE DEF p
  <2>7. QED
    BY <1>1, <2>1, <2>3, <2>6, QuietKeeps DEF IsOpen, Open
<1>4. QED
  BY <1>2, <1>3

(* Each kind of work ends in a record of its own; the documents written,   *)
(* ds, and the new view are what Work says.                                *)
LEMMA WorkWrites ==
    ASSUME IInv, NEW r \in Request, requests[r].pc = "authorised",
           NEW ds \in SUBSET Document, NEW view, IsState(view),
           view["ledger"] <= db["ledger"] + 1,
           Write(r, ds, view, "ready"),
           Done([requests[r] EXCEPT !.pc = "ready", !.view = view, !.wrote = @ \cup ds], db)
    PROVE  IInv'
<1> DEFINE q == requests[r]
           p == [q EXCEPT !.pc = "ready", !.view = view, !.wrote = @ \cup ds]
<1>1. q \in Records /\ RequestInv(q, db)
  BY RecordFacts
<1>2. /\ p.pc = "ready" /\ p.wrote = q.wrote \cup ds /\ p.view = view
      /\ p.stale = q.stale /\ p.committed = q.committed
      /\ p.actor = q.actor /\ p.kind = q.kind
  BY <1>1 DEF Records
<1>3. ds \cap q.stale = {}
  BY DEF Write, CanWrite
<1>4. Lifecycle(p)
  BY <1>1, <1>2 DEF RequestInv, Lifecycle, Open
<1>5. Snapshot(p, db)
  BY <1>1, <1>2, <1>3 DEF RequestInv, Snapshot, Open, IInv, Shape, IsState
<1>6. Pending(p, db)
  BY <1>1, <1>2 DEF RequestInv, Pending, Turn
<1>7. RequestInv(p, db)
  BY <1>4, <1>5, <1>6 DEF RequestInv
<1>8. QED
  BY <1>7, WriteKeeps DEF IsOpen, Open, Turn, IsState

LEMMA WorkKeeps ==
    ASSUME IInv, NEW r \in Request, Work(r)
    PROVE  IInv'
<1> DEFINE q == requests[r]
           p(view, ds) == [q EXCEPT !.pc = "ready", !.view = view, !.wrote = @ \cup ds]
<1>1. q.pc = "authorised"
  BY DEF Work
<1>2. q \in Records /\ RequestInv(q, db)
  BY RecordFacts
<1>3. /\ "space" \notin q.stale /\ q.wrote = {"space"} /\ db["space"] = TRUE
      /\ q.actor \in User /\ q.kind \in Kind
  BY <1>1, <1>2 DEF RequestInv, Snapshot, Pending, Lifecycle, Turn, Open
<1>4. /\ IsState(q.view) /\ q.view["space"] = TRUE
      /\ q.view["ledger"] = db["ledger"] /\ db["ledger"] \in Nat
      /\ \A d \in Document \ q.stale : q.view[d] = db[d]
      /\ \A d \in q.stale : d \in Erased /\ db[d] = FALSE
  BY <1>1, <1>3, SnapshotFacts DEF Open, IInv, Shape, IsState
<1>5. ASSUME NEW view, NEW ds
      PROVE  /\ p(view, ds).pc = "ready" /\ p(view, ds).kind = q.kind
             /\ p(view, ds).actor = q.actor /\ p(view, ds).view = view
             /\ p(view, ds).wrote = {"space"} \cup ds
  BY <1>2, <1>3 DEF Records
<1>6. CASE q.kind = "write"
  <2> DEFINE view == [q.view EXCEPT !["ledger"] = @ + 1]
  <2>1. Write(r, {"ledger"}, view, "ready")
    BY <1>6 DEF Work
  <2>2. /\ IsState(view) /\ view["space"] = TRUE
        /\ view["ledger"] = db["ledger"] + 1 /\ view["ledger"] <= db["ledger"] + 1
    BY <1>4 DEF IsState, Document, Value
  <2> HIDE DEF view, p
  <2>3. Done(p(view, {"ledger"}), db)
    BY <1>5, <1>6, <2>2 DEF Done
  <2>4. QED
    BY <1>1, <2>1, <2>2, <2>3, WorkWrites DEF Document, p
<1>7. ASSUME NEW active \in BOOLEAN,
             q.kind = IF active THEN "join" ELSE "leave",
             Write(r, {q.actor}, [q.view EXCEPT ![q.actor] = active], "ready")
      PROVE  IInv'
  <2> DEFINE view == [q.view EXCEPT ![q.actor] = active]
  <2>1. q.actor \notin {"space", "ledger"} /\ q.actor \in Document
    BY <1>3, IdsAssumption DEF Document
  <2>2. /\ IsState(view) /\ view["space"] = TRUE /\ view[q.actor] = active
        /\ view["ledger"] <= db["ledger"] + 1
    BY <1>4, <2>1 DEF IsState, Value, Document
  <2>3. Write(r, {q.actor}, view, "ready")
    BY <1>7
  <2> HIDE DEF view, p
  <2>4. Done(p(view, {q.actor}), db)
    BY <1>5, <1>7, <2>2 DEF Done
  <2>5. QED
    BY <1>1, <2>1, <2>2, <2>3, <2>4, WorkWrites DEF p
<1>8. CASE q.kind = "delete"
  <2> DEFINE ds == {"space"} \cup Members(q.view)
             view == [d \in Document |-> IF d \in ds THEN FALSE ELSE q.view[d]]
  <2>1. Write(r, ds, view, "ready")
    BY <1>8 DEF Work
  <2>2. ds \subseteq Document /\ "ledger" \notin ds
    BY IdsAssumption DEF Members, Document
  <2>3. \A u \in User : db[u] => u \in ds
    BY <1>4 DEF Members, Document
  <2>4. IsState(view) /\ view["ledger"] <= db["ledger"] + 1
    <3>1. IsState(view)
      BY <1>4, <2>2 DEF IsState, Value, Document
    <3>2. view["ledger"] = q.view["ledger"]
      BY <2>2 DEF Document
    <3> HIDE DEF view
    <3>3. QED
      BY <1>4, <3>1, <3>2
  <2>5. \A d \in ds : view[d] = FALSE
    BY <2>2
  <2>6. {"space"} \cup ds = ds
    OBVIOUS
  <2> HIDE DEF view, ds, p
  <2>7. Done(p(view, ds), db)
    BY <1>5, <1>8, <2>2, <2>3, <2>5, <2>6 DEF Done
  <2>8. QED
    BY <1>1, <2>1, <2>2, <2>4, <2>7, WorkWrites DEF p
<1>9. QED
  BY <1>6, <1>7, <1>8 DEF Work

-----------------------------------------------------------------------------
(* The steps that change the database.                                     *)

(* One transaction at a time has had its turn.                             *)
LEMMA OneTurn ==
    ASSUME IInv, NEW r \in Request, NEW s \in Request, s # r,
           requests[r].pc \in Turn, requests[s].pc \in Turn
    PROVE  FALSE
<1>1. "space" \in requests[r].wrote /\ "space" \in requests[s].wrote
  BY RecordFacts DEF RequestInv, Pending
<1>2. QED
  BY <1>1 DEF IInv, LockInv, IsOpen, Holds, Turn, Open, Document

OutdatedRecord(q, ds) == IF q.pc \in Open THEN [q EXCEPT !.stale = @ \cup ds] ELSE q

LEMMA OutdatedFacts ==
    ASSUME NEW q \in Records, NEW ds \in SUBSET Document
    PROVE  LET p == OutdatedRecord(q, ds)
           IN  /\ p \in Records
               /\ p.pc = q.pc /\ p.kind = q.kind /\ p.actor = q.actor /\ p.view = q.view
               /\ p.wrote = q.wrote /\ p.committed = q.committed
               /\ p.stale = IF q.pc \in Open THEN q.stale \cup ds ELSE q.stale
BY DEF OutdatedRecord, Records

(* What holds when r commits: the space is there, the actor is entitled    *)
(* unless the worker has erased it, and the four kinds of work.            *)
LEMMA CommitFacts ==
    ASSUME IInv, NEW r \in Request, Commit(r)
    PROVE  LET q == requests[r]
           IN  /\ q \in Records /\ RequestInv(q, db) /\ q.pc = "ready"
               /\ "space" \in q.wrote /\ db["space"] = TRUE /\ IsState(q.view)
               /\ q.actor \in User /\ q.kind \in Kind /\ q.committed = FALSE
               /\ db' = [d \in Document |-> IF d \in q.wrote THEN q.view[d] ELSE db[d]]
               /\ locks' = Unlocked(r)
               /\ requests'[r].committed = TRUE
               /\ requests'[r].kind = q.kind /\ requests'[r].actor = q.actor
               /\ requests'[r].pc = "committed" /\ requests'[r].wrote = {}
               /\ requests'[r].stale = {} /\ requests'[r] \in Records
               /\ requests' \in [Request -> Records]
               /\ \A s \in Request \ {r} :
                    /\ requests'[s] = OutdatedRecord(requests[s], q.wrote)
                    /\ requests'[s].pc = requests[s].pc
                    /\ requests'[s].wrote = requests[s].wrote
                    /\ requests'[s].kind = requests[s].kind
                    /\ requests'[s].actor = requests[s].actor
                    /\ requests'[s].committed = requests[s].committed
<1> DEFINE q == requests[r]
           p == [Closed(q, "committed") EXCEPT !.committed = TRUE]
<1>1. q \in Records /\ RequestInv(q, db) /\ q.pc = "ready" /\ q.wrote \in SUBSET Document
  BY RecordFacts DEF Commit, Records
<1>2. /\ "space" \in q.wrote /\ db["space"] = TRUE /\ IsState(q.view)
      /\ q.actor \in User /\ q.kind \in Kind /\ q.committed = FALSE
  BY <1>1 DEF RequestInv, Lifecycle, Snapshot, Pending, Turn, Open
<1>3. /\ db' = [d \in Document |-> IF d \in q.wrote THEN q.view[d] ELSE db[d]]
      /\ locks' = Unlocked(r)
      /\ requests' = [Outdated(requests, q.wrote) EXCEPT ![r] = p]
  BY DEF Commit, Holds
<1>4. /\ p \in Records /\ p.pc = "committed" /\ p.committed = TRUE /\ p.kind = q.kind
      /\ p.actor = q.actor /\ p.wrote = {} /\ p.stale = {}
  BY <1>1 DEF Records, Closed
<1> HIDE DEF p
<1>5. /\ requests' = [s \in Request |->
                         IF s = r THEN p ELSE OutdatedRecord(requests[s], q.wrote)]
  BY <1>3 DEF Outdated, OutdatedRecord
<1>6. requests'[r] = p /\ \A s \in Request \ {r} :
                             requests'[s] = OutdatedRecord(requests[s], q.wrote)
  BY <1>5
<1>7. requests' \in [Request -> Records]
  BY <1>1, <1>4, <1>5, OutdatedFacts DEF IInv, Shape
<1>8. \A s \in Request \ {r} : /\ requests'[s].pc = requests[s].pc
                              /\ requests'[s].wrote = requests[s].wrote
                              /\ requests'[s].kind = requests[s].kind
                              /\ requests'[s].actor = requests[s].actor
                              /\ requests'[s].committed = requests[s].committed
  <2> SUFFICES ASSUME NEW s \in Request \ {r}
               PROVE  /\ requests'[s].pc = requests[s].pc
                      /\ requests'[s].wrote = requests[s].wrote
                      /\ requests'[s].kind = requests[s].kind
                      /\ requests'[s].actor = requests[s].actor
                      /\ requests'[s].committed = requests[s].committed
    OBVIOUS
  <2>1. requests[s] \in Records
    BY RecordFacts
  <2>2. requests'[s] = OutdatedRecord(requests[s], q.wrote)
    BY <1>6
  <2> DEFINE t == OutdatedRecord(requests[s], q.wrote)
  <2>3. /\ t.pc = requests[s].pc /\ t.wrote = requests[s].wrote
        /\ t.kind = requests[s].kind /\ t.actor = requests[s].actor
        /\ t.committed = requests[s].committed
    BY <1>1, <2>1, OutdatedFacts
  <2>4. QED
    BY <2>2, <2>3
<1>9. QED
  BY <1>1, <1>2, <1>3, <1>4, <1>6, <1>7, <1>8

(* The new database, by the kind of work.                                  *)
LEMMA CommittedState ==
    ASSUME IInv, NEW r \in Request, Commit(r)
    PROVE  LET q == requests[r]
           IN  /\ IsState(db')
               /\ q.kind = "write" =>
                    /\ db'["space"] = TRUE /\ db'["ledger"] = db["ledger"] + 1
                    /\ \A u \in User : db'[u] = db[u]
               /\ q.kind \in {"join", "leave"} =>
                    /\ db'["space"] = TRUE /\ db'["ledger"] = db["ledger"]
                    /\ db'[q.actor] = (q.kind = "join")
                    /\ \A u \in User \ {q.actor} : db'[u] = db[u]
               /\ q.kind = "delete" =>
                    /\ db'["space"] = FALSE /\ db'["ledger"] = db["ledger"]
                    /\ \A u \in User : db'[u] = FALSE
<1> DEFINE q == requests[r]
<1>1. /\ q.pc = "ready" /\ IsState(q.view) /\ IsState(db)
      /\ Done(q, db) /\ q.actor \in User /\ db["space"] = TRUE /\ "space" \in q.wrote
      /\ db' = [d \in Document |-> IF d \in q.wrote THEN q.view[d] ELSE db[d]]
  BY CommitFacts DEF IInv, Shape, RequestInv
<1>2. \A d \in Document : db'[d] = IF d \in q.wrote THEN q.view[d] ELSE db[d]
  BY <1>1
<1>3. IsState(db')
  BY <1>1 DEF IsState, Document
<1>4. /\ "space" \in Document /\ "ledger" \in Document /\ User \subseteq Document
      /\ "space" \notin User /\ "ledger" \notin User
  BY IdsAssumption DEF Document
<1>5. ASSUME q.kind = "write"
      PROVE  /\ db'["space"] = TRUE /\ db'["ledger"] = db["ledger"] + 1
             /\ \A u \in User : db'[u] = db[u]
  BY <1>1, <1>2, <1>4, <1>5 DEF Done
<1>6. ASSUME q.kind \in {"join", "leave"}
      PROVE  /\ db'["space"] = TRUE /\ db'["ledger"] = db["ledger"]
             /\ db'[q.actor] = (q.kind = "join")
             /\ \A u \in User \ {q.actor} : db'[u] = db[u]
  BY <1>1, <1>2, <1>4, <1>6 DEF Done
<1>7. ASSUME q.kind = "delete"
      PROVE  /\ db'["space"] = FALSE /\ db'["ledger"] = db["ledger"]
             /\ \A u \in User : db'[u] = FALSE
  <2>1. ASSUME NEW u \in User PROVE db'[u] = FALSE
    <3>1. CASE u \in q.wrote
      BY <1>1, <1>2, <1>4, <1>7, <3>1 DEF Done
    <3>2. CASE u \notin q.wrote
      BY <1>1, <1>2, <1>4, <1>7, <3>2 DEF Done, IsState
    <3>3. QED
      BY <3>1, <3>2
  <2>2. QED
    BY <1>1, <1>2, <1>4, <1>7, <2>1 DEF Done
<1>8. QED
  BY <1>3, <1>5, <1>6, <1>7

(* The ledger counts the committed writes: r is one more of them or none.  *)
LEMMA CommitCounts ==
    ASSUME IInv, NEW r \in Request, Commit(r)
    PROVE  NoWriteIsLost'
<1> DEFINE q == requests[r]
           W == {s \in Request : requests[s].committed /\ requests[s].kind = "write"}
           V == {s \in Request : requests'[s].committed /\ requests'[s].kind = "write"}
<1>1. \A s \in Request \ {r} : /\ requests'[s].committed = requests[s].committed
                              /\ requests'[s].kind = requests[s].kind
  BY CommitFacts
<1>2. /\ q.committed = FALSE /\ requests'[r].committed = TRUE
      /\ requests'[r].kind = q.kind /\ q.kind \in Kind
  BY CommitFacts
<1>3. IsFiniteSet(W) /\ r \notin W /\ db["ledger"] = Cardinality(W)
  BY <1>2, RequestAssumption, FS_Subset DEF IInv, NoWriteIsLost
<1>4. CASE q.kind = "write"
  <2>1. V = W \cup {r}
    BY <1>1, <1>2, <1>4
  <2>2. db'["ledger"] = db["ledger"] + 1
    BY <1>4, CommittedState
  <2> HIDE DEF V, W
  <2>3. Cardinality(V) = Cardinality(W) + 1
    BY <1>3, <2>1, FS_AddElement
  <2>4. QED
    BY <1>3, <2>2, <2>3 DEF NoWriteIsLost, V
<1>5. CASE q.kind # "write"
  <2>1. V = W
    BY <1>1, <1>2, <1>5
  <2>2. db'["ledger"] = db["ledger"]
    BY <1>2, <1>5, CommittedState DEF Kind
  <2>3. QED
    BY <1>3, <2>1, <2>2 DEF NoWriteIsLost
<1>6. QED
  BY <1>4, <1>5

(* The others have only begun: what they have read of the documents that   *)
(* changed, the space document among them, is stale now.                   *)
LEMMA OthersOutdated ==
    ASSUME NEW q \in Records, NEW b, NEW c, NEW ds \in SUBSET Document,
           RequestInv(q, b), q.pc \notin Turn, "space" \in ds,
           b["ledger"] \in Nat, c["ledger"] \in Nat, b["ledger"] <= c["ledger"],
           \A d \in Document \ ds : c[d] = b[d]
    PROVE  RequestInv(OutdatedRecord(q, ds), c)
<1> DEFINE p == OutdatedRecord(q, ds)
<1>1. /\ p.pc = q.pc /\ p.kind = q.kind /\ p.actor = q.actor /\ p.view = q.view
      /\ p.wrote = q.wrote /\ p.committed = q.committed
      /\ p.stale = IF q.pc \in Open THEN q.stale \cup ds ELSE q.stale
  BY OutdatedFacts
<1> HIDE DEF p
<1>2. Lifecycle(p)
  BY <1>1 DEF RequestInv, Lifecycle
<1>3. q.pc \in Open => q.pc = "begun"
  BY DEF Open, Turn
<1>4. Snapshot(p, c)
  <2>1. CASE q.pc = "begun"
    <3>1. /\ IsState(q.view) /\ q.view["ledger"] <= b["ledger"] /\ q.wrote = {}
          /\ \A d \in Document \ q.stale : q.view[d] = b[d]
      BY <2>1 DEF RequestInv, Snapshot, Pending, Open
    <3>2. q.view["ledger"] <= c["ledger"]
      BY <3>1 DEF IsState
    <3>3. QED
      BY <1>1, <2>1, <3>1, <3>2 DEF Snapshot, Open
  <2>2. CASE q.pc \notin Open
    BY <1>1, <2>2 DEF Snapshot, Open
  <2>3. QED
    BY <1>3, <2>1, <2>2
<1>5. Pending(p, c) /\ Done(p, c)
  BY <1>1, <1>3 DEF RequestInv, Pending, Done, Turn, Open
<1>6. QED
  BY <1>2, <1>4, <1>5 DEF RequestInv, p

LEMMA CommitKeeps ==
    ASSUME IInv, NEW r \in Request, Commit(r)
    PROVE  IInv'
<1> DEFINE q == requests[r]
<1>1. q.wrote \in SUBSET Document /\ "space" \in q.wrote /\ q.pc = "ready"
  BY CommitFacts DEF Records
<1>0. /\ locks' = [d \in Document |-> IF locks[d] = r THEN None ELSE locks[d]]
      /\ db' = [d \in Document |-> IF d \in q.wrote THEN q.view[d] ELSE db[d]]
  BY DEF Commit, Unlocked, Holds
<1>2. Shape'
  <2>1. locks' \in [Document -> Request \cup {None}]
    BY <1>0 DEF IInv, Shape
  <2>2. IsState(db')
    BY CommittedState
  <2>3. QED
    BY <2>1, <2>2, CommitFacts DEF Shape
<1>3. ASSUME NEW s \in Request \ {r}
      PROVE  /\ requests'[s].pc = requests[s].pc
             /\ requests'[s].wrote = requests[s].wrote
             /\ RequestInv(requests'[s], db')
  <2>1. requests[s].pc \notin Turn
    BY <1>1, OneTurn DEF Turn
  <2>2. \A d \in Document \ q.wrote : db'[d] = db[d]
    BY <1>0
  <2>5. /\ db["ledger"] \in Nat /\ db'["ledger"] \in Nat
        /\ db["ledger"] <= db'["ledger"]
    <3>1. db["ledger"] \in Nat /\ db'["ledger"] \in Nat
      BY CommittedState DEF IInv, Shape, IsState
    <3>2. q.kind \in Kind
      BY CommitFacts
    <3>3. db'["ledger"] \in {db["ledger"], db["ledger"] + 1}
      BY <3>2, CommittedState DEF Kind
    <3>4. QED
      BY <3>1, <3>3
  <2>3. RequestInv(OutdatedRecord(requests[s], q.wrote), db')
    BY <1>1, <2>1, <2>2, <2>5, RecordFacts, OthersOutdated
  <2>4. QED
    BY <2>3, CommitFacts
<1>4. /\ requests'[r].pc = "committed" /\ requests'[r].wrote = {}
      /\ RequestInv(requests'[r], db')
  BY CommitFacts DEF RequestInv, Lifecycle, Snapshot, Pending, Done, Turn, Open
<1>5. LockInv'
  <2> SUFFICES ASSUME NEW s \in Request, NEW d \in Document
               PROVE  locks'[d] = s <=> requests'[s].pc \in Open /\ d \in requests'[s].wrote
    BY DEF LockInv, IsOpen, Holds
  <2>1. locks[d] = s <=> requests[s].pc \in Open /\ d \in requests[s].wrote
    BY DEF IInv, LockInv, IsOpen, Holds
  <2>2. locks'[d] = IF locks[d] = r THEN None ELSE locks[d]
    BY <1>0
  <2>3. QED
    BY <1>3, <1>4, <2>1, <2>2, IdsAssumption DEF Open
<1>6. DeletedSpaceIsEmpty'
  BY CommitFacts, CommittedState DEF DeletedSpaceIsEmpty, Members, Kind
<1>7. QED
  BY <1>2, <1>3, <1>4, <1>5, <1>6, CommitCounts DEF IInv

(* The worker waits for whoever has written the membership, and outdates   *)
(* every snapshot that shows it active.                                    *)
LEMMA EraseKeeps ==
    ASSUME IInv, NEW u \in User, Erase(u)
    PROVE  IInv'
<1>1. /\ u \in Erased /\ locks[u] = None /\ db[u] /\ locks' = locks
      /\ u \in Document /\ u \notin {"space", "ledger"}
      /\ db' = [db EXCEPT ![u] = FALSE]
      /\ requests' = [s \in Request |-> OutdatedRecord(requests[s], {u})]
  BY IdsAssumption DEF Erase, Outdated, OutdatedRecord, Document
<1>2. /\ IsState(db') /\ db'["space"] = db["space"] /\ db'["ledger"] = db["ledger"]
      /\ db'[u] = FALSE /\ \A d \in Document \ {u} : db'[d] = db[d]
  BY <1>1 DEF IInv, Shape, IsState, Value, Document
<1>3. Shape'
  BY <1>1, <1>2, RecordFacts, OutdatedFacts DEF IInv, Shape
<1>4. ASSUME NEW s \in Request
      PROVE  /\ requests'[s].pc = requests[s].pc
             /\ requests'[s].wrote = requests[s].wrote
             /\ requests'[s].kind = requests[s].kind
             /\ requests'[s].committed = requests[s].committed
             /\ RequestInv(requests'[s], db')
  <2> DEFINE q == requests[s]
             p == OutdatedRecord(q, {u})
  <2>1. /\ p.pc = q.pc /\ p.kind = q.kind /\ p.actor = q.actor /\ p.view = q.view
        /\ p.wrote = q.wrote /\ p.committed = q.committed
        /\ p.stale = IF q.pc \in Open THEN q.stale \cup {u} ELSE q.stale
    BY <1>1, RecordFacts, OutdatedFacts
  <2>2. /\ RequestInv(q, db) /\ q.stale \subseteq Document
        /\ q.pc \in Open => u \notin q.wrote
    BY <1>1, RecordFacts, IdsAssumption DEF IInv, LockInv, IsOpen, Holds, Records
  <2> HIDE DEF p
  <2>3. Lifecycle(p)
    BY <2>1, <2>2 DEF RequestInv, Lifecycle
  <2>4. Snapshot(p, db')
    <3>1. p.pc \in Open => IsState(p.view) /\ p.wrote \cap p.stale = {}
      BY <2>1, <2>2 DEF RequestInv, Snapshot
    <3>2. p.pc \in Open \ {"ready"} => \A d \in Document \ p.stale : p.view[d] = db'[d]
      BY <1>2, <2>1, <2>2 DEF RequestInv, Snapshot
    <3>3. p.pc \in Open /\ "space" \notin p.stale =>
            \A d \in p.stale : d \in Erased /\ db'[d] = FALSE
      BY <1>1, <1>2, <2>1, <2>2 DEF RequestInv, Snapshot
    <3>4. /\ p.pc \in Open \ {"ready"} => p.view["ledger"] <= db'["ledger"]
          /\ p.pc = "ready" => p.view["ledger"] <= db'["ledger"] + 1
      BY <1>2, <2>1, <2>2 DEF RequestInv, Snapshot
    <3>5. QED
      BY <3>1, <3>2, <3>3, <3>4 DEF Snapshot
  <2>5. Pending(p, db')
    BY <1>1, <1>2, <2>1, <2>2 DEF RequestInv, Pending, Lifecycle, MayAct, Document, Turn, Open
  <2>6. Done(p, db')
    BY <1>2, <2>1, <2>2 DEF RequestInv, Done, Document
  <2>7. QED
    BY <1>1, <2>1, <2>3, <2>4, <2>5, <2>6 DEF RequestInv, p
<1>5. LockInv'
  BY <1>1, <1>4 DEF IInv, LockInv, IsOpen, Holds
<1>6. NoWriteIsLost' /\ DeletedSpaceIsEmpty'
  <2>1. {r \in Request : requests'[r].committed /\ requests'[r].kind = "write"}
          = {r \in Request : requests[r].committed /\ requests[r].kind = "write"}
    BY <1>4
  <2>2. QED
    BY <1>2, <2>1 DEF IInv, NoWriteIsLost, DeletedSpaceIsEmpty, Members, Document
<1>7. QED
  BY <1>3, <1>4, <1>5, <1>6 DEF IInv

-----------------------------------------------------------------------------
(* The specification keeps the invariant.                                  *)

LEMMA UnavailableKeeps ==
    ASSUME IInv, NEW r \in Request, Unavailable(r) \/ Crash(r)
    PROVE  IInv'
BY AnswerFacts DEF Unavailable, Crash, GivenUp

LEMMA NextKeeps == IInv /\ [Next]_vars => IInv'
<1> SUFFICES ASSUME IInv, [Next]_vars PROVE IInv'
  OBVIOUS
<1>1. ASSUME NEW r \in Request, NEW u \in User, NEW kind \in Kind, Send(r, u, kind)
      PROVE  IInv'
  BY <1>1, SendKeeps
<1>2. ASSUME NEW r \in Request, Progress(r) PROVE IInv'
  <2>1. CASE Begin(r)
    BY <2>1, BeginKeeps
  <2>2. CASE Serialize(r)
    BY <2>2, SerializeKeeps
  <2>3. CASE Authorise(r)
    BY <2>3, AuthoriseKeeps
  <2>4. CASE Work(r)
    BY <2>4, WorkKeeps
  <2>5. CASE Conflict(r)
    BY <2>5, ConflictKeeps
  <2>6. CASE Commit(r)
    BY <2>6, CommitKeeps
  <2>7. CASE Acknowledge(r)
    BY <2>7, AcknowledgeKeeps
  <2>8. QED
    BY <1>2, <2>1, <2>2, <2>3, <2>4, <2>5, <2>6, <2>7 DEF Progress
<1>3. ASSUME NEW r \in Request, Unavailable(r) \/ Crash(r) PROVE IInv'
  BY <1>3, UnavailableKeeps
<1>4. ASSUME NEW u \in User, Erase(u) PROVE IInv'
  BY <1>4, EraseKeeps
<1>5. CASE UNCHANGED vars
  BY <1>5 DEF vars, IInv, Shape, LockInv, IsOpen, Holds, NoWriteIsLost,
     DeletedSpaceIsEmpty, Members
<1>6. QED
  BY <1>1, <1>2, <1>3, <1>4, <1>5 DEF Next

LEMMA Invariance == Spec => []IInv
BY InitInv, NextKeeps, PTL DEF Spec

(* The bound of the ledger, in the database and in a snapshot: a write     *)
(* that is ready to commit is not among those counted.                     *)
LEMMA InvImpliesTypeOK == IInv => TypeOK
<1> SUFFICES ASSUME IInv PROVE TypeOK
  OBVIOUS
<1> DEFINE W == {r \in Request : requests[r].committed /\ requests[r].kind = "write"}
<1>1. IsFiniteSet(Request) /\ W \subseteq Request
  BY RequestAssumption
<1>2. /\ Cardinality(Request) \in Nat /\ Cardinality(W) \in Nat
      /\ Cardinality(W) <= Cardinality(Request)
      /\ Cardinality(W) = Cardinality(Request) => W = Request
  BY <1>1, FS_Subset, FS_CardinalityType
<1>3. db["ledger"] = Cardinality(W)
  BY DEF IInv, NoWriteIsLost
<1>4. IsDatabase(db)
  BY <1>2, <1>3 DEF IInv, Shape, IsState, IsDatabase
<1>5. ASSUME NEW r \in Request, IsOpen(r) PROVE IsDatabase(requests[r].view)
  <2> DEFINE q == requests[r]
  <2>1. RequestInv(q, db) /\ q.pc \in Open
    BY <1>5, RecordFacts DEF IsOpen
  <2>2. IsState(q.view)
    BY <2>1 DEF RequestInv, Snapshot
  <2>3. r \notin W
    BY <2>1 DEF RequestInv, Lifecycle
  <2>4. Cardinality(W) < Cardinality(Request)
    BY <1>2, <2>3
  <2>5. q.view["ledger"] \in 0 .. Cardinality(Request)
    <3>1. q.view["ledger"] \in Nat
      BY <2>2 DEF IsState
    <3>2. q.view["ledger"] <= db["ledger"] + 1
      BY <1>2, <1>3, <2>1, <3>1 DEF RequestInv, Snapshot, Open
    <3>3. QED
      BY <1>2, <1>3, <2>4, <3>1, <3>2
  <2>6. QED
    BY <2>2, <2>5 DEF IsState, IsDatabase
<1>6. QED
  BY <1>4, <1>5, RecordFacts DEF TypeOK, IInv, Shape, LockInv, Records

(* The types of the documents, locks and requests, the bound of the ledger *)
(* included, and: the locks are exactly what the open requests have        *)
(* written.                                                                *)
THEOREM TypeCorrect == Spec => []TypeOK
BY Invariance, InvImpliesTypeOK, PTL

(* However the driver repeats the work of a conflicting transaction, the   *)
(* ledger holds each committed financial write once.                       *)
THEOREM WritesAreCounted == Spec => []NoWriteIsLost
BY Invariance, PTL DEF IInv

(* The deletion of the space takes every membership with it, one that is   *)
(* being accepted meanwhile included.                                      *)
THEOREM DeletionEmpties == Spec => []DeletedSpaceIsEmpty
BY Invariance, PTL DEF IInv

-----------------------------------------------------------------------------
(* What takes effect: only a commit marks a request as committed, and only *)
(* a commit or the deletion worker changes the database.                   *)

Unmarked == \A s \in Request : requests'[s].committed = requests[s].committed

LEMMA WriteIsUnmarked ==
    ASSUME IInv, NEW r \in Request, NEW ds, NEW view, NEW pc, Write(r, ds, view, pc)
    PROVE  db' = db /\ Unmarked
BY RecordFacts DEF Write, Unmarked, Records, IInv, Shape

LEMMA AbortIsUnmarked ==
    ASSUME IInv, NEW r \in Request, NEW q, Abort(r, q),
           q.committed = requests[r].committed
    PROVE  db' = db /\ Unmarked
BY DEF Abort, Unmarked, IInv, Shape

LEMMA AnswerIsUnmarked ==
    ASSUME IInv, NEW r \in Request, NEW reply, Abort(r, Answer(r, reply))
    PROVE  db' = db /\ Unmarked
<1>1. Answer(r, reply).committed = requests[r].committed
  BY RecordFacts DEF Answer, Closed, Records
<1>2. QED
  BY <1>1, AbortIsUnmarked

LEMMA Effects ==
    ASSUME IInv, [Next]_vars, ~(\E r \in Request : Commit(r))
    PROVE  Unmarked /\ (db' = db \/ \E u \in User : Erase(u))
<1>1. ASSUME NEW r \in Request, NEW u \in User, NEW kind \in Kind, Send(r, u, kind)
      PROVE  db' = db /\ Unmarked
  BY <1>1, RecordFacts DEF Send, Unmarked, Records, IInv, Shape
<1>2. ASSUME NEW r \in Request, Begin(r) \/ Acknowledge(r)
      PROVE  db' = db /\ Unmarked
  <2>1. CASE Begin(r)
    BY <2>1, RecordFacts DEF Begin, Unmarked, Records, IInv, Shape
  <2>2. CASE Acknowledge(r)
    <3>1. Answer(r, "ok").committed = requests[r].committed
      BY RecordFacts DEF Answer, Closed, Records
    <3>2. QED
      BY <2>2, <3>1 DEF Acknowledge, Unmarked, IInv, Shape
  <2>3. QED
    BY <1>2, <2>1, <2>2
<1>3. ASSUME NEW r \in Request, Serialize(r) \/ Work(r)
      PROVE  db' = db /\ Unmarked
  BY <1>3, WriteIsUnmarked, AnswerIsUnmarked DEF Serialize, Work
<1>4. ASSUME NEW r \in Request, Authorise(r)
      PROVE  db' = db /\ Unmarked
  <2>1. CASE requests' = [requests EXCEPT ![r].pc = "authorised"] /\ UNCHANGED <<db, locks>>
    BY <2>1, RecordFacts DEF Unmarked, Records, IInv, Shape
  <2>2. CASE Abort(r, Answer(r, "refused"))
    BY <2>2, AnswerIsUnmarked
  <2>3. QED
    BY <1>4, <2>1, <2>2 DEF Authorise
<1>5. ASSUME NEW r \in Request, Conflict(r)
      PROVE  db' = db /\ Unmarked
  <2>1. Closed(requests[r], "sent").committed = requests[r].committed
    BY RecordFacts DEF Closed, Records
  <2>2. QED
    BY <1>5, <2>1, AbortIsUnmarked DEF Conflict
<1>6. ASSUME NEW r \in Request, Unavailable(r) \/ Crash(r)
      PROVE  db' = db /\ Unmarked
  BY <1>6, AnswerIsUnmarked DEF Unavailable, Crash, GivenUp
<1>7. ASSUME NEW u \in User, Erase(u)
      PROVE  Unmarked
  BY <1>7, RecordFacts DEF Erase, Outdated, Unmarked, Records, IInv, Shape
<1>8. CASE UNCHANGED vars
  BY <1>8 DEF vars, Unmarked
<1>9. QED
  BY <1>1, <1>2, <1>3, <1>4, <1>5, <1>6, <1>7, <1>8 DEF Next, Progress

(* The rights checked by requireMember still hold when the transaction     *)
(* commits, unless the deletion worker has ended that membership.          *)
THEOREM RightsAtCommit == Spec => ActsByRight
<1>1. ASSUME IInv, [Next]_vars, NEW r \in Request,
             requests'[r].committed, ~requests[r].committed
      PROVE  /\ db["space"]
             /\ requests[r].actor \in Erased \/ MayAct(requests[r].kind, requests[r].actor, db)
  <2>1. PICK s \in Request : Commit(s)
    BY <1>1, Effects DEF Unmarked
  <2>2. s = r
    BY <1>1, <2>1, CommitFacts
  <2>3. QED
    BY <1>1, <2>1, <2>2, CommitFacts DEF RequestInv, Pending
<1>2. IInv /\ [Next]_vars =>
        [\A r \in Request :
            requests'[r].committed /\ ~requests[r].committed =>
                /\ db["space"]
                /\ requests[r].actor \in Erased
                     \/ MayAct(requests[r].kind, requests[r].actor, db)]_vars
  BY <1>1
<1>3. QED
  BY <1>2, Invariance, PTL DEF Spec, ActsByRight

-----------------------------------------------------------------------------
(* The refinement.                                                         *)

LEMMA InitRefines == Init => Serial!Init
<1> SUFFICES ASSUME Init PROVE Serial!Init
  OBVIOUS
<1>1. PICK s \in SUBSET User : /\ Owner \in s
        /\ db = [d \in Document |->
                 CASE d = "space" -> TRUE [] d = "ledger" -> 0 [] OTHER -> d \in s]
  BY DEF Init
<1>2. db["space"] = TRUE /\ db["ledger"] = 0
  BY <1>1 DEF Document
<1>3. \A u \in User : db[u] = (u \in s)
  BY <1>1, IdsAssumption DEF Document
<1>4. Members(db) = s
  BY <1>3 DEF Members
<1>5. QED
  BY <1>1, <1>2, <1>4 DEF Serial!Init

(* A commit is the step of its kind, by an actor entitled to it: there is  *)
(* no deletion worker to take the right away meanwhile.                    *)
LEMMA CommitRefines ==
    ASSUME Erased = {}, IInv, NEW r \in Request, Commit(r)
    PROVE  Serial!Next
<1> DEFINE q == requests[r]
<1>1. /\ q.actor \in User /\ q.kind \in Kind /\ db["space"] = TRUE
      /\ MayAct(q.kind, q.actor, db)
  BY CommitFacts DEF RequestInv, Pending
<1>2. IsState(db) /\ IsState(db')
  BY CommittedState DEF IInv, Shape
<1>3. /\ \A u \in User : db[u] \in BOOLEAN /\ db'[u] \in BOOLEAN
      /\ Members(db)' = {u \in User : db'[u]}
  BY <1>2, IdsAssumption DEF IsState, Document, Members
<1>4. CASE q.kind = "write"
  <2>1. /\ db'["space"] = TRUE /\ db'["ledger"] = db["ledger"] + 1
        /\ \A u \in User : db'[u] = db[u]
    BY <1>4, CommittedState
  <2>2. Members(db)' = Members(db) /\ q.actor \in Members(db)
    BY <1>1, <1>3, <1>4, <2>1 DEF Members, MayAct
  <2>3. Serial!Write(q.actor)
    BY <1>1, <2>1, <2>2 DEF Serial!Write
  <2>4. QED
    BY <1>1, <2>3 DEF Serial!Next
<1>5. CASE q.kind \in {"join", "leave"}
  <2>1. /\ db'["space"] = TRUE /\ db'["ledger"] = db["ledger"]
        /\ db'[q.actor] = (q.kind = "join")
        /\ \A u \in User \ {q.actor} : db'[u] = db[u]
    BY <1>5, CommittedState
  <2>2. CASE q.kind = "join"
    <3>1. Members(db)' = Members(db) \cup {q.actor} /\ q.actor \notin Members(db)
      BY <1>1, <1>3, <2>1, <2>2 DEF Members, MayAct
    <3>2. Serial!Join(q.actor)
      BY <1>1, <2>1, <3>1 DEF Serial!Join
    <3>3. QED
      BY <1>1, <3>2 DEF Serial!Next
  <2>3. CASE q.kind = "leave"
    <3>1. /\ Members(db)' = Members(db) \ {q.actor}
          /\ q.actor \in Members(db) \ {Owner}
      BY <1>1, <1>3, <2>1, <2>3 DEF Members, MayAct
    <3>2. Serial!Leave(q.actor)
      BY <1>1, <2>1, <3>1 DEF Serial!Leave
    <3>3. QED
      BY <1>1, <3>2 DEF Serial!Next
  <2>4. QED
    BY <1>5, <2>2, <2>3
<1>6. CASE q.kind = "delete"
  <2>1. /\ db'["space"] = FALSE /\ db'["ledger"] = db["ledger"]
        /\ \A u \in User : db'[u] = FALSE
    BY <1>6, CommittedState
  <2>2. Members(db)' = {}
    BY <1>3, <2>1
  <2>3. QED
    BY <1>1, <2>1, <2>2 DEF Serial!Next, Serial!Delete
<1>7. QED
  BY <1>1, <1>4, <1>5, <1>6 DEF Kind

(* Without deletions of users the write path is serial: every commit is    *)
(* one step of SerialSpace and no other step changes what it sees.         *)
THEOREM WritePathIsSerial ==
    ASSUME Erased = {}
    PROVE  Spec => ImplementsSerial
<1>1. ASSUME IInv, [Next]_vars
      PROVE  [Serial!Next]_<<db["space"], Members(db), db["ledger"]>>
  <2>1. CASE \E r \in Request : Commit(r)
    BY <1>1, <2>1, CommitRefines
  <2>2. CASE ~ \E r \in Request : Commit(r)
    <3>1. db' = db
      BY <1>1, <2>2, Effects DEF Erase
    <3>2. QED
      BY <3>1 DEF Members
  <2>3. QED
    BY <2>1, <2>2
<1>2. QED
  BY <1>1, InitRefines, Invariance, PTL DEF Spec, ImplementsSerial, Serial!Spec
=============================================================================
