----------------------------- MODULE OrderService -----------------------------
(***************************************************************************)
(* The Order Service's status endpoint, PATCH /orders/:id/status, as the   *)
(* interleaving Node gives it: each call runs to its next await and then   *)
(* yields, so that other calls run between the read of an order and the    *)
(* write that the read justified.  No lock, version column or conditional  *)
(* UPDATE ties the two together.                                           *)
(***************************************************************************)
EXTENDS FiniteSets

CONSTANTS Orders, Users, Admins,
          Updates,     \* the PATCH calls the service can be serving
          Nobody       \* owner of an order that does not exist

ASSUME AdminsAreUsers == Admins \subseteq Users
ASSUME NobodyIsNoUser == Nobody \notin Users

VARIABLES status,      \* orders.status
          owner,       \* orders.user_id
          held,        \* auxiliary: every status an order's row ever had
          call         \* where each PATCH call is

orderVars == <<status, owner, held, call>>

Lifecycle == INSTANCE OrderLifecycle

Placed == Lifecycle!Placed
Statuses == Lifecycle!Statuses

\* ALLOWED_STATUS_TRANSITIONS of the body validator: all but PENDING
Settable == Placed \ {"PENDING"}

\* requireRole(['ADMIN']) and validateUpdateStatusBody
MayUpdate(user) == user \in Admins
BodyAcceptsAnyStatus(target) == target \in Placed        \* mutant
BodyAccepted(target) == target \in Settable

\* isValidTransition
IsValidTransition(from, to) == from = to \/ to \in Lifecycle!Successors(from)

(***************************************************************************)
(* A call is idle, answered (the HTTP class of the answer: 2xx, 4xx or     *)
(* 5xx), waiting for findById ("load") or for save ("save").               *)
(***************************************************************************)
Answers == {"ok", "rejected", "failed"}
Quiet == [at : {"idle"} \cup Answers]
Running == [at : {"load", "save"}, order : Orders, target : Settable]
Answered(a) == [at |-> a]
Serving(u) == call[u].at \in {"load", "save"}

-------------------------------------------------------------------------------
OrderInit ==
  /\ status = [o \in Orders |-> "NONE"]
  /\ owner = [o \in Orders |-> Nobody]
  /\ held = [o \in Orders |-> {}]
  /\ call = [u \in Updates |-> Answered("idle")]

\* Mutant: the save may be repeated under the same id.
PlaceAgain(o, user) ==
  /\ status' = [status EXCEPT ![o] = "PENDING"]
  /\ owner' = [owner EXCEPT ![o] = user]
  /\ held' = [held EXCEPT ![o] = @ \cup {"PENDING"}]
  /\ UNCHANGED call

\* createOrder's save: the row appears PENDING and belongs to the caller.
PlaceOrder(o, user) ==
  /\ status[o] = "NONE"
  /\ status' = [status EXCEPT ![o] = "PENDING"]
  /\ owner' = [owner EXCEPT ![o] = user]
  /\ held' = [held EXCEPT ![o] = {"PENDING"}]
  /\ UNCHANGED call

\* The route's middleware runs before any await: role, then body.
PatchStatus(u, user, o, target) ==
  /\ ~Serving(u)
  /\ call' = [call EXCEPT ![u] =
                IF MayUpdate(user) /\ BodyAccepted(target)
                THEN [at |-> "load", order |-> o, target |-> target]
                ELSE Answered("rejected")]
  /\ UNCHANGED <<status, owner, held>>

\* Mutant: any status may follow any other.
LoadUnchecked(u) ==
  /\ call[u].at = "load"
  /\ call' = [call EXCEPT ![u] = IF status[call[u].order] # "NONE"
                                 THEN [@ EXCEPT !.at = "save"]
                                 ELSE Answered("rejected")]
  /\ UNCHANGED <<status, owner, held>>

\* findById answers: 404 if there is no row, 400 if the move is not allowed.
LoadOrder(u) ==
  /\ call[u].at = "load"
  /\ call' = [call EXCEPT ![u] =
                IF /\ status[call[u].order] # "NONE"
                   /\ IsValidTransition(status[call[u].order], call[u].target)
                THEN [@ EXCEPT !.at = "save"]
                ELSE Answered("rejected")]
  /\ UNCHANGED <<status, owner, held>>

\* repository.save: writes the new status over whatever the row holds now.
SaveOrder(u) ==
  LET o == call[u].order
      s == call[u].target
  IN  /\ call[u].at = "save"
      /\ status' = [status EXCEPT ![o] = s]
      /\ held' = [held EXCEPT ![o] = @ \cup {s}]
      /\ call' = [call EXCEPT ![u] = Answered("ok")]
      /\ UNCHANGED owner

\* The query a call waits for fails: the error handler answers 500.
FailUpdate(u) ==
  /\ Serving(u)
  /\ call' = [call EXCEPT ![u] = Answered("failed")]
  /\ UNCHANGED <<status, owner, held>>

\* SIGTERM: the process exits under its calls, whose callers see a reset.
OrderServiceStops ==
  /\ \E u \in Updates : Serving(u)
  /\ call' = [u \in Updates |-> IF Serving(u) THEN Answered("failed") ELSE call[u]]
  /\ UNCHANGED <<status, owner, held>>

HandleUpdate(u) == LoadOrder(u) \/ SaveOrder(u) \/ FailUpdate(u)

OrderNext ==
  \/ \E o \in Orders, user \in Users : PlaceOrder(o, user)
  \/ \E u \in Updates :
       \/ \E user \in Users, o \in Orders, s \in Placed : PatchStatus(u, user, o, s)
       \/ HandleUpdate(u)
  \/ OrderServiceStops

OrderSpec == OrderInit /\ [][OrderNext]_orderVars

-------------------------------------------------------------------------------
OrderTypeOK ==
  /\ status \in [Orders -> Statuses]
  /\ owner \in [Orders -> Users \cup {Nobody}]
  /\ held \in [Orders -> SUBSET Placed]
  /\ call \in [Updates -> Quiet \cup Running]

(***************************************************************************)
(* No stage is skipped: whatever calls race, an order that has ever had a  *)
(* status other than PENDING has also had one that leads to it.  So even   *)
(* though racing calls can move an order backwards, a COMPLETED order was  *)
(* PROCESSING, and before that PAID, and before that PAYMENT_PENDING.      *)
(***************************************************************************)
Reached(o, s) == s = "PENDING" \/ \E r \in held[o] : s \in Lifecycle!Successors(r)

NoStageSkipped ==
  \A o \in Orders : \A s \in held[o] : Reached(o, s)

(***************************************************************************)
(* No order returns to PENDING, where it could be paid for again as if     *)
(* new.  isValidTransition lets a PENDING order be "moved" to PENDING, and *)
(* a late save of that move would undo any other; only the validator's     *)
(* list keeps such a call out.                                             *)
(***************************************************************************)
NeverBackToPending ==
  [][\A o \in Orders : status[o] \in Settable => status'[o] \in Settable]_orderVars

(***************************************************************************)
(* The whole state machine, as the service promises it: what               *)
(* isValidTransition's comment says is checked of every status change.     *)
(* It holds when updates come one at a time, not when two overlap.         *)
(***************************************************************************)
FollowsLifecycle == Lifecycle!Spec

-------------------------------------------------------------------------------
(* What NoStageSkipped rests on: the status a save relies on may be stale, *)
(* but the row had it once; and the record holds what the row holds.       *)
LoadedOnce ==
  \A u \in Updates :
    call[u].at = "save" => Reached(call[u].order, call[u].target)

RowIsRecorded ==
  \A o \in Orders : IF status[o] = "NONE" THEN held[o] = {} ELSE status[o] \in held[o]

OrderInv == OrderTypeOK /\ NoStageSkipped /\ LoadedOnce /\ RowIsRecorded
===============================================================================
