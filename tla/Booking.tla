------------------------------- MODULE Booking -------------------------------
(***************************************************************************)
(* The API's booking services (hefest/services/event.py, registration.py): *)
(* concurrent HTTP requests over the events, registrations and             *)
(* notification_jobs tables.                                               *)
(*                                                                         *)
(* The variables hold committed rows (PostgreSQL, READ COMMITTED).  A      *)
(* request is a sequence of atomic steps: what it reads up to the point    *)
(* where another request can come between, then its writes together with   *)
(* the COMMIT that publishes them and releases the event's row lock.       *)
(* Registrations are numbered in the order of registered_at: the time is   *)
(* taken while the event's lock is held, and the clocks of the API         *)
(* processes are taken to agree on that order.                             *)
(***************************************************************************)
EXTENDS Naturals, FiniteSets

CONSTANTS
    Event, Student, Location,
    Request,        \* slots for requests that run at the same time
    Capacity,       \* capacities an organizer may set
    Editable,       \* bound: the fields that organizers edit
    NONE,           \* no value: SQL NULL, a field that was not sent
    MaxReg          \* bound: registrations ever made

ASSUME CapacityAssumption == Capacity \subseteq Nat \ {0}
ASSUME BoundAssumption ==
    MaxReg \in Nat /\ Editable \subseteq {"capacity", "starts_at", "location"}
ASSUME NoneAssumption ==
    NONE \notin Event \cup Student \cup Location \cup Request \cup Capacity \cup Nat

Reg   == 1 .. MaxReg
Start == {"later", "soon", "past"}  \* starts_at: beyond, within the location lock, passed
Kind  == {"RegistrationConfirmed", "RegistrationWaitlisted", "WaitlistPromoted",
          "RegistrationCancelled", "EventCancelled"}

VARIABLES
    status, capacity, starts, location,   \* table events
    resized,    \* history: was the capacity changed after the event was created?
    reg,        \* table registrations: status
    event_id, student_id,
    told,       \* waitlist_position in the job's payload, NONE if confirmed
    jobs,       \* table notification_jobs: idempotency keys <<registration, kind>>
    lock,       \* holder of the event's row lock
    pc,         \* what the request in a slot does next
    loc         \* what it has read or was sent

events   == <<status, capacity, starts, location, resized>>
regs     == <<reg, event_id, student_id, told>>
requests == <<lock, pc, loc>>
vars     == <<events, regs, jobs, requests>>

NoLocals == [event |-> NONE, student |-> NONE, id |-> NONE, status |-> NONE,
             position |-> NONE, capacity |-> NONE, starts |-> NONE, location |-> NONE]
Locals   == [event : Event \cup {NONE}, student : Student \cup {NONE}, id : Reg \cup {NONE},
             status : {"confirmed", "waitlisted", NONE}, position : Reg \cup {NONE},
             capacity : Capacity \cup {NONE}, starts : Start \cup {NONE},
             location : Location \cup {NONE}]
Pc == {"idle", "register", "cancel_read", "cancel", "cancel_event", "publish", "update", "list"}

TypeOK ==
    /\ status \in [Event -> {"absent", "draft", "published", "cancelled"}]
    /\ capacity \in [Event -> Capacity \cup {NONE}]
    /\ starts \in [Event -> Start \cup {NONE}]
    /\ location \in [Event -> Location \cup {NONE}]
    /\ resized \in [Event -> BOOLEAN]
    /\ reg \in [Reg -> {"absent", "confirmed", "waitlisted", "cancelled"}]
    /\ event_id \in [Reg -> Event \cup {NONE}]
    /\ student_id \in [Reg -> Student \cup {NONE}]
    /\ told \in [Reg -> Reg \cup {NONE}]
    /\ jobs \subseteq Reg \X Kind
    /\ lock \in [Event -> Request \cup {NONE}]
    /\ pc \in [Request -> Pc]
    /\ loc \in [Request -> Locals]

Init ==
    /\ status = [e \in Event |-> "absent"]
    /\ capacity = [e \in Event |-> NONE]
    /\ starts = [e \in Event |-> NONE]
    /\ location = [e \in Event |-> NONE]
    /\ resized = [e \in Event |-> FALSE]
    /\ reg = [r \in Reg |-> "absent"]
    /\ event_id = [r \in Reg |-> NONE]
    /\ student_id = [r \in Reg |-> NONE]
    /\ told = [r \in Reg |-> NONE]
    /\ jobs = {}
    /\ lock = [e \in Event |-> NONE]
    /\ pc = [q \in Request |-> "idle"]
    /\ loc = [q \in Request |-> NoLocals]

-----------------------------------------------------------------------------
(* Queries *)

In(e, s)      == {r \in Reg : event_id[r] = e /\ reg[r] = s}
Confirmed(e)  == In(e, "confirmed")
Waitlisted(e) == In(e, "waitlisted")
Active(e)     == Confirmed(e) \cup Waitlisted(e)

(* mutant: the count lacks the filter on (registered_at, id) *)
Position_AllWaiting(r) == Cardinality(Waitlisted(event_id[r]))

Position(r) == Cardinality({x \in Waitlisted(event_id[r]) : x <= r})

(* mutant: the filter says status is not confirmed *)
Next_waitlisted_OrCancelled(e) ==
    LET waiting == Waitlisted(e) \cup In(e, "cancelled")
    IN  {r \in waiting : \A x \in waiting : r <= x}

(* ORDER BY registered_at, id: the head of the waitlist *)
Next_waitlisted(e) == {r \in Waitlisted(e) : \A x \in Waitlisted(e) : r <= x}

Fresh == {r \in Reg : reg[r] = "absent" /\ \A x \in Reg : x < r => reg[x] # "absent"}

(* Bound: a registration begins only while a row is left for it. *)
RowLeft == Cardinality({r \in Reg : reg[r] = "absent"})
             > Cardinality({q \in Request : pc[q] = "register"})

-----------------------------------------------------------------------------
(* Beginning and end of a request *)

Begin(q, next, locals) ==
    /\ pc' = [pc EXCEPT ![q] = next]
    /\ loc' = [loc EXCEPT ![q] = locals]

(* SELECT ... FOR UPDATE inside a transaction *)
BeginLocked(q, e, next, locals) ==
    /\ lock[e] = NONE
    /\ lock' = [lock EXCEPT ![e] = q]
    /\ Begin(q, next, locals)

(* COMMIT or ROLLBACK: the lock is released, the response goes out *)
End(q) ==
    /\ pc' = [pc EXCEPT ![q] = "idle"]
    /\ loc' = [loc EXCEPT ![q] = NoLocals]
    /\ lock' = [e \in Event |-> IF lock[e] = q THEN NONE ELSE lock[e]]

-----------------------------------------------------------------------------
(* register_student *)

(* mutant: select_for_update is missing *)
Register_NoLock(q, s, e) ==
    /\ pc[q] = "idle" /\ status[e] = "published" /\ RowLeft
    /\ LET free == Cardinality(Confirmed(e)) < capacity[e] IN
       Begin(q, "register",
           [NoLocals EXCEPT !.event = e, !.student = s,
               !.status = IF free THEN "confirmed" ELSE "waitlisted",
               !.position = IF free THEN NONE ELSE Cardinality(Waitlisted(e)) + 1])
    /\ UNCHANGED <<events, regs, jobs, lock>>

(* mutant: the position is the count, not the count plus one *)
Register_OffByOne(q, s, e) ==
    /\ pc[q] = "idle" /\ status[e] = "published" /\ RowLeft
    /\ LET free == Cardinality(Confirmed(e)) < capacity[e] IN
       BeginLocked(q, e, "register",
           [NoLocals EXCEPT !.event = e, !.student = s,
               !.status = IF free THEN "confirmed" ELSE "waitlisted",
               !.position = IF free THEN NONE ELSE Cardinality(Waitlisted(e))])
    /\ UNCHANGED <<events, regs, jobs>>

Register(q, s, e) ==
    /\ pc[q] = "idle" /\ status[e] = "published" /\ RowLeft
    /\ LET free == Cardinality(Confirmed(e)) < capacity[e] IN
       BeginLocked(q, e, "register",
           [NoLocals EXCEPT !.event = e, !.student = s,
               !.status = IF free THEN "confirmed" ELSE "waitlisted",
               !.position = IF free THEN NONE ELSE Cardinality(Waitlisted(e)) + 1])
    /\ UNCHANGED <<events, regs, jobs>>

(* uq_one_active_registration_per_student *)
AlreadyRegistered(s, e) == \E r \in Active(e) : student_id[r] = s

RegisterCommit(q) ==
    /\ pc[q] = "register"
    /\ ~AlreadyRegistered(loc[q].student, loc[q].event)
    /\ \E r \in Fresh :
          /\ reg' = [reg EXCEPT ![r] = loc[q].status]
          /\ event_id' = [event_id EXCEPT ![r] = loc[q].event]
          /\ student_id' = [student_id EXCEPT ![r] = loc[q].student]
          /\ told' = [told EXCEPT ![r] = loc[q].position]
          /\ jobs' = jobs \cup {<<r, IF loc[q].status = "confirmed"
                                     THEN "RegistrationConfirmed"
                                     ELSE "RegistrationWaitlisted">>}
    /\ End(q)
    /\ UNCHANGED events

(* mutant: the transaction is left open *)
RegisterConflict_KeepsLock(q) ==
    /\ pc[q] = "register"
    /\ AlreadyRegistered(loc[q].student, loc[q].event)
    /\ Begin(q, "idle", NoLocals)
    /\ UNCHANGED <<events, regs, jobs, lock>>

(* IntegrityError: 409 *)
RegisterConflict(q) ==
    /\ pc[q] = "register"
    /\ AlreadyRegistered(loc[q].student, loc[q].event)
    /\ End(q)
    /\ UNCHANGED <<events, regs, jobs>>

-----------------------------------------------------------------------------
(* cancel_registration *)

(* The first read, without a lock *)
CancelRead(q, r) ==
    /\ pc[q] = "idle" /\ reg[r] \in {"confirmed", "waitlisted"}
    /\ Begin(q, "cancel_read",
           [NoLocals EXCEPT !.id = r, !.event = event_id[r], !.status = reg[r]])
    /\ UNCHANGED <<events, regs, jobs, lock>>

(* mutant: the decision rests on the read before the lock *)
CancelLock_NoSecondRead(q) ==
    /\ pc[q] = "cancel_read"
    /\ starts[loc[q].event] # "past"
    /\ BeginLocked(q, loc[q].event, "cancel", loc[q])
    /\ UNCHANGED <<events, regs, jobs>>

(* The event is locked and the registration read again. *)
CancelLock(q) ==
    /\ pc[q] = "cancel_read"
    /\ LET r == loc[q].id IN
       /\ reg[r] # "cancelled" /\ starts[event_id[r]] # "past"
       /\ BeginLocked(q, event_id[r], "cancel", [loc[q] EXCEPT !.status = reg[r]])
    /\ UNCHANGED <<events, regs, jobs>>

(* 409: cancelled by now, or the event has started *)
CancelReject(q) ==
    /\ pc[q] = "cancel_read"
    /\ LET r == loc[q].id IN
       /\ lock[event_id[r]] = NONE
       /\ reg[r] = "cancelled" \/ starts[event_id[r]] = "past"
    /\ End(q)
    /\ UNCHANGED <<events, regs, jobs>>

(* mutant: the promotion is written without its job *)
CancelCommit_SilentPromotion(q) ==
    /\ pc[q] = "cancel"
    /\ LET r        == loc[q].id
           promoted == IF loc[q].status = "confirmed"
                       THEN Next_waitlisted(loc[q].event) ELSE {}
           keys     == {<<r, "RegistrationCancelled">>}
       IN  /\ keys \cap jobs = {}
           /\ reg' = [x \in Reg |-> IF x = r THEN "cancelled"
                                    ELSE IF x \in promoted THEN "confirmed"
                                    ELSE reg[x]]
           /\ jobs' = jobs \cup keys
    /\ End(q)
    /\ UNCHANGED <<events, event_id, student_id, told>>

CancelCommit(q) ==
    /\ pc[q] = "cancel"
    /\ LET r        == loc[q].id
           promoted == IF loc[q].status = "confirmed"
                       THEN Next_waitlisted(loc[q].event) ELSE {}
           keys     == {<<r, "RegistrationCancelled">>}
                          \cup {<<p, "WaitlistPromoted">> : p \in promoted}
       IN  /\ keys \cap jobs = {}
           /\ reg' = [x \in Reg |-> IF x = r THEN "cancelled"
                                    ELSE IF x \in promoted THEN "confirmed"
                                    ELSE reg[x]]
           /\ jobs' = jobs \cup keys
    /\ End(q)
    /\ UNCHANGED <<events, event_id, student_id, told>>

-----------------------------------------------------------------------------
(* cancel_event *)

(* A cancelled event is returned as it is, a started one is a 409. *)
CancelEvent(q, e) ==
    /\ pc[q] = "idle"
    /\ status[e] \in {"draft", "published"} /\ starts[e] # "past"
    /\ BeginLocked(q, e, "cancel_event", [NoLocals EXCEPT !.event = e])
    /\ UNCHANGED <<events, regs, jobs>>

(* mutant: a misspelt event type *)
FanOut_Misspelt(e) == {<<r, "EventCanceled">> : r \in Active(e)}

FanOut(e) == {<<r, "EventCancelled">> : r \in Active(e)}

CancelEventCommit(q) ==
    /\ pc[q] = "cancel_event"
    /\ LET e == loc[q].event IN
       /\ FanOut(e) \cap jobs = {}
       /\ status' = [status EXCEPT ![e] = "cancelled"]
       /\ jobs' = jobs \cup FanOut(e)
    /\ End(q)
    /\ UNCHANGED <<capacity, starts, location, resized, regs>>

(* IntegrityError on a key of the fan-out: 500, everything is rolled back *)
CancelEventConflict(q) ==
    /\ pc[q] = "cancel_event"
    /\ FanOut(loc[q].event) \cap jobs # {}
    /\ End(q)
    /\ UNCHANGED <<events, regs, jobs>>

-----------------------------------------------------------------------------
(* create_event, publish_event, update_event: no transaction *)

CreateEvent(e) ==
    /\ status[e] = "absent"
    /\ status' = [status EXCEPT ![e] = "draft"]
    /\ \E c \in Capacity : capacity' = [capacity EXCEPT ![e] = c]
    /\ \E t \in Start : starts' = [starts EXCEPT ![e] = t]
    /\ \E l \in Location : location' = [location EXCEPT ![e] = l]
    /\ UNCHANGED <<resized, regs, jobs, requests>>

(* _get_owned_draft: a plain read *)
Publish(q, e) ==
    /\ pc[q] = "idle" /\ status[e] = "draft"
    /\ Begin(q, "publish", [NoLocals EXCEPT !.event = e])
    /\ UNCHANGED <<events, regs, jobs, lock>>

(* UPDATE ... WHERE id: waits for the row lock, writes the status it decided on *)
PublishCommit(q) ==
    /\ pc[q] = "publish" /\ lock[loc[q].event] = NONE
    /\ status' = [status EXCEPT ![loc[q].event] = "published"]
    /\ End(q)
    /\ UNCHANGED <<capacity, starts, location, resized, regs, jobs>>

(* SELECT ... FOR UPDATE in autocommit: waits for the row lock, keeps none.  *)
(* A location is refused within the location lock.                           *)
Update(q, e) ==
    /\ pc[q] = "idle" /\ status[e] # "absent" /\ lock[e] = NONE
    /\ \E c \in Capacity \cup {NONE}, t \in Start \cup {NONE},
          l \in Location \cup {NONE} :
          /\ <<c, t, l>> # <<NONE, NONE, NONE>>
          /\ c # NONE => "capacity" \in Editable
          /\ t # NONE => "starts_at" \in Editable
          /\ l # NONE => "location" \in Editable
          /\ l # NONE => starts[e] = "later"
          /\ Begin(q, "update", [NoLocals EXCEPT !.event = e, !.capacity = c,
                                                 !.starts = t, !.location = l])
    /\ UNCHANGED <<events, regs, jobs, lock>>

(* mutant: the row lock of a running registration is not waited for *)
UpdateCommit_IgnoresLock(q) ==
    /\ pc[q] = "update"
    /\ LET e == loc[q].event
           Set(old, new) == IF new = NONE THEN old ELSE new
       IN  /\ capacity' = [capacity EXCEPT ![e] = Set(@, loc[q].capacity)]
           /\ starts' = [starts EXCEPT ![e] = Set(@, loc[q].starts)]
           /\ location' = [location EXCEPT ![e] = Set(@, loc[q].location)]
           /\ resized' = [resized EXCEPT ![e] = @ \/ capacity'[e] # capacity[e]]
    /\ End(q)
    /\ UNCHANGED <<status, regs, jobs>>

(* event.save(update_fields=...): only the fields that were sent *)
UpdateCommit(q) ==
    /\ pc[q] = "update" /\ lock[loc[q].event] = NONE
    /\ LET e == loc[q].event
           Set(old, new) == IF new = NONE THEN old ELSE new
       IN  /\ capacity' = [capacity EXCEPT ![e] = Set(@, loc[q].capacity)]
           /\ starts' = [starts EXCEPT ![e] = Set(@, loc[q].starts)]
           /\ location' = [location EXCEPT ![e] = Set(@, loc[q].location)]
           /\ resized' = [resized EXCEPT ![e] = @ \/ capacity'[e] # capacity[e]]
    /\ End(q)
    /\ UNCHANGED <<status, regs, jobs>>

-----------------------------------------------------------------------------
(* list_my_registrations: the student's rows are read first, then the       *)
(* position of each waitlisted one is counted by a statement of its own.    *)
(* The position at the first read is kept only to compare with.             *)
ListRead(q, r) ==
    /\ pc[q] = "idle" /\ reg[r] = "waitlisted"
    /\ Begin(q, "list", [NoLocals EXCEPT !.id = r, !.position = Position(r)])
    /\ UNCHANGED <<events, regs, jobs, lock>>

ListCount(q) ==
    /\ pc[q] = "list"
    /\ End(q)
    /\ UNCHANGED <<events, regs, jobs>>

-----------------------------------------------------------------------------
(* A request refused, or answered with no change, at its first look: 404 of *)
(* register_student, 409 of publish_event, cancel_event of a cancelled or   *)
(* started event.  In every state of an event some request is refused.      *)
Refuse(q) == pc[q] = "idle" /\ UNCHANGED vars

(* A request that dies anywhere (client gone, database error, process       *)
(* killed) rolls back.                                                      *)
Abort(q) ==
    /\ pc[q] # "idle"
    /\ End(q)
    /\ UNCHANGED <<events, regs, jobs>>

(* The start of an event comes nearer. *)
Advance(e) ==
    /\ starts[e] \in {"later", "soon"}
    /\ starts' = [starts EXCEPT ![e] = IF @ = "later" THEN "soon" ELSE "past"]
    /\ UNCHANGED <<status, capacity, location, resized, regs, jobs, requests>>

(* What a request that has begun does next *)
Proceed(q) ==
    \/ RegisterCommit(q) \/ RegisterConflict(q)
    \/ CancelLock(q) \/ CancelReject(q) \/ CancelCommit(q)
    \/ CancelEventCommit(q) \/ CancelEventConflict(q)
    \/ PublishCommit(q) \/ UpdateCommit(q) \/ ListCount(q)

Next ==
    \/ \E e \in Event : CreateEvent(e) \/ Advance(e)
    \/ \E q \in Request :
          \/ \E e \in Event : CancelEvent(q, e) \/ Publish(q, e) \/ Update(q, e)
          \/ \E e \in Event, s \in Student : Register(q, s, e)
          \/ \E r \in Reg : CancelRead(q, r) \/ ListRead(q, r)
          \/ Proceed(q) \/ Refuse(q) \/ Abort(q)

Spec == Init /\ [][Next]_vars

(* A request that can go on does: PostgreSQL grants a row lock in the order  *)
(* in which it was asked for, so a request that waits gets its turn.         *)
FairSpec == Spec /\ \A q \in Request : SF_vars(Proceed(q))

-----------------------------------------------------------------------------
(* Safety *)

(* Seats go to those who registered first: as long as the organizer leaves  *)
(* the capacity alone, the confirmed registrations are exactly the earliest *)
(* `capacity` active ones.  So no event is overbooked, no seat is idle      *)
(* while someone waits, and nobody overtakes on the waitlist, whatever      *)
(* registrations and cancellations run at the same time.                    *)
SeatsGoToEarliest ==
    \A e \in Event : ~resized[e] =>
        Confirmed(e) = {r \in Active(e) :
                           Cardinality({x \in Active(e) : x < r}) < capacity[e]}

(* Resized or not, no step makes an overbooking: a newcomer gets a seat     *)
(* only within the capacity of that moment (the lock also keeps an update   *)
(* of the capacity out between the count and the insert), and a student who *)
(* waits gets one only in exchange for a seat that is cancelled in the same *)
(* step, one for one.  Below a lowered capacity the exchange goes on.       *)
OverbookingNeverGrows ==
    [][\A e \in Event :
          /\ (\E r \in Confirmed(e)' : reg[r] = "absent")
                => Cardinality(Confirmed(e)') <= capacity'[e]
          /\ \A r \in Waitlisted(e) : reg'[r] = "confirmed" =>
                /\ \E x \in Confirmed(e) : reg'[x] = "cancelled"
                /\ \A x \in Waitlisted(e) : reg'[x] = "confirmed" => x = r]_vars

(* The jobs of a registration tell exactly what happened to it: confirmed   *)
(* or waitlisted at first, promoted if it got a seat later, cancelled if it *)
(* was cancelled, each once.                                                *)
Told(r, k) == <<r, k>> \in jobs
JobsTellTheStory ==
    \A r \in Reg :
        /\ reg[r] # "absent" <=>
              (Told(r, "RegistrationConfirmed") # Told(r, "RegistrationWaitlisted"))
        /\ Told(r, "RegistrationWaitlisted") <=> told[r] # NONE
        /\ Told(r, "WaitlistPromoted") => Told(r, "RegistrationWaitlisted")
        /\ Told(r, "RegistrationCancelled") <=> reg[r] = "cancelled"
        /\ reg[r] = "confirmed" =>
              Told(r, "RegistrationConfirmed") \/ Told(r, "WaitlistPromoted")
        /\ reg[r] = "waitlisted" => ~Told(r, "WaitlistPromoted")

(* Whoever is still registered for a cancelled event has been told, also if *)
(* the registration was under way when the event was cancelled.             *)
CancellationReachesEveryone ==
    \A e \in Event : status[e] = "cancelled" =>
        \A r \in Active(e) : Told(r, "EventCancelled")

(* The waitlist position a student was told is never worse than it was: one *)
(* only moves up.                                                           *)
PositionOnlyImproves ==
    \A r \in Reg : reg[r] = "waitlisted" => Position(r) <= told[r]

(* The position list_my_registrations answers with is counted after the row *)
(* was read: it is never worse than at that read, and a registration that   *)
(* was promoted in between shows position 0, not the place of another one.  *)
ListedPositionIsSafe ==
    \A q \in Request : pc[q] = "list" =>
        LET r == loc[q].id IN
        /\ Position(r) <= loc[q].position
        /\ reg[r] = "waitlisted" => Position(r) > 0
        /\ reg[r] = "confirmed" => Position(r) = 0

(* Cancelled registrations stay cancelled, and nobody loses a seat without  *)
(* cancelling.                                                              *)
RegistrationLifecycle ==
    [][\A r \in Reg :
          /\ reg[r] = "cancelled" => reg'[r] = "cancelled"
          /\ reg[r] = "confirmed" => reg'[r] \in {"confirmed", "cancelled"}]_vars

(* Liveness: every request ends; none is left waiting for a lock, and a     *)
(* cancellation never fails on an idempotency key that is already taken.    *)
EveryRequestEnds == \A q \in Request : pc[q] # "idle" ~> pc[q] = "idle"

-----------------------------------------------------------------------------
(* What the documentation says, and the code does not keep *)

(* publish_event, event.py: "Transition a DRAFT event to PUBLISHED", "409:  *)
(* If the event is not in DRAFT status".                                    *)
OnlyDraftsArePublished ==
    [][\A e \in Event :
          status'[e] = "published" => status[e] \in {"draft", "published"}]_vars
=============================================================================
