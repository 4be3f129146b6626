---------------------------- MODULE BookingProofs ----------------------------
(***************************************************************************)
(* Theorems about Booking, for every set of events, students, locations    *)
(* and concurrent requests, every set of capacities and every number of    *)
(* registrations.                                                          *)
(***************************************************************************)
EXTENDS Booking, FiniteSetTheorems, TLAPS

(* The steps of a request that run in a transaction with the event locked  *)
Locking == {"register", "cancel", "cancel_event"}

(* What a request has read is there, and still true, when its next         *)
(* statement needs it: rows are never deleted, and nobody else writes the   *)
(* registrations and the status of an event while its row is locked.        *)
RequestOK(q) ==
    /\ pc[q] \in Locking => loc[q].event # NONE /\ lock[loc[q].event] = q
    /\ pc[q] \in {"publish", "update", "cancel_event"} =>
          loc[q].event # NONE /\ status[loc[q].event] # "absent"
    /\ pc[q] = "register" =>
          /\ loc[q].student # NONE /\ status[loc[q].event] = "published"
          /\ loc[q].status \in {"confirmed", "waitlisted"}
          /\ loc[q].status = "confirmed" <=> loc[q].position = NONE
    /\ pc[q] \in {"cancel_read", "cancel", "list"} =>
          loc[q].id # NONE /\ reg[loc[q].id] # "absent"
    /\ pc[q] \in {"cancel_read", "cancel"} => loc[q].event = event_id[loc[q].id]
    /\ pc[q] = "cancel" => loc[q].status = reg[loc[q].id] /\ reg[loc[q].id] # "cancelled"
    /\ pc[q] = "list" => loc[q].position # NONE

(* Registrations are inserted in order, each for an event that exists, and  *)
(* an event that exists has a capacity.                                    *)
RowsOK ==
    /\ \A r \in Reg : reg[r] # "absent" =>
          /\ event_id[r] # NONE /\ student_id[r] # NONE
          /\ status[event_id[r]] # "absent"
    /\ \A r \in Reg : reg[r] = "absent" => event_id[r] = NONE /\ told[r] = NONE
    /\ \A r, x \in Reg : reg[r] = "absent" /\ r < x => reg[x] = "absent"
    /\ \A e \in Event : status[e] # "absent" => capacity[e] # NONE

Registering == {q \in Request : pc[q] = "register"}

TypeInv == TypeOK /\ RowsOK /\ IsFiniteSet(Registering) /\ \A q \in Request : RequestOK(q)

(* Jobs are only of registrations that exist, and a waitlisted one was told *)
(* so: with JobsTellTheStory an inductive account of the jobs.              *)
StoryInv ==
    /\ JobsTellTheStory
    /\ \A r \in Reg : reg[r] = "absent" => \A k \in Kind : ~Told(r, k)
    /\ \A r \in Reg : reg[r] = "waitlisted" => Told(r, "RegistrationWaitlisted")

(* The decision a registration took on the locked event stands until it      *)
(* commits.                                                                *)
DecisionHolds ==
    \A q \in Request : pc[q] = "register" =>
        LET e == loc[q].event IN
        /\ loc[q].status = "confirmed" <=> Cardinality(Confirmed(e)) < capacity[e]
        /\ loc[q].status = "waitlisted" => loc[q].position = Cardinality(Waitlisted(e)) + 1

(* An event whose capacity was left alone is never overbooked; this is what *)
(* makes SeatsGoToEarliest inductive.                                       *)
NotOverbooked ==
    \A e \in Event : ~resized[e] /\ status[e] # "absent" =>
        Cardinality(Confirmed(e)) <= capacity[e]

SeatsInv == DecisionHolds /\ NotOverbooked /\ SeatsGoToEarliest

(* Whoever waits was told a place, and it only improves. *)
PlaceInv ==
    PositionOnlyImproves /\ \A r \in Reg : reg[r] = "waitlisted" => told[r] # NONE

(* A place that was read improves until it is answered, and nobody waits    *)
(* before a registration that was read as waitlisted and has a seat by now. *)
ListInv ==
    \A q \in Request : pc[q] = "list" =>
        LET r == loc[q].id IN
        /\ Position(r) <= loc[q].position
        /\ reg[r] = "confirmed" => \A x \in Waitlisted(event_id[r]) : x > r

-----------------------------------------------------------------------------
(* Sets of registrations *)

(* There are MaxReg registrations, numbered by natural numbers. *)
LEMMA RegIsFinite ==
    /\ Reg \subseteq Nat /\ IsFiniteSet(Reg) /\ Cardinality(Reg) = MaxReg
    /\ NONE \notin Reg
  <1>1. MaxReg \in Nat
    BY BoundAssumption
  <1>2. IsFiniteSet(1 .. MaxReg) /\ Cardinality(1 .. MaxReg) = MaxReg
    BY <1>1, FS_Interval
  <1> QED
    BY <1>1, <1>2, NoneAssumption DEF Reg

(* Every set of registrations is finite, and the larger one has more. *)
LEMMA RegSets ==
    ASSUME NEW T, T \subseteq Reg, NEW S, S \subseteq T
    PROVE  /\ IsFiniteSet(S) /\ Cardinality(S) \in Nat
           /\ IsFiniteSet(T) /\ Cardinality(T) \in Nat
           /\ Cardinality(S) <= Cardinality(T)
  <1>1. IsFiniteSet(T)
    BY RegIsFinite, FS_Subset
  <1>2. IsFiniteSet(S) /\ Cardinality(S) <= Cardinality(T)
    BY <1>1, FS_Subset
  <1> QED
    BY <1>1, <1>2, FS_CardinalityType

(* A nonempty set of registrations has a first one. *)
LEMMA FirstExists ==
    ASSUME NEW T, T \subseteq Reg, T # {}
    PROVE  \E r \in T : \A x \in T : r <= x
  <1>1. T \subseteq Nat
    BY RegIsFinite
  <1>2. PICK r \in T : \A x \in T : ~(<<x, r>> \in OpToRel(<, Nat))
    BY <1>1, WFMin, NatLessThanWellFounded
  <1>3. \A x \in T : ~(x < r)
    BY <1>1, <1>2 DEF OpToRel
  <1> QED
    BY <1>1, <1>3

(* The registrations of an event are registrations. *)
LEMMA InReg ==
    ASSUME NEW e
    PROVE  /\ Confirmed(e) \subseteq Reg /\ Waitlisted(e) \subseteq Reg /\ Active(e) \subseteq Reg
           /\ Confirmed(e) \subseteq Active(e) /\ Waitlisted(e) \subseteq Active(e)
           /\ Confirmed(e) \cap Waitlisted(e) = {}
  BY DEF Confirmed, Waitlisted, Active, In

(* While a row is left, a new place on the waitlist is a number in Reg. *)
LEMMA NewPlace ==
    ASSUME TypeInv, RowLeft, NEW e
    PROVE  Cardinality(Waitlisted(e)) + 1 \in Reg
  <1> DEFINE gone == {r \in Reg : reg[r] = "absent"}
  <1>1. Cardinality(Registering) \in Nat
    BY FS_CardinalityType DEF TypeInv
  <1>2. Cardinality(gone) > Cardinality(Registering)
    BY DEF RowLeft, Registering
  <1>3. gone # {}
    BY <1>1, <1>2, FS_EmptySet
  <1>4. PICK r \in Reg : reg[r] = "absent"
    BY <1>3
  <1>5. Waitlisted(e) \subseteq Reg \ {r}
    BY <1>4 DEF Waitlisted, In
  <1>6. IsFiniteSet(Reg \ {r}) /\ Cardinality(Reg \ {r}) = MaxReg - 1
    BY RegIsFinite, FS_RemoveElement
  <1>7. /\ Cardinality(Waitlisted(e)) <= Cardinality(Reg \ {r})
        /\ Cardinality(Waitlisted(e)) \in Nat
    BY <1>5, RegSets
  <1> QED
    BY <1>6, <1>7, BoundAssumption DEF Reg

(* The place of a waitlisted registration is a number in Reg; the place of  *)
(* any registration is a natural number.                                   *)
LEMMA PlaceInReg ==
    ASSUME NEW r \in Reg
    PROVE  /\ Position(r) \in Nat
           /\ r \in Waitlisted(event_id[r]) => Position(r) \in Reg
  <1> DEFINE S == {x \in Waitlisted(event_id[r]) : x <= r}
  <1>1. S \subseteq Reg
    BY DEF Waitlisted, In
  <1>2. Cardinality(S) \in Nat /\ Cardinality(S) <= MaxReg /\ IsFiniteSet(S)
    BY <1>1, RegSets, RegIsFinite
  <1>3. ASSUME r \in Waitlisted(event_id[r]) PROVE S # {}
    BY <1>3, RegIsFinite
  <1>4. ASSUME r \in Waitlisted(event_id[r]) PROVE Cardinality(S) # 0
    BY <1>2, <1>3, <1>4, FS_EmptySet
  <1>5. Position(r) = Cardinality(S)
    BY DEF Position
  <1> HIDE DEF S
  <1> QED
    BY <1>2, <1>4, <1>5, BoundAssumption DEF Reg

(* A fresh registration comes after all others. *)
LEMMA FreshIsLast ==
    ASSUME TypeOK, RowsOK, NEW r \in Fresh
    PROVE  /\ r \in Reg /\ reg[r] = "absent"
           /\ \A x \in Reg : reg[x] # "absent" => x < r
  BY RegIsFinite DEF Fresh, RowsOK

-----------------------------------------------------------------------------
(* The beginning and the end of a request *)

(* NoLocals are locals. *)
LEMMA NoLocalsType == NoLocals \in Locals
  BY DEF NoLocals, Locals

(* Begin moves the request in one slot and leaves the others where they are. *)
LEMMA BeginEffect ==
    ASSUME TypeOK, NEW q \in Request, NEW next \in Pc, NEW locals \in Locals,
           Begin(q, next, locals)
    PROVE  /\ pc' \in [Request -> Pc] /\ loc' \in [Request -> Locals]
           /\ pc'[q] = next /\ loc'[q] = locals
           /\ \A p \in Request \ {q} : pc'[p] = pc[p] /\ loc'[p] = loc[p]
  BY DEF Begin, TypeOK

(* BeginLocked also takes the lock of the event, which was free. *)
LEMMA BeginLockedEffect ==
    ASSUME TypeOK, NEW q \in Request, NEW e \in Event, NEW next \in Pc, NEW locals \in Locals,
           BeginLocked(q, e, next, locals)
    PROVE  /\ pc' \in [Request -> Pc] /\ loc' \in [Request -> Locals]
           /\ pc'[q] = next /\ loc'[q] = locals
           /\ \A p \in Request \ {q} : pc'[p] = pc[p] /\ loc'[p] = loc[p]
           /\ lock' \in [Event -> Request \cup {NONE}]
           /\ lock[e] = NONE /\ lock'[e] = q
           /\ \A d \in Event \ {e} : lock'[d] = lock[d]
  <1>1. Begin(q, next, locals)
    BY DEF BeginLocked
  <1> QED
    BY <1>1, BeginEffect DEF BeginLocked, TypeOK

(* End frees the slot and its lock, and nobody else's. *)
LEMMA EndEffect ==
    ASSUME TypeOK, NEW q \in Request, End(q)
    PROVE  /\ pc' \in [Request -> Pc] /\ loc' \in [Request -> Locals]
           /\ lock' \in [Event -> Request \cup {NONE}]
           /\ pc'[q] = "idle"
           /\ \A p \in Request \ {q} : pc'[p] = pc[p] /\ loc'[p] = loc[p]
           /\ \A e \in Event : lock[e] # q => lock'[e] = lock[e]
  BY NoLocalsType DEF End, TypeOK, Pc

-----------------------------------------------------------------------------
(* What the first statement of a request leaves in its slot *)

(* A registration begins with the decision it took on the locked event. *)
LEMMA RegisterEffect ==
    ASSUME TypeInv, NEW q \in Request, NEW s \in Student, NEW e \in Event, Register(q, s, e)
    PROVE  /\ pc' \in [Request -> Pc] /\ loc' \in [Request -> Locals]
           /\ lock' \in [Event -> Request \cup {NONE}]
           /\ pc'[q] = "register" /\ loc'[q].event = e /\ loc'[q].student = s
           /\ loc'[q].status \in {"confirmed", "waitlisted"}
           /\ loc'[q].status = "confirmed" <=> Cardinality(Confirmed(e)) < capacity[e]
           /\ loc'[q].status = "confirmed" <=> loc'[q].position = NONE
           /\ loc'[q].status = "waitlisted" =>
                 loc'[q].position = Cardinality(Waitlisted(e)) + 1
           /\ \A p \in Request \ {q} : pc'[p] = pc[p] /\ loc'[p] = loc[p]
           /\ lock[e] = NONE /\ lock'[e] = q
           /\ \A d \in Event \ {e} : lock'[d] = lock[d]
  <1> DEFINE free == Cardinality(Confirmed(e)) < capacity[e]
             st == IF free THEN "confirmed" ELSE "waitlisted"
             po == IF free THEN NONE ELSE Cardinality(Waitlisted(e)) + 1
             next == [NoLocals EXCEPT !.event = e, !.student = s, !.status = st, !.position = po]
  <1>1. Cardinality(Waitlisted(e)) + 1 \in Reg
    BY NewPlace DEF Register
  <1>2. /\ st \in {"confirmed", "waitlisted"} /\ po \in Reg \cup {NONE}
        /\ st = "confirmed" <=> free
        /\ st = "confirmed" <=> po = NONE
        /\ st = "waitlisted" => po = Cardinality(Waitlisted(e)) + 1
    BY <1>1, RegIsFinite
  <1> HIDE DEF st, po
  <1>3. /\ next \in Locals /\ next.event = e /\ next.student = s
        /\ next.status = st /\ next.position = po
    BY <1>2 DEF NoLocals, Locals
  <1>4. BeginLocked(q, e, "register", next)
    BY DEF Register, st, po
  <1> HIDE DEF next
  <1>5. /\ pc' \in [Request -> Pc] /\ loc' \in [Request -> Locals]
        /\ pc'[q] = "register" /\ loc'[q] = next
        /\ \A p \in Request \ {q} : pc'[p] = pc[p] /\ loc'[p] = loc[p]
        /\ lock' \in [Event -> Request \cup {NONE}]
        /\ lock[e] = NONE /\ lock'[e] = q
        /\ \A d \in Event \ {e} : lock'[d] = lock[d]
    BY <1>3, <1>4, BeginLockedEffect DEF TypeInv, Pc
  <1> QED
    BY <1>2, <1>3, <1>5

(* A cancellation begins with the row it has read without a lock. *)
LEMMA CancelReadEffect ==
    ASSUME TypeInv, NEW q \in Request, NEW r \in Reg, CancelRead(q, r)
    PROVE  /\ pc' \in [Request -> Pc] /\ loc' \in [Request -> Locals]
           /\ pc'[q] = "cancel_read" /\ loc'[q].id = r /\ loc'[q].event = event_id[r]
           /\ \A p \in Request \ {q} : pc'[p] = pc[p] /\ loc'[p] = loc[p]
  <1> DEFINE next == [NoLocals EXCEPT !.id = r, !.event = event_id[r], !.status = reg[r]]
  <1>1. next \in Locals /\ next.id = r /\ next.event = event_id[r]
    <2>1. reg[r] \in {"confirmed", "waitlisted"}
      BY DEF CancelRead
    <2> QED
      BY <2>1 DEF NoLocals, Locals, TypeInv, TypeOK
  <1> HIDE DEF next
  <1>2. Begin(q, "cancel_read", next)
    BY DEF CancelRead, next
  <1> QED
    BY <1>1, <1>2, BeginEffect DEF TypeInv, Pc

(* Its second read is of the same row, with the row's event locked. *)
LEMMA CancelLockEffect ==
    ASSUME TypeInv, NEW q \in Request, CancelLock(q)
    PROVE  /\ pc' \in [Request -> Pc] /\ loc' \in [Request -> Locals]
           /\ lock' \in [Event -> Request \cup {NONE}]
           /\ pc'[q] = "cancel" /\ loc[q].id \in Reg /\ loc'[q].id = loc[q].id
           /\ loc'[q].event = loc[q].event /\ loc[q].event \in Event
           /\ loc[q].event = event_id[loc[q].id]
           /\ loc'[q].status = reg[loc[q].id] /\ reg[loc[q].id] \in {"confirmed", "waitlisted"}
           /\ \A p \in Request \ {q} : pc'[p] = pc[p] /\ loc'[p] = loc[p]
           /\ lock[loc[q].event] = NONE /\ lock'[loc[q].event] = q
           /\ \A d \in Event \ {loc[q].event} : lock'[d] = lock[d]
  <1> DEFINE r == loc[q].id
             next == [loc[q] EXCEPT !.status = reg[r]]
  <1>1. /\ r \in Reg /\ reg[r] \in {"confirmed", "waitlisted"} /\ event_id[r] \in Event
        /\ loc[q].event = event_id[r] /\ loc[q] \in Locals
    BY DEF CancelLock, TypeInv, TypeOK, RequestOK, RowsOK, Locals
  <1>2. BeginLocked(q, event_id[r], "cancel", next)
    BY DEF CancelLock
  <1> HIDE DEF r
  <1>3. /\ next \in Locals /\ next.id = loc[q].id /\ next.event = loc[q].event
        /\ next.status = reg[r]
    BY <1>1 DEF Locals
  <1> HIDE DEF next
  <1> QED
    BY <1>1, <1>2, <1>3, BeginLockedEffect DEF TypeInv, Pc, r

(* The cancellation of an event begins with the event locked. *)
LEMMA CancelEventEffect ==
    ASSUME TypeInv, NEW q \in Request, NEW e \in Event, CancelEvent(q, e)
    PROVE  /\ pc' \in [Request -> Pc] /\ loc' \in [Request -> Locals]
           /\ lock' \in [Event -> Request \cup {NONE}]
           /\ pc'[q] = "cancel_event" /\ loc'[q].event = e
           /\ \A p \in Request \ {q} : pc'[p] = pc[p] /\ loc'[p] = loc[p]
           /\ lock[e] = NONE /\ lock'[e] = q
           /\ \A d \in Event \ {e} : lock'[d] = lock[d]
  <1> DEFINE next == [NoLocals EXCEPT !.event = e]
  <1>1. next \in Locals /\ next.event = e
    BY DEF NoLocals, Locals
  <1> HIDE DEF next
  <1>2. BeginLocked(q, e, "cancel_event", next)
    BY DEF CancelEvent, next
  <1> QED
    BY <1>1, <1>2, BeginLockedEffect DEF TypeInv, Pc

(* Publishing and updating begin with an event read without a lock. *)
LEMMA EditEffect ==
    ASSUME TypeInv, NEW q \in Request, NEW e \in Event, Publish(q, e) \/ Update(q, e)
    PROVE  /\ pc' \in [Request -> Pc] /\ loc' \in [Request -> Locals]
           /\ pc'[q] \in {"publish", "update"} /\ loc'[q].event = e
           /\ \A p \in Request \ {q} : pc'[p] = pc[p] /\ loc'[p] = loc[p]
  <1>1. CASE Publish(q, e)
    <2> DEFINE next == [NoLocals EXCEPT !.event = e]
    <2>1. next \in Locals /\ next.event = e
      BY DEF NoLocals, Locals
    <2> HIDE DEF next
    <2>2. Begin(q, "publish", next)
      BY <1>1 DEF Publish, next
    <2> QED
      BY <2>1, <2>2, BeginEffect DEF TypeInv, Pc
  <1>2. CASE Update(q, e)
    <2>1. PICK c \in Capacity \cup {NONE}, t \in Start \cup {NONE}, l \in Location \cup {NONE} :
            /\ <<c, t, l>> # <<NONE, NONE, NONE>>
            /\ c # NONE => "capacity" \in Editable
            /\ t # NONE => "starts_at" \in Editable
            /\ l # NONE => "location" \in Editable
            /\ l # NONE => starts[e] = "later"
            /\ Begin(q, "update", [NoLocals EXCEPT !.event = e, !.capacity = c,
                                                   !.starts = t, !.location = l])
      BY <1>2, Zenon DEF Update
    <2> DEFINE next == [NoLocals EXCEPT !.event = e, !.capacity = c,
                                        !.starts = t, !.location = l]
    <2>2. next \in Locals /\ next.event = e
      BY DEF NoLocals, Locals
    <2> HIDE DEF next
    <2>3. Begin(q, "update", next)
      BY <2>1 DEF next
    <2> QED
      BY <2>2, <2>3, BeginEffect DEF TypeInv, Pc
  <1> QED
    BY <1>1, <1>2

(* A listing begins with a waitlisted row and its place. *)
LEMMA ListReadEffect ==
    ASSUME TypeInv, NEW q \in Request, NEW r \in Reg, ListRead(q, r)
    PROVE  /\ pc' \in [Request -> Pc] /\ loc' \in [Request -> Locals]
           /\ pc'[q] = "list" /\ loc'[q].id = r /\ loc'[q].position = Position(r)
           /\ Position(r) \in Reg
           /\ \A p \in Request \ {q} : pc'[p] = pc[p] /\ loc'[p] = loc[p]
  <1> DEFINE next == [NoLocals EXCEPT !.id = r, !.position = Position(r)]
  <1>1. Position(r) \in Reg
    BY PlaceInReg DEF ListRead, Waitlisted, In
  <1>2. next \in Locals /\ next.id = r /\ next.position = Position(r)
    BY <1>1 DEF NoLocals, Locals
  <1> HIDE DEF next
  <1>3. Begin(q, "list", next)
    BY DEF ListRead, next
  <1> QED
    BY <1>1, <1>2, <1>3, BeginEffect DEF TypeInv, Pc

-----------------------------------------------------------------------------
(* Which steps write which rows, and which steps move a request *)

(* Registrations are written by the commits of a registration and of its    *)
(* cancellation, jobs by these and by the cancellation of an event.         *)
LEMMA Writers ==
    ASSUME [Next]_vars
    PROVE  /\ \/ UNCHANGED <<regs, jobs>>
              \/ \E q \in Request : \/ RegisterCommit(q) \/ CancelCommit(q)
                                    \/ CancelEventCommit(q) /\ UNCHANGED regs
           /\ \/ UNCHANGED status
              \/ \E q \in Request : CancelEventCommit(q) \/ PublishCommit(q)
              \/ \E e \in Event : CreateEvent(e)
           /\ \/ UNCHANGED <<capacity, resized>>
              \/ \E q \in Request : UpdateCommit(q)
              \/ \E e \in Event : CreateEvent(e)
  <1> USE DEF events, regs
  <1>1. CASE UNCHANGED vars
    BY <1>1 DEF vars
  <1>2. ASSUME NEW e \in Event, CreateEvent(e) \/ Advance(e)
        PROVE  UNCHANGED <<regs, jobs>> /\ (Advance(e) => UNCHANGED <<status, capacity, resized>>)
    BY <1>2 DEF CreateEvent, Advance
  <1>3. ASSUME NEW q \in Request, NEW e \in Event, CancelEvent(q, e) \/ Publish(q, e) \/ Update(q, e)
        PROVE  UNCHANGED <<events, regs, jobs>>
    BY <1>3 DEF CancelEvent, Publish, Update
  <1>4. ASSUME NEW q \in Request, NEW e \in Event, NEW s \in Student, Register(q, s, e)
        PROVE  UNCHANGED <<events, regs, jobs>>
    BY <1>4 DEF Register
  <1>5. ASSUME NEW q \in Request, NEW r \in Reg, CancelRead(q, r) \/ ListRead(q, r)
        PROVE  UNCHANGED <<events, regs, jobs>>
    BY <1>5 DEF CancelRead, ListRead
  <1>6. ASSUME NEW q \in Request,
               RegisterConflict(q) \/ CancelLock(q) \/ CancelReject(q) \/ CancelEventConflict(q)
                 \/ ListCount(q) \/ Abort(q)
        PROVE  UNCHANGED <<events, regs, jobs>>
    BY <1>6 DEF RegisterConflict, CancelLock, CancelReject, CancelEventConflict, ListCount, Abort
  <1>7. ASSUME NEW q \in Request, Refuse(q) PROVE UNCHANGED <<events, regs, jobs>>
    BY <1>7 DEF Refuse, vars
  <1>8. ASSUME NEW q \in Request, RegisterCommit(q) \/ CancelCommit(q) PROVE UNCHANGED events
    BY <1>8 DEF RegisterCommit, CancelCommit
  <1>9. ASSUME NEW q \in Request, CancelEventCommit(q)
        PROVE  UNCHANGED <<capacity, resized, regs>>
    BY <1>9 DEF CancelEventCommit
  <1>10. ASSUME NEW q \in Request, PublishCommit(q)
         PROVE  UNCHANGED <<capacity, resized, regs, jobs>>
    BY <1>10 DEF PublishCommit
  <1>11. ASSUME NEW q \in Request, UpdateCommit(q) PROVE UNCHANGED <<status, regs, jobs>>
    BY <1>11 DEF UpdateCommit
  <1> QED
    BY <1>1, <1>2, <1>3, <1>4, <1>5, <1>6, <1>7, <1>8, <1>9, <1>10, <1>11 DEF Next, Proceed

(* A step moves at most one request. *)
LEMMA OneMoves ==
    ASSUME TypeInv, [Next]_vars
    PROVE  \/ UNCHANGED requests
           \/ \E q \in Request :
                 /\ \A p \in Request \ {q} : pc'[p] = pc[p] /\ loc'[p] = loc[p]
                 /\ \A e \in Event : lock[e] \notin {q, NONE} => lock'[e] = lock[e]
                 /\ \/ pc'[q] = "idle"
                    \/ \E e \in Event, s \in Student : Register(q, s, e)
                    \/ \E e \in Event : CancelEvent(q, e) \/ Publish(q, e) \/ Update(q, e)
                    \/ \E r \in Reg : CancelRead(q, r) \/ ListRead(q, r)
                    \/ CancelLock(q)
  <1> USE DEF TypeInv
  <1>1. ASSUME NEW q \in Request, End(q)
        PROVE  /\ \A p \in Request \ {q} : pc'[p] = pc[p] /\ loc'[p] = loc[p]
               /\ \A e \in Event : lock[e] \notin {q, NONE} => lock'[e] = lock[e]
               /\ pc'[q] = "idle"
    BY <1>1, EndEffect
  <1>2. ASSUME NEW e \in Event, CreateEvent(e) \/ Advance(e) PROVE UNCHANGED requests
    BY <1>2 DEF CreateEvent, Advance
  <1>3. ASSUME NEW q \in Request, NEW e \in Event, CancelEvent(q, e) \/ Publish(q, e) \/ Update(q, e)
        PROVE  /\ \A p \in Request \ {q} : pc'[p] = pc[p] /\ loc'[p] = loc[p]
               /\ \A d \in Event : lock[d] \notin {q, NONE} => lock'[d] = lock[d]
    <2>1. CASE CancelEvent(q, e)
      BY <2>1, CancelEventEffect
    <2>2. CASE Publish(q, e) \/ Update(q, e)
      BY <2>2, EditEffect DEF Publish, Update
    <2> QED
      BY <1>3, <2>1, <2>2
  <1>4. ASSUME NEW q \in Request, NEW e \in Event, NEW s \in Student, Register(q, s, e)
        PROVE  /\ \A p \in Request \ {q} : pc'[p] = pc[p] /\ loc'[p] = loc[p]
               /\ \A d \in Event : lock[d] \notin {q, NONE} => lock'[d] = lock[d]
    BY <1>4, RegisterEffect
  <1>5. ASSUME NEW q \in Request, NEW r \in Reg, CancelRead(q, r) \/ ListRead(q, r)
        PROVE  /\ \A p \in Request \ {q} : pc'[p] = pc[p] /\ loc'[p] = loc[p]
               /\ \A d \in Event : lock[d] \notin {q, NONE} => lock'[d] = lock[d]
    <2>1. CASE CancelRead(q, r)
      BY <2>1, CancelReadEffect DEF CancelRead
    <2>2. CASE ListRead(q, r)
      BY <2>2, ListReadEffect DEF ListRead
    <2> QED
      BY <1>5, <2>1, <2>2
  <1>6. ASSUME NEW q \in Request, CancelLock(q)
        PROVE  /\ \A p \in Request \ {q} : pc'[p] = pc[p] /\ loc'[p] = loc[p]
               /\ \A d \in Event : lock[d] \notin {q, NONE} => lock'[d] = lock[d]
    BY <1>6, CancelLockEffect
  <1>7. ASSUME NEW q \in Request, Proceed(q) \/ Abort(q), ~CancelLock(q) PROVE End(q)
    BY <1>7 DEF Proceed, Abort, RegisterCommit, RegisterConflict, CancelReject, CancelCommit,
       CancelEventCommit, CancelEventConflict, PublishCommit, UpdateCommit, ListCount
  <1>8. ASSUME NEW q \in Request, Refuse(q) PROVE UNCHANGED requests
    BY <1>8 DEF Refuse, vars, requests
  <1>9. CASE UNCHANGED vars
    BY <1>9 DEF vars, requests
  <1>10. CASE \E e \in Event : CreateEvent(e) \/ Advance(e)
    BY <1>2, <1>10
  <1>11. ASSUME NEW q \in Request,
                \/ \E e \in Event : CancelEvent(q, e) \/ Publish(q, e) \/ Update(q, e)
                \/ \E e \in Event, s \in Student : Register(q, s, e)
                \/ \E r \in Reg : CancelRead(q, r) \/ ListRead(q, r)
                \/ Proceed(q) \/ Refuse(q) \/ Abort(q)
         PROVE  \/ UNCHANGED requests
                \/ /\ \A p \in Request \ {q} : pc'[p] = pc[p] /\ loc'[p] = loc[p]
                   /\ \A e \in Event : lock[e] \notin {q, NONE} => lock'[e] = lock[e]
                   /\ \/ pc'[q] = "idle"
                      \/ \E e \in Event, s \in Student : Register(q, s, e)
                      \/ \E e \in Event : CancelEvent(q, e) \/ Publish(q, e) \/ Update(q, e)
                      \/ \E r \in Reg : CancelRead(q, r) \/ ListRead(q, r)
                      \/ CancelLock(q)
    <2>1. CASE \E e \in Event : CancelEvent(q, e) \/ Publish(q, e) \/ Update(q, e)
      BY <1>3, <2>1
    <2>2. CASE \E e \in Event, s \in Student : Register(q, s, e)
      BY <1>4, <2>2
    <2>3. CASE \E r \in Reg : CancelRead(q, r) \/ ListRead(q, r)
      BY <1>5, <2>3
    <2>4. CASE CancelLock(q)
      BY <1>6, <2>4
    <2>5. CASE End(q)
      BY <1>1, <2>5
    <2> QED
      BY <1>7, <1>8, <1>11, <2>1, <2>2, <2>3, <2>4, <2>5
  <1> QED
    BY <1>9, <1>10, <1>11 DEF Next

-----------------------------------------------------------------------------
(* Rows keep what they are *)

(* The row that the commit of a registration inserts. *)
LEMMA RegisterCommitEffect ==
    ASSUME TypeInv, NEW q \in Request, RegisterCommit(q)
    PROVE  \E r \in Reg :
             /\ reg[r] = "absent" /\ \A x \in Reg : reg[x] # "absent" => x < r
             /\ loc[q].event \in Event /\ loc[q].student \in Student
             /\ loc[q].status \in {"confirmed", "waitlisted"}
             /\ loc[q].position \in Reg \cup {NONE}
             /\ loc[q].status = "confirmed" <=> loc[q].position = NONE
             /\ reg' = [reg EXCEPT ![r] = loc[q].status]
             /\ event_id' = [event_id EXCEPT ![r] = loc[q].event]
             /\ student_id' = [student_id EXCEPT ![r] = loc[q].student]
             /\ told' = [told EXCEPT ![r] = loc[q].position]
             /\ jobs' = jobs \cup {<<r, IF loc[q].status = "confirmed"
                                        THEN "RegistrationConfirmed"
                                        ELSE "RegistrationWaitlisted">>}
             /\ UNCHANGED events
             /\ \A x \in Reg : x < r => reg[x] # "absent"
             /\ \A x \in Active(loc[q].event) : student_id[x] # loc[q].student
             /\ pc'[q] = "idle"
  <1>1. PICK r \in Fresh :
             /\ reg' = [reg EXCEPT ![r] = loc[q].status]
             /\ event_id' = [event_id EXCEPT ![r] = loc[q].event]
             /\ student_id' = [student_id EXCEPT ![r] = loc[q].student]
             /\ told' = [told EXCEPT ![r] = loc[q].position]
             /\ jobs' = jobs \cup {<<r, IF loc[q].status = "confirmed"
                                        THEN "RegistrationConfirmed"
                                        ELSE "RegistrationWaitlisted">>}
    BY DEF RegisterCommit
  <1>2. /\ r \in Reg /\ reg[r] = "absent" /\ \A x \in Reg : reg[x] # "absent" => x < r
        /\ \A x \in Reg : x < r => reg[x] # "absent"
    BY FreshIsLast DEF TypeInv, Fresh
  <1>3. /\ loc[q].event \in Event /\ loc[q].student \in Student
        /\ loc[q].status \in {"confirmed", "waitlisted"}
        /\ loc[q].position \in Reg \cup {NONE}
        /\ loc[q].status = "confirmed" <=> loc[q].position = NONE
    BY DEF RegisterCommit, TypeInv, TypeOK, RequestOK, Locals, Locking
  <1>4. /\ UNCHANGED events
        /\ \A x \in Active(loc[q].event) : student_id[x] # loc[q].student
    BY DEF RegisterCommit, AlreadyRegistered
  <1>5. pc'[q] = "idle"
    BY EndEffect DEF RegisterCommit, TypeInv
  <1> QED
    BY <1>1, <1>2, <1>3, <1>4, <1>5

(* What the commit of a cancellation writes: the registration, and the head *)
(* of the waitlist if it leaves a seat.                                    *)
LEMMA CancelCommitEffect ==
    ASSUME TypeInv, NEW q \in Request, CancelCommit(q)
    PROVE  \E r \in Reg, promoted \in SUBSET Reg :
             /\ r = loc[q].id /\ loc[q].event \in Event /\ event_id[r] = loc[q].event
             /\ reg[r] = loc[q].status /\ reg[r] \in {"confirmed", "waitlisted"}
             /\ promoted = IF reg[r] = "confirmed"
                           THEN Next_waitlisted(loc[q].event) ELSE {}
             /\ promoted \subseteq Waitlisted(loc[q].event) /\ r \notin promoted
             /\ reg' = [x \in Reg |-> IF x = r THEN "cancelled"
                                      ELSE IF x \in promoted THEN "confirmed"
                                      ELSE reg[x]]
             /\ jobs' = jobs \cup ({<<r, "RegistrationCancelled">>}
                                     \cup {<<p, "WaitlistPromoted">> : p \in promoted})
             /\ UNCHANGED <<events, event_id, student_id, told>>
             /\ pc'[q] = "idle"
  <1> DEFINE r == loc[q].id
             promoted == IF loc[q].status = "confirmed"
                         THEN Next_waitlisted(loc[q].event) ELSE {}
  <1>1. /\ r \in Reg /\ loc[q].event \in Event /\ event_id[r] = loc[q].event
        /\ reg[r] = loc[q].status /\ reg[r] \in {"confirmed", "waitlisted"}
    BY DEF CancelCommit, TypeInv, TypeOK, RequestOK, Locals, Locking
  <1>2. promoted \subseteq Waitlisted(loc[q].event) /\ promoted \subseteq Reg /\ r \notin promoted
    BY <1>1 DEF Next_waitlisted, Waitlisted, In
  <1>3. /\ reg' = [x \in Reg |-> IF x = r THEN "cancelled"
                                 ELSE IF x \in promoted THEN "confirmed"
                                 ELSE reg[x]]
        /\ jobs' = jobs \cup ({<<r, "RegistrationCancelled">>}
                                \cup {<<p, "WaitlistPromoted">> : p \in promoted})
        /\ UNCHANGED <<events, event_id, student_id, told>>
    BY DEF CancelCommit
  <1>4. pc'[q] = "idle"
    BY EndEffect DEF CancelCommit, TypeInv
  <1>5. promoted = IF reg[r] = "confirmed" THEN Next_waitlisted(loc[q].event) ELSE {}
    BY <1>1
  <1> HIDE DEF r, promoted
  <1>6. r = loc[q].id
    BY DEF r
  <1> QED
    BY <1>1, <1>2, <1>3, <1>4, <1>5, <1>6

(* A registration that exists stays, with its event and its student, and is *)
(* never uncancelled, nor deprived of its seat but by a cancellation.        *)
LEMMA RegsStay ==
    ASSUME TypeInv, [Next]_vars, NEW r \in Reg, reg[r] # "absent"
    PROVE  /\ reg'[r] # "absent" /\ event_id'[r] = event_id[r]
           /\ student_id'[r] = student_id[r] /\ told'[r] = told[r]
           /\ reg[r] = "cancelled" => reg'[r] = "cancelled"
           /\ reg[r] = "confirmed" => reg'[r] \in {"confirmed", "cancelled"}
  <1>1. ASSUME NEW q \in Request, RegisterCommit(q)
        PROVE  /\ reg'[r] = reg[r] /\ event_id'[r] = event_id[r]
               /\ student_id'[r] = student_id[r] /\ told'[r] = told[r]
    BY <1>1, RegisterCommitEffect DEF TypeInv, TypeOK
  <1>2. ASSUME NEW q \in Request, CancelCommit(q)
        PROVE  /\ reg'[r] # "absent" /\ event_id'[r] = event_id[r]
               /\ student_id'[r] = student_id[r] /\ told'[r] = told[r]
               /\ reg[r] = "cancelled" => reg'[r] = "cancelled"
               /\ reg[r] = "confirmed" => reg'[r] \in {"confirmed", "cancelled"}
    BY <1>2, CancelCommitEffect DEF TypeInv, TypeOK, Waitlisted, In
  <1> QED
    BY <1>1, <1>2, Writers DEF regs

(* An event that exists stays. *)
LEMMA EventsStay ==
    ASSUME TypeInv, [Next]_vars, NEW e \in Event, status[e] # "absent"
    PROVE  status'[e] # "absent"
  BY Writers DEF CancelEventCommit, PublishCommit, CreateEvent, TypeInv, TypeOK

(* Nobody else writes the status, the capacity or the registrations of an    *)
(* event while a request holds its lock.                                    *)
LEMMA UnderLock ==
    ASSUME TypeInv, [Next]_vars, NEW q \in Request, pc[q] \in Locking,
           pc'[q] = pc[q], loc'[q] = loc[q]
    PROVE  /\ loc[q].event \in Event
           /\ status'[loc[q].event] = status[loc[q].event]
           /\ capacity'[loc[q].event] = capacity[loc[q].event]
           /\ resized'[loc[q].event] = resized[loc[q].event]
           /\ \A r \in Reg : event_id[r] = loc[q].event \/ event_id'[r] = loc[q].event =>
                 reg'[r] = reg[r] /\ event_id'[r] = event_id[r]
  <1> DEFINE e == loc[q].event
  <1>0. e \in Event /\ lock[e] = q /\ q # NONE /\ status[e] # "absent"
    <2>1. e \in Event /\ lock[e] = q /\ q # NONE
      BY NoneAssumption DEF TypeInv, TypeOK, RequestOK, Locals
    <2>2. status[e] # "absent"
      BY DEF TypeInv, RequestOK, RowsOK, Locking, TypeOK, Locals
    <2> QED
      BY <2>1, <2>2
  <1> HIDE DEF e
  <1>1. ASSUME NEW p \in Request, RegisterCommit(p) \/ CancelCommit(p) \/ CancelEventCommit(p)
        PROVE  loc[p].event \in Event /\ loc[p].event # e
    <2>1. pc'[p] = "idle" /\ pc[p] \in Locking
      BY <1>1, EndEffect DEF RegisterCommit, CancelCommit, CancelEventCommit, TypeInv, Locking
    <2>2. p # q
      BY <2>1 DEF Locking
    <2>3. lock[loc[p].event] = p /\ loc[p].event \in Event
      BY <2>1 DEF TypeInv, TypeOK, RequestOK, Locals
    <2> QED
      BY <2>2, <2>3, <1>0
  <1>2. ASSUME NEW p \in Request, PublishCommit(p) \/ UpdateCommit(p)
        PROVE  loc[p].event \in Event /\ loc[p].event # e
    <2>1. loc[p].event \in Event
      BY <1>2 DEF PublishCommit, UpdateCommit, TypeInv, TypeOK, RequestOK, Locals
    <2> QED
      BY <1>2, <2>1, <1>0 DEF PublishCommit, UpdateCommit
  <1>3. status'[e] = status[e]
    <2>1. ASSUME NEW p \in Request, CancelEventCommit(p) \/ PublishCommit(p)
          PROVE  status'[e] = status[e]
      BY <2>1, <1>0, <1>1, <1>2 DEF CancelEventCommit, PublishCommit, TypeInv, TypeOK
    <2>2. ASSUME NEW d \in Event, CreateEvent(d) PROVE status'[e] = status[e]
      BY <2>2, <1>0 DEF CreateEvent, TypeInv, TypeOK
    <2> QED
      BY <2>1, <2>2, Writers
  <1>4. capacity'[e] = capacity[e] /\ resized'[e] = resized[e]
    <2>1. ASSUME NEW p \in Request, UpdateCommit(p)
          PROVE  capacity'[e] = capacity[e] /\ resized'[e] = resized[e]
      BY <2>1, <1>0, <1>2 DEF UpdateCommit, TypeInv, TypeOK
    <2>2. ASSUME NEW d \in Event, CreateEvent(d)
          PROVE  capacity'[e] = capacity[e] /\ resized'[e] = resized[e]
      BY <2>2, <1>0 DEF CreateEvent, TypeInv, TypeOK
    <2> QED
      BY <2>1, <2>2, Writers
  <1>5. \A r \in Reg : event_id[r] = e \/ event_id'[r] = e =>
           reg'[r] = reg[r] /\ event_id'[r] = event_id[r]
    <2>1. ASSUME NEW p \in Request, RegisterCommit(p), NEW r \in Reg,
                 event_id[r] = e \/ event_id'[r] = e
          PROVE  reg'[r] = reg[r] /\ event_id'[r] = event_id[r]
      <3>1. loc[p].event # e
        BY <1>1, <2>1
      <3>2. PICK x \in Reg : /\ reg[x] = "absent"
                             /\ reg' = [reg EXCEPT ![x] = loc[p].status]
                             /\ event_id' = [event_id EXCEPT ![x] = loc[p].event]
        BY <2>1, RegisterCommitEffect
      <3>3. event_id[x] # e
        BY <3>2, <1>0, NoneAssumption DEF TypeInv, RowsOK
      <3> QED
        BY <2>1, <3>1, <3>2, <3>3 DEF TypeInv, TypeOK
    <2>2. ASSUME NEW p \in Request, CancelCommit(p), NEW r \in Reg,
                 event_id[r] = e \/ event_id'[r] = e
          PROVE  reg'[r] = reg[r] /\ event_id'[r] = event_id[r]
      BY <1>1, <2>2, CancelCommitEffect DEF Waitlisted, In
    <2> QED
      BY <2>1, <2>2, Writers DEF regs
  <1> QED
    BY <1>0, <1>3, <1>4, <1>5 DEF e

-----------------------------------------------------------------------------
(* Type correctness, and what a request may rely on *)

(* The initial state is well typed. *)
LEMMA TypeInit == Init => TypeInv
  <1> SUFFICES ASSUME Init PROVE TypeInv
    OBVIOUS
  <1>1. TypeOK
    BY NoLocalsType DEF Init, TypeOK, Pc
  <1>2. RowsOK /\ \A q \in Request : RequestOK(q)
    BY DEF Init, RowsOK, RequestOK, Locking
  <1>3. Registering = {}
    BY DEF Init, Registering
  <1> QED
    BY <1>1, <1>2, <1>3, FS_EmptySet DEF TypeInv

(* Every step keeps the types of the tables and of the requests. *)
LEMMA TypeOKStep ==
    ASSUME TypeInv, [Next]_vars
    PROVE  TypeOK'
  <1>0. TypeOK
    BY DEF TypeInv
  <1>end. ASSUME NEW q \in Request, End(q)
          PROVE  /\ pc' \in [Request -> Pc] /\ loc' \in [Request -> Locals]
                 /\ lock' \in [Event -> Request \cup {NONE}]
    BY <1>end, <1>0, EndEffect
  <1>1. ASSUME NEW e \in Event, CreateEvent(e) PROVE TypeOK'
    BY <1>0, <1>1 DEF CreateEvent, TypeOK, regs, requests
  <1>2. ASSUME NEW e \in Event, Advance(e) PROVE TypeOK'
    BY <1>0, <1>2 DEF Advance, TypeOK, regs, requests, Start
  <1>3. ASSUME NEW q \in Request, NEW e \in Event, CancelEvent(q, e) PROVE TypeOK'
    BY <1>0, <1>3, CancelEventEffect DEF CancelEvent, TypeOK, events, regs
  <1>4. ASSUME NEW q \in Request, NEW e \in Event, Publish(q, e) \/ Update(q, e) PROVE TypeOK'
    <2>1. UNCHANGED <<events, regs, jobs, lock>>
      BY <1>4 DEF Publish, Update
    <2> QED
      BY <1>0, <1>4, <2>1, EditEffect DEF TypeOK, events, regs
  <1>5. ASSUME NEW q \in Request, NEW e \in Event, NEW s \in Student, Register(q, s, e)
        PROVE  TypeOK'
    BY <1>0, <1>5, RegisterEffect DEF Register, TypeOK, events, regs
  <1>6. ASSUME NEW q \in Request, NEW r \in Reg, CancelRead(q, r) PROVE TypeOK'
    BY <1>0, <1>6, CancelReadEffect DEF CancelRead, TypeOK, events, regs
  <1>7. ASSUME NEW q \in Request, NEW r \in Reg, ListRead(q, r) PROVE TypeOK'
    BY <1>0, <1>7, ListReadEffect DEF ListRead, TypeOK, events, regs
  <1>8. ASSUME NEW q \in Request, RegisterCommit(q) PROVE TypeOK'
    <2>1. End(q)
      BY <1>8 DEF RegisterCommit
    <2> QED
      BY <1>0, <1>8, <1>end, <2>1, RegisterCommitEffect DEF TypeOK, events, Kind
  <1>9. ASSUME NEW q \in Request,
               RegisterConflict(q) \/ CancelReject(q) \/ CancelEventConflict(q) \/ ListCount(q)
                 \/ Abort(q)
        PROVE  TypeOK'
    BY <1>0, <1>9, <1>end
    DEF RegisterConflict, CancelReject, CancelEventConflict, ListCount, Abort, TypeOK, events, regs
  <1>10. ASSUME NEW q \in Request, CancelLock(q) PROVE TypeOK'
    BY <1>0, <1>10, CancelLockEffect DEF CancelLock, TypeOK, events, regs
  <1>11. ASSUME NEW q \in Request, CancelCommit(q) PROVE TypeOK'
    <2>1. End(q)
      BY <1>11 DEF CancelCommit
    <2> QED
      BY <1>0, <1>11, <1>end, <2>1, CancelCommitEffect DEF TypeOK, events, Kind
  <1>12. ASSUME NEW q \in Request, CancelEventCommit(q) PROVE TypeOK'
    <2>1. loc[q].event \in Event /\ FanOut(loc[q].event) \subseteq Reg \X Kind
      BY <1>12 DEF CancelEventCommit, TypeInv, TypeOK, RequestOK, Locals, Locking, FanOut,
         Active, Confirmed, Waitlisted, In, Kind
    <2> QED
      BY <1>0, <1>12, <1>end, <2>1 DEF CancelEventCommit, TypeOK, regs
  <1>13. ASSUME NEW q \in Request, PublishCommit(q) PROVE TypeOK'
    BY <1>0, <1>13, <1>end DEF PublishCommit, TypeOK, regs
  <1>14. ASSUME NEW q \in Request, UpdateCommit(q) PROVE TypeOK'
    <2>1. /\ loc[q].event \in Event /\ loc[q].capacity \in Capacity \cup {NONE}
          /\ loc[q].starts \in Start \cup {NONE} /\ loc[q].location \in Location \cup {NONE}
      BY <1>14 DEF UpdateCommit, TypeInv, TypeOK, RequestOK, Locals
    <2>2. End(q)
      BY <1>14 DEF UpdateCommit
    <2>3. /\ capacity' \in [Event -> Capacity \cup {NONE}]
          /\ starts' \in [Event -> Start \cup {NONE}]
          /\ location' \in [Event -> Location \cup {NONE}]
      BY <1>0, <1>14, <2>1 DEF UpdateCommit, TypeOK
    <2>4. resized' \in [Event -> BOOLEAN]
      BY <1>0, <1>14, <2>1 DEF UpdateCommit, TypeOK
    <2> QED
      BY <1>0, <1>14, <1>end, <2>2, <2>3, <2>4 DEF UpdateCommit, TypeOK, regs
  <1>15. ASSUME NEW q \in Request, Refuse(q) PROVE TypeOK'
    BY <1>0, <1>15 DEF Refuse, TypeOK, vars, events, regs, requests
  <1>16. CASE UNCHANGED vars
    BY <1>0, <1>16 DEF TypeOK, vars, events, regs, requests
  <1> QED
    BY <1>1, <1>2, <1>3, <1>4, <1>5, <1>6, <1>7, <1>8, <1>9, <1>10, <1>11, <1>12, <1>13,
       <1>14, <1>15, <1>16 DEF Next, Proceed

(* Every step keeps the registrations in order and with their events. *)
LEMMA RowsStep ==
    ASSUME TypeInv, [Next]_vars
    PROVE  RowsOK'
  <1> DEFINE One == \A r \in Reg : reg[r] # "absent" =>
                       /\ event_id[r] # NONE /\ student_id[r] # NONE
                       /\ status[event_id[r]] # "absent"
             Two == \A r \in Reg : reg[r] = "absent" => event_id[r] = NONE /\ told[r] = NONE
             Three == \A r, x \in Reg : reg[r] = "absent" /\ r < x => reg[x] = "absent"
  <1>0. TypeOK /\ RowsOK
    BY DEF TypeInv
  <1>1. ASSUME NEW q \in Request, RegisterCommit(q) PROVE One' /\ Two' /\ Three'
    <2>1. status[loc[q].event] # "absent" /\ UNCHANGED status
      BY <1>1 DEF RegisterCommit, TypeInv, RequestOK, events
    <2>2. PICK r \in Reg :
             /\ reg[r] = "absent" /\ \A x \in Reg : reg[x] # "absent" => x < r
             /\ \A x \in Reg : x < r => reg[x] # "absent"
             /\ loc[q].event \in Event /\ loc[q].student \in Student
             /\ loc[q].status \in {"confirmed", "waitlisted"}
             /\ reg' = [reg EXCEPT ![r] = loc[q].status]
             /\ event_id' = [event_id EXCEPT ![r] = loc[q].event]
             /\ student_id' = [student_id EXCEPT ![r] = loc[q].student]
             /\ told' = [told EXCEPT ![r] = loc[q].position]
      BY <1>1, RegisterCommitEffect
    <2>3. One'
      BY <1>0, <2>1, <2>2, NoneAssumption DEF TypeOK, RowsOK
    <2>4. Two' /\ Three'
      BY <1>0, <2>2, RegIsFinite DEF TypeOK, RowsOK
    <2> QED
      BY <2>3, <2>4
  <1>2. ASSUME NEW q \in Request, CancelCommit(q) PROVE One' /\ Two' /\ Three'
    <2>1. PICK r \in Reg, promoted \in SUBSET Reg :
             /\ reg[r] # "absent" /\ promoted \subseteq Waitlisted(loc[q].event)
             /\ reg' = [x \in Reg |-> IF x = r THEN "cancelled"
                                      ELSE IF x \in promoted THEN "confirmed"
                                      ELSE reg[x]]
             /\ UNCHANGED <<events, event_id, student_id, told>>
      BY <1>2, CancelCommitEffect
    <2>2. \A x \in Reg : reg'[x] = "absent" <=> reg[x] = "absent"
      BY <2>1 DEF Waitlisted, In
    <2> QED
      BY <1>0, <2>1, <2>2 DEF RowsOK, events
  <1>3. ASSUME UNCHANGED regs PROVE One' /\ Two' /\ Three'
    <2>1. \A r \in Reg : reg[r] # "absent" => event_id[r] \in Event
      BY <1>0 DEF RowsOK, TypeOK
    <2>2. \A e \in Event : status[e] # "absent" => status'[e] # "absent"
      BY EventsStay
    <2>3. One'
      BY <1>0, <1>3, <2>1, <2>2 DEF RowsOK, regs
    <2>4. Two' /\ Three'
      BY <1>0, <1>3 DEF RowsOK, regs
    <2> QED
      BY <2>3, <2>4
  <1>4. \A e \in Event : status'[e] # "absent" => capacity'[e] # NONE
    <2>1. ASSUME NEW e \in Event, CreateEvent(e)
          PROVE  \A d \in Event : status'[d] # "absent" => capacity'[d] # NONE
      BY <1>0, <2>1, NoneAssumption DEF CreateEvent, RowsOK, TypeOK
    <2>2. ASSUME NEW q \in Request, UpdateCommit(q)
          PROVE  \A d \in Event : status'[d] # "absent" => capacity'[d] # NONE
      BY <1>0, <2>2 DEF UpdateCommit, RowsOK, TypeOK
    <2>3. ASSUME NEW q \in Request, PublishCommit(q) \/ CancelEventCommit(q)
          PROVE  \A d \in Event : status'[d] # "absent" => capacity'[d] # NONE
      <3>1. loc[q].event \in Event /\ status[loc[q].event] # "absent"
        BY <2>3 DEF PublishCommit, CancelEventCommit, TypeInv, TypeOK, RequestOK, Locals
      <3> QED
        BY <1>0, <2>3, <3>1 DEF PublishCommit, CancelEventCommit, RowsOK, TypeOK
    <2> QED
      BY <1>0, <2>1, <2>2, <2>3, Writers DEF RowsOK
  <1>5. One' /\ Two' /\ Three'
    <2> HIDE DEF One, Two, Three
    <2> QED
      BY <1>1, <1>2, <1>3, Writers DEF regs
  <1> QED
    BY <1>4, <1>5 DEF RowsOK

(* Every step keeps what the requests rely on, and finitely many of them    *)
(* registering.                                                            *)
LEMMA RequestStep ==
    ASSUME TypeInv, [Next]_vars
    PROVE  IsFiniteSet(Registering)' /\ \A q \in Request : RequestOK(q)'
  <1>0. TypeOK /\ RowsOK /\ TypeOK' /\ RowsOK'
    BY TypeOKStep, RowsStep DEF TypeInv
  <1>1. ASSUME NEW q \in Request, pc'[q] = pc[q], loc'[q] = loc[q],
               \A e \in Event : lock[e] = q => lock'[e] = q
        PROVE  RequestOK(q)'
    <2>1. loc[q] \in Locals
      BY <1>0 DEF TypeOK
    <2>2. pc[q] \in Locking => loc[q].event # NONE /\ lock'[loc[q].event] = q
      BY <1>1, <2>1 DEF TypeInv, RequestOK, Locals
    <2>3. pc[q] \in {"publish", "update", "cancel_event"} =>
             loc[q].event # NONE /\ status'[loc[q].event] # "absent"
      BY <2>1, EventsStay DEF TypeInv, RequestOK, Locals
    <2>4. pc[q] = "register" =>
             /\ loc[q].student # NONE /\ status'[loc[q].event] = "published"
             /\ loc[q].status \in {"confirmed", "waitlisted"}
             /\ loc[q].status = "confirmed" <=> loc[q].position = NONE
      BY <1>1, UnderLock DEF TypeInv, RequestOK, Locking
    <2>5. /\ pc[q] \in {"cancel_read", "cancel", "list"} =>
                loc[q].id # NONE /\ reg'[loc[q].id] # "absent"
          /\ pc[q] \in {"cancel_read", "cancel"} => loc[q].event = event_id'[loc[q].id]
      BY <2>1, RegsStay DEF TypeInv, RequestOK, Locals
    <2>6. pc[q] = "cancel" => loc[q].status = reg'[loc[q].id] /\ reg'[loc[q].id] # "cancelled"
      BY <1>1, <2>1, UnderLock DEF TypeInv, RequestOK, Locals, Locking
    <2>7. pc[q] = "list" => loc[q].position # NONE
      BY DEF TypeInv, RequestOK
    <2> QED
      BY <1>1, <2>2, <2>3, <2>4, <2>5, <2>6, <2>7 DEF RequestOK
  <1>2. ASSUME NEW q \in Request, pc'[q] = "idle" PROVE RequestOK(q)'
    BY <1>2 DEF RequestOK, Locking
  <1>3. ASSUME NEW q \in Request, NEW e \in Event, NEW s \in Student, Register(q, s, e)
        PROVE  RequestOK(q)'
    <2>1. status'[e] = "published" /\ e # NONE /\ s # NONE
      BY <1>3, NoneAssumption DEF Register, events
    <2>2. /\ pc'[q] = "register" /\ loc'[q].event = e /\ loc'[q].student = s /\ lock'[e] = q
          /\ loc'[q].status \in {"confirmed", "waitlisted"}
          /\ loc'[q].status = "confirmed" <=> loc'[q].position = NONE
      BY <1>3, RegisterEffect
    <2> QED
      BY <2>1, <2>2 DEF RequestOK
  <1>4. ASSUME NEW q \in Request, NEW r \in Reg, CancelRead(q, r) \/ ListRead(q, r)
        PROVE  RequestOK(q)'
    <2>1. CASE CancelRead(q, r)
      BY <2>1, CancelReadEffect, RegIsFinite DEF CancelRead, RequestOK, regs, Locking
    <2>2. CASE ListRead(q, r)
      <3>1. /\ pc'[q] = "list" /\ loc'[q].id = r /\ loc'[q].position \in Reg
            /\ reg'[r] # "absent" /\ r # NONE
        BY <2>2, ListReadEffect, RegIsFinite DEF ListRead, regs
      <3> QED
        BY <3>1, RegIsFinite DEF RequestOK, Locking
    <2> QED
      BY <1>4, <2>1, <2>2
  <1>5. ASSUME NEW q \in Request, CancelLock(q) PROVE RequestOK(q)'
    BY <1>5, CancelLockEffect, RegIsFinite, NoneAssumption
    DEF CancelLock, RequestOK, regs, Locking
  <1>6. ASSUME NEW q \in Request, NEW e \in Event, CancelEvent(q, e) PROVE RequestOK(q)'
    BY <1>6, CancelEventEffect, NoneAssumption DEF CancelEvent, RequestOK, events, Locking
  <1>7. ASSUME NEW q \in Request, NEW e \in Event, Publish(q, e) \/ Update(q, e)
        PROVE  RequestOK(q)'
    BY <1>7, EditEffect, NoneAssumption DEF Publish, Update, RequestOK, events, Locking
  <1>8. CASE UNCHANGED requests
    BY <1>1, <1>8 DEF requests, Registering, TypeInv
  <1>9. ASSUME NEW q \in Request,
               /\ \A p \in Request \ {q} : pc'[p] = pc[p] /\ loc'[p] = loc[p]
               /\ \A e \in Event : lock[e] \notin {q, NONE} => lock'[e] = lock[e]
               /\ \/ pc'[q] = "idle"
                  \/ \E e \in Event, s \in Student : Register(q, s, e)
                  \/ \E e \in Event : CancelEvent(q, e) \/ Publish(q, e) \/ Update(q, e)
                  \/ \E r \in Reg : CancelRead(q, r) \/ ListRead(q, r)
                  \/ CancelLock(q)
        PROVE  IsFiniteSet(Registering') /\ \A p \in Request : RequestOK(p)'
    <2>1. RequestOK(q)'
      BY <1>2, <1>3, <1>4, <1>5, <1>6, <1>7, <1>9
    <2>2. ASSUME NEW p \in Request \ {q} PROVE RequestOK(p)'
      <3>1. p # NONE
        BY NoneAssumption
      <3> QED
        BY <1>1, <1>9, <2>2, <3>1
    <2>3. Registering' \subseteq Registering \cup {q}
      BY <1>9 DEF Registering
    <2>4. IsFiniteSet(Registering \cup {q})
      BY FS_AddElement DEF TypeInv
    <2>5. IsFiniteSet(Registering')
      BY <2>3, <2>4, FS_Subset
    <2> QED
      BY <2>1, <2>2, <2>5
  <1> QED
    BY <1>8, <1>9, OneMoves

(* Every step keeps TypeInv. *)
LEMMA TypeStep == TypeInv /\ [Next]_vars => TypeInv'
  BY TypeOKStep, RowsStep, RequestStep DEF TypeInv

(* The tables and what a request reads keep their types; a position on the  *)
(* waitlist is a number of a registration (Booking.TypeOK).                 *)
THEOREM TypeCorrect == Spec => []TypeOK
  <1>1. TypeInv => TypeOK
    BY DEF TypeInv
  <1> QED
    BY TypeInit, TypeStep, <1>1, PTL DEF Spec

-----------------------------------------------------------------------------
(* The life of a registration *)

(* Cancelled registrations stay cancelled, and nobody loses a seat without  *)
(* cancelling (RegistrationLifecycle).                                      *)
THEOREM LifecycleKept == Spec => RegistrationLifecycle
  <1>1. TypeInv /\ [Next]_vars =>
          [\A r \in Reg :
             /\ reg[r] = "cancelled" => reg'[r] = "cancelled"
             /\ reg[r] = "confirmed" => reg'[r] \in {"confirmed", "cancelled"}]_vars
    BY RegsStay
  <1> QED
    BY TypeInit, TypeStep, <1>1, PTL DEF Spec, RegistrationLifecycle

(* A registration that commits joins the sets of its event. *)
LEMMA SetsAfterRegister ==
    ASSUME TypeInv, NEW q \in Request, RegisterCommit(q)
    PROVE  \E e \in Event, r \in Reg :
             /\ e = loc[q].event
             /\ reg[r] = "absent" /\ \A x \in Reg : reg[x] # "absent" => x < r
             /\ event_id' = [event_id EXCEPT ![r] = e]
             /\ told' = [told EXCEPT ![r] = loc[q].position]
             /\ reg' = [reg EXCEPT ![r] = loc[q].status]
             /\ loc[q].status \in {"confirmed", "waitlisted"}
             /\ loc[q].status = "confirmed" =>
                   Confirmed(e)' = Confirmed(e) \cup {r} /\ Waitlisted(e)' = Waitlisted(e)
             /\ loc[q].status = "waitlisted" =>
                   Confirmed(e)' = Confirmed(e) /\ Waitlisted(e)' = Waitlisted(e) \cup {r}
             /\ \A d \in Event \ {e} :
                   Confirmed(d)' = Confirmed(d) /\ Waitlisted(d)' = Waitlisted(d)
  <1>1. PICK r \in Reg :
             /\ reg[r] = "absent" /\ \A x \in Reg : reg[x] # "absent" => x < r
             /\ loc[q].event \in Event
             /\ loc[q].status \in {"confirmed", "waitlisted"}
             /\ reg' = [reg EXCEPT ![r] = loc[q].status]
             /\ event_id' = [event_id EXCEPT ![r] = loc[q].event]
             /\ told' = [told EXCEPT ![r] = loc[q].position]
    BY RegisterCommitEffect
  <1>2. PICK e \in Event : e = loc[q].event
    BY <1>1
  <1>3. reg \in [Reg -> {"absent", "confirmed", "waitlisted", "cancelled"}]
          /\ event_id \in [Reg -> Event \cup {NONE}]
    BY DEF TypeInv, TypeOK
  <1>4. /\ reg'[r] = loc[q].status /\ event_id'[r] = e
        /\ \A x \in Reg \ {r} : reg'[x] = reg[x] /\ event_id'[x] = event_id[x]
    BY <1>1, <1>2, <1>3
  <1>5. ASSUME loc[q].status = "confirmed"
        PROVE  Confirmed(e)' = Confirmed(e) \cup {r} /\ Waitlisted(e)' = Waitlisted(e)
    BY <1>1, <1>4, <1>5 DEF Confirmed, Waitlisted, In
  <1>6. ASSUME loc[q].status = "waitlisted"
        PROVE  Confirmed(e)' = Confirmed(e) /\ Waitlisted(e)' = Waitlisted(e) \cup {r}
    BY <1>1, <1>4, <1>6 DEF Confirmed, Waitlisted, In
  <1>7. ASSUME NEW d \in Event \ {e}
        PROVE  Confirmed(d)' = Confirmed(d) /\ Waitlisted(d)' = Waitlisted(d)
    BY <1>1, <1>4 DEF Confirmed, Waitlisted, In
  <1> QED
    BY <1>1, <1>2, <1>5, <1>6, <1>7

(* A cancellation that commits takes the registration out of the sets of    *)
(* its event, and moves the head of the waitlist if a seat was given up.    *)
LEMMA SetsAfterCancel ==
    ASSUME TypeInv, NEW q \in Request, CancelCommit(q)
    PROVE  \E e \in Event, r \in Reg, promoted \in SUBSET Reg :
             /\ e = loc[q].event /\ r \in Active(e) /\ promoted \subseteq Waitlisted(e)
             /\ promoted = IF r \in Confirmed(e) THEN Next_waitlisted(e) ELSE {}
             /\ r \notin promoted
             /\ reg' = [x \in Reg |-> IF x = r THEN "cancelled"
                                      ELSE IF x \in promoted THEN "confirmed"
                                      ELSE reg[x]]
             /\ Confirmed(e)' = (Confirmed(e) \ {r}) \cup promoted
             /\ Waitlisted(e)' = (Waitlisted(e) \ {r}) \ promoted
             /\ \A d \in Event \ {e} :
                   Confirmed(d)' = Confirmed(d) /\ Waitlisted(d)' = Waitlisted(d)
  <1>1. PICK r \in Reg, promoted \in SUBSET Reg :
             /\ r = loc[q].id /\ loc[q].event \in Event /\ event_id[r] = loc[q].event
             /\ reg[r] = loc[q].status /\ reg[r] \in {"confirmed", "waitlisted"}
             /\ promoted = IF reg[r] = "confirmed"
                           THEN Next_waitlisted(loc[q].event) ELSE {}
             /\ promoted \subseteq Waitlisted(loc[q].event) /\ r \notin promoted
             /\ reg' = [x \in Reg |-> IF x = r THEN "cancelled"
                                      ELSE IF x \in promoted THEN "confirmed"
                                      ELSE reg[x]]
             /\ UNCHANGED <<events, event_id, student_id, told>>
    BY CancelCommitEffect
  <1>2. PICK e \in Event : e = loc[q].event
    BY <1>1
  <1>3. r \in Active(e) /\ (r \in Confirmed(e) <=> reg[r] = "confirmed")
    BY <1>1, <1>2 DEF Active, Confirmed, Waitlisted, In
  <1>4. \A x \in promoted : event_id[x] = e /\ reg[x] = "waitlisted"
    BY <1>1, <1>2 DEF Waitlisted, In
  <1>5. Confirmed(e)' = (Confirmed(e) \ {r}) \cup promoted
    BY <1>1, <1>4 DEF Confirmed, In
  <1>6. Waitlisted(e)' = (Waitlisted(e) \ {r}) \ promoted
    BY <1>1, <1>4 DEF Waitlisted, In
  <1>7. ASSUME NEW d \in Event \ {e}
        PROVE  Confirmed(d)' = Confirmed(d) /\ Waitlisted(d)' = Waitlisted(d)
    BY <1>1, <1>2, <1>4 DEF Confirmed, Waitlisted, In
  <1> QED
    BY <1>1, <1>2, <1>3, <1>5, <1>6, <1>7

(* Without a commit of a registration or a cancellation the sets stay. *)
LEMMA SetsSame ==
    ASSUME UNCHANGED regs, NEW e
    PROVE  Confirmed(e)' = Confirmed(e) /\ Waitlisted(e)' = Waitlisted(e) /\ Active(e)' = Active(e)
  BY DEF regs, Confirmed, Waitlisted, Active, In

-----------------------------------------------------------------------------
(* Jobs *)

(* What StoryInv says of one registration *)
Story(r) ==
    /\ reg[r] = "absent" => \A k \in Kind : <<r, k>> \notin jobs
    /\ reg[r] # "absent" <=>
          ~(<<r, "RegistrationConfirmed">> \in jobs <=> <<r, "RegistrationWaitlisted">> \in jobs)
    /\ <<r, "RegistrationWaitlisted">> \in jobs <=> told[r] # NONE
    /\ <<r, "WaitlistPromoted">> \in jobs => <<r, "RegistrationWaitlisted">> \in jobs
    /\ <<r, "RegistrationCancelled">> \in jobs <=> reg[r] = "cancelled"
    /\ reg[r] = "confirmed" => \/ <<r, "RegistrationConfirmed">> \in jobs
                               \/ <<r, "WaitlistPromoted">> \in jobs
    /\ reg[r] = "waitlisted" => /\ <<r, "WaitlistPromoted">> \notin jobs
                                /\ <<r, "RegistrationWaitlisted">> \in jobs

AllStories == \A r \in Reg : Story(r)

(* StoryInv says Story of every registration. *)
LEMMA StoryOfEach == StoryInv <=> AllStories
  <1>1. \A r \in Reg : (Told(r, "RegistrationConfirmed") # Told(r, "RegistrationWaitlisted"))
           <=> ~(<<r, "RegistrationConfirmed">> \in jobs <=> <<r, "RegistrationWaitlisted">> \in jobs)
    BY DEF Told
  <1> DEFINE Differ(r) == Told(r, "RegistrationConfirmed") # Told(r, "RegistrationWaitlisted")
  <1>2. StoryInv <=>
          /\ \A r \in Reg :
                /\ reg[r] # "absent" <=> Differ(r)
                /\ Told(r, "RegistrationWaitlisted") <=> told[r] # NONE
                /\ Told(r, "WaitlistPromoted") => Told(r, "RegistrationWaitlisted")
                /\ Told(r, "RegistrationCancelled") <=> reg[r] = "cancelled"
                /\ reg[r] = "confirmed" =>
                      Told(r, "RegistrationConfirmed") \/ Told(r, "WaitlistPromoted")
                /\ reg[r] = "waitlisted" => ~Told(r, "WaitlistPromoted")
          /\ \A r \in Reg : reg[r] = "absent" => \A k \in Kind : ~Told(r, k)
          /\ \A r \in Reg : reg[r] = "waitlisted" => Told(r, "RegistrationWaitlisted")
    BY Zenon DEF StoryInv, JobsTellTheStory
  <1>3. \A r \in Reg : Differ(r) <=>
           ~(<<r, "RegistrationConfirmed">> \in jobs <=> <<r, "RegistrationWaitlisted">> \in jobs)
    BY <1>1
  <1> HIDE DEF Differ
  <1> QED
    BY <1>2, <1>3 DEF AllStories, Story, Told

(* The same of the state after a step. *)
LEMMA StoryOfEachNext == AllStories' => StoryInv'
  BY StoryOfEach, PTL

(* A step keeps the account of the jobs. *)
LEMMA StoryStep ==
    ASSUME TypeInv, StoryInv, [Next]_vars
    PROVE  StoryInv'
  <1>0. TypeOK
    BY DEF TypeInv
  <1>story. \A x \in Reg : Story(x)
    BY StoryOfEach DEF AllStories
  <1>all. ASSUME \A x \in Reg : Story(x)' PROVE StoryInv'
    BY <1>all, StoryOfEachNext DEF AllStories
  <1>1. ASSUME NEW q \in Request, RegisterCommit(q) PROVE StoryInv'
    <2>1. PICK r \in Reg :
             /\ reg[r] = "absent"
             /\ loc[q].status \in {"confirmed", "waitlisted"}
             /\ loc[q].position \in Reg \cup {NONE}
             /\ loc[q].status = "confirmed" <=> loc[q].position = NONE
             /\ reg' = [reg EXCEPT ![r] = loc[q].status]
             /\ told' = [told EXCEPT ![r] = loc[q].position]
             /\ jobs' = jobs \cup {<<r, IF loc[q].status = "confirmed"
                                        THEN "RegistrationConfirmed"
                                        ELSE "RegistrationWaitlisted">>}
      BY <1>1, RegisterCommitEffect
    <2>2. ASSUME NEW x \in Reg, x # r PROVE Story(x)'
      <3>1. /\ \A k \in Kind : <<x, k>> \in jobs' <=> <<x, k>> \in jobs
            /\ reg'[x] = reg[x] /\ told'[x] = told[x]
        BY <1>0, <2>1, <2>2 DEF TypeOK
      <3> QED
        BY <1>story, <3>1 DEF Story, Kind
    <2>3. Story(r)'
      <3>1. reg'[r] = loc[q].status /\ told'[r] = loc[q].position
        BY <1>0, <2>1 DEF TypeOK
      <3>2. \A k \in Kind : <<r, k>> \notin jobs
        BY <1>story, <2>1 DEF Story
      <3>3. CASE loc[q].status = "confirmed"
        <4>1. \A k \in Kind : <<r, k>> \in jobs' <=> k = "RegistrationConfirmed"
          BY <2>1, <3>2, <3>3 DEF Kind
        <4> QED
          BY <2>1, <3>1, <3>3, <4>1 DEF Story, Kind
      <3>4. CASE loc[q].status = "waitlisted"
        <4>1. \A k \in Kind : <<r, k>> \in jobs' <=> k = "RegistrationWaitlisted"
          BY <2>1, <3>2, <3>4 DEF Kind
        <4> QED
          BY <2>1, <3>1, <3>4, <4>1 DEF Story, Kind
      <3> QED
        BY <2>1, <3>3, <3>4
    <2> QED
      BY <2>2, <2>3, <1>all
  <1>2. ASSUME NEW q \in Request, CancelCommit(q) PROVE StoryInv'
    <2>1. PICK r \in Reg, promoted \in SUBSET Reg :
             /\ reg[r] \in {"confirmed", "waitlisted"}
             /\ promoted \subseteq Waitlisted(loc[q].event) /\ r \notin promoted
             /\ reg' = [x \in Reg |-> IF x = r THEN "cancelled"
                                      ELSE IF x \in promoted THEN "confirmed"
                                      ELSE reg[x]]
             /\ jobs' = jobs \cup ({<<r, "RegistrationCancelled">>}
                                     \cup {<<p, "WaitlistPromoted">> : p \in promoted})
             /\ UNCHANGED told
      BY <1>2, CancelCommitEffect
    <2>2. \A p \in promoted : reg[p] = "waitlisted"
      BY <2>1 DEF Waitlisted, In
    <2>3. ASSUME NEW x \in Reg PROVE Story(x)'
      <3>1. \A k \in Kind :
               <<x, k>> \in jobs' <=> \/ <<x, k>> \in jobs
                                      \/ x = r /\ k = "RegistrationCancelled"
                                      \/ x \in promoted /\ k = "WaitlistPromoted"
        BY <2>1
      <3> QED
        BY <1>0, <1>story, <2>1, <2>2, <3>1 DEF Story, Kind, TypeOK
    <2> QED
      BY <2>3, <1>all
  <1>3. ASSUME NEW q \in Request, CancelEventCommit(q), UNCHANGED regs PROVE StoryInv'
    <2>1. jobs' = jobs \cup FanOut(loc[q].event)
      BY <1>3 DEF CancelEventCommit
    <2>2. ASSUME NEW x \in Reg PROVE Story(x)'
      <3>1. \A k \in Kind :
               <<x, k>> \in jobs' <=> \/ <<x, k>> \in jobs
                                      \/ k = "EventCancelled" /\ x \in Active(loc[q].event)
        BY <2>1 DEF FanOut
      <3>2. x \in Active(loc[q].event) => reg[x] # "absent"
        BY DEF Active, Confirmed, Waitlisted, In
      <3>3. reg' = reg /\ told' = told
        BY <1>3 DEF regs
      <3> QED
        BY <1>story, <3>1, <3>2, <3>3 DEF Story, Kind
    <2> QED
      BY <2>2, <1>all
  <1>4. CASE UNCHANGED <<regs, jobs>>
    BY <1>4 DEF StoryInv, JobsTellTheStory, Told, regs
  <1> QED
    BY <1>1, <1>2, <1>3, <1>4, Writers

(* The jobs of a registration tell exactly what happened to it              *)
(* (JobsTellTheStory): row and job are written in one transaction.          *)
THEOREM JobsAreTheStory == Spec => []JobsTellTheStory
  <1>1. Init => StoryInv
    BY DEF Init, StoryInv, JobsTellTheStory, Told
  <1>2. TypeInv /\ StoryInv /\ [Next]_vars => StoryInv'
    BY StoryStep
  <1>3. StoryInv => JobsTellTheStory
    BY DEF StoryInv
  <1> QED
    BY TypeInit, TypeStep, <1>1, <1>2, <1>3, PTL DEF Spec

(* A step keeps CancellationReachesEveryone: while an event is being         *)
(* cancelled its lock keeps registrations out, and a registration holds the *)
(* lock of an event that is still published.                               *)
LEMMA CancellationStep ==
    ASSUME TypeInv, CancellationReachesEveryone, [Next]_vars
    PROVE  CancellationReachesEveryone'
  <1>0. TypeOK
    BY DEF TypeInv
  <1>1. ASSUME NEW q \in Request, RegisterCommit(q) PROVE CancellationReachesEveryone'
    <2>1. status[loc[q].event] = "published" /\ UNCHANGED status /\ jobs \subseteq jobs'
      BY <1>1, RegisterCommitEffect DEF RegisterCommit, TypeInv, RequestOK, events
    <2>2. \A d \in Event \ {loc[q].event} : Active(d)' = Active(d)
      BY <1>1, SetsAfterRegister DEF Active
    <2> QED
      BY <2>1, <2>2 DEF CancellationReachesEveryone, Told
  <1>2. ASSUME NEW q \in Request, CancelCommit(q) PROVE CancellationReachesEveryone'
    <2>1. UNCHANGED status /\ jobs \subseteq jobs'
      BY <1>2, CancelCommitEffect DEF events
    <2>2. \A e \in Event : Active(e)' \subseteq Active(e)
      BY <1>2, SetsAfterCancel DEF Active
    <2> QED
      BY <2>1, <2>2 DEF CancellationReachesEveryone, Told
  <1>3. ASSUME NEW q \in Request, CancelEventCommit(q), UNCHANGED regs
        PROVE  CancellationReachesEveryone'
    <2>1. /\ jobs' = jobs \cup FanOut(loc[q].event)
          /\ status' = [status EXCEPT ![loc[q].event] = "cancelled"]
      BY <1>3 DEF CancelEventCommit
    <2>2. \A e \in Event : Active(e)' = Active(e)
      BY <1>3, SetsSame
    <2>3. \A x \in Active(loc[q].event) : <<x, "EventCancelled">> \in jobs'
      BY <2>1 DEF FanOut
    <2>4. \A e \in Event : status'[e] = "cancelled" =>
             status[e] = "cancelled" \/ e = loc[q].event
      BY <1>0, <2>1 DEF TypeOK
    <2>5. ASSUME NEW e \in Event, status'[e] = "cancelled", NEW x \in Active(e)
          PROVE  <<x, "EventCancelled">> \in jobs'
      BY <2>1, <2>3, <2>4, <2>5 DEF CancellationReachesEveryone, Told
    <2> QED
      BY <2>2, <2>5 DEF CancellationReachesEveryone, Told
  <1>4. CASE UNCHANGED <<regs, jobs>>
    <2>1. \A e \in Event : Active(e)' = Active(e)
      BY <1>4, SetsSame
    <2>2. ASSUME NEW e \in Event, status'[e] = "cancelled"
          PROVE  status[e] = "cancelled" \/ \E q \in Request : CancelEventCommit(q)
      BY <1>0, <2>2, Writers DEF PublishCommit, CreateEvent, TypeOK
    <2> QED
      BY <1>3, <1>4, <2>1, <2>2 DEF CancellationReachesEveryone, Told
  <1> QED
    BY <1>1, <1>2, <1>3, <1>4, Writers

(* Whoever is still registered for a cancelled event has an EventCancelled  *)
(* job, also if the registration raced with the cancellation.               *)
THEOREM CancellationsReach == Spec => []CancellationReachesEveryone
  <1>1. Init => CancellationReachesEveryone
    BY DEF Init, CancellationReachesEveryone
  <1>2. TypeInv /\ CancellationReachesEveryone /\ [Next]_vars => CancellationReachesEveryone'
    BY CancellationStep
  <1> QED
    BY TypeInit, TypeStep, <1>1, <1>2, PTL DEF Spec

-----------------------------------------------------------------------------
(* Seats *)

(* A step keeps the decision of every registration under way. *)
LEMMA DecisionStep ==
    ASSUME TypeInv, DecisionHolds, [Next]_vars
    PROVE  DecisionHolds'
  <1> SUFFICES ASSUME NEW q \in Request, pc'[q] = "register", NEW e, e = loc'[q].event
               PROVE  /\ loc'[q].status = "confirmed" <=> Cardinality(Confirmed(e)') < capacity'[e]
                      /\ loc'[q].status = "waitlisted" =>
                            loc'[q].position = Cardinality(Waitlisted(e)') + 1
    BY DEF DecisionHolds
  <1>1. CASE pc'[q] = pc[q] /\ loc'[q] = loc[q]
    <2>1. /\ capacity'[e] = capacity[e]
          /\ \A r \in Reg : event_id[r] = e \/ event_id'[r] = e =>
                reg'[r] = reg[r] /\ event_id'[r] = event_id[r]
      BY <1>1, UnderLock DEF Locking
    <2>2. Confirmed(e)' = Confirmed(e) /\ Waitlisted(e)' = Waitlisted(e)
      BY <2>1 DEF Confirmed, Waitlisted, In
    <2> QED
      BY <1>1, <2>1, <2>2 DEF DecisionHolds
  <1>2. ASSUME NEW d \in Event, NEW s \in Student, Register(q, s, d)
        PROVE  /\ loc'[q].status = "confirmed" <=> Cardinality(Confirmed(e)') < capacity'[e]
               /\ loc'[q].status = "waitlisted" =>
                     loc'[q].position = Cardinality(Waitlisted(e)') + 1
    <2>1. /\ loc'[q].event = d
          /\ loc'[q].status = "confirmed" <=> Cardinality(Confirmed(d)) < capacity[d]
          /\ loc'[q].status = "waitlisted" => loc'[q].position = Cardinality(Waitlisted(d)) + 1
      BY <1>2, RegisterEffect
    <2>2. UNCHANGED <<events, regs>>
      BY <1>2 DEF Register
    <2>3. Confirmed(e)' = Confirmed(e) /\ Waitlisted(e)' = Waitlisted(e) /\ capacity' = capacity
      BY <2>2, SetsSame DEF events
    <2> QED
      BY <2>1, <2>3
  <1>3. \/ pc'[q] = pc[q] /\ loc'[q] = loc[q]
        \/ \E d \in Event, s \in Student : Register(q, s, d)
    <2>1. CASE UNCHANGED requests
      BY <2>1 DEF requests
    <2>2. ASSUME NEW p \in Request,
                 /\ \A x \in Request \ {p} : pc'[x] = pc[x] /\ loc'[x] = loc[x]
                 /\ \/ pc'[p] = "idle"
                    \/ \E d \in Event, s \in Student : Register(p, s, d)
                    \/ \E d \in Event : CancelEvent(p, d) \/ Publish(p, d) \/ Update(p, d)
                    \/ \E r \in Reg : CancelRead(p, r) \/ ListRead(p, r)
                    \/ CancelLock(p)
          PROVE  \/ pc'[q] = pc[q] /\ loc'[q] = loc[q]
                 \/ \E d \in Event, s \in Student : Register(q, s, d)
      <3>1. CASE p # q
        BY <2>2, <3>1
      <3>2. CASE p = q
        BY <2>2, <3>2, CancelEventEffect, EditEffect, CancelReadEffect, ListReadEffect,
           CancelLockEffect
      <3> QED
        BY <3>1, <3>2
    <2> QED
      BY <2>1, <2>2, OneMoves
  <1> QED
    BY <1>1, <1>2, <1>3

(* The head of a waitlist is one registration, or nobody waits. *)
LEMMA HeadOfWaitlist ==
    ASSUME NEW e
    PROVE  /\ Waitlisted(e) = {} => Next_waitlisted(e) = {}
           /\ Waitlisted(e) # {} =>
                 \E p \in Waitlisted(e) : /\ Next_waitlisted(e) = {p}
                                          /\ \A x \in Waitlisted(e) : p <= x
  <1>1. Waitlisted(e) \subseteq Nat /\ Waitlisted(e) \subseteq Reg
    BY InReg, RegIsFinite
  <1>2. ASSUME Waitlisted(e) # {}
        PROVE  \E p \in Waitlisted(e) : /\ Next_waitlisted(e) = {p}
                                        /\ \A x \in Waitlisted(e) : p <= x
    <2>1. PICK p \in Waitlisted(e) : \A x \in Waitlisted(e) : p <= x
      BY <1>1, <1>2, FirstExists
    <2>2. \A r \in Next_waitlisted(e) : r = p
      BY <1>1, <2>1 DEF Next_waitlisted
    <2>3. p \in Next_waitlisted(e)
      BY <2>1 DEF Next_waitlisted
    <2> QED
      BY <2>1, <2>2, <2>3
  <1> QED
    BY <1>2 DEF Next_waitlisted

(* A cancellation that commits leaves no more registrations confirmed. *)
LEMMA CancelKeepsSeats ==
    ASSUME TypeInv, NEW q \in Request, CancelCommit(q), NEW d \in Event
    PROVE  Cardinality(Confirmed(d)') <= Cardinality(Confirmed(d))
  <1>1. PICK e \in Event, r \in Reg, promoted \in SUBSET Reg :
             /\ r \in Active(e) /\ promoted \subseteq Waitlisted(e)
             /\ promoted = IF r \in Confirmed(e) THEN Next_waitlisted(e) ELSE {}
             /\ Confirmed(e)' = (Confirmed(e) \ {r}) \cup promoted
             /\ \A c \in Event \ {e} : Confirmed(c)' = Confirmed(c)
    BY SetsAfterCancel
  <1>2. /\ IsFiniteSet(Confirmed(e)) /\ Cardinality(Confirmed(e)) \in Nat
        /\ IsFiniteSet(Confirmed(d)) /\ Cardinality(Confirmed(d)) \in Nat
    BY InReg, RegSets
  <1>3. CASE d # e \/ r \notin Confirmed(e)
    <2>1. Confirmed(d)' = Confirmed(d)
      BY <1>1, <1>3
    <2> QED
      BY <1>2, <2>1
  <1>4. CASE d = e /\ r \in Confirmed(e)
    <2>1. /\ IsFiniteSet(Confirmed(e) \ {r})
          /\ Cardinality(Confirmed(e) \ {r}) = Cardinality(Confirmed(e)) - 1
      BY <1>2, <1>4, FS_RemoveElement
    <2>2. CASE promoted = {}
      <3>1. Confirmed(e)' = Confirmed(e) \ {r}
        BY <1>1, <2>2
      <3>2. Cardinality(Confirmed(e)') = Cardinality(Confirmed(e)) - 1
        BY <2>1, <3>1
      <3> QED
        BY <1>2, <1>4, <3>2
    <2>3. CASE promoted # {}
      <3>1. PICK p : promoted = {p}
        BY <1>1, <1>4, <2>3, HeadOfWaitlist
      <3> DEFINE rest == Confirmed(e) \ {r}
      <3>2. Cardinality(rest \cup {p}) =
              IF p \in rest THEN Cardinality(rest) ELSE Cardinality(rest) + 1
        BY <2>1, FS_AddElement
      <3>3. Cardinality(rest) = Cardinality(Confirmed(e)) - 1
        BY <2>1
      <3>4. Confirmed(e)' = rest \cup {p}
        BY <1>1, <3>1
      <3> HIDE DEF rest
      <3>5. Cardinality(Confirmed(e)') <= Cardinality(Confirmed(e))
        BY <1>2, <3>2, <3>3, <3>4
      <3> QED
        BY <1>4, <3>5
    <2> QED
      BY <2>2, <2>3
  <1> QED
    BY <1>3, <1>4

(* The seats a step hands out are within the capacity. *)
LEMMA SeatsStep ==
    ASSUME TypeInv, DecisionHolds, [Next]_vars, NEW e \in Event,
           Cardinality(Confirmed(e)') > Cardinality(Confirmed(e))
    PROVE  Cardinality(Confirmed(e)') <= capacity'[e]
  <1>1. Cardinality(Confirmed(e)) \in Nat /\ IsFiniteSet(Confirmed(e))
    BY InReg, RegSets
  <1>2. ASSUME NEW q \in Request, RegisterCommit(q)
        PROVE  Cardinality(Confirmed(e)') <= capacity'[e]
    <2>1. PICK d \in Event, r \in Reg :
             /\ d = loc[q].event /\ reg[r] = "absent"
             /\ loc[q].status \in {"confirmed", "waitlisted"}
             /\ loc[q].status = "confirmed" => Confirmed(d)' = Confirmed(d) \cup {r}
             /\ loc[q].status = "waitlisted" => Confirmed(d)' = Confirmed(d)
             /\ \A c \in Event \ {d} : Confirmed(c)' = Confirmed(c)
      BY <1>2, SetsAfterRegister
    <2>2. d = e /\ loc[q].status = "confirmed"
      BY <2>1, <1>1
    <2>3. /\ Cardinality(Confirmed(e)) < capacity[e] /\ UNCHANGED capacity
          /\ status[e] = "published"
      <3>1. pc[q] = "register" /\ UNCHANGED capacity /\ loc[q].event = e
        BY <1>2, <2>1, <2>2 DEF RegisterCommit, events
      <3>2. status[e] = "published"
        BY <3>1 DEF TypeInv, RequestOK
      <3>3. Cardinality(Confirmed(e)) < capacity[e]
        BY <2>2, <3>1 DEF DecisionHolds
      <3> QED
        BY <3>1, <3>2, <3>3
    <2>4. capacity[e] \in Nat
      <3>1. capacity[e] # NONE
        BY <2>3 DEF TypeInv, RowsOK
      <3>2. capacity[e] \in Capacity \cup {NONE}
        BY DEF TypeInv, TypeOK
      <3> QED
        BY <3>1, <3>2, CapacityAssumption
    <2>5. r \notin Confirmed(e)
      BY <2>1 DEF Confirmed, In
    <2>6. Cardinality(Confirmed(e)') = Cardinality(Confirmed(e)) + 1
      BY <1>1, <2>1, <2>2, <2>5, FS_AddElement
    <2> QED
      BY <1>1, <2>3, <2>4, <2>6
  <1>3. ASSUME NEW q \in Request, CancelCommit(q) PROVE FALSE
    <2>1. Cardinality(Confirmed(e)') <= Cardinality(Confirmed(e))
      BY <1>3, CancelKeepsSeats
    <2>2. Cardinality(Confirmed(e)') \in Nat
      <3>1. Confirmed(e)' \subseteq Reg
        BY DEF Confirmed, In
      <3> QED
        BY <3>1, RegSets
    <2> QED
      BY <1>1, <2>1, <2>2
  <1>4. ASSUME UNCHANGED regs PROVE FALSE
    BY <1>1, <1>4, SetsSame
  <1> QED
    BY <1>2, <1>3, <1>4, Writers DEF regs

(* A newcomer that a step confirms is within the capacity. *)
LEMMA NewcomersFit ==
    ASSUME TypeInv, DecisionHolds, [Next]_vars, NEW e \in Event,
           NEW r \in Confirmed(e)', reg[r] = "absent"
    PROVE  Cardinality(Confirmed(e)') <= capacity'[e]
  <1>1. r \in Reg /\ r \notin Confirmed(e) /\ r \notin Waitlisted(e)
    BY DEF Confirmed, Waitlisted, In
  <1>2. ASSUME NEW q \in Request, RegisterCommit(q)
        PROVE  Cardinality(Confirmed(e)') > Cardinality(Confirmed(e))
    <2>1. PICK d \in Event, n \in Reg :
             /\ loc[q].status \in {"confirmed", "waitlisted"}
             /\ loc[q].status = "confirmed" => Confirmed(d)' = Confirmed(d) \cup {n}
             /\ loc[q].status = "waitlisted" => Confirmed(d)' = Confirmed(d)
             /\ \A c \in Event \ {d} : Confirmed(c)' = Confirmed(c)
      BY <1>2, SetsAfterRegister
    <2>2. Confirmed(e)' = Confirmed(e) \cup {r}
      BY <1>1, <2>1
    <2>3. IsFiniteSet(Confirmed(e)) /\ Cardinality(Confirmed(e)) \in Nat
      BY InReg, RegSets
    <2>4. Cardinality(Confirmed(e) \cup {r}) = Cardinality(Confirmed(e)) + 1
      BY <1>1, <2>3, FS_AddElement
    <2> QED
      BY <2>2, <2>3, <2>4
  <1>3. ASSUME NEW q \in Request, CancelCommit(q) PROVE FALSE
    <2>1. Confirmed(e)' \subseteq Confirmed(e) \cup Waitlisted(e)
      BY <1>3, SetsAfterCancel
    <2> QED
      BY <1>1, <2>1
  <1>4. ASSUME UNCHANGED regs PROVE FALSE
    BY <1>1, <1>4, SetsSame
  <1> QED
    BY <1>2, <1>3, <1>4, SeatsStep, Writers DEF regs

(* Whoever is promoted takes the seat of a registration that the same step  *)
(* cancels, and is the only one.                                            *)
LEMMA PromotedForOne ==
    ASSUME TypeInv, [Next]_vars, NEW e \in Event,
           NEW r \in Waitlisted(e), reg'[r] = "confirmed"
    PROVE  /\ \E x \in Confirmed(e) : reg'[x] = "cancelled"
           /\ \A x \in Waitlisted(e) : reg'[x] = "confirmed" => x = r
  <1>1. \A x \in Waitlisted(e) : x \in Reg /\ reg[x] = "waitlisted" /\ event_id[x] = e
    BY DEF Waitlisted, In
  <1>2. ASSUME NEW q \in Request, RegisterCommit(q) PROVE FALSE
    <2>1. PICK n \in Reg : reg[n] = "absent" /\ reg' = [reg EXCEPT ![n] = loc[q].status]
      BY <1>2, SetsAfterRegister
    <2> QED
      BY <1>1, <2>1 DEF TypeInv, TypeOK
  <1>3. ASSUME NEW q \in Request, CancelCommit(q)
        PROVE  /\ \E x \in Confirmed(e) : reg'[x] = "cancelled"
               /\ \A x \in Waitlisted(e) : reg'[x] = "confirmed" => x = r
    <2>1. PICK d \in Event, n \in Reg, promoted \in SUBSET Reg :
             /\ promoted \subseteq Waitlisted(d)
             /\ promoted = IF n \in Confirmed(d) THEN Next_waitlisted(d) ELSE {}
             /\ reg' = [x \in Reg |-> IF x = n THEN "cancelled"
                                      ELSE IF x \in promoted THEN "confirmed"
                                      ELSE reg[x]]
      BY <1>3, SetsAfterCancel
    <2>2. \A x \in Waitlisted(e) : reg'[x] = "confirmed" => x \in promoted
      BY <1>1, <2>1
    <2>3. r \in promoted
      BY <2>2
    <2>4. d = e
      BY <1>1, <2>1, <2>3 DEF Waitlisted, In
    <2>5. n \in Confirmed(e) /\ reg'[n] = "cancelled"
      BY <2>1, <2>3, <2>4
    <2>6. \E p : promoted = {p}
      BY <2>1, <2>3, HeadOfWaitlist
    <2> QED
      BY <2>2, <2>3, <2>5, <2>6
  <1>4. ASSUME UNCHANGED regs PROVE FALSE
    BY <1>1, <1>4 DEF regs
  <1> QED
    BY <1>2, <1>3, <1>4, Writers DEF regs

(* Resized or not, a newcomer is confirmed only within the capacity of that *)
(* moment, and a promotion is an exchange of one seat for one that is given *)
(* up in the same step (OverbookingNeverGrows).                             *)
THEOREM NoStepAddsOverbooking == Spec => OverbookingNeverGrows
  <1>1. Init => DecisionHolds
    BY DEF Init, DecisionHolds
  <1>2. TypeInv /\ DecisionHolds /\ [Next]_vars => DecisionHolds'
    BY DecisionStep
  <1>3. TypeInv /\ DecisionHolds /\ [Next]_vars =>
          [\A e \in Event :
             /\ (\E r \in Confirmed(e)' : reg[r] = "absent")
                   => Cardinality(Confirmed(e)') <= capacity'[e]
             /\ \A r \in Waitlisted(e) : reg'[r] = "confirmed" =>
                   /\ \E x \in Confirmed(e) : reg'[x] = "cancelled"
                   /\ \A x \in Waitlisted(e) : reg'[x] = "confirmed" => x = r]_vars
    BY NewcomersFit, PromotedForOne
  <1> QED
    BY TypeInit, TypeStep, <1>1, <1>2, <1>3, PTL DEF Spec, OverbookingNeverGrows

-----------------------------------------------------------------------------
(* First come, first served: sets A of active and C of confirmed            *)
(* registrations and a capacity cap                                        *)

Below(A, r) == {x \in A : x < r}

Earliest(A, C, cap) == C = {r \in A : Cardinality(Below(A, r)) < cap}

(* Ranks are natural numbers, and a larger set gives no smaller rank. *)
LEMMA BelowCount ==
    ASSUME NEW A, A \subseteq Reg, NEW r, NEW S, S \subseteq Below(A, r)
    PROVE  /\ Cardinality(Below(A, r)) \in Nat /\ IsFiniteSet(Below(A, r))
           /\ Cardinality(S) \in Nat /\ IsFiniteSet(S)
           /\ Cardinality(S) <= Cardinality(Below(A, r))
  <1>1. Below(A, r) \subseteq Reg
    BY DEF Below
  <1> QED
    BY <1>1, RegSets

(* Seats are left exactly if everybody active has one, with room to spare.  *)
LEMMA SeatsLeft ==
    ASSUME NEW A, A \subseteq Reg, NEW C, NEW cap \in Nat, Earliest(A, C, cap)
    PROVE  /\ C \subseteq A
           /\ Cardinality(C) < cap <=> Cardinality(A) < cap
  <1>1. C \subseteq A
    BY DEF Earliest
  <1>2. /\ Cardinality(A) \in Nat /\ Cardinality(C) \in Nat
        /\ Cardinality(C) <= Cardinality(A)
    BY <1>1, RegSets
  <1>3. ASSUME A \ C # {} PROVE cap <= Cardinality(C)
    <2>1. PICK w \in A \ C : \A x \in A \ C : w <= x
      BY <1>3, FirstExists
    <2>2. Below(A, w) \subseteq C
      <3> SUFFICES ASSUME NEW x \in A, x < w, x \notin C PROVE FALSE
        BY DEF Below
      <3>1. x \in Nat /\ w \in Nat
        BY RegIsFinite
      <3> QED
        BY <2>1, <3>1
    <2>3. ~(Cardinality(Below(A, w)) < cap)
      BY <2>1 DEF Earliest
    <2>4. /\ Cardinality(Below(A, w)) \in Nat
          /\ Cardinality(Below(A, w)) <= Cardinality(C)
      BY <1>1, <2>2, RegSets
    <2> QED
      BY <1>2, <2>3, <2>4
  <1>4. CASE A \ C = {}
    BY <1>1, <1>4
  <1>5. CASE A \ C # {}
    <2>1. cap <= Cardinality(C)
      BY <1>3, <1>5
    <2> QED
      BY <1>1, <1>2, <2>1
  <1> QED
    BY <1>1, <1>4, <1>5

(* A registration that comes last gets a seat if one is left. *)
LEMMA EarliestAdd ==
    ASSUME NEW A, A \subseteq Reg, NEW C, NEW cap \in Nat, Earliest(A, C, cap),
           NEW r \in Reg, \A x \in A : x < r
    PROVE  /\ Cardinality(C) < cap => Earliest(A \cup {r}, C \cup {r}, cap)
           /\ ~(Cardinality(C) < cap) => Earliest(A \cup {r}, C, cap)
  <1>0. r \in Nat /\ \A x \in A : x \in Nat
    BY RegIsFinite
  <1>1. Below(A \cup {r}, r) = A
    <2>1. ~(r < r)
      BY <1>0
    <2> QED
      BY <2>1 DEF Below
  <1>2. \A y \in A : Below(A \cup {r}, y) = Below(A, y)
    BY <1>0 DEF Below
  <1>3. Cardinality(C) < cap <=> Cardinality(Below(A \cup {r}, r)) < cap
    BY <1>1, SeatsLeft
  <1>4. {y \in A \cup {r} : Cardinality(Below(A \cup {r}, y)) < cap} =
          C \cup (IF Cardinality(C) < cap THEN {r} ELSE {})
    BY <1>2, <1>3 DEF Earliest
  <1> QED
    BY <1>4 DEF Earliest

(* Whoever gives up waiting leaves the seats as they are. *)
LEMMA EarliestDropWaiting ==
    ASSUME NEW A, A \subseteq Reg, NEW C, NEW cap \in Nat, Earliest(A, C, cap),
           NEW r \in A \ C
    PROVE  Earliest(A \ {r}, C, cap)
  <1>1. A \ {r} \subseteq Reg /\ r \in Reg
    OBVIOUS
  <1>2. ASSUME NEW y \in C PROVE y \in A \ {r} /\ Cardinality(Below(A \ {r}, y)) < cap
    <2>1. y \in A /\ y # r /\ Cardinality(Below(A, y)) < cap
      BY DEF Earliest
    <2>2. Below(A \ {r}, y) \subseteq Below(A, y)
      BY DEF Below
    <2>3. /\ Cardinality(Below(A \ {r}, y)) <= Cardinality(Below(A, y))
          /\ Cardinality(Below(A \ {r}, y)) \in Nat /\ Cardinality(Below(A, y)) \in Nat
      BY <2>2, BelowCount
    <2> QED
      BY <2>1, <2>3
  <1>3. ASSUME NEW y \in A \ {r}, y \notin C PROVE ~(Cardinality(Below(A \ {r}, y)) < cap)
    <2>1. ~(Cardinality(Below(A, y)) < cap) /\ ~(Cardinality(Below(A, r)) < cap)
      BY <1>3 DEF Earliest
    <2>2. CASE r < y
      <3>1. Below(A, r) \subseteq Below(A \ {r}, y)
        <4> SUFFICES ASSUME NEW x \in A, x < r PROVE x # r /\ x < y
          BY DEF Below
        <4>1. x \in Nat /\ r \in Nat /\ y \in Nat
          BY <1>1, <1>3, RegIsFinite
        <4> QED
          BY <2>2, <4>1
      <3>2. /\ Cardinality(Below(A, r)) <= Cardinality(Below(A \ {r}, y))
            /\ Cardinality(Below(A \ {r}, y)) \in Nat /\ Cardinality(Below(A, r)) \in Nat
        BY <1>1, <3>1, BelowCount
      <3> QED
        BY <2>1, <3>2
    <2>3. CASE ~(r < y)
      <3>1. Below(A \ {r}, y) = Below(A, y)
        BY <2>3 DEF Below
      <3> QED
        BY <2>1, <3>1
    <2> QED
      BY <2>2, <2>3
  <1> QED
    BY <1>2, <1>3 DEF Earliest

(* A seat that is given up goes to the head of the waitlist. *)
LEMMA EarliestDropSeat ==
    ASSUME NEW A, A \subseteq Reg, NEW C, NEW cap \in Nat, Earliest(A, C, cap),
           Cardinality(C) <= cap, NEW r \in C
    PROVE  /\ A = C => Earliest(A \ {r}, C \ {r}, cap)
           /\ \A p \in A \ C : (\A x \in A \ C : p <= x) =>
                 Earliest(A \ {r}, (C \ {r}) \cup {p}, cap)
  <1>0. C \subseteq A /\ A \ {r} \subseteq Reg /\ A \subseteq Nat
    BY RegIsFinite DEF Earliest
  <1>1. ASSUME NEW y \in C \ {r} PROVE y \in A \ {r} /\ Cardinality(Below(A \ {r}, y)) < cap
    <2>1. y \in A /\ y # r /\ Cardinality(Below(A, y)) < cap
      BY DEF Earliest
    <2>2. Below(A \ {r}, y) \subseteq Below(A, y)
      BY DEF Below
    <2>3. /\ Cardinality(Below(A \ {r}, y)) <= Cardinality(Below(A, y))
          /\ Cardinality(Below(A \ {r}, y)) \in Nat /\ Cardinality(Below(A, y)) \in Nat
      BY <2>2, BelowCount
    <2> QED
      BY <2>1, <2>3
  <1>2. ASSUME A = C PROVE Earliest(A \ {r}, C \ {r}, cap)
    BY <1>1, <1>2 DEF Earliest
  <1>3. ASSUME NEW p \in A \ C, \A x \in A \ C : p <= x
        PROVE  Earliest(A \ {r}, (C \ {r}) \cup {p}, cap)
    <2>1. p \in A \ {r} /\ ~(Cardinality(Below(A, p)) < cap)
      BY DEF Earliest
    <2>2. Cardinality(Below(A \ {r}, p)) < cap
      <3>1. Below(A \ {r}, p) \subseteq C \ {r}
        <4> SUFFICES ASSUME NEW x \in A, x # r, x < p, x \notin C PROVE FALSE
          BY DEF Below
        <4>1. x \in Nat /\ p \in Nat /\ p <= x
          BY <1>0, <1>3
        <4> QED
          BY <4>1
      <3>2. IsFiniteSet(C) /\ Cardinality(C) \in Nat
        BY <1>0, RegSets
      <3>3. IsFiniteSet(C \ {r}) /\ Cardinality(C \ {r}) = Cardinality(C) - 1
        BY <3>2, FS_RemoveElement
      <3>4. /\ Cardinality(Below(A \ {r}, p)) <= Cardinality(C \ {r})
            /\ Cardinality(Below(A \ {r}, p)) \in Nat
        BY <1>0, <3>1, RegSets
      <3> QED
        BY <3>2, <3>3, <3>4
    <2>3. ASSUME NEW y \in A \ {r}, y \notin C, y # p
          PROVE  ~(Cardinality(Below(A \ {r}, y)) < cap)
      <3>1. p < y
        BY <1>0, <1>3, <2>3
      <3> DEFINE S == Below(A, p) \ {r}
      <3>2. S \cup {p} \subseteq Below(A \ {r}, y)
        <4>1. p \in Below(A \ {r}, y)
          BY <2>1, <3>1 DEF Below
        <4>2. ASSUME NEW x \in A, x < p PROVE x < y
          <5>1. x \in Nat /\ p \in Nat /\ y \in Nat
            BY <1>0, <1>3, <2>3
          <5> QED
            BY <3>1, <4>2, <5>1
        <4> QED
          BY <4>1, <4>2 DEF Below
      <3>3. IsFiniteSet(Below(A, p)) /\ Cardinality(Below(A, p)) \in Nat
        BY BelowCount
      <3>4. /\ IsFiniteSet(S)
            /\ Cardinality(S) = IF r \in Below(A, p) THEN Cardinality(Below(A, p)) - 1
                                                     ELSE Cardinality(Below(A, p))
        BY <3>3, FS_RemoveElement
      <3>5. p \notin S
        BY <1>0 DEF Below
      <3>6. Cardinality(S \cup {p}) = Cardinality(S) + 1
        BY <3>4, <3>5, FS_AddElement
      <3>7. /\ Cardinality(S \cup {p}) <= Cardinality(Below(A \ {r}, y))
            /\ Cardinality(Below(A \ {r}, y)) \in Nat /\ Cardinality(S \cup {p}) \in Nat
        BY <1>0, <3>2, BelowCount
      <3> HIDE DEF S
      <3> QED
        BY <2>1, <3>3, <3>4, <3>6, <3>7
    <2> QED
      BY <1>1, <2>1, <2>2, <2>3 DEF Earliest
  <1> QED
    BY <1>2, <1>3

(* SeatsGoToEarliest in terms of Earliest. *)
LEMMA SeatsAreEarliest ==
    SeatsGoToEarliest <=>
        \A e \in Event : ~resized[e] => Earliest(Active(e), Confirmed(e), capacity[e])
  BY DEF SeatsGoToEarliest, Earliest, Below

(* An event that is not there has no registrations. *)
LEMMA AbsentIsEmpty ==
    ASSUME TypeInv, NEW e \in Event, status[e] = "absent"
    PROVE  Active(e) = {} /\ Confirmed(e) = {}
  BY DEF TypeInv, RowsOK, Active, Confirmed, Waitlisted, In

(* A step keeps an event from being overbooked, and the order of the seats, *)
(* unless it changes the capacity.                                         *)
LEMMA EarliestStep ==
    ASSUME TypeInv, SeatsInv, [Next]_vars, NEW e \in Event, ~resized'[e]
    PROVE  /\ status'[e] # "absent" => Cardinality(Confirmed(e)') <= capacity'[e]
           /\ Earliest(Active(e)', Confirmed(e)', capacity'[e])
  <1>0. /\ TypeOK /\ RowsOK /\ DecisionHolds /\ NotOverbooked
        /\ \A d \in Event : ~resized[d] => Earliest(Active(d), Confirmed(d), capacity[d])
    BY SeatsAreEarliest DEF TypeInv, SeatsInv
  <1>1. CASE status[e] = "absent"
    <2>1. Active(e) = {} /\ Confirmed(e) = {}
      BY <1>1, AbsentIsEmpty
    <2>2. ASSUME NEW q \in Request, RegisterCommit(q) \/ CancelCommit(q)
          PROVE  loc[q].event # e
      <3>1. status[loc[q].event] # "absent"
        BY <2>2, RegisterCommitEffect, CancelCommitEffect
        DEF RegisterCommit, CancelCommit, TypeInv, RequestOK, RowsOK, Locking
      <3> QED
        BY <1>1, <3>1
    <2>3. Active(e)' = {} /\ Confirmed(e)' = {}
      <3>1. ASSUME NEW q \in Request, RegisterCommit(q)
            PROVE  Confirmed(e)' = Confirmed(e) /\ Waitlisted(e)' = Waitlisted(e)
        BY <2>2, <3>1, SetsAfterRegister
      <3>2. ASSUME NEW q \in Request, CancelCommit(q)
            PROVE  Confirmed(e)' = Confirmed(e) /\ Waitlisted(e)' = Waitlisted(e)
        BY <2>2, <3>2, SetsAfterCancel
      <3>3. Confirmed(e)' = Confirmed(e) /\ Waitlisted(e)' = Waitlisted(e)
        BY <3>1, <3>2, SetsSame, Writers DEF regs
      <3> QED
        BY <2>1, <3>3 DEF Active
    <2>4. Earliest(Active(e)', Confirmed(e)', capacity'[e])
      BY <2>3 DEF Earliest
    <2>5. status'[e] # "absent" => capacity'[e] \in Nat
      BY RowsStep, TypeOKStep, CapacityAssumption DEF RowsOK, TypeOK
    <2> QED
      BY <2>3, <2>4, <2>5, FS_EmptySet
  <1>2. CASE status[e] # "absent"
    <2> DEFINE cap == capacity[e]
    <2>1. cap \in Nat
      BY <1>0, <1>2, CapacityAssumption DEF RowsOK, TypeOK
    <2>2. ~resized[e] /\ capacity'[e] = cap
      <3>1. ASSUME NEW q \in Request, UpdateCommit(q) PROVE ~resized[e] /\ capacity'[e] = cap
        <4>1. loc[q].event \in Event
          BY <3>1 DEF UpdateCommit, TypeInv, TypeOK, RequestOK, Locals
        <4>2. resized' = [resized EXCEPT ![loc[q].event] =
                            resized[loc[q].event] \/ capacity'[loc[q].event] # capacity[loc[q].event]]
          BY <3>1 DEF UpdateCommit
        <4>3. \A d \in Event : d # loc[q].event => capacity'[d] = capacity[d]
          BY <1>0, <3>1 DEF UpdateCommit, TypeOK
        <4> QED
          BY <1>0, <4>1, <4>2, <4>3 DEF TypeOK
      <3>2. ASSUME NEW d \in Event, CreateEvent(d) PROVE ~resized[e] /\ capacity'[e] = cap
        BY <1>0, <1>2, <3>2 DEF CreateEvent, TypeOK
      <3> QED
        BY <3>1, <3>2, Writers
    <2>3. /\ Earliest(Active(e), Confirmed(e), cap)
          /\ Cardinality(Confirmed(e)) <= cap
      BY <1>0, <1>2, <2>2 DEF NotOverbooked
    <2>4. /\ Active(e) \subseteq Reg /\ Confirmed(e) \subseteq Active(e)
          /\ Active(e) = Confirmed(e) \cup Waitlisted(e)
          /\ Active(e)' = Confirmed(e)' \cup Waitlisted(e)'
          /\ Confirmed(e) \cap Waitlisted(e) = {}
          /\ Cardinality(Confirmed(e)) \in Nat
      BY InReg, RegSets DEF Active
    <2> HIDE DEF cap
    <2>5. Cardinality(Confirmed(e)') <= cap
      <3>1. Cardinality(Confirmed(e)') \in Nat
        <4>1. Confirmed(e)' \subseteq Reg
          BY DEF Confirmed, In
        <4> QED
          BY <4>1, RegSets
      <3>2. CASE Cardinality(Confirmed(e)') > Cardinality(Confirmed(e))
        BY <1>0, <2>2, <3>2, SeatsStep
      <3>3. CASE ~(Cardinality(Confirmed(e)') > Cardinality(Confirmed(e)))
        BY <2>1, <2>3, <2>4, <3>1, <3>3
      <3> QED
        BY <3>2, <3>3
    <2>6. ASSUME NEW q \in Request, RegisterCommit(q)
          PROVE  Earliest(Active(e)', Confirmed(e)', cap)
      <3>1. PICK d \in Event, r \in Reg :
               /\ d = loc[q].event
               /\ reg[r] = "absent" /\ \A x \in Reg : reg[x] # "absent" => x < r
               /\ loc[q].status \in {"confirmed", "waitlisted"}
               /\ loc[q].status = "confirmed" =>
                     Confirmed(d)' = Confirmed(d) \cup {r} /\ Waitlisted(d)' = Waitlisted(d)
               /\ loc[q].status = "waitlisted" =>
                     Confirmed(d)' = Confirmed(d) /\ Waitlisted(d)' = Waitlisted(d) \cup {r}
               /\ \A c \in Event \ {d} :
                     Confirmed(c)' = Confirmed(c) /\ Waitlisted(c)' = Waitlisted(c)
        BY <2>6, SetsAfterRegister
      <3>2. CASE d # e
        BY <2>3, <2>4, <3>1, <3>2
      <3>3. CASE d = e
        <4>1. \A x \in Active(e) : x < r
          BY <3>1 DEF Active, Confirmed, Waitlisted, In
        <4>2. loc[q].status = "confirmed" <=> Cardinality(Confirmed(e)) < cap
          BY <1>0, <2>6, <3>1, <3>3 DEF DecisionHolds, RegisterCommit, cap
        <4>3. Active(e)' = Active(e) \cup {r}
          BY <2>4, <3>1, <3>3
        <4>4. CASE loc[q].status = "confirmed"
          <5>1. Confirmed(e)' = Confirmed(e) \cup {r}
            BY <3>1, <3>3, <4>4
          <5>2. Cardinality(Confirmed(e)) < cap
            BY <4>2, <4>4
          <5>3. Earliest(Active(e) \cup {r}, Confirmed(e) \cup {r}, cap)
            BY <2>1, <2>3, <2>4, <4>1, <5>2, EarliestAdd
          <5> QED
            BY <4>3, <5>1, <5>3
        <4>5. CASE loc[q].status = "waitlisted"
          <5>1. Confirmed(e)' = Confirmed(e)
            BY <3>1, <3>3, <4>5
          <5>2. ~(Cardinality(Confirmed(e)) < cap)
            BY <4>2, <4>5
          <5>3. Earliest(Active(e) \cup {r}, Confirmed(e), cap)
            BY <2>1, <2>3, <2>4, <4>1, <5>2, EarliestAdd
          <5> QED
            BY <4>3, <5>1, <5>3
        <4> QED
          BY <3>1, <4>4, <4>5
      <3> QED
        BY <3>2, <3>3
    <2>7. ASSUME NEW q \in Request, CancelCommit(q)
          PROVE  Earliest(Active(e)', Confirmed(e)', cap)
      <3>1. PICK d \in Event, r \in Reg, promoted \in SUBSET Reg :
               /\ r \in Active(d) /\ promoted \subseteq Waitlisted(d)
               /\ promoted = IF r \in Confirmed(d) THEN Next_waitlisted(d) ELSE {}
               /\ r \notin promoted
               /\ Confirmed(d)' = (Confirmed(d) \ {r}) \cup promoted
               /\ Waitlisted(d)' = (Waitlisted(d) \ {r}) \ promoted
               /\ \A c \in Event \ {d} :
                     Confirmed(c)' = Confirmed(c) /\ Waitlisted(c)' = Waitlisted(c)
        BY <2>7, SetsAfterCancel
      <3>2. CASE d # e
        BY <2>3, <2>4, <3>1, <3>2
      <3>3. CASE d = e
        <4>1. Active(e)' = Active(e) \ {r}
          BY <2>4, <3>1, <3>3
        <4>2. CASE r \notin Confirmed(e)
          <5>1. Confirmed(e)' = Confirmed(e) /\ r \in Active(e) \ Confirmed(e)
            BY <3>1, <3>3, <4>2
          <5> QED
            BY <2>1, <2>3, <2>4, <4>1, <5>1, EarliestDropWaiting
        <4>3. CASE r \in Confirmed(e) /\ Waitlisted(e) = {}
          <5>1. Confirmed(e)' = Confirmed(e) \ {r} /\ Active(e) = Confirmed(e)
            BY <2>4, <3>1, <3>3, <4>3, HeadOfWaitlist
          <5> QED
            BY <2>1, <2>3, <2>4, <4>1, <4>3, <5>1, EarliestDropSeat
        <4>4. CASE r \in Confirmed(e) /\ Waitlisted(e) # {}
          <5>1. PICK p \in Waitlisted(e) : /\ promoted = {p}
                                           /\ \A x \in Waitlisted(e) : p <= x
            BY <3>1, <3>3, <4>4, HeadOfWaitlist
          <5>2. Active(e) \ Confirmed(e) = Waitlisted(e)
            BY <2>4
          <5>3. Confirmed(e)' = (Confirmed(e) \ {r}) \cup {p}
            BY <3>1, <3>3, <5>1
          <5>4. p \in Active(e) \ Confirmed(e) /\ \A x \in Active(e) \ Confirmed(e) : p <= x
            BY <5>1, <5>2
          <5>5. Earliest(Active(e) \ {r}, (Confirmed(e) \ {r}) \cup {p}, cap)
            BY <2>1, <2>3, <2>4, <4>4, <5>4, EarliestDropSeat
          <5> QED
            BY <4>1, <5>3, <5>5
        <4> QED
          BY <4>2, <4>3, <4>4
      <3> QED
        BY <3>2, <3>3
    <2>8. ASSUME UNCHANGED regs PROVE Earliest(Active(e)', Confirmed(e)', cap)
      BY <2>3, <2>8, SetsSame
    <2>9. Earliest(Active(e)', Confirmed(e)', cap)
      BY <2>6, <2>7, <2>8, Writers DEF regs
    <2> QED
      BY <2>2, <2>5, <2>9
  <1> QED
    BY <1>1, <1>2

(* The primed form of SeatsAreEarliest, for the end of a step. *)
LEMMA SeatsAreEarliestNext ==
    ASSUME \A e \in Event : ~resized'[e] => Earliest(Active(e)', Confirmed(e)', capacity'[e])
    PROVE  SeatsGoToEarliest'
  BY DEF SeatsGoToEarliest, Earliest, Below

(* As long as the capacity is left alone, the confirmed registrations are   *)
(* exactly the earliest active ones (SeatsGoToEarliest).                    *)
THEOREM FirstComeFirstServed == Spec => []SeatsGoToEarliest
  <1>1. Init => SeatsInv
    <2> SUFFICES ASSUME Init PROVE SeatsInv
      OBVIOUS
    <2>1. DecisionHolds /\ NotOverbooked
      BY DEF Init, DecisionHolds, NotOverbooked
    <2>2. SeatsGoToEarliest
      BY DEF Init, SeatsGoToEarliest, Active, Confirmed, Waitlisted, In
    <2> QED
      BY <2>1, <2>2 DEF SeatsInv
  <1>2. TypeInv /\ SeatsInv /\ [Next]_vars => SeatsInv'
    <2> SUFFICES ASSUME TypeInv, SeatsInv, [Next]_vars PROVE SeatsInv'
      OBVIOUS
    <2>1. DecisionHolds'
      BY DecisionStep DEF SeatsInv
    <2>2. NotOverbooked'
      BY EarliestStep DEF NotOverbooked
    <2>3. SeatsGoToEarliest'
      BY EarliestStep, SeatsAreEarliestNext
    <2> QED
      BY <2>1, <2>2, <2>3 DEF SeatsInv
  <1>3. SeatsInv => SeatsGoToEarliest
    BY DEF SeatsInv
  <1> QED
    BY TypeInit, TypeStep, <1>1, <1>2, <1>3, PTL DEF Spec

-----------------------------------------------------------------------------
(* Places on the waitlist *)

(* Whoever waits before a registration, or with it, waited there already:   *)
(* new registrations come last, and nobody returns to a waitlist.           *)
LEMMA AheadShrinks ==
    ASSUME TypeInv, [Next]_vars, NEW r \in Reg, reg[r] # "absent",
           NEW x \in Waitlisted(event_id[r])', x <= r
    PROVE  x \in Waitlisted(event_id[r])
  <1>1. event_id'[r] = event_id[r]
    BY RegsStay
  <1>2. x \in Reg /\ event_id'[x] = event_id'[r] /\ reg'[x] = "waitlisted"
    BY DEF Waitlisted, In
  <1>3. x \in Nat /\ r \in Nat
    BY <1>2, RegIsFinite
  <1>4. reg[x] # "absent"
    BY <1>2, <1>3 DEF TypeInv, RowsOK
  <1>5. event_id'[x] = event_id[x] /\ reg[x] \notin {"cancelled", "confirmed"}
    BY <1>2, <1>4, RegsStay
  <1> QED
    BY <1>1, <1>2, <1>4, <1>5 DEF TypeInv, TypeOK, Waitlisted, In

(* So a place never gets worse. *)
LEMMA PlaceStep ==
    ASSUME TypeInv, [Next]_vars, NEW r \in Reg, reg[r] # "absent"
    PROVE  Position(r)' <= Position(r) /\ Position(r)' \in Nat /\ Position(r) \in Nat
  <1> DEFINE S == {x \in Waitlisted(event_id[r]) : x <= r}
             T == {x \in Waitlisted(event_id[r])' : x <= r}
  <1>1. T \subseteq S
    BY AheadShrinks
  <1>2. S \subseteq Reg
    BY InReg
  <1>3. Position(r) = Cardinality(S) /\ Position(r)' = Cardinality(T)
    BY DEF Position
  <1> HIDE DEF S, T
  <1> QED
    BY <1>1, <1>2, <1>3, RegSets

(* The place of a registration that joins the waitlist is the last one. *)
LEMMA LastPlace ==
    ASSUME TypeInv, NEW e \in Event, NEW r \in Reg, reg[r] = "absent",
           \A x \in Reg : reg[x] # "absent" => x < r,
           event_id'[r] = e, Waitlisted(e)' = Waitlisted(e) \cup {r}
    PROVE  Position(r)' = Cardinality(Waitlisted(e)) + 1 /\ Position(r)' \in Nat
  <1>1. r \in Nat /\ r <= r
    BY RegIsFinite
  <1>2. Waitlisted(e) \subseteq Reg /\ r \notin Waitlisted(e)
        /\ \A x \in Waitlisted(e) : x \in Nat /\ x < r
    BY RegIsFinite DEF Waitlisted, In
  <1>3. {x \in Waitlisted(event_id[r])' : x <= r} = Waitlisted(e) \cup {r}
    <2>1. Waitlisted(event_id[r])' = Waitlisted(e)'
      BY DEF Waitlisted, In
    <2> QED
      BY <1>1, <1>2, <2>1
  <1>4. IsFiniteSet(Waitlisted(e)) /\ Cardinality(Waitlisted(e)) \in Nat
    BY <1>2, RegSets
  <1>5. Cardinality(Waitlisted(e) \cup {r}) = Cardinality(Waitlisted(e)) + 1
    BY <1>2, <1>4, FS_AddElement
  <1>6. Position(r)' = Cardinality({x \in Waitlisted(event_id[r])' : x <= r})
    BY DEF Position
  <1> QED
    BY <1>3, <1>4, <1>5, <1>6

(* A step keeps what those who wait were told true. *)
LEMMA PlaceInvStep ==
    ASSUME TypeInv, DecisionHolds, PlaceInv, [Next]_vars
    PROVE  PlaceInv'
  <1> SUFFICES ASSUME NEW r \in Reg, reg'[r] = "waitlisted"
               PROVE  Position(r)' <= told'[r] /\ told'[r] # NONE
    BY DEF PlaceInv, PositionOnlyImproves
  <1>1. CASE reg[r] # "absent"
    <2>1. reg[r] = "waitlisted" /\ told'[r] = told[r]
      BY <1>1, RegsStay DEF TypeInv, TypeOK
    <2>2. Position(r) <= told[r] /\ told[r] # NONE
      BY <2>1 DEF PlaceInv, PositionOnlyImproves
    <2>3. told[r] \in Nat
      BY <2>2, RegIsFinite DEF TypeInv, TypeOK
    <2>4. Position(r)' <= Position(r) /\ Position(r)' \in Nat /\ Position(r) \in Nat
      BY <1>1, PlaceStep
    <2> QED
      BY <2>1, <2>2, <2>3, <2>4
  <1>2. CASE reg[r] = "absent"
    <2>1. PICK q \in Request : RegisterCommit(q)
      <3>1. ASSUME NEW q \in Request, CancelCommit(q) PROVE FALSE
        BY <1>2, <3>1, CancelCommitEffect DEF Waitlisted, In
      <3>2. ~UNCHANGED regs
        BY <1>2 DEF regs
      <3> QED
        BY <3>1, <3>2, Writers DEF regs
    <2>2. PICK e \in Event, y \in Reg :
             /\ e = loc[q].event
             /\ reg[y] = "absent" /\ \A x \in Reg : reg[x] # "absent" => x < y
             /\ event_id' = [event_id EXCEPT ![y] = e]
             /\ told' = [told EXCEPT ![y] = loc[q].position]
             /\ reg' = [reg EXCEPT ![y] = loc[q].status]
             /\ loc[q].status = "waitlisted" => Waitlisted(e)' = Waitlisted(e) \cup {y}
      BY <2>1, SetsAfterRegister
    <2>3. y = r /\ loc[q].status = "waitlisted"
      BY <1>2, <2>2 DEF TypeInv, TypeOK
    <2>4. event_id'[r] = e /\ told'[r] = loc[q].position
      BY <2>2, <2>3 DEF TypeInv, TypeOK
    <2>5. loc[q].position = Cardinality(Waitlisted(e)) + 1
      BY <2>1, <2>2, <2>3 DEF DecisionHolds, RegisterCommit
    <2>6. Position(r)' = Cardinality(Waitlisted(e)) + 1 /\ Position(r)' \in Nat
      BY <1>2, <2>2, <2>3, <2>4, LastPlace
    <2>7. told'[r] \in Nat /\ Position(r)' = told'[r]
      BY <2>4, <2>5, <2>6
    <2>8. NONE \notin Nat
      BY NoneAssumption
    <2> QED
      BY <2>6, <2>7, <2>8
  <1> QED
    BY <1>1, <1>2

(* The place a waitlisted student was told only improves                    *)
(* (PositionOnlyImproves), whatever registrations, cancellations and        *)
(* promotions run at the same time.                                         *)
THEOREM PlacesImprove == Spec => []PositionOnlyImproves
  <1>1. Init => DecisionHolds /\ PlaceInv
    BY DEF Init, DecisionHolds, PlaceInv, PositionOnlyImproves
  <1>2. TypeInv /\ DecisionHolds /\ PlaceInv /\ [Next]_vars => DecisionHolds' /\ PlaceInv'
    BY DecisionStep, PlaceInvStep
  <1>3. PlaceInv => PositionOnlyImproves
    BY DEF PlaceInv
  <1> QED
    BY TypeInit, TypeStep, <1>1, <1>2, <1>3, PTL DEF Spec

(* A step keeps the place a student's list was read with an upper bound.    *)
LEMMA ListStep ==
    ASSUME TypeInv, ListInv, [Next]_vars
    PROVE  ListInv'
  <1> SUFFICES ASSUME NEW q \in Request, pc'[q] = "list", NEW r, r = loc'[q].id
               PROVE  /\ Position(r)' <= loc'[q].position
                      /\ reg'[r] = "confirmed" => \A x \in Waitlisted(event_id[r])' : x > r
    BY DEF ListInv, Position
  <1>1. CASE pc'[q] = pc[q] /\ loc'[q] = loc[q]
    <2>0. /\ loc[q] \in Locals /\ r = loc[q].id
          /\ loc[q].id # NONE /\ reg[loc[q].id] # "absent" /\ loc[q].position # NONE
      BY <1>1 DEF TypeInv, TypeOK, RequestOK
    <2>1. r \in Reg /\ reg[r] # "absent" /\ loc[q].position \in Nat
      BY <2>0, RegIsFinite DEF Locals
    <2>2. /\ Position(r) <= loc[q].position
          /\ reg[r] = "confirmed" => \A x \in Waitlisted(event_id[r]) : x > r
      BY <1>1 DEF ListInv
    <2>3. Position(r)' <= Position(r) /\ Position(r)' \in Nat /\ Position(r) \in Nat
      BY <2>1, PlaceStep
    <2>4. Position(r)' <= loc'[q].position
      BY <1>1, <2>1, <2>2, <2>3
    <2>5. ASSUME reg'[r] = "confirmed", NEW x \in Waitlisted(event_id[r])'
          PROVE  x > r
      <3>1. x \in Nat /\ r \in Nat /\ x \in Reg /\ x # r
        BY <2>1, <2>5, RegIsFinite DEF Waitlisted, In
      <3>2. SUFFICES ASSUME x <= r PROVE FALSE
        BY <3>1
      <3>3. x \in Waitlisted(event_id[r])
        BY <2>1, <2>5, <3>2, AheadShrinks
      <3>4. CASE reg[r] = "confirmed"
        BY <2>2, <3>1, <3>2, <3>3, <3>4
      <3>5. CASE reg[r] # "confirmed"
        <4>1. reg[r] = "waitlisted"
          BY <2>1, <2>5, <3>5, RegsStay DEF TypeInv, TypeOK
        <4>2. PICK p \in Request : CancelCommit(p)
          <5>1. ASSUME NEW p \in Request, RegisterCommit(p) PROVE FALSE
            <6>1. PICK y \in Reg : reg[y] = "absent" /\ reg' = [reg EXCEPT ![y] = loc[p].status]
              BY <5>1, RegisterCommitEffect
            <6> QED
              BY <2>1, <2>5, <4>1, <6>1 DEF TypeInv, TypeOK
          <5>2. ~UNCHANGED regs
            BY <2>5, <3>5 DEF regs
          <5> QED
            BY <5>1, <5>2, Writers DEF regs
        <4>3. r \in Next_waitlisted(loc[p].event) /\ r \in Waitlisted(loc[p].event)
          BY <2>1, <2>5, <3>5, <4>2, CancelCommitEffect
        <4>4. event_id[r] = loc[p].event
          BY <4>3 DEF Waitlisted, In
        <4>5. r <= x
          BY <3>3, <4>3, <4>4 DEF Next_waitlisted
        <4> QED
          BY <3>1, <3>2, <4>5
      <3> QED
        BY <3>4, <3>5
    <2> QED
      BY <2>4, <2>5
  <1>2. ASSUME NEW y \in Reg, ListRead(q, y)
        PROVE  /\ Position(r)' <= loc'[q].position
               /\ reg'[r] = "confirmed" => \A x \in Waitlisted(event_id[r])' : x > r
    <2>1. /\ loc'[q] = [NoLocals EXCEPT !.id = y, !.position = Position(y)]
          /\ reg[y] = "waitlisted" /\ UNCHANGED regs
      BY <1>2, BeginEffect DEF ListRead, TypeInv, TypeOK, Begin
    <2>2. loc'[q].id = y /\ loc'[q].position = Position(y)
      BY <2>1 DEF NoLocals
    <2>3. Position(y)' = Position(y)
      BY <2>1 DEF Position, Waitlisted, In, regs
    <2>4. Position(y) \in Nat
      BY PlaceInReg
    <2>5. Position(r)' <= loc'[q].position
      BY <2>2, <2>3, <2>4
    <2> QED
      BY <2>1, <2>2, <2>5 DEF regs
  <1>3. (pc'[q] = pc[q] /\ loc'[q] = loc[q]) \/ \E y \in Reg : ListRead(q, y)
    <2>1. CASE UNCHANGED requests
      BY <2>1 DEF requests
    <2>2. ASSUME NEW p \in Request,
                 /\ \A x \in Request \ {p} : pc'[x] = pc[x] /\ loc'[x] = loc[x]
                 /\ \/ pc'[p] = "idle"
                    \/ \E d \in Event, s \in Student : Register(p, s, d)
                    \/ \E d \in Event : CancelEvent(p, d) \/ Publish(p, d) \/ Update(p, d)
                    \/ \E y \in Reg : CancelRead(p, y) \/ ListRead(p, y)
                    \/ CancelLock(p)
          PROVE  (pc'[q] = pc[q] /\ loc'[q] = loc[q]) \/ \E y \in Reg : ListRead(q, y)
      <3>1. CASE p # q
        BY <2>2, <3>1
      <3>2. CASE p = q
        BY <2>2, <3>2, RegisterEffect, CancelEventEffect, EditEffect, CancelReadEffect,
           CancelLockEffect
      <3> QED
        BY <3>1, <3>2
    <2> QED
      BY <2>1, <2>2, OneMoves
  <1> QED
    BY <1>1, <1>2, <1>3

(* What a list answers with follows from what is kept. *)
LEMMA ListedIsSafe ==
    ASSUME TypeInv, ListInv
    PROVE  ListedPositionIsSafe
  <1> SUFFICES ASSUME NEW q \in Request, pc[q] = "list", NEW r, r = loc[q].id
               PROVE  /\ Position(r) <= loc[q].position
                      /\ reg[r] = "waitlisted" => Position(r) > 0
                      /\ reg[r] = "confirmed" => Position(r) = 0
    BY DEF ListedPositionIsSafe
  <1>1. r \in Reg
    BY DEF TypeInv, TypeOK, Locals, RequestOK
  <1>2. ASSUME reg[r] = "waitlisted" PROVE Position(r) > 0
    <2>1. Position(r) \in Reg
      BY <1>1, <1>2, PlaceInReg DEF Waitlisted, In
    <2> QED
      BY <2>1, BoundAssumption DEF Reg
  <1>3. ASSUME reg[r] = "confirmed" PROVE Position(r) = 0
    <2>1. \A x \in Waitlisted(event_id[r]) : x > r /\ x \in Nat
      BY <1>3, InReg, RegIsFinite DEF ListInv
    <2>2. {x \in Waitlisted(event_id[r]) : x <= r} = {}
      BY <1>1, <2>1, RegIsFinite
    <2> QED
      BY <2>2, FS_EmptySet DEF Position
  <1> QED
    BY <1>2, <1>3 DEF ListInv

(* The position a student's list answers with is never worse than when the  *)
(* row was read, and 0 exactly for one that was promoted in between         *)
(* (ListedPositionIsSafe).                                                  *)
THEOREM ListsAreSafe == Spec => []ListedPositionIsSafe
  <1>1. Init => ListInv
    BY DEF Init, ListInv
  <1>2. TypeInv /\ ListInv /\ [Next]_vars => ListInv'
    BY ListStep
  <1>3. TypeInv /\ ListInv => ListedPositionIsSafe
    BY ListedIsSafe
  <1> QED
    BY TypeInit, TypeStep, <1>1, <1>2, <1>3, PTL DEF Spec
=============================================================================
