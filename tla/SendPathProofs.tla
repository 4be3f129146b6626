--------------------------- MODULE SendPathProofs ---------------------------
(***************************************************************************)
(* Proofs about one worker process and its sends, for every set of tasks,  *)
(* of users and of tokens and every size of the pool.                      *)
(***************************************************************************)
EXTENDS SendPath, FiniteSetTheorems, TLAPS

Elements(s) == {s[i] : i \in DOMAIN s}
Distinct(s) == \A i, k \in DOMAIN s : s[i] = s[k] => i = k

Sending == {"connect", "login", "mail"}
InUse   == {held[j] : j \in Task} \ {NONE}
Active  == {j \in Task : step[j] # "queued"}

(* A task holds a client while it is inside Mailer.send, and only then. *)
HoldsOK == \A j \in Task : held[j] # NONE <=> step[j] \in Sending

(* No client is held twice, queued twice, or held and queued; while the     *)
(* process lives none is missing.                                           *)
PoolInv ==
    /\ Distinct(pool)
    /\ \A i, j \in Task : held[i] # NONE /\ held[i] = held[j] => i = j
    /\ Elements(pool) \cap InUse = {}
    /\ mode # "closed" => Elements(pool) \cup InUse = Client

(* The semaphore: at most as many jobs as clients. *)
SlotsOK == IsFiniteSet(Active) /\ Cardinality(Active) <= Concurrency

(* The pool is closed after the tasks are gone. *)
ClosedIsQuiet == mode = "closed" => \A j \in Task : step[j] = "queued"

(* A connection is not ready before its login. *)
LoginFirst ==
    \A j \in Task : step[j] = "login" => conn[held[j]] \in {"closed", "connected"}

(* A send that ended has an outcome. *)
EndHasOutcome ==
    \A j \in Task : step[j] = "end" => outcome[j] \in {"completed", "transient", "permanent"}

TypeInv ==
    /\ TypeOK /\ HoldsOK /\ PoolInv /\ SlotsOK
    /\ ClosedIsQuiet /\ LoginFirst /\ EndHasOutcome

(* While the process is up, a connection without login belongs to a task    *)
(* that is about to log in, or its login has failed.                        *)
LoginPending ==
    Username /\ mode = "up" =>
        \A c \in Client : conn[c] = "connected" =>
            c \in tainted \/ \E j \in Task : step[j] = "login" /\ held[j] = c

(* What a push has in hand to delete was reported dead. *)
DeadInDoubt == \A j \in Task : dead[j] \subseteq doubt

LoginInv  == LoginPending /\ LoginSkippedOnlyAfterFailure
DeviceInv == DeadInDoubt /\ DevicesAreKept

-----------------------------------------------------------------------------
(* Queues of distinct clients *)

(* put_nowait adds an element at the end. *)
LEMMA AppendDistinct ==
    ASSUME NEW C, NEW s \in Seq(C), Distinct(s), NEW c \in C, c \notin Elements(s)
    PROVE  /\ Append(s, c) \in Seq(C) /\ Distinct(Append(s, c))
           /\ Elements(Append(s, c)) = Elements(s) \cup {c}
  <1> DEFINE t == Append(s, c)
  <1>1. /\ t \in Seq(C) /\ DOMAIN t = 1 .. Len(s) + 1 /\ DOMAIN s = 1 .. Len(s) /\ Len(s) \in Nat
        /\ \A i \in 1 .. Len(s) : t[i] = s[i]
        /\ t[Len(s) + 1] = c
    OBVIOUS
  <1> HIDE DEF t
  <1>2. \A i \in DOMAIN t : (i \in DOMAIN s /\ t[i] = s[i]) \/ (i = Len(s) + 1 /\ t[i] = c)
    BY <1>1
  <1>3. \A i \in DOMAIN s : i \in DOMAIN t /\ t[i] = s[i]
    BY <1>1
  <1>4. Distinct(t)
    BY <1>2 DEF Distinct, Elements
  <1>5. Elements(t) = Elements(s) \cup {c}
    BY <1>1, <1>2, <1>3 DEF Elements
  <1> QED
    BY <1>1, <1>4, <1>5 DEF t

(* get takes the first element away. *)
LEMMA TailDistinct ==
    ASSUME NEW C, NEW s \in Seq(C), Distinct(s), s # <<>>
    PROVE  /\ Tail(s) \in Seq(C) /\ Distinct(Tail(s))
           /\ Head(s) \in C /\ Head(s) \in Elements(s)
           /\ Elements(Tail(s)) = Elements(s) \ {Head(s)}
  <1> DEFINE t == Tail(s)
  <1>1. /\ t \in Seq(C) /\ Len(s) \in Nat \ {0} /\ DOMAIN t = 1 .. Len(s) - 1 /\ DOMAIN s = 1 .. Len(s)
        /\ \A i \in 1 .. Len(s) - 1 : t[i] = s[i + 1]
        /\ Head(s) = s[1] /\ Head(s) \in C
    OBVIOUS
  <1> HIDE DEF t
  <1>2. \A i \in DOMAIN t : i + 1 \in DOMAIN s /\ i + 1 # 1 /\ t[i] = s[i + 1]
    BY <1>1
  <1>3. \A i \in DOMAIN s : i = 1 \/ (i - 1 \in DOMAIN t /\ t[i - 1] = s[i])
    BY <1>1
  <1>4. Distinct(t)
    <2> SUFFICES ASSUME NEW i \in DOMAIN t, NEW k \in DOMAIN t, t[i] = t[k] PROVE i = k
      BY DEF Distinct
    <2>1. s[i + 1] = s[k + 1] /\ i + 1 \in DOMAIN s /\ k + 1 \in DOMAIN s
      BY <1>2
    <2>2. i + 1 = k + 1 /\ i \in Nat /\ k \in Nat
      BY <1>1, <2>1 DEF Distinct
    <2> QED
      BY <2>2
  <1>5. 1 \in DOMAIN s
    BY <1>1
  <1>6. Elements(t) \subseteq Elements(s) \ {Head(s)}
    <2> SUFFICES ASSUME NEW i \in DOMAIN t PROVE t[i] \in Elements(s) /\ t[i] # Head(s)
      BY DEF Elements
    <2> QED
      BY <1>1, <1>2, <1>5 DEF Elements, Distinct
  <1>7. Elements(s) \ {Head(s)} \subseteq Elements(t)
    BY <1>1, <1>3 DEF Elements
  <1> QED
    BY <1>1, <1>4, <1>5, <1>6, <1>7 DEF t, Elements

(* A queue without repetitions is as long as its set of elements. *)
LEMMA DistinctCount ==
    ASSUME NEW C, NEW s \in Seq(C), Distinct(s)
    PROVE  /\ IsFiniteSet(Elements(s)) /\ Cardinality(Elements(s)) = Len(s)
           /\ Elements(s) \subseteq C
  <1>1. Len(s) \in Nat /\ DOMAIN s = 1 .. Len(s) /\ s \in [1 .. Len(s) -> Elements(s)]
    BY DEF Elements
  <1>2. s \in Injection(1 .. Len(s), Elements(s)) /\ s \in Surjection(1 .. Len(s), Elements(s))
    BY <1>1 DEF Injection, IsInjective, Surjection, Elements, Distinct
  <1>3. IsFiniteSet(1 .. Len(s)) /\ Cardinality(1 .. Len(s)) = Len(s)
    BY <1>1, FS_Interval
  <1>4. IsFiniteSet(Elements(s)) /\ Cardinality(Elements(s)) = Cardinality(1 .. Len(s))
    BY <1>2, <1>3, FS_Surjection
  <1>5. Elements(s) \subseteq C
    BY <1>1 DEF Elements
  <1> QED
    BY <1>3, <1>4, <1>5

(* A queue of all clients, as long as there are clients, has no repetitions. *)
LEMMA FreshPoolDistinct ==
    ASSUME NEW p \in FreshPool
    PROVE  /\ p \in Seq(Client) /\ Distinct(p) /\ Elements(p) = Client
           /\ Len(p) = Concurrency
  <1>1. Concurrency \in Nat /\ IsFiniteSet(Client)
    BY SendAssumption, FS_CardinalityType DEF Concurrency
  <1>2. p \in [1 .. Concurrency -> Client] /\ {p[i] : i \in 1 .. Concurrency} = Client
    BY DEF FreshPool
  <1>3. p \in Surjection(1 .. Concurrency, Client)
    BY <1>2 DEF Surjection
  <1>4. IsFiniteSet(1 .. Concurrency) /\ Cardinality(1 .. Concurrency) = Concurrency
    BY <1>1, FS_Interval
  <1>5. p \in Injection(1 .. Concurrency, Client)
    BY <1>3, <1>4, FS_SurjSameCardinalityImpliesInj DEF Concurrency
  <1>6. DOMAIN p = 1 .. Concurrency
    BY <1>2
  <1>7. Distinct(p)
    BY <1>5, <1>6 DEF Injection, IsInjective, Distinct
  <1>8. Elements(p) = Client
    BY <1>2, <1>6 DEF Elements
  <1>9. p \in Seq(Client) /\ Len(p) = Concurrency
    BY <1>1, <1>2
  <1> QED
    BY <1>7, <1>8, <1>9

-----------------------------------------------------------------------------
(* Types, and who holds which client *)

FlowType ==
    /\ mode \in {"up", "stopping", "closed"}
    /\ step \in [Task -> Step]
    /\ outcome \in [Task -> {NONE, "completed", "transient", "permanent"}]
    /\ user \in [Task -> User \cup {NONE}]
    /\ tokens \in [Task -> SUBSET Token] /\ dead \in [Task -> SUBSET Token]

DeviceType ==
    /\ device \in [Token -> User \cup {NONE}]
    /\ creating \subseteq User \X Token
    /\ alive \subseteq Token /\ doubt \subseteq Token
    /\ wanted \in [Token -> User \cup {NONE}]

(* Every step keeps the types of the tasks' own state.  A send that ended   *)
(* has an outcome, and a process that is closed has no task.                *)
LEMMA FlowStep ==
    ASSUME TypeInv, [Next]_vars
    PROVE  FlowType' /\ EndHasOutcome' /\ ClosedIsQuiet'
  <1> DEFINE Goal == FlowType' /\ EndHasOutcome' /\ ClosedIsQuiet'
  <1> SUFFICES Goal
    OBVIOUS
  <1> USE SendAssumption DEF TypeInv, TypeOK, FlowType, EndHasOutcome, ClosedIsQuiet, Step, Mailing, Pushing
  <1>1. ASSUME UNCHANGED <<mode, step, outcome, user, tokens, dead>> PROVE Goal
    BY <1>1
  <1>2. CASE Stop
    BY <1>2 DEF Stop, push
  <1>3. CASE Close
    BY <1>3 DEF Close, push
  <1>4. CASE Restart
    BY <1>4 DEF Restart, push
  <1>5. ASSUME NEW c \in Client, ServerDrops(c) PROVE Goal
    BY <1>1, <1>5 DEF ServerDrops, push
  <1>6. ASSUME NEW j \in Task, NEW u \in User, Begin(j, u) PROVE Goal
    BY <1>6 DEF Begin, GoTo, push
  <1>7. ASSUME NEW j \in Task, Undeliverable(j) PROVE Goal
    BY <1>7 DEF Undeliverable, End, GoTo, push
  <1>8. ASSUME NEW j \in Task, CheckOut(j) PROVE Goal
    BY <1>8 DEF CheckOut, GoTo, push
  <1>9. ASSUME NEW j \in Task, Connect(j) \/ Login(j) \/ MailOk(j) PROVE Goal
    BY <1>9 DEF Connect, Login, MailOk, GoTo, push
  <1>10. ASSUME NEW j \in Task, NEW e \in Failure, Fail(j, e) PROVE Goal
    <2>1. /\ mode = "up" /\ UNCHANGED <<mode, user, tokens, dead>>
          /\ step' = [step EXCEPT ![j] = "end"]
          /\ outcome' = [outcome EXCEPT ![j] = classify(e)]
      BY <1>10 DEF Fail, End, GoTo, push
    <2>2. classify(e) \in {"transient", "permanent"}
      BY DEF classify
    <2> HIDE DEF Goal
    <2>3. outcome' \in [Task -> {NONE, "completed", "transient", "permanent"}]
      BY <2>1, <2>2
    <2>4. EndHasOutcome'
      BY <2>1, <2>2
    <2> QED
      BY <2>1, <2>3, <2>4 DEF Goal
  <1>11. ASSUME NEW j \in Task, PushEnds(j) PROVE Goal
    BY <1>11 DEF PushEnds, Completed, End, GoTo
  <1>12. ASSUME NEW j \in Task, LoadTokens(j) PROVE Goal
    BY <1>12 DEF LoadTokens, GoTo
  <1>13. ASSUME NEW j \in Task, Post(j) PROVE Goal
    BY <1>13 DEF Post, Unregistered, GoTo
  <1>14. ASSUME NEW j \in Task, Prune(j) PROVE Goal
    BY <1>14 DEF Prune, Completed, End, GoTo
  <1>15. ASSUME NEW j \in Task, Done(j) PROVE Goal
    BY <1>15 DEF Done, GoTo, push
  <1>16. ASSUME NEW j \in Task, Cancel(j) PROVE Goal
    BY <1>16 DEF Cancel
  <1>17. ASSUME NEW t \in Token, TokenDies(t) PROVE Goal
    BY <1>1, <1>17 DEF TokenDies, push
  <1>18. ASSUME NEW u \in User, NEW t \in Token,
                Rebind(u, t) \/ NotFound(u, t) \/ Create(u, t) \/ Unregister(u, t)
         PROVE  Goal
    BY <1>1, <1>18 DEF Rebind, NotFound, Create, Unregister, push
  <1>19. CASE UNCHANGED vars
    BY <1>1, <1>19 DEF vars, push
  <1> HIDE DEF Goal, TypeInv
  <1> QED
    BY <1>2, <1>3, <1>4, <1>5, <1>6, <1>7, <1>8, <1>9, <1>10, <1>11, <1>12, <1>13, <1>14, <1>15,
       <1>16, <1>17, <1>18, <1>19
    DEF Next

(* Every step keeps the types of the devices table and of its history. *)
LEMMA DeviceTypeStep ==
    ASSUME TypeInv, [Next]_vars
    PROVE  DeviceType'
  <1> USE DEF TypeInv, TypeOK, DeviceType
  <1>1. ASSUME UNCHANGED <<devices, doubt>> PROVE DeviceType'
    BY <1>1 DEF devices
  <1>2. ASSUME NEW u \in User, NEW t \in Token, Bind(u, t), creating' \subseteq creating
        PROVE  DeviceType'
    BY <1>2 DEF Bind
  <1>3. ASSUME NEW j \in Task, Post(j) PROVE DeviceType'
    BY <1>3 DEF Post, devices
  <1>4. ASSUME NEW j \in Task, Prune(j) PROVE DeviceType'
    BY <1>4 DEF Prune
  <1>5. ASSUME NEW t \in Token, TokenDies(t) PROVE DeviceType'
    BY <1>5 DEF TokenDies
  <1>6. ASSUME NEW u \in User, NEW t \in Token, Rebind(u, t) PROVE DeviceType'
    BY <1>2, <1>6 DEF Rebind
  <1>7. ASSUME NEW u \in User, NEW t \in Token, NotFound(u, t) PROVE DeviceType'
    BY <1>7 DEF NotFound
  <1>8. ASSUME NEW u \in User, NEW t \in Token, Create(u, t) PROVE DeviceType'
    BY <1>2, <1>8 DEF Create
  <1>9. ASSUME NEW u \in User, NEW t \in Token, Unregister(u, t) PROVE DeviceType'
    BY <1>9 DEF Unregister
  <1>10. ASSUME NEW j \in Task,
                \/ \E u \in User : Begin(j, u)
                \/ Undeliverable(j) \/ CheckOut(j) \/ Connect(j) \/ Login(j) \/ MailOk(j)
                \/ \E e \in Failure : Fail(j, e)
                \/ PushEnds(j) \/ LoadTokens(j) \/ Done(j) \/ Cancel(j)
         PROVE  UNCHANGED <<devices, doubt>>
    BY <1>10 DEF Begin, Undeliverable, CheckOut, Connect, Login, MailOk, Fail, PushEnds, LoadTokens,
                 Done, Cancel
  <1>11. Stop \/ Close \/ Restart \/ (\E c \in Client : ServerDrops(c)) \/ UNCHANGED vars
            => UNCHANGED <<devices, doubt>>
    BY DEF Stop, Close, Restart, ServerDrops, vars
  <1> HIDE DEF TypeInv, DeviceType
  <1> QED
    BY <1>1, <1>3, <1>4, <1>5, <1>6, <1>7, <1>8, <1>9, <1>10, <1>11 DEF Next

(* Closing the mailer ends every connection of the pool, or its QUIT fails. *)
LEMMA CloseConn ==
    ASSUME TypeInv, Close
    PROVE  /\ conn' \in [Client -> {"closed", "connected", "ready", "unquit"}]
           /\ \A c \in Client : \/ conn'[c] \in {"closed", "unquit"}
                                \/ conn'[c] = conn[c] /\ c \notin Elements(pool)
           /\ tainted' = {c \in tainted : conn'[c] = "connected"}
           /\ pool' = <<>>
  <1>1. PICK failed \in SUBSET Elements(pool) :
          /\ conn' = [c \in Client |->
                        IF c \in failed THEN "unquit"
                        ELSE IF \E i \in DOMAIN pool : pool[i] = c THEN "closed" ELSE conn[c]]
          /\ tainted' = {c \in tainted : conn'[c] = "connected"}
          /\ pool' = <<>>
    BY DEF Close, QuitPool, Elements
  <1>2. conn \in [Client -> {"closed", "connected", "ready", "unquit"}]
    BY DEF TypeInv, TypeOK
  <1>3. \A c \in Client : /\ c \in failed => conn'[c] = "unquit"
                          /\ c \notin failed /\ c \in Elements(pool) => conn'[c] = "closed"
                          /\ c \notin failed /\ c \notin Elements(pool) => conn'[c] = conn[c]
    BY <1>1 DEF Elements
  <1>4. conn' = [c \in Client |-> conn'[c]]
    BY <1>1
  <1>5. \A c \in Client : conn'[c] \in {"closed", "connected", "ready", "unquit"}
    BY <1>2, <1>3
  <1>6. conn' \in [Client -> {"closed", "connected", "ready", "unquit"}]
    BY <1>4, <1>5
  <1> QED
    BY <1>1, <1>3, <1>6

(* The three things a step can do to the pool while the process lives. *)
Leaves ==
    /\ UNCHANGED <<held, pool>> /\ (mode' # "closed" => mode # "closed")
    /\ \A j \in Task : step'[j] \in Sending <=> step[j] \in Sending

Takes(j) ==
    /\ mode = "up" /\ mode' = mode /\ pool # <<>>
    /\ step[j] \notin Sending /\ step'[j] \in Sending
    /\ \A i \in Task \ {j} : step'[i] = step[i]
    /\ held' = [held EXCEPT ![j] = Head(pool)]
    /\ pool' = Tail(pool)

Gives(j) ==
    /\ mode # "closed" /\ mode' = mode
    /\ held[j] \in Client /\ step'[j] \notin Sending
    /\ \A i \in Task \ {j} : step'[i] = step[i]
    /\ PutBack(j)

(* A step leaves the pool alone, takes a client, gives one back, or is the  *)
(* shutdown or the start of the process.                                    *)
LEMMA PoolEffect ==
    ASSUME TypeInv, [Next]_vars
    PROVE  \/ Leaves \/ Close \/ Restart
           \/ \E j \in Task : Takes(j) \/ Gives(j)
  <1> DEFINE Goal == \/ Leaves \/ Close \/ Restart
                     \/ \E j \in Task : Takes(j) \/ Gives(j)
  <1> SUFFICES Goal
    OBVIOUS
  <1> USE DEF TypeInv, TypeOK, HoldsOK, Sending
  <1>1. ASSUME UNCHANGED <<mode, held, pool, step>> PROVE Goal
    BY <1>1 DEF Leaves
  <1>2. ASSUME UNCHANGED <<mode, held, pool>>, NEW j \in Task, NEW x \in Step \ Sending,
               step[j] \notin Sending, step' = [step EXCEPT ![j] = x]
        PROVE  Goal
    BY <1>2 DEF Leaves
  <1>3. CASE Stop
    BY <1>3 DEF Stop, smtp, Leaves
  <1>4. ASSUME NEW c \in Client, ServerDrops(c) PROVE Goal
    BY <1>1, <1>4 DEF ServerDrops
  <1>5. ASSUME NEW j \in Task, NEW u \in User, Begin(j, u) PROVE Goal
    BY <1>2, <1>5 DEF Begin, GoTo, smtp, Step, Mailing
  <1>6. ASSUME NEW j \in Task, Undeliverable(j) PROVE Goal
    BY <1>2, <1>6 DEF Undeliverable, End, GoTo, smtp, Step
  <1>7. ASSUME NEW j \in Task, CheckOut(j) PROVE Goal
    <2>1. Takes(j)
      BY <1>7 DEF CheckOut, GoTo, Takes
    <2> QED
      BY <2>1
  <1>8. ASSUME NEW j \in Task, Connect(j) \/ Login(j) PROVE Goal
    <2>1. UNCHANGED <<mode, held, pool>> /\ step[j] \in Sending
      BY <1>8 DEF Connect, Login
    <2>2. \E x \in Sending : step' = [step EXCEPT ![j] = x]
      BY <1>8 DEF Connect, Login, GoTo
    <2> QED
      BY <2>1, <2>2 DEF Leaves
  <1>9. ASSUME NEW j \in Task, MailOk(j) PROVE Goal
    <2>1. Gives(j)
      BY <1>9 DEF MailOk, GoTo, Gives
    <2> QED
      BY <2>1
  <1>10. ASSUME NEW j \in Task, NEW e \in Failure, Fail(j, e) PROVE Goal
    <2>1. Gives(j)
      BY <1>10 DEF Fail, End, GoTo, Gives
    <2> QED
      BY <2>1
  <1>11. ASSUME NEW j \in Task, PushEnds(j) \/ LoadTokens(j) \/ Post(j) \/ Prune(j) \/ Done(j)
         PROVE  Goal
    <2>1. UNCHANGED <<mode, held, pool>> /\ step[j] \notin Sending
      BY <1>11 DEF PushEnds, LoadTokens, Post, Prune, Done, smtp, Pushing
    <2>2. \E x \in Step \ Sending : step' = [step EXCEPT ![j] = x]
      BY <1>11 DEF PushEnds, LoadTokens, Post, Prune, Done, Completed, End, GoTo, Step, Pushing
    <2> QED
      BY <1>2, <2>1, <2>2
  <1>12. ASSUME NEW j \in Task, Cancel(j) PROVE Goal
    <2>1. mode = "stopping" /\ mode' = mode /\ step' = [step EXCEPT ![j] = "queued"]
      BY <1>12 DEF Cancel
    <2>2. CASE held[j] = NONE
      <3>1. UNCHANGED <<mode, held, pool>> /\ step[j] \notin Sending
        BY <1>12, <2>2 DEF Cancel
      <3>2. "queued" \in Step \ Sending
        BY DEF Step
      <3> QED
        BY <1>2, <2>1, <3>1, <3>2
    <2>3. CASE held[j] # NONE
      <3>1. Gives(j)
        BY <1>12, <2>1, <2>3 DEF Cancel, Gives
      <3> QED
        BY <3>1
    <2> QED
      BY <2>2, <2>3
  <1>13. ASSUME NEW t \in Token, TokenDies(t) PROVE Goal
    BY <1>1, <1>13 DEF TokenDies, smtp
  <1>14. ASSUME NEW u \in User, NEW t \in Token,
                Rebind(u, t) \/ NotFound(u, t) \/ Create(u, t) \/ Unregister(u, t)
         PROVE  Goal
    BY <1>1, <1>14 DEF Rebind, NotFound, Create, Unregister, smtp
  <1>15. CASE UNCHANGED vars
    BY <1>1, <1>15 DEF vars, smtp
  <1> HIDE DEF Goal, TypeInv
  <1>16. Close \/ Restart => Goal
    BY DEF Goal
  <1> QED
    BY <1>3, <1>4, <1>5, <1>6, <1>7, <1>8, <1>9, <1>10, <1>11, <1>12, <1>13, <1>14, <1>15, <1>16
    DEF Next

(* Every step keeps the pool whole: no client is lost, none is handed out   *)
(* twice, and a task holds one exactly while it sends.                      *)
LEMMA PoolStep ==
    ASSUME TypeInv, [Next]_vars
    PROVE  /\ held' \in [Task -> Client \cup {NONE}] /\ pool' \in Seq(Client)
           /\ HoldsOK' /\ PoolInv'
  <1> DEFINE Goal == /\ held' \in [Task -> Client \cup {NONE}] /\ pool' \in Seq(Client)
                     /\ HoldsOK' /\ PoolInv'
  <1> SUFFICES Goal
    OBVIOUS
  <1>0. /\ held \in [Task -> Client \cup {NONE}] /\ pool \in Seq(Client) /\ NONE \notin Client
        /\ HoldsOK /\ PoolInv
    BY SendAssumption DEF TypeInv, TypeOK
  <1>1. CASE Leaves
    <2>1. HoldsOK'
      BY <1>0, <1>1 DEF Leaves, HoldsOK
    <2>2. InUse' = InUse /\ Elements(pool)' = Elements(pool)
      BY <1>1 DEF Leaves, InUse, Elements
    <2>3. PoolInv'
      BY <1>0, <1>1, <2>2 DEF Leaves, PoolInv, Distinct
    <2> QED
      BY <1>0, <1>1, <2>1, <2>3 DEF Leaves
  <1>2. ASSUME NEW j \in Task, Takes(j) PROVE Goal
    <2> DEFINE c == Head(pool)
    <2>1. /\ Tail(pool) \in Seq(Client) /\ Distinct(Tail(pool)) /\ c \in Client
          /\ c \in Elements(pool) /\ Elements(Tail(pool)) = Elements(pool) \ {c}
      BY <1>0, <1>2, TailDistinct DEF PoolInv, Takes
    <2>2. held[j] = NONE
      BY <1>0, <1>2 DEF Takes, HoldsOK
    <2>3. /\ held' \in [Task -> Client \cup {NONE}] /\ held'[j] = c
          /\ \A i \in Task \ {j} : held'[i] = held[i]
      BY <1>0, <1>2, <2>1 DEF Takes
    <2> HIDE DEF c
    <2>4. InUse' = InUse \cup {c}
      BY <1>0, <2>1, <2>2, <2>3 DEF InUse
    <2>5. \A i \in Task : held[i] # c
      BY <1>0, <2>1 DEF PoolInv, InUse
    <2>6. Elements(pool') = Elements(pool) \ {c} /\ Distinct(pool') /\ pool' \in Seq(Client)
      BY <1>2, <2>1 DEF Takes
    <2>7. \A i, k \in Task : held'[i] # NONE /\ held'[i] = held'[k] => i = k
      BY <1>0, <2>3, <2>5 DEF PoolInv
    <2>8. PoolInv'
      BY <1>0, <1>2, <2>1, <2>4, <2>6, <2>7 DEF PoolInv, Takes
    <2>9. HoldsOK'
      BY <1>0, <1>2, <2>1, <2>3 DEF HoldsOK, Takes
    <2> QED
      BY <2>3, <2>6, <2>8, <2>9
  <1>3. ASSUME NEW j \in Task, Gives(j) PROVE Goal
    <2> DEFINE c == held[j]
    <2>1. c \in Client /\ c # NONE /\ c \in InUse /\ c \notin Elements(pool)
      BY <1>0, <1>3 DEF Gives, PoolInv, InUse
    <2>2. /\ Append(pool, c) \in Seq(Client) /\ Distinct(Append(pool, c))
          /\ Elements(Append(pool, c)) = Elements(pool) \cup {c}
      BY <1>0, <2>1, AppendDistinct DEF PoolInv
    <2>3. pool' = Append(pool, c) /\ held' = [held EXCEPT ![j] = NONE]
      BY <1>3 DEF Gives, PutBack
    <2>4. /\ held' \in [Task -> Client \cup {NONE}] /\ held'[j] = NONE
          /\ \A i \in Task \ {j} : held'[i] = held[i] /\ held[i] # c
      BY <1>0, <2>1, <2>3 DEF PoolInv
    <2>5. \A i \in Task : held[i] = c => i = j
      BY <2>4
    <2>6. InUse' = InUse \ {c}
      <3>1. InUse' \subseteq InUse \ {c}
        BY <2>4 DEF InUse
      <3>2. InUse \ {c} \subseteq InUse'
        BY <2>4 DEF InUse
      <3> QED
        BY <3>1, <3>2
    <2>7. Elements(pool') = Elements(pool) \cup {c} /\ Distinct(pool') /\ pool' \in Seq(Client)
      BY <2>2, <2>3
    <2>8. \A i, k \in Task : held'[i] # NONE /\ held'[i] = held'[k] => i = k
      BY <1>0, <2>4 DEF PoolInv
    <2> HIDE DEF c
    <2>9. PoolInv'
      BY <1>0, <1>3, <2>1, <2>6, <2>7, <2>8 DEF PoolInv, Gives
    <2>10. HoldsOK'
      BY <1>0, <1>3, <2>4 DEF HoldsOK, Gives
    <2> QED
      BY <2>4, <2>7, <2>9, <2>10
  <1>4. CASE Close
    <2>1. pool' = <<>> /\ held' = held /\ mode' = "closed" /\ step' = step
      BY <1>4, CloseConn DEF Close
    <2>2. pool' \in Seq(Client) /\ Distinct(pool') /\ Elements(pool') = {}
      BY <2>1 DEF Distinct, Elements
    <2> QED
      BY <1>0, <2>1, <2>2 DEF PoolInv, HoldsOK
  <1>5. CASE Restart
    <2>1. pool' \in FreshPool /\ held' = held /\ step' = step /\ mode = "closed"
      BY <1>5 DEF Restart
    <2>2. pool' \in Seq(Client) /\ Distinct(pool') /\ Elements(pool') = Client
      BY <2>1, FreshPoolDistinct
    <2>3. \A i \in Task : held[i] = NONE
      BY <1>0, <2>1 DEF TypeInv, ClosedIsQuiet, HoldsOK, Sending
    <2>4. InUse' = {}
      BY <2>1, <2>3 DEF InUse
    <2> QED
      BY <1>0, <2>1, <2>2, <2>3, <2>4 DEF PoolInv, HoldsOK
  <1> HIDE DEF Goal
  <1> QED
    BY <1>1, <1>2, <1>3, <1>4, <1>5, PoolEffect

(* Only the semaphore lets a job begin. *)
LEMMA ActiveStep ==
    ASSUME TypeInv, [Next]_vars, NEW j \in Task, step[j] = "queued", step'[j] # "queued"
    PROVE  \E u \in User : Begin(j, u)
  <1> DEFINE Goal == \E u \in User : Begin(j, u)
  <1> SUFFICES Goal
    OBVIOUS
  <1> USE DEF TypeInv, TypeOK
  <1>1. ASSUME UNCHANGED step PROVE Goal
    BY <1>1
  <1>2. ASSUME NEW i \in Task, NEW x, step[i] # "queued", step' = [step EXCEPT ![i] = x] PROVE Goal
    BY <1>2
  <1>3. ASSUME NEW i \in Task, NEW u \in User, Begin(i, u) PROVE Goal
    BY <1>3 DEF Begin, GoTo
  <1>4. ASSUME NEW i \in Task,
               \/ Undeliverable(i) \/ CheckOut(i) \/ Connect(i) \/ Login(i) \/ MailOk(i)
               \/ \E e \in Failure : Fail(i, e)
               \/ PushEnds(i) \/ LoadTokens(i) \/ Post(i) \/ Prune(i) \/ Done(i) \/ Cancel(i)
        PROVE  Goal
    <2>1. step[i] # "queued"
      BY <1>4 DEF Undeliverable, CheckOut, Connect, Login, MailOk, Fail, PushEnds, LoadTokens, Post,
                  Prune, Done, Cancel, Pushing
    <2>2. \E x : step' = [step EXCEPT ![i] = x]
      BY <1>4 DEF Undeliverable, CheckOut, Connect, Login, MailOk, Fail, PushEnds, LoadTokens, Post,
                  Prune, Done, Cancel, Completed, End, GoTo
    <2> QED
      BY <1>2, <2>1, <2>2
  <1>5. ASSUME NEW u \in User, NEW t \in Token,
               Rebind(u, t) \/ NotFound(u, t) \/ Create(u, t) \/ Unregister(u, t) \/ TokenDies(t)
        PROVE  UNCHANGED step
    BY <1>5 DEF Rebind, NotFound, Create, Unregister, TokenDies
  <1>6. ASSUME NEW t \in Token, TokenDies(t) PROVE UNCHANGED step
    BY <1>6 DEF TokenDies
  <1>7. Stop \/ Close \/ Restart \/ (\E c \in Client : ServerDrops(c)) \/ UNCHANGED vars
          => UNCHANGED step
    BY DEF Stop, Close, Restart, ServerDrops, vars
  <1> HIDE DEF Goal, TypeInv
  <1> QED
    BY <1>1, <1>3, <1>4, <1>5, <1>6, <1>7 DEF Next

(* Every step keeps to the slots of the semaphore. *)
LEMMA SlotsStep ==
    ASSUME TypeInv, [Next]_vars
    PROVE  SlotsOK'
  <1>0. /\ IsFiniteSet(Active) /\ Cardinality(Active) <= Concurrency
        /\ Cardinality(Active) \in Nat /\ Concurrency \in Nat
    BY SendAssumption, FS_CardinalityType DEF TypeInv, SlotsOK, Concurrency
  <1>1. CASE Active' \subseteq Active
    <2>1. IsFiniteSet(Active') /\ Cardinality(Active') <= Cardinality(Active) /\ Cardinality(Active') \in Nat
      BY <1>0, <1>1, FS_Subset, FS_CardinalityType
    <2> QED
      BY <1>0, <2>1 DEF SlotsOK, Concurrency
  <1>2. CASE ~(Active' \subseteq Active)
    <2>1. PICK j \in Task : step[j] = "queued" /\ step'[j] # "queued"
      BY <1>2 DEF Active
    <2>2. PICK u \in User : Begin(j, u)
      BY <2>1, ActiveStep
    <2>3. Active' = Active \cup {j} /\ Cardinality(Active) < Concurrency
      BY <2>2 DEF Begin, GoTo, Active, TypeInv, TypeOK
    <2>4. /\ IsFiniteSet(Active \cup {j})
          /\ Cardinality(Active \cup {j}) = Cardinality(Active) \/ Cardinality(Active \cup {j}) = Cardinality(Active) + 1
      BY <1>0, FS_AddElement
    <2>5. Cardinality(Active \cup {j}) <= Concurrency
      BY <1>0, <2>3, <2>4
    <2> QED
      BY <2>3, <2>4, <2>5 DEF SlotsOK, Concurrency
  <1> QED
    BY <1>1, <1>2

(* A task comes to its login by connecting. *)
LEMMA LoginEffect ==
    ASSUME TypeInv, [Next]_vars, ~\E j \in Task : Connect(j), NEW i \in Task, step'[i] = "login"
    PROVE  step[i] = "login" /\ held'[i] = held[i]
  <1> DEFINE Goal == step[i] = "login" /\ held'[i] = held[i]
  <1> SUFFICES Goal
    OBVIOUS
  <1> USE DEF TypeInv, TypeOK
  <1>1. ASSUME UNCHANGED <<step, held>> PROVE Goal
    BY <1>1
  <1>2. ASSUME NEW j \in Task, NEW x, x # "login", step' = [step EXCEPT ![j] = x],
               \A k \in Task \ {j} : held'[k] = held[k]
        PROVE  Goal
    BY <1>2
  <1>3. ASSUME NEW j \in Task, NEW u \in User, Begin(j, u) PROVE Goal
    BY <1>2, <1>3 DEF Begin, GoTo, smtp
  <1>4. ASSUME NEW j \in Task,
               Undeliverable(j) \/ PushEnds(j) \/ LoadTokens(j) \/ Post(j) \/ Prune(j) \/ Done(j)
        PROVE  Goal
    <2>1. UNCHANGED held
      BY <1>4 DEF Undeliverable, PushEnds, LoadTokens, Post, Prune, Done, smtp
    <2>2. \E x \in {"end", "post", "prune", "queued"} : step' = [step EXCEPT ![j] = x]
      BY <1>4 DEF Undeliverable, PushEnds, LoadTokens, Post, Prune, Done, Completed, End, GoTo
    <2> QED
      BY <1>2, <2>1, <2>2
  <1>5. ASSUME NEW j \in Task,
               CheckOut(j) \/ Login(j) \/ MailOk(j) \/ (\E e \in Failure : Fail(j, e)) \/ Cancel(j)
        PROVE  Goal
    <2>1. \A k \in Task \ {j} : held'[k] = held[k]
      BY <1>5 DEF CheckOut, Login, MailOk, Fail, Cancel, PutBack
    <2>2. \E x \in {"connect", "mail", "tokens", "end", "queued"} : step' = [step EXCEPT ![j] = x]
      BY <1>5 DEF CheckOut, Login, MailOk, Fail, Cancel, End, GoTo
    <2> QED
      BY <1>2, <2>1, <2>2
  <1>6. ASSUME NEW u \in User, NEW t \in Token,
               Rebind(u, t) \/ NotFound(u, t) \/ Create(u, t) \/ Unregister(u, t)
        PROVE  UNCHANGED <<step, held>>
    BY <1>6 DEF Rebind, NotFound, Create, Unregister, smtp
  <1>7. ASSUME NEW t \in Token, TokenDies(t) PROVE UNCHANGED <<step, held>>
    BY <1>7 DEF TokenDies, smtp
  <1>8. Stop \/ Close \/ Restart \/ (\E c \in Client : ServerDrops(c)) \/ UNCHANGED vars
          => UNCHANGED <<step, held>>
    BY DEF Stop, Close, Restart, ServerDrops, vars, smtp
  <1> HIDE DEF Goal, TypeInv
  <1> QED
    BY <1>1, <1>3, <1>4, <1>5, <1>6, <1>7, <1>8 DEF Next

(* Which steps change the state of a connection *)
LEMMA ConnEffect ==
    ASSUME [Next]_vars
    PROVE  \/ UNCHANGED <<conn, tainted>> \/ Close \/ Restart
           \/ \E c \in Client : ServerDrops(c)
           \/ \E j \in Task : Connect(j) \/ Login(j) \/ \E e \in Failure : Fail(j, e)
  <1>1. ASSUME NEW j \in Task,
               \/ \E u \in User : Begin(j, u)
               \/ Undeliverable(j) \/ CheckOut(j) \/ MailOk(j)
               \/ PushEnds(j) \/ LoadTokens(j) \/ Post(j) \/ Prune(j) \/ Done(j) \/ Cancel(j)
        PROVE  UNCHANGED <<conn, tainted>>
    BY <1>1 DEF Begin, Undeliverable, CheckOut, MailOk, PushEnds, LoadTokens, Post, Prune, Done,
                Cancel, smtp
  <1>2. ASSUME NEW u \in User, NEW t \in Token,
               Rebind(u, t) \/ NotFound(u, t) \/ Create(u, t) \/ Unregister(u, t)
        PROVE  UNCHANGED <<conn, tainted>>
    BY <1>2 DEF Rebind, NotFound, Create, Unregister, smtp
  <1>3. ASSUME NEW t \in Token, TokenDies(t) PROVE UNCHANGED <<conn, tainted>>
    BY <1>3 DEF TokenDies, smtp
  <1>4. Stop \/ UNCHANGED vars => UNCHANGED <<conn, tainted>>
    BY DEF Stop, vars, smtp
  <1> QED
    BY <1>1, <1>2, <1>3, <1>4 DEF Next

(* What a failed send does to its client: it may lose the connection, and a *)
(* failed login taints it.                                                  *)
LEMMA FailConn ==
    ASSUME TypeInv, NEW j \in Task, NEW e \in Failure, Fail(j, e)
    PROVE  /\ held[j] \in Client
           /\ \A c \in Client \ {held[j]} : conn'[c] = conn[c] /\ (c \in tainted' <=> c \in tainted)
           /\ \/ conn'[held[j]] = "closed" /\ held[j] \notin tainted'
              \/ /\ conn'[held[j]] = conn[held[j]] /\ conn[held[j]] # "closed"
                 /\ step[j] = "login" => held[j] \in tainted'
                 /\ step[j] # "login" => (held[j] \in tainted' <=> held[j] \in tainted)
           /\ conn' \in [Client -> {"closed", "connected", "ready", "unquit"}] /\ tainted' \subseteq Client
  <1>1. held[j] \in Client /\ step[j] \in Sending
    BY DEF Fail, TypeInv, TypeOK, HoldsOK, Sending
  <1> DEFINE lost == e = "disconnect" \/ step[j] = "connect"
  <1>2. /\ step[j] # "connect" /\ conn[held[j]] = "closed" => e = "disconnect"
        /\ conn' = [conn EXCEPT ![held[j]] = IF lost THEN "closed" ELSE @]
        /\ tainted' = IF lost THEN tainted \ {held[j]}
                      ELSE IF step[j] = "login" THEN tainted \cup {held[j]} ELSE tainted
    BY DEF Fail
  <1>3. CASE lost
    BY <1>1, <1>2, <1>3 DEF TypeInv, TypeOK
  <1>4. CASE ~lost
    BY <1>1, <1>2, <1>4 DEF TypeInv, TypeOK
  <1> QED
    BY <1>3, <1>4

(* Every step keeps the types of the connections, and no connection is      *)
(* ready before its login.                                                  *)
LEMMA ConnStep ==
    ASSUME TypeInv, [Next]_vars
    PROVE  /\ conn' \in [Client -> {"closed", "connected", "ready", "unquit"}]
           /\ tainted' \subseteq {c \in Client : conn'[c] = "connected"}
           /\ LoginFirst'
  <1> DEFINE Goal == /\ conn' \in [Client -> {"closed", "connected", "ready", "unquit"}]
                     /\ tainted' \subseteq {c \in Client : conn'[c] = "connected"}
                     /\ LoginFirst'
  <1> SUFFICES Goal
    OBVIOUS
  <1>0. /\ conn \in [Client -> {"closed", "connected", "ready", "unquit"}] /\ LoginFirst
        /\ tainted \subseteq {c \in Client : conn[c] = "connected"}
        /\ \A i, j \in Task : held[i] # NONE /\ held[i] = held[j] => i = j
        /\ step \in [Task -> Step]
        /\ NONE \notin Client
    BY SendAssumption DEF TypeInv, TypeOK, PoolInv
  <1>h. \A i \in Task : step[i] \in Sending => held[i] \in Client
    BY DEF TypeInv, TypeOK, HoldsOK
  <1>1. CASE ~\E j \in Task : Connect(j)
    <2>0. \A i \in Task : step'[i] = "login" => step[i] = "login" /\ held'[i] = held[i] /\ held[i] \in Client
      BY <1>1, <1>h, LoginEffect DEF Sending
    <2>1. CASE UNCHANGED <<conn, tainted>>
      BY <1>0, <2>0, <2>1 DEF LoginFirst
    <2>2. CASE Close
      <3>1. /\ \A c \in Client : conn'[c] \in {"closed", "unquit"} \/ conn'[c] = conn[c]
            /\ conn' \in [Client -> {"closed", "connected", "ready", "unquit"}]
            /\ tainted' = {c \in tainted : conn'[c] = "connected"}
        BY <2>2, CloseConn
      <3>2. \A i \in Task : step[i] = "queued"
        BY <2>2 DEF Close
      <3> QED
        BY <1>0, <2>0, <3>1, <3>2 DEF LoginFirst
    <2>6. CASE Restart
      BY <1>0, <2>0, <2>6 DEF Restart, LoginFirst
    <2>3. ASSUME NEW c \in Client, ServerDrops(c) PROVE Goal
      BY <1>0, <2>0, <2>3 DEF ServerDrops, SetConn, LoginFirst
    <2>4. ASSUME NEW j \in Task, Login(j) PROVE Goal
      <3>1. /\ held[j] \in Client /\ conn' = [conn EXCEPT ![held[j]] = "ready"]
            /\ tainted' = tainted \ {held[j]} /\ step'[j] = "mail"
        BY <1>0, <1>h, <2>4 DEF Login, SetConn, GoTo, Sending
      <3>2. \A i \in Task : step'[i] = "login" => held[i] # held[j]
        BY <1>0, <2>0, <3>1
      <3>3. LoginFirst'
        BY <1>0, <2>0, <3>1, <3>2 DEF LoginFirst
      <3> QED
        BY <1>0, <3>1, <3>3
    <2>5. ASSUME NEW j \in Task, NEW e \in Failure, Fail(j, e) PROVE Goal
      <3>1. /\ held[j] \in Client
            /\ \A c \in Client : conn'[c] = "closed" \/ conn'[c] = conn[c]
            /\ conn' \in [Client -> {"closed", "connected", "ready", "unquit"}]
        BY <2>5, FailConn
      <3>2. tainted' \subseteq {c \in Client : conn'[c] = "connected"}
        <4>1. step[j] = "login" => conn[held[j]] \in {"closed", "connected"}
          BY <1>0 DEF LoginFirst
        <4> QED
          BY <1>0, <2>5, <4>1, FailConn
      <3>3. LoginFirst'
        BY <1>0, <2>0, <3>1 DEF LoginFirst
      <3> QED
        BY <3>1, <3>2, <3>3
    <2> HIDE DEF Goal
    <2> QED
      BY <1>1, <2>1, <2>2, <2>3, <2>4, <2>5, <2>6, ConnEffect
  <1>2. ASSUME NEW j \in Task, Connect(j) PROVE Goal
    <2>1. /\ held[j] \in Client /\ held' = held
          /\ conn' = [conn EXCEPT ![held[j]] = IF Username THEN "connected" ELSE "ready"]
          /\ tainted' = tainted \ {held[j]}
          /\ step' = [step EXCEPT ![j] = IF Username THEN "login" ELSE "mail"]
      BY <1>0, <1>h, <1>2 DEF Connect, SetConn, GoTo, Sending
    <2>2. \A i \in Task \ {j} : step'[i] = "login" => step[i] = "login" /\ held[i] # held[j]
      BY <1>0, <2>1
    <2>3. step'[j] = "login" => conn'[held[j]] = "connected"
      BY <1>0, <2>1
    <2>4. \A i \in Task \ {j} : step'[i] = "login" => held[i] \in Client
      BY <1>h, <2>2 DEF Sending
    <2>5. LoginFirst'
      BY <1>0, <2>1, <2>2, <2>3, <2>4 DEF LoginFirst
    <2> QED
      BY <1>0, <2>1, <2>5
  <1> QED
    BY <1>1, <1>2

(* The invariant holds when the process starts. *)
LEMMA TypeInit == Init => TypeInv
  <1> SUFFICES ASSUME Init PROVE TypeInv
    OBVIOUS
  <1>1. /\ pool \in Seq(Client) /\ Distinct(pool) /\ Elements(pool) = Client /\ Len(pool) = Concurrency
    BY FreshPoolDistinct DEF Init
  <1>2. Concurrency \in Nat
    BY SendAssumption, FS_CardinalityType DEF Concurrency
  <1>3. InUse = {} /\ Active = {}
    BY DEF Init, InUse, Active
  <1>4. TypeOK
    BY <1>1, <1>2 DEF Init, TypeOK, Step
  <1>5. PoolInv
    BY <1>1, <1>3 DEF PoolInv, Init
  <1>6. SlotsOK
    BY <1>2, <1>3, FS_EmptySet DEF SlotsOK
  <1>7. HoldsOK /\ ClosedIsQuiet /\ LoginFirst /\ EndHasOutcome
    BY DEF Init, HoldsOK, ClosedIsQuiet, LoginFirst, EndHasOutcome, Sending
  <1> QED
    BY <1>4, <1>5, <1>6, <1>7 DEF TypeInv

(* A queue of distinct clients is no longer than there are clients. *)
LEMMA PoolLength ==
    ASSUME NEW p \in Seq(Client), Distinct(p)
    PROVE  Len(p) <= Concurrency
  <1>1. IsFiniteSet(Elements(p)) /\ Cardinality(Elements(p)) = Len(p) /\ Elements(p) \subseteq Client
    BY DistinctCount
  <1>2. Cardinality(Elements(p)) <= Cardinality(Client)
    BY <1>1, SendAssumption, FS_Subset
  <1> QED
    BY <1>1, <1>2 DEF Concurrency

(* Every step keeps the invariant. *)
LEMMA TypeStep == TypeInv /\ [Next]_vars => TypeInv'
  <1> SUFFICES ASSUME TypeInv, [Next]_vars PROVE TypeInv'
    OBVIOUS
  <1>1. FlowType' /\ DeviceType'
    BY FlowStep, DeviceTypeStep
  <1>2. /\ held' \in [Task -> Client \cup {NONE}] /\ pool' \in Seq(Client) /\ PoolInv'
    BY PoolStep
  <1>3. Len(pool') <= Concurrency
    BY <1>2, PoolLength DEF PoolInv
  <1>4. /\ conn' \in [Client -> {"closed", "connected", "ready", "unquit"}]
        /\ tainted' \subseteq {c \in Client : conn'[c] = "connected"}
    BY ConnStep
  <1>5. TypeOK'
    BY <1>1, <1>2, <1>3, <1>4 DEF TypeOK, FlowType, DeviceType, Concurrency
  <1> QED
    BY <1>5, FlowStep, PoolStep, SlotsStep, ConnStep DEF TypeInv

(* Type correctness of the send path. *)
THEOREM TypeCorrect == Spec => []TypeOK
  <1>1. TypeInv => TypeOK
    BY DEF TypeInv
  <1> QED
    BY TypeInit, TypeStep, <1>1, PTL DEF Spec

-----------------------------------------------------------------------------
(* The pool *)

(* A task that has a slot finds a client in the pool: were the pool empty,  *)
(* every client would be with another task that has a slot.                 *)
LEMMA NobodyWaits ==
    ASSUME TypeInv, mode = "up", NEW j \in Task, step[j] = "checkout"
    PROVE  pool # <<>>
  <1> SUFFICES ASSUME pool = <<>> PROVE FALSE
    OBVIOUS
  <1>1. Elements(pool) = {}
    BY DEF Elements
  <1>2. InUse = Client
    BY <1>1 DEF TypeInv, PoolInv
  <1> DEFINE holder == [c \in Client |-> CHOOSE i \in Task : held[i] = c]
  <1>3. \A c \in Client : holder[c] \in Task /\ held[holder[c]] = c
    BY <1>2 DEF InUse
  <1>4. \A c \in Client : holder[c] \in Active \ {j}
    BY <1>3, SendAssumption DEF TypeInv, HoldsOK, Active, Sending
  <1>5. holder \in Injection(Client, Active \ {j})
    <2>1. holder \in [Client -> Active \ {j}]
      BY <1>4
    <2>2. \A c, d \in Client : holder[c] = holder[d] => c = d
      BY <1>3
    <2> HIDE DEF holder
    <2> QED
      BY <2>1, <2>2 DEF Injection, IsInjective
  <1>6. j \in Active /\ IsFiniteSet(Active) /\ Cardinality(Active) <= Concurrency
    BY DEF Active, TypeInv, SlotsOK
  <1>7. IsFiniteSet(Active \ {j}) /\ Cardinality(Active \ {j}) = Cardinality(Active) - 1
    BY <1>6, FS_RemoveElement
  <1>8. Cardinality(Client) <= Cardinality(Active \ {j})
    BY <1>5, <1>7, FS_Injection
  <1>9. Cardinality(Active) \in Nat /\ Concurrency \in Nat
    BY <1>6, SendAssumption, FS_CardinalityType DEF Concurrency
  <1> QED
    BY <1>6, <1>7, <1>8, <1>9 DEF Concurrency

(* Clients are neither lost nor shared, and a task with a slot never waits  *)
(* for one (ClientsConserved).                                              *)
THEOREM ClientsAreConserved == Spec => []ClientsConserved
  <1>1. TypeInv => ClientsConserved
    <2> SUFFICES ASSUME TypeInv PROVE ClientsConserved
      OBVIOUS
    <2>1. pool \in Seq(Client) /\ Distinct(pool)
      BY DEF TypeInv, TypeOK, PoolInv
    <2>2. Cardinality(Elements(pool)) = Len(pool)
      BY <2>1, DistinctCount
    <2> QED
      BY <2>2, NobodyWaits DEF ClientsConserved, TypeInv, PoolInv, Elements, InUse
  <1> QED
    BY TypeInit, TypeStep, <1>1, PTL DEF Spec

-----------------------------------------------------------------------------
(* Shutdown *)

(* Only the shutdown and the start change the mode of the process. *)
LEMMA ModeStep ==
    ASSUME [Next]_vars
    PROVE  mode' = mode \/ Stop \/ Close \/ Restart
  <1>1. ASSUME NEW j \in Task,
               \/ \E u \in User : Begin(j, u)
               \/ Undeliverable(j) \/ CheckOut(j) \/ Connect(j) \/ Login(j) \/ MailOk(j)
               \/ \E e \in Failure : Fail(j, e)
               \/ PushEnds(j) \/ LoadTokens(j) \/ Post(j) \/ Prune(j) \/ Done(j) \/ Cancel(j)
        PROVE  mode' = mode
    BY <1>1 DEF Begin, Undeliverable, CheckOut, Connect, Login, MailOk, Fail, PushEnds, LoadTokens,
                Post, Prune, Done, Cancel
  <1>2. ASSUME NEW u \in User, NEW t \in Token,
               Rebind(u, t) \/ NotFound(u, t) \/ Create(u, t) \/ Unregister(u, t)
        PROVE  mode' = mode
    BY <1>2 DEF Rebind, NotFound, Create, Unregister
  <1>3. ASSUME NEW t \in Token, TokenDies(t) PROVE mode' = mode
    BY <1>3 DEF TokenDies
  <1>4. (\E c \in Client : ServerDrops(c)) \/ UNCHANGED vars => mode' = mode
    BY DEF ServerDrops, vars
  <1> QED
    BY <1>1, <1>2, <1>3, <1>4 DEF Next

(* aclose finds every client in the pool, because the tasks are gone and    *)
(* have put theirs back; later nothing connects.                            *)
LEMMA ShutdownStep ==
    TypeInv /\ ShutdownMissesNoClient /\ [Next]_vars => ShutdownMissesNoClient'
  <1> SUFFICES ASSUME TypeInv, ShutdownMissesNoClient, [Next]_vars, mode' = "closed"
               PROVE  /\ \A j \in Task : held'[j] = NONE
                      /\ pool' = <<>>
                      /\ \A c \in Client : conn'[c] \in {"closed", "unquit"}
    BY DEF ShutdownMissesNoClient
  <1>1. CASE Close
    <2>1. InUse = {} /\ \A j \in Task : held[j] = NONE
      BY <1>1 DEF Close, TypeInv, HoldsOK, InUse, Sending
    <2>2. Elements(pool) = Client
      BY <1>1, <2>1 DEF Close, TypeInv, PoolInv
    <2>3. held' = held
      BY <1>1 DEF Close
    <2> QED
      BY <1>1, <2>1, <2>2, <2>3, CloseConn
  <1>2. CASE ~Close
    <2>1. mode = "closed"
      BY <1>2, ModeStep DEF Stop, Restart
    <2>2. /\ \A j \in Task : held[j] = NONE
          /\ pool = <<>>
          /\ \A c \in Client : conn[c] \in {"closed", "unquit"}
      BY <2>1 DEF ShutdownMissesNoClient
    <2>3. ~Restart
      BY DEF Restart
    <2>4. UNCHANGED <<held, pool>>
      BY <1>2, <2>1, <2>3, PoolEffect DEF Leaves, Takes, Gives
    <2>5. ASSUME NEW j \in Task, Connect(j) \/ Login(j) \/ \E e \in Failure : Fail(j, e) PROVE FALSE
      BY <2>1, <2>5 DEF Connect, Login, Fail
    <2>6. ASSUME NEW c \in Client, ServerDrops(c)
          PROVE  \A d \in Client : conn'[d] \in {"closed", "unquit"}
      BY <2>2, <2>6 DEF ServerDrops, SetConn, TypeInv, TypeOK
    <2>7. \A c \in Client : conn'[c] \in {"closed", "unquit"}
      BY <1>2, <2>2, <2>3, <2>5, <2>6, ConnEffect
    <2> QED
      BY <2>2, <2>4, <2>7
  <1> QED
    BY <1>1, <1>2

(* The shutdown sends QUIT on every connection that is still open, for any  *)
(* number of clients and wherever the sends were cancelled: no client is    *)
(* left with a task, or returned after the pool was emptied                 *)
(* (ShutdownMissesNoClient).                                                *)
THEOREM ShutdownIsComplete == Spec => []ShutdownMissesNoClient
  <1>1. Init => ShutdownMissesNoClient
    BY DEF Init, ShutdownMissesNoClient
  <1> QED
    BY TypeInit, TypeStep, ShutdownStep, <1>1, PTL DEF Spec

-----------------------------------------------------------------------------
(* Logins *)

(* While the process is up, a task leaves its login by success or failure. *)
LEMMA LoginStays ==
    ASSUME TypeInv, [Next]_vars, mode = "up", NEW i \in Task, step[i] = "login"
    PROVE  \/ step'[i] = "login" /\ held'[i] = held[i]
           \/ Login(i) \/ \E e \in Failure : Fail(i, e)
  <1> DEFINE Goal == \/ step'[i] = "login" /\ held'[i] = held[i]
                     \/ Login(i) \/ \E e \in Failure : Fail(i, e)
  <1> SUFFICES Goal
    OBVIOUS
  <1> USE DEF TypeInv, TypeOK
  <1>1. ASSUME step'[i] = step[i], held'[i] = held[i] PROVE Goal
    BY <1>1
  <1>2. ASSUME NEW j \in Task,
               \/ \E u \in User : Begin(j, u)
               \/ Undeliverable(j) \/ CheckOut(j) \/ Connect(j) \/ MailOk(j)
               \/ PushEnds(j) \/ LoadTokens(j) \/ Post(j) \/ Prune(j) \/ Done(j)
        PROVE  Goal
    <2>1. j # i
      BY <1>2 DEF Begin, Undeliverable, CheckOut, Connect, MailOk, PushEnds, LoadTokens, Post,
                  Prune, Done, Pushing
    <2>2. step'[i] = step[i]
      BY <1>2, <2>1 DEF Begin, Undeliverable, CheckOut, Connect, MailOk, PushEnds, LoadTokens, Post,
                        Prune, Done, Completed, End, GoTo
    <2>3. held'[i] = held[i]
      BY <1>2, <2>1 DEF Begin, Undeliverable, CheckOut, Connect, MailOk, PushEnds, LoadTokens, Post,
                        Prune, Done, PutBack, smtp
    <2> QED
      BY <1>1, <2>2, <2>3
  <1>3. ASSUME NEW j \in Task, Login(j) \/ \E e \in Failure : Fail(j, e) PROVE Goal
    <2>1. CASE j = i
      BY <1>3, <2>1
    <2>2. CASE j # i
      BY <1>1, <1>3, <2>2 DEF Login, Fail, End, GoTo, PutBack
    <2> QED
      BY <2>1, <2>2
  <1>4. ASSUME NEW j \in Task, Cancel(j) PROVE FALSE
    BY <1>4 DEF Cancel
  <1>5. ASSUME NEW u \in User, NEW t \in Token,
               Rebind(u, t) \/ NotFound(u, t) \/ Create(u, t) \/ Unregister(u, t)
        PROVE  UNCHANGED <<step, held>>
    BY <1>5 DEF Rebind, NotFound, Create, Unregister, smtp
  <1>6. ASSUME NEW t \in Token, TokenDies(t) PROVE UNCHANGED <<step, held>>
    BY <1>6 DEF TokenDies, smtp
  <1>7. Stop \/ Close \/ Restart \/ (\E c \in Client : ServerDrops(c)) \/ UNCHANGED vars
          => UNCHANGED <<step, held>>
    BY DEF Stop, Close, Restart, ServerDrops, vars, smtp
  <1>8. UNCHANGED <<step, held>> => Goal
    BY <1>1
  <1> HIDE DEF Goal, TypeInv
  <1> QED
    BY <1>2, <1>3, <1>4, <1>5, <1>6, <1>7, <1>8 DEF Next

(* How a task comes to send its message *)
LEMMA MailEffect ==
    ASSUME TypeInv, [Next]_vars, NEW i \in Task, step'[i] = "mail"
    PROVE  \/ step[i] = "mail" /\ held'[i] = held[i]
           \/ CheckOut(i) \/ Connect(i) \/ Login(i)
  <1> DEFINE Goal == \/ step[i] = "mail" /\ held'[i] = held[i]
                     \/ CheckOut(i) \/ Connect(i) \/ Login(i)
  <1> SUFFICES Goal
    OBVIOUS
  <1> USE DEF TypeInv, TypeOK
  <1>1. ASSUME step'[i] = step[i], held'[i] = held[i] PROVE Goal
    BY <1>1
  <1>2. ASSUME NEW j \in Task,
               \/ \E u \in User : Begin(j, u)
               \/ Undeliverable(j) \/ MailOk(j) \/ (\E e \in Failure : Fail(j, e))
               \/ PushEnds(j) \/ LoadTokens(j) \/ Post(j) \/ Prune(j) \/ Done(j) \/ Cancel(j)
        PROVE  Goal
    <2>1. \E x \in {"checkout", "end", "tokens", "post", "prune", "queued"} :
             step' = [step EXCEPT ![j] = x]
      BY <1>2 DEF Begin, Undeliverable, MailOk, Fail, PushEnds, LoadTokens, Post, Prune, Done, Cancel,
                  Completed, End, GoTo
    <2>2. j # i /\ step'[i] = step[i]
      BY <2>1
    <2>3. held'[i] = held[i]
      BY <1>2, <2>2 DEF Begin, Undeliverable, MailOk, Fail, PushEnds, LoadTokens, Post, Prune, Done,
                        Cancel, PutBack, smtp
    <2> QED
      BY <1>1, <2>2, <2>3
  <1>3. ASSUME NEW j \in Task, CheckOut(j) \/ Connect(j) \/ Login(j) PROVE Goal
    <2>1. CASE j = i
      BY <1>3, <2>1
    <2>2. CASE j # i
      BY <1>1, <1>3, <2>2 DEF CheckOut, Connect, Login, GoTo
    <2> QED
      BY <2>1, <2>2
  <1>4. ASSUME NEW u \in User, NEW t \in Token,
               Rebind(u, t) \/ NotFound(u, t) \/ Create(u, t) \/ Unregister(u, t)
        PROVE  UNCHANGED <<step, held>>
    BY <1>4 DEF Rebind, NotFound, Create, Unregister, smtp
  <1>5. ASSUME NEW t \in Token, TokenDies(t) PROVE UNCHANGED <<step, held>>
    BY <1>5 DEF TokenDies, smtp
  <1>6. Stop \/ Close \/ Restart \/ (\E c \in Client : ServerDrops(c)) \/ UNCHANGED vars
          => UNCHANGED <<step, held>>
    BY DEF Stop, Close, Restart, ServerDrops, vars, smtp
  <1>7. UNCHANGED <<step, held>> => Goal
    BY <1>1
  <1> HIDE DEF Goal, TypeInv
  <1> QED
    BY <1>2, <1>3, <1>4, <1>5, <1>6, <1>7 DEF Next

(* What a step does to a client that the task taking the step does not      *)
(* hold: the server may drop its connection, or the process may close it.   *)
LEMMA OtherConn ==
    ASSUME TypeInv, [Next]_vars, NEW c \in Client, conn'[c] = "connected",
           ~\E j \in Task : /\ held[j] = c
                            /\ Connect(j) \/ Login(j) \/ \E e \in Failure : Fail(j, e)
    PROVE  conn[c] = "connected" /\ (c \in tainted => c \in tainted')
  <1>0. /\ conn \in [Client -> {"closed", "connected", "ready", "unquit"}] /\ tainted \subseteq Client
        /\ \A j \in Task : step[j] \in Sending => held[j] \in Client
    BY DEF TypeInv, TypeOK, HoldsOK
  <1>1. CASE UNCHANGED <<conn, tainted>>
    BY <1>1
  <1>2. CASE Close
    BY <1>0, <1>2, CloseConn
  <1>6. CASE Restart
    BY <1>6 DEF Restart
  <1>3. ASSUME NEW d \in Client, ServerDrops(d) PROVE conn[c] = "connected" /\ (c \in tainted => c \in tainted')
    BY <1>0, <1>3 DEF ServerDrops, SetConn
  <1>4. ASSUME NEW j \in Task, Connect(j) \/ Login(j)
        PROVE  conn[c] = "connected" /\ (c \in tainted => c \in tainted')
    <2>1. held[j] # c /\ held[j] \in Client
      BY <1>0, <1>4 DEF Connect, Login, Sending
    <2>2. conn'[c] = conn[c] /\ tainted' = tainted \ {held[j]}
      BY <1>0, <1>4, <2>1 DEF Connect, Login, SetConn
    <2> QED
      BY <2>1, <2>2
  <1>5. ASSUME NEW j \in Task, NEW e \in Failure, Fail(j, e)
        PROVE  conn[c] = "connected" /\ (c \in tainted => c \in tainted')
    BY <1>5, FailConn
  <1> QED
    BY <1>1, <1>2, <1>3, <1>4, <1>5, <1>6, ConnEffect

(* While the process is up, no step forgets that a connection is without    *)
(* login.                                                                   *)
LEMMA LoginPendingStep ==
    ASSUME TypeInv, LoginPending, [Next]_vars
    PROVE  LoginPending'
  <1> SUFFICES ASSUME Username, mode' = "up", NEW c \in Client, conn'[c] = "connected"
               PROVE  c \in tainted' \/ \E i \in Task : step'[i] = "login" /\ held'[i] = c
    BY DEF LoginPending
  <1>0. /\ \A i, j \in Task : held[i] # NONE /\ held[i] = held[j] => i = j
        /\ \A j \in Task : step[j] \in Sending => held[j] \in Client
        /\ step \in [Task -> Step] /\ conn \in [Client -> {"closed", "connected", "ready", "unquit"}]
        /\ NONE \notin Client
    BY SendAssumption DEF TypeInv, TypeOK, PoolInv, HoldsOK
  <1>1. mode = "up"
    <2>1. CASE Restart
      BY <2>1 DEF Restart
    <2>2. CASE ~Restart
      BY <2>2, ModeStep DEF Stop, Close
    <2> QED
      BY <2>1, <2>2
  <1>2. ASSUME conn[c] = "connected"
        PROVE  c \in tainted \/ \E i \in Task : step[i] = "login" /\ held[i] = c
    BY <1>1, <1>2 DEF LoginPending
  <1>3. ASSUME NEW j \in Task, held[j] = c, Connect(j) PROVE step'[j] = "login" /\ held'[j] = c
    BY <1>0, <1>3 DEF Connect, GoTo
  <1>4. ASSUME NEW j \in Task, held[j] = c, Login(j) PROVE FALSE
    BY <1>0, <1>4 DEF Login, SetConn
  <1>5. ASSUME NEW j \in Task, held[j] = c, NEW e \in Failure, Fail(j, e) PROVE c \in tainted'
    <2>1. /\ conn[c] = "connected"
          /\ step[j] = "login" => c \in tainted'
          /\ step[j] # "login" => (c \in tainted' <=> c \in tainted)
      BY <1>5, FailConn
    <2> QED
      BY <1>0, <1>2, <1>5, <2>1
  <1>6. ASSUME ~\E j \in Task : /\ held[j] = c
                                /\ Connect(j) \/ Login(j) \/ \E e \in Failure : Fail(j, e)
        PROVE  c \in tainted' \/ \E i \in Task : step'[i] = "login" /\ held'[i] = c
    <2>1. conn[c] = "connected" /\ (c \in tainted => c \in tainted')
      BY <1>6, OtherConn
    <2>2. ASSUME NEW i \in Task, step[i] = "login", held[i] = c PROVE step'[i] = "login" /\ held'[i] = c
      BY <1>1, <1>6, <2>2, LoginStays
    <2> QED
      BY <1>2, <2>1, <2>2
  <1> QED
    BY <1>3, <1>4, <1>5, <1>6

(* No step brings a message to a connection whose login was skipped for     *)
(* another reason than a failure.                                           *)
LEMMA LoginSkippedStep ==
    ASSUME TypeInv, LoginInv, [Next]_vars
    PROVE  LoginSkippedOnlyAfterFailure'
  <1> SUFFICES ASSUME Username, NEW j \in Task, step'[j] = "mail", conn'[held'[j]] = "connected"
               PROVE  held'[j] \in tainted'
    BY DEF LoginSkippedOnlyAfterFailure
  <1>0. /\ \A i, k \in Task : held[i] # NONE /\ held[i] = held[k] => i = k
        /\ \A i \in Task : step[i] \in Sending => held[i] \in Client
        /\ step \in [Task -> Step] /\ held \in [Task -> Client \cup {NONE}]
        /\ conn \in [Client -> {"closed", "connected", "ready", "unquit"}]
        /\ NONE \notin Client
    BY SendAssumption DEF TypeInv, TypeOK, PoolInv, HoldsOK
  <1>1. CASE CheckOut(j)
    <2>1. /\ pool \in Seq(Client) /\ Distinct(pool) /\ pool # <<>> /\ mode = "up"
          /\ UNCHANGED <<conn, tainted>> /\ held'[j] = Head(pool)
      BY <1>0, <1>1 DEF CheckOut, TypeInv, TypeOK, PoolInv
    <2>2. Head(pool) \in Client /\ Head(pool) \in Elements(pool)
      BY <2>1, TailDistinct
    <2>3. ~\E i \in Task : held[i] = Head(pool)
      BY <1>0, <2>2 DEF TypeInv, PoolInv, InUse
    <2> QED
      BY <2>1, <2>2, <2>3 DEF LoginInv, LoginPending
  <1>2. CASE Connect(j)
    BY <1>0, <1>2 DEF Connect, GoTo
  <1>3. CASE Login(j)
    <2>1. held[j] \in Client /\ held' = held /\ conn' = [conn EXCEPT ![held[j]] = "ready"]
      BY <1>0, <1>3 DEF Login, SetConn, Sending
    <2> QED
      BY <1>0, <2>1
  <1>4. CASE step[j] = "mail" /\ held'[j] = held[j]
    <2> DEFINE c == held[j]
    <2>1. c \in Client /\ conn'[c] = "connected"
      BY <1>0, <1>4 DEF Sending
    <2>2. ASSUME NEW i \in Task, held[i] = c, Connect(i) \/ Login(i) \/ \E e \in Failure : Fail(i, e)
          PROVE  FALSE
      <3>1. i = j
        BY <1>0, <2>1, <2>2
      <3> QED
        BY <1>0, <1>4, <2>2, <3>1 DEF Connect, Login, Fail, End, GoTo
    <2>3. conn[c] = "connected" /\ (c \in tainted => c \in tainted')
      BY <2>1, <2>2, OtherConn
    <2> QED
      BY <1>4, <2>3 DEF LoginInv, LoginSkippedOnlyAfterFailure
  <1> QED
    BY <1>1, <1>2, <1>3, <1>4, MailEffect

(* Mail goes out on a connection without login only after a login failed on *)
(* that connection (LoginSkippedOnlyAfterFailure).                          *)
THEOREM LoginIsNotForgotten == Spec => []LoginSkippedOnlyAfterFailure
  <1>1. Init => LoginInv
    BY DEF Init, LoginInv, LoginPending, LoginSkippedOnlyAfterFailure
  <1>2. TypeInv /\ LoginInv /\ [Next]_vars => LoginInv'
    BY LoginPendingStep, LoginSkippedStep DEF LoginInv
  <1>3. LoginInv => LoginSkippedOnlyAfterFailure
    BY DEF LoginInv
  <1> QED
    BY TypeInit, TypeStep, <1>1, <1>2, <1>3, PTL DEF Spec

-----------------------------------------------------------------------------
(* Devices *)

(* A registration keeps the devices invariant, whatever a push has in hand. *)
LEMMA BindStep ==
    ASSUME TypeInv, DeviceInv, NEW u \in User, NEW t \in Token, Bind(u, t), UNCHANGED dead
    PROVE  DeviceInv'
  <1>1. DeadInDoubt'
    BY DEF Bind, DeviceInv, DeadInDoubt
  <1>2. \A s \in Token \ {t} : /\ device'[s] = device[s] /\ wanted'[s] = wanted[s]
                               /\ s \in doubt' <=> s \in doubt
    BY DEF Bind, TypeInv, TypeOK
  <1>3. device'[t] = u /\ wanted'[t] = u
    BY DEF Bind, TypeInv, TypeOK
  <1>4. DevicesAreKept'
    BY <1>2, <1>3 DEF DeviceInv, DevicesAreKept
  <1> QED
    BY <1>1, <1>4 DEF DeviceInv

(* Every step keeps the devices invariant. *)
LEMMA DeviceStep == TypeInv /\ DeviceInv /\ [Next]_vars => DeviceInv'
  <1> SUFFICES ASSUME TypeInv, DeviceInv, [Next]_vars PROVE DeviceInv'
    OBVIOUS
  <1>1. ASSUME UNCHANGED <<device, wanted, doubt>>, \A j \in Task : dead'[j] \subseteq dead[j]
        PROVE  DeviceInv'
    BY <1>1 DEF DeviceInv, DeadInDoubt, DevicesAreKept
  <1> USE DEF TypeInv, TypeOK
  <1>2. ASSUME NEW j \in Task,
               \/ \E u \in User : Begin(j, u)
               \/ Undeliverable(j) \/ CheckOut(j) \/ Connect(j) \/ Login(j) \/ MailOk(j)
               \/ \E e \in Failure : Fail(j, e)
               \/ LoadTokens(j) \/ Done(j)
        PROVE  UNCHANGED <<device, wanted, doubt, dead>>
    BY <1>2 DEF Begin, Undeliverable, CheckOut, Connect, Login, MailOk, Fail, LoadTokens, Done,
                devices, push
  <1>3. ASSUME NEW j \in Task, PushEnds(j) \/ Cancel(j) PROVE DeviceInv'
    <2>1. UNCHANGED <<device, wanted, doubt>> /\ dead' = [dead EXCEPT ![j] = {}]
      BY <1>3 DEF PushEnds, Cancel, devices
    <2> QED
      BY <1>1, <2>1
  <1>4. ASSUME NEW j \in Task, Post(j) PROVE DeviceInv'
    <2>1. /\ UNCHANGED <<device, wanted>> /\ doubt' = doubt \cup (tokens[j] \ alive)
          /\ dead' = [dead EXCEPT ![j] = tokens[j] \ alive]
      BY <1>4 DEF Post, Unregistered, devices
    <2>2. DeadInDoubt'
      BY <2>1 DEF DeviceInv, DeadInDoubt
    <2>3. DevicesAreKept'
      BY <2>1 DEF DeviceInv, DevicesAreKept
    <2> QED
      BY <2>2, <2>3 DEF DeviceInv
  <1>5. ASSUME NEW j \in Task, Prune(j) PROVE DeviceInv'
    <2>1. /\ UNCHANGED <<wanted, doubt>> /\ dead' = [dead EXCEPT ![j] = {}]
          /\ \A t \in Token : t \notin dead[j] => device'[t] = device[t]
      BY <1>5 DEF Prune
    <2>2. DeadInDoubt'
      BY <2>1 DEF DeviceInv, DeadInDoubt
    <2>3. DevicesAreKept'
      BY <2>1 DEF DeviceInv, DeadInDoubt, DevicesAreKept
    <2> QED
      BY <2>2, <2>3 DEF DeviceInv
  <1>6. ASSUME NEW t \in Token, TokenDies(t) PROVE UNCHANGED <<device, wanted, doubt, dead>>
    BY <1>6 DEF TokenDies, push
  <1>7. ASSUME NEW u \in User, NEW t \in Token, Rebind(u, t) PROVE DeviceInv'
    BY <1>7, BindStep DEF Rebind, push
  <1>8. ASSUME NEW u \in User, NEW t \in Token, NotFound(u, t) PROVE UNCHANGED <<device, wanted, doubt, dead>>
    BY <1>8 DEF NotFound, push
  <1>9. ASSUME NEW u \in User, NEW t \in Token, Create(u, t) PROVE DeviceInv'
    <2>1. CASE device[t] = NONE
      BY <1>9, <2>1, BindStep DEF Create, push
    <2>2. CASE device[t] # NONE
      BY <1>1, <1>9, <2>2 DEF Create, push
    <2> QED
      BY <2>1, <2>2
  <1>10. ASSUME NEW u \in User, NEW t \in Token, Unregister(u, t) PROVE DeviceInv'
    <2>1. /\ UNCHANGED <<doubt, dead>> /\ device'[t] = NONE /\ wanted'[t] = NONE
          /\ \A s \in Token \ {t} : device'[s] = device[s] /\ wanted'[s] = wanted[s]
      BY <1>10 DEF Unregister, push
    <2>2. DeadInDoubt'
      BY <2>1 DEF DeviceInv, DeadInDoubt
    <2>3. DevicesAreKept'
      BY <2>1 DEF DeviceInv, DevicesAreKept
    <2> QED
      BY <2>2, <2>3 DEF DeviceInv
  <1>11. Stop \/ Close \/ Restart \/ (\E c \in Client : ServerDrops(c)) \/ UNCHANGED vars
            => UNCHANGED <<device, wanted, doubt, dead>>
    BY DEF Stop, Close, Restart, ServerDrops, vars, devices, push
  <1>12. UNCHANGED <<device, wanted, doubt, dead>> => DeviceInv'
    BY <1>1
  <1> HIDE DEF TypeInv
  <1> QED
    BY <1>2, <1>3, <1>4, <1>5, <1>6, <1>7, <1>8, <1>9, <1>10, <1>11, <1>12 DEF Next

(* A registered device loses its row only to its owner or to a report that  *)
(* its token is dead (DevicesAreKept).                                      *)
THEOREM NoDeviceIsLost == Spec => []DevicesAreKept
  <1>1. Init => DeviceInv
    BY DEF Init, DeviceInv, DeadInDoubt, DevicesAreKept
  <1>2. DeviceInv => DevicesAreKept
    BY DEF DeviceInv
  <1> QED
    BY TypeInit, TypeStep, DeviceStep, <1>1, <1>2, PTL DEF Spec

-----------------------------------------------------------------------------
(* The contract of one send *)

(* A step of task j alone moves j through the contract. *)
LEMMA PhaseMove ==
    ASSUME NEW j \in Task, mode' = mode, NEW from, NEW to, Phase(j) = from, Phase(j)' = to,
           \A i \in Task \ {j} : step'[i] = step[i] /\ outcome'[i] = outcome[i]
    PROVE  S!Move(j, from, to)
  <1>1. \A i \in Task \ {j} : Phase(i)' = Phase(i)
    BY DEF Phase
  <1> QED
    BY <1>1 DEF S!Move

(* A step that changes no phase is a stuttering step of the contract. *)
LEMMA PhaseStutters ==
    ASSUME \A i \in Task : Phase(i)' = Phase(i)
    PROVE  UNCHANGED [j \in Task |-> Phase(j)]
  OBVIOUS

(* Every step of the mailer and the push is a step of the contract or       *)
(* stutters.                                                                *)
LEMMA ContractStep ==
    TypeInv /\ [Next]_vars => [S!Next]_[j \in Task |-> Phase(j)]
  <1> DEFINE Goal == S!Next \/ UNCHANGED [j \in Task |-> Phase(j)]
  <1> SUFFICES ASSUME TypeInv, [Next]_vars PROVE Goal
    OBVIOUS
  <1>0. /\ step \in [Task -> Step] /\ NONE \notin Client
        /\ outcome \in [Task -> {NONE, "completed", "transient", "permanent"}]
    BY SendAssumption DEF TypeInv, TypeOK
  <1> USE DEF Mailing, Pushing
  <1>1. ASSUME UNCHANGED <<mode, step, outcome>> PROVE Goal
    BY <1>1, PhaseStutters DEF Phase
  <1>2. CASE Stop
    <2>1. \A j \in Task : Phase(j)' = "queued"
      BY <1>2 DEF Stop, Phase
    <2>2. S!Stop
      BY <2>1 DEF S!Stop
    <2> QED
      BY <2>2 DEF S!Next
  <1>3. CASE Close
    <2>1. \A j \in Task : Phase(j) = "queued" /\ Phase(j)' = "queued"
      BY <1>3 DEF Close, Phase
    <2> QED
      BY <2>1, PhaseStutters
  <1>4. CASE Restart
    <2>1. mode = "closed" /\ \A j \in Task : step[j] = "queued" /\ step'[j] = "queued"
      BY <1>4 DEF Restart, TypeInv, ClosedIsQuiet
    <2>2. \A j \in Task : Phase(j) = "queued" /\ Phase(j)' = "queued"
      BY <2>1 DEF Phase
    <2> QED
      BY <2>2, PhaseStutters
  <1>5. ASSUME NEW j \in Task, NEW u \in User, Begin(j, u) PROVE Goal
    <2>1. /\ mode = "up" /\ mode' = mode /\ outcome' = outcome
          /\ step[j] = "queued" /\ step' = [step EXCEPT ![j] = "checkout"]
      BY <1>5 DEF Begin, GoTo
    <2>2. Phase(j) = "queued" /\ Phase(j)' = "sending"
      BY <1>0, <2>1 DEF Phase
    <2>3. S!Move(j, "queued", "sending")
      BY <1>0, <2>1, <2>2, PhaseMove
    <2>4. \A i \in Task : Phase(i) # "queued" <=> step[i] # "queued"
      BY <1>0, <2>1 DEF Phase, TypeInv, EndHasOutcome, Step
    <2>5. S!Busy = {i \in Task : step[i] # "queued"}
      BY <2>4 DEF S!Busy
    <2>6. Cardinality(S!Busy) < Concurrency
      BY <1>5, <2>5 DEF Begin
    <2>7. S!Start(j)
      <3>1. S!Cardinality(S!Busy) = Cardinality(S!Busy)
        BY DEF S!Cardinality, Cardinality
      <3> QED
        BY <2>3, <2>6, <3>1 DEF S!Start
    <2> QED
      BY <2>7 DEF S!Next
  <1>6. ASSUME NEW j \in Task, Undeliverable(j) PROVE Goal
    <2>1. /\ mode = "up" /\ mode' = mode /\ step[j] = "checkout"
          /\ step' = [step EXCEPT ![j] = "end"] /\ outcome' = [outcome EXCEPT ![j] = "permanent"]
      BY <1>6 DEF Undeliverable, End, GoTo
    <2>2. Phase(j) = "sending" /\ Phase(j)' = "permanent"
      BY <1>0, <2>1 DEF Phase
    <2>3. S!Move(j, "sending", "permanent")
      BY <1>0, <2>1, <2>2, PhaseMove
    <2> QED
      BY <2>3 DEF S!Next, S!Result
  <1>7. ASSUME NEW j \in Task, CheckOut(j) \/ Connect(j) \/ Login(j) PROVE Goal
    <2>1. /\ mode = "up" /\ mode' = mode /\ outcome' = outcome /\ step[j] \in Mailing
          /\ \E x \in Mailing : step' = [step EXCEPT ![j] = x]
      BY <1>7 DEF CheckOut, Connect, Login, GoTo
    <2>2. \A i \in Task : Phase(i)' = Phase(i)
      BY <1>0, <2>1 DEF Phase
    <2> QED
      BY <2>2, PhaseStutters
  <1>8. ASSUME NEW j \in Task, MailOk(j) PROVE Goal
    <2>1. /\ mode = "up" /\ mode' = mode /\ outcome' = outcome
          /\ step[j] = "mail" /\ step' = [step EXCEPT ![j] = "tokens"]
      BY <1>8 DEF MailOk, GoTo
    <2>2. Phase(j) = "sending" /\ Phase(j)' = "accepted"
      BY <1>0, <2>1 DEF Phase
    <2>3. S!Move(j, "sending", "accepted")
      BY <1>0, <2>1, <2>2, PhaseMove
    <2> QED
      BY <2>3 DEF S!Next, S!Result
  <1>9. ASSUME NEW j \in Task, NEW e \in Failure, Fail(j, e) PROVE Goal
    <2>1. /\ mode = "up" /\ mode' = mode /\ step[j] \in Mailing
          /\ step' = [step EXCEPT ![j] = "end"] /\ outcome' = [outcome EXCEPT ![j] = classify(e)]
      BY <1>9 DEF Fail, End, GoTo
    <2>2. Phase(j) = "sending" /\ Phase(j)' = classify(e)
      BY <1>0, <2>1 DEF Phase
    <2>3. S!Move(j, "sending", classify(e))
      BY <1>0, <2>1, <2>2, PhaseMove
    <2>4. classify(e) \in {"transient", "permanent"}
      BY DEF classify
    <2>5. S!Result(j)
      BY <2>3, <2>4 DEF S!Result
    <2> QED
      BY <2>5 DEF S!Next
  <1>10. ASSUME NEW j \in Task, PushEnds(j) \/ Prune(j) PROVE Goal
    <2>1. /\ mode = "up" /\ mode' = mode /\ step[j] \in Pushing
          /\ step' = [step EXCEPT ![j] = "end"] /\ outcome' = [outcome EXCEPT ![j] = "completed"]
      BY <1>10 DEF PushEnds, Prune, Completed, End, GoTo
    <2>2. Phase(j) = "accepted" /\ Phase(j)' = "completed"
      BY <1>0, <2>1 DEF Phase
    <2>3. S!Move(j, "accepted", "completed")
      BY <1>0, <2>1, <2>2, PhaseMove
    <2> QED
      BY <2>3 DEF S!Next, S!Result
  <1>11. ASSUME NEW j \in Task, LoadTokens(j) \/ Post(j) PROVE Goal
    <2>1. /\ mode = "up" /\ mode' = mode /\ outcome' = outcome /\ step[j] \in Pushing
          /\ \E x \in Pushing : step' = [step EXCEPT ![j] = x]
      BY <1>11 DEF LoadTokens, Post, GoTo
    <2>2. \A i \in Task : Phase(i)' = Phase(i)
      BY <1>0, <2>1 DEF Phase
    <2> QED
      BY <2>2, PhaseStutters
  <1>12. ASSUME NEW j \in Task, Done(j) PROVE Goal
    <2>1. /\ mode = "up" /\ mode' = mode /\ step[j] = "end"
          /\ step' = [step EXCEPT ![j] = "queued"] /\ outcome' = [outcome EXCEPT ![j] = NONE]
      BY <1>12 DEF Done, GoTo
    <2>2. Phase(j) = outcome[j] /\ Phase(j)' = "queued"
      BY <1>0, <2>1 DEF Phase
    <2>3. outcome[j] \in {"completed", "transient", "permanent"}
      BY <2>1 DEF TypeInv, EndHasOutcome
    <2>4. S!Move(j, outcome[j], "queued")
      BY <1>0, <2>1, <2>2, PhaseMove
    <2>5. S!Finish(j)
      BY <2>3, <2>4 DEF S!Finish
    <2> QED
      BY <2>5 DEF S!Next
  <1>13. ASSUME NEW j \in Task, Cancel(j) PROVE Goal
    <2>1. \A i \in Task : Phase(i) = "queued" /\ Phase(i)' = "queued"
      BY <1>13 DEF Cancel, Phase
    <2> QED
      BY <2>1, PhaseStutters
  <1>14. ASSUME NEW u \in User, NEW t \in Token,
                Rebind(u, t) \/ NotFound(u, t) \/ Create(u, t) \/ Unregister(u, t)
         PROVE  UNCHANGED <<mode, step, outcome>>
    BY <1>14 DEF Rebind, NotFound, Create, Unregister
  <1>15. ASSUME NEW t \in Token, TokenDies(t) PROVE UNCHANGED <<mode, step, outcome>>
    BY <1>15 DEF TokenDies
  <1>16. (\E c \in Client : ServerDrops(c)) \/ UNCHANGED vars => UNCHANGED <<mode, step, outcome>>
    BY DEF ServerDrops, vars
  <1> HIDE DEF Goal
  <1> QED
    BY <1>1, <1>2, <1>3, <1>4, <1>5, <1>6, <1>7, <1>8, <1>9, <1>10, <1>11, <1>12, <1>13, <1>14, <1>15, <1>16
    DEF Next

(* The mailer and the push implement the contract of one send that the rest *)
(* of the worker relies on (KeepsSendContract).                             *)
THEOREM ImplementsSendContract == Spec => KeepsSendContract
  <1>1. Init => S!Init
    BY DEF Init, S!Init, Phase, Mailing, Pushing
  <1> QED
    BY TypeInit, TypeStep, ContractStep, <1>1, PTL DEF Spec, KeepsSendContract, S!Spec
=============================================================================
