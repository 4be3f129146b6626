------------------------- MODULE RateLimiterProofs -------------------------
(***************************************************************************)
(* Proofs about RateLimiter, for any kinds of request, any limits and      *)
(* windows, any number of requests under way and any delay below a window. *)
(***************************************************************************)
EXTENDS RateLimiter, FiniteSetTheorems, TLAPS

-----------------------------------------------------------------------------
(* The constants of a key *)

(* A limit is at least one request, and a window is longer than the delay. *)
LEMMA KeyConstants ==
    ASSUME NEW k \in Key
    PROVE  /\ limit(k) \in Nat /\ limit(k) > 0
           /\ window(k) \in Nat /\ MaxDelay < window(k)
           /\ MaxDelay \in Nat /\ MaxDelay > 0
           /\ Sec \in Nat /\ Sec > 0
<1>1. k[1] \in Tag
  BY DEF Key
<1>2. /\ Limit[k[1]] \in Nat \ {0} /\ Window[k[1]] \in Nat \ {0}
      /\ Sec \in Nat \ {0} /\ MaxDelay \in Nat \ {0}
      /\ MaxDelay < Window[k[1]] * Sec
  BY <1>1, RateAssumption
<1>3. \A a, b \in Nat : a * b \in Nat
  OBVIOUS
<1>4. Window[k[1]] * Sec \in Nat
  BY <1>2, <1>3
<1> QED
  BY <1>2, <1>4 DEF limit, window

(* Every access token is refused, so a request is counted by its address.   *)
LEMMA KeyOfRequest ==
    ASSUME NEW kind \in Kind, kind \in DOMAIN Rule, NEW ip \in Ip, NEW u
    PROVE  key(kind, ip, IF u = NONE THEN NONE ELSE access_token(u)) \in Key
<1> DEFINE token == IF u = NONE THEN NONE ELSE access_token(u)
<1>1. verified_user_id(token) = NONE
  BY DEF verified_user_id, access_token
<1>2. key(kind, ip, token) = <<Rule[kind].tag, ip>>
  BY <1>1 DEF key
<1>3. Rule[kind].tag \in Tag
  BY DEF Tag
<1> QED
  BY <1>2, <1>3 DEF Key

(* A number of seconds, rounded up to at least one, is no shorter than the  *)
(* time it stands for, and at most a second longer.                         *)
LEMMA RoundedUp ==
    ASSUME NEW a \in Int, NEW d \in Nat, d > 0
    PROVE  /\ (a + d - 1) \div d \in Int
           /\ ((a + d - 1) \div d) * d >= a
           /\ ((a + d - 1) \div d) * d < a + d
  BY SMT

-----------------------------------------------------------------------------
(* The script's operators *)

(* What ZREMRANGEBYSCORE keeps is a part of a finite sorted set, and is not *)
(* larger.                                                                  *)
LEMMA FreshFinite ==
    ASSUME NEW k, NEW age, IsFiniteSet(DOMAIN zset[k])
    PROVE  /\ Fresh(k, age) \subseteq DOMAIN zset[k]
           /\ IsFiniteSet(Fresh(k, age))
           /\ Cardinality(Fresh(k, age)) \in Nat
           /\ Cardinality(Fresh(k, age)) <= Cardinality(DOMAIN zset[k])
           /\ Cardinality(DOMAIN zset[k]) \in Nat
<1>1. Fresh(k, age) \subseteq DOMAIN zset[k]
  BY DEF Fresh
<1> QED
  BY <1>1, FS_Subset, FS_CardinalityType

(* A member that is drawn is one of Member and nothing refers to it. *)
LEMMA NewMember ==
    ASSUME NEW k, ~(Member \subseteq InUse(k))
    PROVE  /\ new_member(k) \in Member
           /\ new_member(k) \notin DOMAIN zset[k]
           /\ new_member(k) \notin DOMAIN recent[k]
<1>1. \E m \in Member : m \notin InUse(k)
  OBVIOUS
<1>2. new_member(k) \in Member /\ new_member(k) \notin InUse(k)
  BY <1>1 DEF new_member
<1> QED
  BY <1>2 DEF InUse

(* Retry-After, seen from the moment the script runs, lasts at least until  *)
(* the oldest member is a window old, and at most a second and a delay more *)
(* than a window.                                                           *)
LEMMA RetryAfterLasts ==
    ASSUME NEW k \in Key, NEW age \in 0 .. MaxDelay,
           NEW old \in 0 .. window(k) + MaxDelay, old - age < window(k)
    PROVE  LET wait == retry_after(k, age, old) * Sec - age IN
           wait \in Int /\ old + wait >= window(k) /\ wait <= window(k) + Sec
<1> DEFINE left == window(k) - (old - age)
           r    == retry_after(k, age, old)
<1>1. window(k) \in Nat /\ MaxDelay \in Nat /\ Sec \in Nat /\ Sec > 0
  BY KeyConstants
<1>2. left \in Int /\ left > 0 /\ left <= window(k) + age
  BY <1>1
<1>3. r \in Int /\ r * Sec >= left /\ r * Sec <= left + Sec
  <2> HIDE DEF left
  <2>1. r = IF left < Sec THEN 1 ELSE (left + Sec - 1) \div Sec
    BY DEF retry_after, left
  <2>2. CASE left < Sec
    BY <1>1, <1>2, <2>1, <2>2
  <2>3. CASE ~(left < Sec)
    <3>1. r = (left + Sec - 1) \div Sec
      BY <2>1, <2>3
    <3> QED
      BY <1>1, <1>2, <3>1, RoundedUp
  <2> QED
    BY <2>2, <2>3
<1>4. \A a, b \in Int : a * b \in Int
  OBVIOUS
<1>5. r * Sec \in Int
  BY <1>1, <1>3, <1>4
<1> HIDE DEF r
<1>6. ASSUME NEW p \in Int, p >= left, p <= left + Sec
      PROVE  p - age \in Int /\ old + (p - age) >= window(k) /\ p - age <= window(k) + Sec
  BY <1>1, <1>6
<1> QED
  BY <1>3, <1>5, <1>6 DEF r

-----------------------------------------------------------------------------
(* Type correctness *)

(* What TypeOK leaves out: every key and every slot has a value, a sorted   *)
(* set is finite, and the history holds ages.                               *)
Domains ==
    /\ DOMAIN zset = Key /\ DOMAIN ttl = Key /\ DOMAIN recent = Key
    /\ DOMAIN promise = Key /\ DOMAIN req = Request

Shape ==
    /\ Domains
    /\ \A k \in Key :
          /\ IsFiniteSet(DOMAIN zset[k])
          /\ \A m \in DOMAIN recent[k] : recent[k][m] \in Nat

TypeInv == TypeOK /\ Shape

(* TypeOK, one key and one slot at a time *)
KeyOK(k) ==
    /\ DOMAIN zset[k] \subseteq Member
    /\ IsFiniteSet(DOMAIN zset[k])
    /\ \A m \in DOMAIN zset[k] : zset[k][m] \in 0 .. window(k) + MaxDelay
    /\ Cardinality(DOMAIN zset[k]) <= limit(k)
    /\ ttl[k] \in 0 .. window(k)
    /\ ttl[k] = 0 <=> DOMAIN zset[k] = {}
    /\ promise[k] \in 0 .. window(k) + MaxDelay + Sec \cup {NONE}
    /\ \A m \in DOMAIN recent[k] : recent[k][m] \in Nat

SlotOK(q) ==
    req[q] \in [key : Key, user : User \cup {NONE}, age : 0 .. MaxDelay] \cup {NONE}

(* TypeInv is what holds of each key and of each slot. *)
LEMMA TypeInvParts ==
    TypeInv <=> /\ Domains
                /\ \A k \in Key : KeyOK(k)
                /\ \A q \in Request : SlotOK(q)
                /\ served \subseteq User
  BY DEF TypeInv, TypeOK, Shape, KeyOK, SlotOK, Domains

(* The same after a step *)
LEMMA TypeInvNext ==
    ASSUME Domains', \A k \in Key : KeyOK(k)', \A q \in Request : SlotOK(q)',
           (served \subseteq User)'
    PROVE  TypeInv'
  BY DEF TypeInv, TypeOK, Shape, KeyOK, SlotOK, Domains

(* A request under way has a key and an age. *)
LEMMA RequestOK ==
    ASSUME TypeInv, NEW q \in Request, req[q] # NONE
    PROVE  /\ req[q].key \in Key
           /\ req[q].age \in 0 .. MaxDelay
           /\ req[q].user \in User \cup {NONE}
           /\ req[q] \in [key : Key, user : User \cup {NONE}, age : 0 .. MaxDelay]
<1>1. req[q] \in [key : Key, user : User \cup {NONE}, age : 0 .. MaxDelay]
  BY DEF TypeInv, TypeOK
<1> QED
  BY <1>1

(* A key that is empty has the type of its variables. *)
LEMMA EmptyKey ==
    DOMAIN Empty = {} /\ IsFiniteSet(DOMAIN Empty) /\ Cardinality(DOMAIN Empty) = 0
  BY FS_EmptySet DEF Empty

(* The type invariant holds initially. *)
LEMMA TypeInit == Init => TypeInv
<1> SUFFICES ASSUME Init PROVE TypeInv
  OBVIOUS
<1>1. Domains /\ served \subseteq User /\ \A q \in Request : SlotOK(q)
  BY DEF Init, Domains, SlotOK
<1>2. ASSUME NEW k \in Key PROVE KeyOK(k)
  <2>1. zset[k] = Empty /\ recent[k] = Empty /\ ttl[k] = 0 /\ promise[k] = NONE
    BY DEF Init
  <2> QED
    BY <2>1, EmptyKey, KeyConstants DEF KeyOK
<1> QED
  BY <1>1, <1>2, TypeInvParts

(* The variables of the other keys are left alone. *)
OthersKept(k) ==
    \A j \in Key \ {k} : /\ zset'[j] = zset[j] /\ ttl'[j] = ttl[j]
                         /\ recent'[j] = recent[j] /\ promise'[j] = promise[j]

(* A script changes the variables of its own key only and answers its       *)
(* request, so the type is kept if it is kept for that key.                 *)
LEMMA TypeScript ==
    ASSUME TypeInv, NEW q \in Request, NEW k0 \in Key, Domains', OthersKept(k0),
           req' = [req EXCEPT ![q] = NONE], (served \subseteq User)',
           KeyOK(k0)'
    PROVE  TypeInv'
<1>1. Domains /\ (\A k \in Key : KeyOK(k)) /\ (\A p \in Request : SlotOK(p))
  BY TypeInvParts
<1>2. ASSUME NEW k \in Key PROVE KeyOK(k)'
  <2>1. CASE k = k0
    BY <2>1
  <2>2. CASE k # k0
    <3>1. /\ zset'[k] = zset[k] /\ ttl'[k] = ttl[k] /\ recent'[k] = recent[k]
          /\ promise'[k] = promise[k]
      BY <2>2 DEF OthersKept
    <3>2. KeyOK(k)
      BY <1>1
    <3> QED
      BY <3>1, <3>2 DEF KeyOK
  <2> QED
    BY <2>1, <2>2
<1>3. \A p \in Request : SlotOK(p)'
  BY <1>1 DEF SlotOK, Domains
<1> QED
  BY <1>2, <1>3, TypeInvNext

(* What Admit does, with the key, the age and the member named *)
Admits(q, k, age, m) ==
    /\ k \in Key /\ age \in 0 .. MaxDelay /\ m \in Member
    /\ req[q].user \in User \cup {NONE}
    /\ m \notin DOMAIN zset[k] /\ m \notin DOMAIN recent[k]
    /\ Free(k, age)
    /\ zset' = [zset EXCEPT ![k] = Add(Kept(k, age), m, age)]
    /\ ttl' = [ttl EXCEPT ![k] = window(k)]
    /\ recent' = [recent EXCEPT ![k] = Add(@, m, age)]
    /\ promise' = [promise EXCEPT ![k] = NONE]
    /\ served' = served \cup ({req[q].user} \ {NONE})
    /\ req' = [req EXCEPT ![q] = NONE]

(* An admission is Admits for the request's key and age and a new member. *)
LEMMA AdmitNamed ==
    ASSUME TypeInv, NEW q \in Request, Admit(q)
    PROVE  \E k \in Key, age \in 0 .. MaxDelay, m \in Member : Admits(q, k, age, m)
<1> DEFINE k0 == req[q].key
           a0 == req[q].age
           m0 == new_member(k0)
<1>1. k0 \in Key /\ a0 \in 0 .. MaxDelay /\ req[q].user \in User \cup {NONE}
  BY RequestOK DEF Admit
<1>2. ~(Member \subseteq InUse(k0))
  BY DEF Admit
<1>3. m0 \in Member /\ m0 \notin DOMAIN zset[k0] /\ m0 \notin DOMAIN recent[k0]
  BY <1>2, NewMember
<1>4. Admits(q, k0, a0, m0)
  BY <1>1, <1>3 DEF Admit, Admits
<1> QED
  BY <1>1, <1>3, <1>4

(* What it leaves of the sorted set of its key and of the history *)
Admitted(k, age, m) ==
    /\ DOMAIN zset'[k] = Fresh(k, age) \cup {m} /\ zset'[k][m] = age
    /\ \A n \in Fresh(k, age) : zset'[k][n] = zset[k][n]
    /\ DOMAIN recent'[k] = DOMAIN recent[k] \cup {m} /\ recent'[k][m] = age
    /\ \A n \in DOMAIN recent[k] : recent'[k][n] = recent[k][n]
    /\ ttl'[k] = window(k) /\ promise'[k] = NONE

(* An admission adds its member to its key and leaves the other keys alone. *)
LEMMA AdmitsKey ==
    ASSUME TypeInv, NEW q, NEW k \in Key, NEW age, NEW m, Admits(q, k, age, m)
    PROVE  Domains' /\ OthersKept(k) /\ Admitted(k, age, m)
<1>1. Domains
  BY TypeInvParts
<1>2. /\ zset'[k] = Add(Kept(k, age), m, age) /\ ttl'[k] = window(k)
      /\ recent'[k] = Add(recent[k], m, age) /\ promise'[k] = NONE
  BY <1>1 DEF Domains, Admits
<1>3. Domains' /\ OthersKept(k)
  BY <1>1 DEF Domains, Admits, OthersKept
<1>4. m \notin Fresh(k, age) /\ m \notin DOMAIN recent[k]
  BY DEF Admits, Fresh
<1>5. DOMAIN Kept(k, age) = Fresh(k, age)
      /\ \A n \in Fresh(k, age) : Kept(k, age)[n] = zset[k][n]
  BY DEF Kept
<1>6. /\ DOMAIN zset'[k] = Fresh(k, age) \cup {m} /\ zset'[k][m] = age
      /\ \A n \in Fresh(k, age) : zset'[k][n] = zset[k][n]
  BY <1>2, <1>4, <1>5 DEF Add
<1>7. /\ DOMAIN recent'[k] = DOMAIN recent[k] \cup {m} /\ recent'[k][m] = age
      /\ \A n \in DOMAIN recent[k] : recent'[k][n] = recent[k][n]
  BY <1>2, <1>4 DEF Add
<1> QED
  BY <1>2, <1>3, <1>6, <1>7 DEF Admitted

(* An admitted request keeps the type: it is counted only below the limit,  *)
(* and its key lives for a window.                                          *)
LEMMA TypeAdmit ==
    ASSUME TypeInv, NEW q \in Request, Admit(q)
    PROVE  TypeInv'
<1>1. PICK k \in Key, age \in 0 .. MaxDelay, m \in Member : Admits(q, k, age, m)
  BY AdmitNamed
<1>2. KeyOK(k) /\ served \subseteq User
  BY TypeInvParts
<1>3. /\ limit(k) \in Nat /\ window(k) \in Nat /\ MaxDelay \in Nat /\ MaxDelay < window(k)
  BY KeyConstants
<1>4. /\ Fresh(k, age) \subseteq DOMAIN zset[k] /\ IsFiniteSet(Fresh(k, age))
      /\ Cardinality(Fresh(k, age)) \in Nat /\ Cardinality(Fresh(k, age)) < limit(k)
      /\ m \notin Fresh(k, age)
  BY <1>1, <1>2, FreshFinite DEF KeyOK, Admits, Free
<1>5. /\ DOMAIN zset'[k] = Fresh(k, age) \cup {m} /\ zset'[k][m] = age
      /\ \A n \in Fresh(k, age) : zset'[k][n] = zset[k][n]
      /\ DOMAIN recent'[k] = DOMAIN recent[k] \cup {m} /\ recent'[k][m] = age
      /\ \A n \in DOMAIN recent[k] : recent'[k][n] = recent[k][n]
      /\ ttl'[k] = window(k) /\ promise'[k] = NONE
  <2>1. Admitted(k, age, m)
    BY <1>1, AdmitsKey
  <2> QED
    BY <2>1 DEF Admitted
<1>6. /\ IsFiniteSet(DOMAIN zset'[k])
      /\ Cardinality(DOMAIN zset'[k]) = Cardinality(Fresh(k, age)) + 1
  BY <1>4, <1>5, FS_AddElement
<1>7. KeyOK(k)'
  <2>1. DOMAIN zset'[k] \subseteq Member /\ DOMAIN zset'[k] # {}
    BY <1>2, <1>4, <1>5 DEF KeyOK
  <2>2. \A n \in DOMAIN zset'[k] : zset'[k][n] \in 0 .. window(k) + MaxDelay
    BY <1>2, <1>3, <1>4, <1>5 DEF KeyOK
  <2>3. Cardinality(DOMAIN zset'[k]) <= limit(k)
    BY <1>3, <1>4, <1>6
  <2>4. ttl'[k] \in 0 .. window(k) /\ (ttl'[k] = 0 <=> DOMAIN zset'[k] = {})
    BY <1>3, <1>5, <2>1
  <2>5. \A n \in DOMAIN recent'[k] : recent'[k][n] \in Nat
    BY <1>2, <1>3, <1>5 DEF KeyOK
  <2> QED
    BY <1>5, <1>6, <2>1, <2>2, <2>3, <2>4, <2>5 DEF KeyOK
<1>8. req' = [req EXCEPT ![q] = NONE] /\ (served \subseteq User)'
  BY <1>1, <1>2 DEF Admits
<1>9. Domains' /\ OthersKept(k)
  BY <1>1, AdmitsKey
<1> QED
  BY <1>7, <1>8, <1>9, TypeScript

(* What Block does to the sorted set, with its key and age and the oldest   *)
(* member named                                                             *)
Blocks(k, age, old) ==
    /\ k \in Key /\ age \in 0 .. MaxDelay /\ old \in Fresh(k, age)
    /\ ~Free(k, age)
    /\ zset' = [zset EXCEPT ![k] = Kept(k, age)]
    /\ UNCHANGED <<ttl, recent, served>>

(* The time until a Retry-After given out at this moment is over *)
Wait(k, age, old) ==
    LET wait == retry_after(k, age, zset[k][old]) * Sec - age IN
    IF wait < 0 THEN 0 ELSE wait

(* A refusal is Blocks for the request's key and age and an oldest member, *)
(* and the earliest Retry-After given out is remembered.                   *)
LEMMA BlockNamed ==
    ASSUME TypeInv, NEW q \in Request, Block(q)
    PROVE  \E k \in Key, age \in 0 .. MaxDelay : \E old \in Fresh(k, age) :
              /\ Blocks(k, age, old)
              /\ promise' = [promise EXCEPT ![k] =
                                IF @ = NONE THEN Wait(k, age, old)
                                ELSE Least(@, Wait(k, age, old))]
              /\ req' = [req EXCEPT ![q] = NONE]
<1> DEFINE k0 == req[q].key
           a0 == req[q].age
<1>1. k0 \in Key /\ a0 \in 0 .. MaxDelay
  BY RequestOK DEF Block
<1>2. PICK old \in Oldest(k0, a0) :
         promise' = [promise EXCEPT ![k0] = IF @ = NONE THEN Wait(k0, a0, old)
                                            ELSE Least(@, Wait(k0, a0, old))]
  BY DEF Block, Wait
<1>3. old \in Fresh(k0, a0)
  BY DEF Oldest
<1>4. Blocks(k0, a0, old) /\ req' = [req EXCEPT ![q] = NONE]
  BY <1>1, <1>3 DEF Block, Blocks
<1> QED
  BY <1>1, <1>2, <1>3, <1>4

(* The wait lasts until the oldest member is a window old. *)
LEMMA WaitLasts ==
    ASSUME TypeInv, NEW k \in Key, NEW age \in 0 .. MaxDelay, NEW old \in Fresh(k, age)
    PROVE  /\ Wait(k, age, old) \in 0 .. window(k) + MaxDelay + Sec
           /\ zset[k][old] + Wait(k, age, old) >= window(k)
<1> DEFINE wait == retry_after(k, age, zset[k][old]) * Sec - age
<1>1. window(k) \in Nat /\ MaxDelay \in Nat /\ Sec \in Nat
  BY KeyConstants
<1>2. zset[k][old] \in 0 .. window(k) + MaxDelay /\ zset[k][old] - age < window(k)
  BY DEF TypeInv, TypeOK, Fresh
<1>3. wait \in Int /\ zset[k][old] + wait >= window(k) /\ wait <= window(k) + Sec
  BY <1>2, RetryAfterLasts
<1>4. Wait(k, age, old) = IF wait < 0 THEN 0 ELSE wait
  BY DEF Wait
<1> HIDE DEF wait
<1> QED
  BY <1>1, <1>2, <1>3, <1>4

(* What a blocked request leaves of its key *)
LEMMA BlocksKey ==
    ASSUME TypeInv, NEW k \in Key, NEW age \in 0 .. MaxDelay, NEW old \in Fresh(k, age),
           Blocks(k, age, old)
    PROVE  /\ \A j \in Key \ {k} : zset'[j] = zset[j]
           /\ DOMAIN zset' = Key
           /\ DOMAIN zset'[k] = Fresh(k, age)
           /\ \A n \in Fresh(k, age) : zset'[k][n] = zset[k][n]
  BY TypeInvParts DEF Domains, Blocks, Kept

(* A blocked request keeps the type: nothing is added to the set. *)
LEMMA TypeBlock ==
    ASSUME TypeInv, NEW q \in Request, Block(q)
    PROVE  TypeInv'
<1>1. PICK k \in Key, age \in 0 .. MaxDelay : \E old \in Fresh(k, age) :
         /\ Blocks(k, age, old)
         /\ promise' = [promise EXCEPT ![k] = IF @ = NONE THEN Wait(k, age, old)
                                              ELSE Least(@, Wait(k, age, old))]
         /\ req' = [req EXCEPT ![q] = NONE]
  BY BlockNamed
<1>2. PICK old \in Fresh(k, age) :
         /\ Blocks(k, age, old)
         /\ promise' = [promise EXCEPT ![k] = IF @ = NONE THEN Wait(k, age, old)
                                              ELSE Least(@, Wait(k, age, old))]
         /\ req' = [req EXCEPT ![q] = NONE]
  BY <1>1
<1>3. Domains /\ KeyOK(k) /\ served \subseteq User
  BY TypeInvParts
<1>4. /\ limit(k) \in Nat /\ limit(k) > 0 /\ window(k) \in Nat /\ MaxDelay \in Nat
      /\ Sec \in Nat
  BY KeyConstants
<1>5. /\ \A j \in Key \ {k} : zset'[j] = zset[j]
      /\ DOMAIN zset' = Key /\ DOMAIN zset'[k] = Fresh(k, age)
      /\ \A n \in Fresh(k, age) : zset'[k][n] = zset[k][n]
  BY <1>2, BlocksKey
<1>6. /\ Fresh(k, age) \subseteq DOMAIN zset[k] /\ IsFiniteSet(Fresh(k, age))
      /\ Cardinality(Fresh(k, age)) \in Nat
      /\ Cardinality(Fresh(k, age)) <= Cardinality(DOMAIN zset[k])
      /\ Cardinality(DOMAIN zset[k]) \in Nat
  BY <1>3, FreshFinite DEF KeyOK
<1>7. Wait(k, age, old) \in 0 .. window(k) + MaxDelay + Sec
  BY WaitLasts
<1>8. promise'[k] \in 0 .. window(k) + MaxDelay + Sec \cup {NONE}
  BY <1>2, <1>3, <1>4, <1>7 DEF KeyOK, Domains, Least
<1>9. ttl' = ttl /\ recent' = recent /\ served' = served
  BY <1>2 DEF Blocks
<1>10. KeyOK(k)'
  <2>1. Fresh(k, age) # {} /\ DOMAIN zset[k] # {}
    BY <1>2, <1>6
  <2>2. /\ DOMAIN zset'[k] \subseteq Member
        /\ \A n \in DOMAIN zset'[k] : zset'[k][n] \in 0 .. window(k) + MaxDelay
        /\ Cardinality(DOMAIN zset'[k]) <= limit(k)
    BY <1>3, <1>4, <1>5, <1>6 DEF KeyOK
  <2>3. /\ ttl'[k] \in 0 .. window(k)
        /\ ttl'[k] = 0 <=> DOMAIN zset'[k] = {}
    BY <1>3, <1>5, <1>9, <2>1 DEF KeyOK
  <2>4. \A n \in DOMAIN recent'[k] : recent'[k][n] \in Nat
    BY <1>3, <1>9 DEF KeyOK
  <2> QED
    BY <1>5, <1>6, <1>8, <2>2, <2>3, <2>4 DEF KeyOK
<1>11. Domains' /\ OthersKept(k)
  BY <1>2, <1>3, <1>5, <1>9 DEF Domains, OthersKept
<1>12. req' = [req EXCEPT ![q] = NONE] /\ (served \subseteq User)'
  BY <1>2, <1>3, <1>9
<1> QED
  BY <1>10, <1>11, <1>12, TypeScript

(* A tick keeps the type: an age saturates, and Redis drops a key exactly   *)
(* when its time to live is over.                                           *)
LEMMA TypeTick ==
    ASSUME TypeInv, Tick
    PROVE  TypeInv'
<1>1. /\ Domains /\ served \subseteq User
      /\ \A k \in Key : KeyOK(k)
      /\ \A q \in Request : SlotOK(q)
  BY TypeInvParts
<1>2. Domains' /\ (served \subseteq User)'
  BY <1>1 DEF Tick, Domains
<1>3. ASSUME NEW q \in Request PROVE SlotOK(q)'
  <2>1. CASE req[q] = NONE
    BY <2>1 DEF Tick, SlotOK
  <2>2. CASE req[q] # NONE
    <3>1. /\ req[q] \in [key : Key, user : User \cup {NONE}, age : 0 .. MaxDelay]
          /\ req[q].age \in 0 .. MaxDelay
      BY <2>2, RequestOK
    <3>2. MaxDelay \in Nat
      BY RateAssumption
    <3>3. req[q].age < MaxDelay /\ req'[q] = [req[q] EXCEPT !.age = @ + 1]
      BY <2>2 DEF Tick
    <3>4. req[q].age + 1 \in 0 .. MaxDelay
      BY <3>1, <3>2, <3>3
    <3>5. req'[q] \in [key : Key, user : User \cup {NONE}, age : 0 .. MaxDelay]
      BY <3>1, <3>3, <3>4
    <3> QED
      BY <3>5 DEF SlotOK
  <2> QED
    BY <2>1, <2>2
<1>4. ASSUME NEW k \in Key PROVE KeyOK(k)'
  <2>1. KeyOK(k)
    BY <1>1
  <2>2. limit(k) \in Nat /\ window(k) \in Nat /\ MaxDelay \in Nat /\ Sec \in Nat
    BY KeyConstants
  <2>3. NONE \notin Nat
    BY RateAssumption
  <2>4. /\ promise'[k] \in 0 .. window(k) + MaxDelay + Sec \cup {NONE}
        /\ ttl'[k] \in 0 .. window(k)
    BY <2>1, <2>2, <2>3 DEF Tick, KeyOK
  <2>5. \A m \in DOMAIN recent'[k] : recent'[k][m] \in Nat
    <3>1. recent'[k] = [m \in {n \in DOMAIN recent[k] :
                                  recent[k][n] + 1 < window(k) + MaxDelay}
                          |-> recent[k][m] + 1]
      BY DEF Tick
    <3> QED
      BY <2>1, <3>1 DEF KeyOK
  <2>6. CASE ttl[k] = 1
    <3>1. zset'[k] = Empty /\ ttl'[k] = 0
      BY <2>6 DEF Tick
    <3> QED
      BY <2>2, <2>4, <2>5, <3>1, EmptyKey DEF KeyOK
  <2>7. CASE ttl[k] # 1
    <3>1. /\ DOMAIN zset'[k] = DOMAIN zset[k]
          /\ \A m \in DOMAIN zset[k] : zset'[k][m] = Least(zset[k][m] + 1, window(k) + MaxDelay)
      BY <2>7 DEF Tick, Aged
    <3>2. \A m \in DOMAIN zset'[k] : zset'[k][m] \in 0 .. window(k) + MaxDelay
      BY <2>1, <2>2, <3>1 DEF KeyOK, Least
    <3>3. ttl'[k] = 0 <=> ttl[k] = 0
      BY <2>1, <2>2, <2>7 DEF Tick, KeyOK
    <3>4. ttl'[k] = 0 <=> DOMAIN zset'[k] = {}
      BY <2>1, <3>1, <3>3 DEF KeyOK
    <3> QED
      BY <2>1, <2>4, <2>5, <3>1, <3>2, <3>4 DEF KeyOK
  <2> QED
    BY <2>6, <2>7
<1> QED
  BY <1>2, <1>3, <1>4, TypeInvNext

(* A flush empties keys and leaves the others. *)
LEMMA TypeFlush ==
    ASSUME TypeInv, NEW ip \in Ip, Flush(ip)
    PROVE  TypeInv'
<1>1. /\ Domains /\ served \subseteq User
      /\ \A k \in Key : KeyOK(k)
      /\ \A q \in Request : SlotOK(q)
  BY TypeInvParts
<1>2. Domains' /\ (served \subseteq User)' /\ \A q \in Request : SlotOK(q)'
  BY <1>1 DEF Flush, Domains, SlotOK
<1>3. ASSUME NEW k \in Key PROVE KeyOK(k)'
  <2>1. KeyOK(k)
    BY <1>1
  <2>2. limit(k) \in Nat /\ window(k) \in Nat
    BY KeyConstants
  <2>3. CASE k[2] = ip
    <3>1. zset'[k] = Empty /\ ttl'[k] = 0 /\ recent'[k] = Empty /\ promise'[k] = NONE
      BY <2>3 DEF Flush
    <3> QED
      BY <2>2, <3>1, EmptyKey DEF KeyOK
  <2>4. CASE k[2] # ip
    <3>1. /\ zset'[k] = zset[k] /\ ttl'[k] = ttl[k] /\ recent'[k] = recent[k]
          /\ promise'[k] = promise[k]
      BY <2>4 DEF Flush
    <3> QED
      BY <2>1, <3>1 DEF KeyOK
  <2> QED
    BY <2>3, <2>4
<1> QED
  BY <1>2, <1>3, TypeInvNext

(* A request that arrives, or fails, changes its slot only. *)
LEMMA TypeSlot ==
    ASSUME TypeInv, NEW q \in Request, UNCHANGED <<store, history>>,
           \/ Error(q)
           \/ \E kind \in Kind, ip \in Ip, u \in User \cup {NONE} : Arrive(q, kind, ip, u)
    PROVE  TypeInv'
<1>1. /\ Domains /\ served \subseteq User
      /\ \A k \in Key : KeyOK(k)
      /\ \A p \in Request : SlotOK(p)
  BY TypeInvParts
<1>2. zset' = zset /\ ttl' = ttl /\ recent' = recent /\ promise' = promise /\ served' = served
  BY DEF store, history
<1>3. DOMAIN req' = Request /\ \A p \in Request : SlotOK(p)'
  <2>1. CASE Error(q)
    BY <1>1, <2>1 DEF Error, Domains, SlotOK
  <2>2. ASSUME NEW kind \in Kind, NEW ip \in Ip, NEW u \in User \cup {NONE},
               Arrive(q, kind, ip, u)
        PROVE  DOMAIN req' = Request /\ \A p \in Request : SlotOK(p)'
    <3> DEFINE token == IF u = NONE THEN NONE ELSE access_token(u)
               r == [key |-> key(kind, ip, token), age |-> 0,
                     user |-> IF Rule[kind].identifier = "user" THEN u ELSE NONE]
    <3>1. kind \in DOMAIN Rule /\ req' = [req EXCEPT ![q] = r]
      BY <2>2 DEF Arrive
    <3>2. key(kind, ip, token) \in Key
      BY <3>1, KeyOfRequest
    <3>3. 0 \in 0 .. MaxDelay
      BY RateAssumption
    <3>4. r \in [key : Key, user : User \cup {NONE}, age : 0 .. MaxDelay]
      BY <3>2, <3>3
    <3> HIDE DEF r
    <3> QED
      BY <1>1, <3>1, <3>4 DEF Domains, SlotOK
  <2> QED
    BY <2>1, <2>2
<1>4. Domains' /\ (served \subseteq User)' /\ \A k \in Key : KeyOK(k)'
  BY <1>1, <1>2, <1>3 DEF Domains, KeyOK
<1> QED
  BY <1>3, <1>4, TypeInvNext

(* Every step is one of these. *)
LEMMA StepCases ==
    ASSUME [Next]_vars
    PROVE  \/ Tick
           \/ \E ip \in Ip : Flush(ip)
           \/ \E q \in Request : Admit(q)
           \/ \E q \in Request : Block(q)
           \/ \E q \in Request :
                /\ UNCHANGED <<store, history>>
                /\ \/ Error(q)
                   \/ \E kind \in Kind, ip \in Ip, u \in User \cup {NONE} :
                         Arrive(q, kind, ip, u)
           \/ UNCHANGED vars
  BY DEF Next, Serve, Pass, Error, Arrive

(* The type invariant is kept by every step. *)
LEMMA TypeStep == TypeInv /\ [Next]_vars => TypeInv'
<1> SUFFICES ASSUME TypeInv, [Next]_vars PROVE TypeInv'
  OBVIOUS
<1>1. CASE UNCHANGED vars
  BY <1>1 DEF vars, store, history, TypeInv, TypeOK, Shape, Domains
<1> QED
  BY <1>1, StepCases, TypeTick, TypeFlush, TypeAdmit, TypeBlock, TypeSlot

(* Type correctness: a sorted set never holds more than the limit of its    *)
(* rule, Redis keeps a key exactly as long as it has members, and ages,     *)
(* times to live and promises stay in their ranges.                         *)
THEOREM TypeCorrect == Spec => []TypeOK
<1>1. TypeInv => TypeOK
  BY DEF TypeInv
<1> QED
  BY TypeInit, TypeStep, <1>1, PTL DEF Spec

-----------------------------------------------------------------------------
(* The limit of a window *)

(* A key lives until its youngest member is a window old. *)
LastsAWindow(k) == \A m \in DOMAIN zset[k] : zset[k][m] + ttl[k] >= window(k)

(* An admitted request younger than a window is still in the sorted set:    *)
(* a script drops members a window older than its own request, and no       *)
(* request is from the future; EXPIRE drops none earlier.                   *)
RecentKept(k) ==
    \A m \in DOMAIN recent[k] :
        recent[k][m] < window(k) => m \in DOMAIN zset[k] /\ zset[k][m] = recent[k][m]

WindowLimitOf(k) ==
    \A S \in SUBSET DOMAIN recent[k] :
        (\A m, n \in S : recent[k][m] - recent[k][n] < window(k) - MaxDelay)
            => Cardinality(S) <= limit(k)

WindowOK(k) == LastsAWindow(k) /\ RecentKept(k) /\ WindowLimitOf(k)
WindowInv   == \A k \in Key : WindowOK(k)

(* A key without members or history is within its limit. *)
LEMMA EmptyWindow ==
    ASSUME NEW k \in Key, zset[k] = Empty, recent[k] = Empty
    PROVE  WindowOK(k)
<1>1. DOMAIN zset[k] = {} /\ DOMAIN recent[k] = {} /\ Cardinality({}) = 0
  BY EmptyKey, FS_EmptySet
<1>2. \A S \in SUBSET DOMAIN recent[k] : S = {}
  BY <1>1
<1>3. Cardinality({}) <= limit(k)
  BY <1>1, KeyConstants
<1>4. LastsAWindow(k) /\ RecentKept(k)
  BY <1>1 DEF LastsAWindow, RecentKept
<1>5. WindowLimitOf(k)
  BY <1>2, <1>3 DEF WindowLimitOf
<1> QED
  BY <1>4, <1>5 DEF WindowOK

(* The same after a step *)
LEMMA EmptyWindowNext ==
    ASSUME NEW k \in Key, zset'[k] = Empty, recent'[k] = Empty
    PROVE  WindowOK(k)'
<1>1. DOMAIN zset'[k] = {} /\ DOMAIN recent'[k] = {} /\ Cardinality({}) = 0
  BY EmptyKey, FS_EmptySet
<1>2. \A S \in SUBSET DOMAIN recent'[k] : S = {}
  BY <1>1
<1>3. Cardinality({}) <= limit(k)
  BY <1>1, KeyConstants
<1>4. LastsAWindow(k)' /\ RecentKept(k)'
  BY <1>1 DEF LastsAWindow, RecentKept
<1>5. WindowLimitOf(k)'
  BY <1>2, <1>3 DEF WindowLimitOf
<1> QED
  BY <1>4, <1>5 DEF WindowOK

(* An admission: whatever lies within window - MaxDelay of the new request  *)
(* is younger than a window, hence still in the set when the script counts. *)
LEMMA WindowAdmit ==
    ASSUME TypeInv, TypeInv', NEW k \in Key, WindowOK(k),
           NEW age \in 0 .. MaxDelay, NEW m \in Member, m \notin DOMAIN recent[k],
           Admitted(k, age, m)
    PROVE  WindowOK(k)'
<1>1. /\ limit(k) \in Nat /\ window(k) \in Nat /\ MaxDelay \in Nat
  BY KeyConstants
<1>2. /\ \A n \in DOMAIN zset[k] : zset[k][n] \in 0 .. window(k) + MaxDelay
      /\ \A n \in DOMAIN recent[k] : recent[k][n] \in Nat
      /\ IsFiniteSet(DOMAIN zset'[k]) /\ Cardinality(DOMAIN zset'[k]) <= limit(k)
  <2>1. KeyOK(k)
    BY TypeInvParts
  <2>2. IsFiniteSet(DOMAIN zset'[k]) /\ Cardinality(DOMAIN zset'[k]) <= limit(k)
    BY DEF TypeInv, TypeOK, Shape
  <2> QED
    BY <2>1, <2>2 DEF KeyOK
<1>3. /\ DOMAIN zset'[k] = Fresh(k, age) \cup {m} /\ zset'[k][m] = age
      /\ \A n \in Fresh(k, age) : zset'[k][n] = zset[k][n]
      /\ DOMAIN recent'[k] = DOMAIN recent[k] \cup {m} /\ recent'[k][m] = age
      /\ \A n \in DOMAIN recent[k] : recent'[k][n] = recent[k][n]
      /\ ttl'[k] = window(k)
  BY DEF Admitted
<1>4. /\ Fresh(k, age) \subseteq DOMAIN zset[k]
      /\ \A n \in DOMAIN zset[k] : zset[k][n] < window(k) => n \in Fresh(k, age)
  BY <1>1, <1>2 DEF Fresh
<1>5. LastsAWindow(k)'
  <2>1. \A n \in DOMAIN zset'[k] : zset'[k][n] \in Nat
    BY <1>1, <1>2, <1>3, <1>4
  <2> QED
    BY <1>1, <1>3, <2>1 DEF LastsAWindow
<1>6. RecentKept(k)'
  <2> SUFFICES ASSUME NEW n \in DOMAIN recent'[k], recent'[k][n] < window(k)
               PROVE  n \in DOMAIN zset'[k] /\ zset'[k][n] = recent'[k][n]
    BY DEF RecentKept
  <2>1. CASE n = m
    BY <1>3, <2>1
  <2>2. CASE n # m
    <3>1. n \in DOMAIN recent[k] /\ recent[k][n] < window(k) /\ recent'[k][n] = recent[k][n]
      BY <1>3, <2>2
    <3>2. n \in DOMAIN zset[k] /\ zset[k][n] = recent[k][n]
      BY <3>1 DEF WindowOK, RecentKept
    <3> QED
      BY <1>3, <1>4, <3>1, <3>2
  <2> QED
    BY <2>1, <2>2
<1>7. WindowLimitOf(k)'
  <2> SUFFICES ASSUME NEW S \in SUBSET DOMAIN recent'[k],
                      \A i, j \in S : recent'[k][i] - recent'[k][j] < window(k) - MaxDelay
               PROVE  Cardinality(S) <= limit(k)
    BY DEF WindowLimitOf
  <2>1. CASE m \notin S
    <3>1. S \in SUBSET DOMAIN recent[k]
      BY <1>3, <2>1
    <3>2. \A i, j \in S : recent[k][i] - recent[k][j] < window(k) - MaxDelay
      BY <1>3, <3>1
    <3> QED
      BY <3>1, <3>2 DEF WindowOK, WindowLimitOf
  <2>2. CASE m \in S
    <3>1. ASSUME NEW n \in S PROVE n \in DOMAIN zset'[k]
      <4>1. CASE n = m
        BY <1>3, <4>1
      <4>2. CASE n # m
        <5>1. n \in DOMAIN recent[k] /\ recent'[k][n] = recent[k][n] /\ recent[k][n] \in Nat
          BY <1>2, <1>3, <4>2
        <5>2. recent[k][n] - age < window(k) - MaxDelay
          BY <1>3, <2>2, <5>1
        <5>3. recent[k][n] < window(k)
          BY <1>1, <5>1, <5>2
        <5>4. n \in DOMAIN zset[k] /\ zset[k][n] = recent[k][n]
          BY <5>1, <5>3 DEF WindowOK, RecentKept
        <5> QED
          BY <1>3, <1>4, <5>3, <5>4
      <4> QED
        BY <4>1, <4>2
    <3>2. Cardinality(S) <= Cardinality(DOMAIN zset'[k])
      BY <1>2, <3>1, FS_Subset
    <3>3. IsFiniteSet(S)
      BY <1>2, <3>1, FS_Subset
    <3>4. Cardinality(S) \in Nat /\ Cardinality(DOMAIN zset'[k]) \in Nat
      BY <1>2, <3>3, FS_CardinalityType
    <3> QED
      BY <1>1, <1>2, <3>2, <3>4
  <2> QED
    BY <2>1, <2>2
<1> QED
  BY <1>5, <1>6, <1>7 DEF WindowOK

(* A blocked request drops only members a window older than it, and every   *)
(* admitted request younger than a window stays.                            *)
LEMMA WindowBlock ==
    ASSUME TypeInv, NEW k \in Key, WindowOK(k), NEW age \in 0 .. MaxDelay,
           DOMAIN zset'[k] = Fresh(k, age),
           \A n \in Fresh(k, age) : zset'[k][n] = zset[k][n],
           ttl'[k] = ttl[k], recent'[k] = recent[k]
    PROVE  WindowOK(k)'
<1>1. KeyOK(k) /\ window(k) \in Nat /\ MaxDelay \in Nat
  BY TypeInvParts, KeyConstants
<1>2. /\ Fresh(k, age) \subseteq DOMAIN zset[k]
      /\ \A n \in DOMAIN zset[k] : zset[k][n] < window(k) => n \in Fresh(k, age)
  BY <1>1 DEF Fresh, KeyOK
<1>3. LastsAWindow(k)'
  BY <1>2 DEF WindowOK, LastsAWindow
<1>4. RecentKept(k)'
  BY <1>2 DEF WindowOK, RecentKept
<1>5. WindowLimitOf(k)'
  BY DEF WindowOK, WindowLimitOf
<1> QED
  BY <1>3, <1>4, <1>5 DEF WindowOK

(* Time: all ages grow alike, and a key that expires has no member younger  *)
(* than a window.                                                           *)
LEMMA WindowTick ==
    ASSUME TypeInv, NEW k \in Key, WindowOK(k), Tick
    PROVE  WindowOK(k)'
<1>1. KeyOK(k) /\ window(k) \in Nat /\ MaxDelay \in Nat
  BY TypeInvParts, KeyConstants
<1>2. /\ DOMAIN recent'[k] \subseteq DOMAIN recent[k]
      /\ \A m \in DOMAIN recent'[k] : recent'[k][m] = recent[k][m] + 1
  <2>1. recent'[k] = [m \in {n \in DOMAIN recent[k] :
                                recent[k][n] + 1 < window(k) + MaxDelay}
                        |-> recent[k][m] + 1]
    BY DEF Tick
  <2> QED
    BY <2>1
<1>3. ttl[k] \in Nat /\ ttl'[k] = IF ttl[k] > 0 THEN ttl[k] - 1 ELSE 0
  BY <1>1 DEF Tick, KeyOK
<1>4. ASSUME ttl[k] # 1 PROVE LastsAWindow(k)' /\ RecentKept(k)'
  <2>1. zset'[k] = Aged(zset[k], window(k) + MaxDelay)
    BY <1>4 DEF Tick
  <2>2. /\ DOMAIN zset'[k] = DOMAIN zset[k]
        /\ \A m \in DOMAIN zset[k] : zset'[k][m] = Least(zset[k][m] + 1, window(k) + MaxDelay)
    BY <2>1 DEF Aged
  <2>3. ASSUME NEW m \in DOMAIN zset'[k] PROVE zset'[k][m] + ttl'[k] >= window(k)
    <3>1. m \in DOMAIN zset[k] /\ zset[k][m] + ttl[k] >= window(k)
      BY <2>2 DEF WindowOK, LastsAWindow
    <3>2. zset[k][m] \in 0 .. window(k) + MaxDelay
      BY <1>1, <3>1 DEF KeyOK
    <3> QED
      BY <1>1, <1>3, <2>2, <3>1, <3>2 DEF Least
  <2>4. ASSUME NEW m \in DOMAIN recent'[k], recent'[k][m] < window(k)
        PROVE  m \in DOMAIN zset'[k] /\ zset'[k][m] = recent'[k][m]
    <3>1. /\ m \in DOMAIN recent[k] /\ recent'[k][m] = recent[k][m] + 1
          /\ recent[k][m] \in Nat
      BY <1>1, <1>2 DEF KeyOK
    <3>2. recent[k][m] < window(k)
      BY <1>1, <2>4, <3>1
    <3>3. m \in DOMAIN zset[k] /\ zset[k][m] = recent[k][m]
      BY <3>1, <3>2 DEF WindowOK, RecentKept
    <3> QED
      BY <1>1, <2>2, <2>4, <3>1, <3>3 DEF Least
  <2> QED
    BY <2>3, <2>4 DEF LastsAWindow, RecentKept
<1>5. ASSUME ttl[k] = 1 PROVE LastsAWindow(k)' /\ RecentKept(k)'
  <2>1. DOMAIN zset'[k] = {}
    BY <1>5, EmptyKey DEF Tick
  <2>2. ASSUME NEW m \in DOMAIN recent'[k], recent'[k][m] < window(k)
        PROVE  FALSE
    <3>1. /\ m \in DOMAIN recent[k] /\ recent'[k][m] = recent[k][m] + 1
          /\ recent[k][m] \in Nat
      BY <1>1, <1>2 DEF KeyOK
    <3>2. recent[k][m] < window(k)
      BY <1>1, <2>2, <3>1
    <3>3. m \in DOMAIN zset[k] /\ zset[k][m] = recent[k][m]
      BY <3>1, <3>2 DEF WindowOK, RecentKept
    <3>4. zset[k][m] + 1 >= window(k)
      BY <1>5, <3>3 DEF WindowOK, LastsAWindow
    <3> QED
      BY <1>1, <2>2, <3>1, <3>3, <3>4
  <2> QED
    BY <2>1, <2>2 DEF LastsAWindow, RecentKept
<1>6. WindowLimitOf(k)'
  <2> SUFFICES ASSUME NEW S \in SUBSET DOMAIN recent'[k],
                      \A i, j \in S : recent'[k][i] - recent'[k][j] < window(k) - MaxDelay
               PROVE  Cardinality(S) <= limit(k)
    BY DEF WindowLimitOf
  <2>1. S \in SUBSET DOMAIN recent[k]
    BY <1>2
  <2>2. ASSUME NEW i \in S, NEW j \in S
        PROVE  recent[k][i] - recent[k][j] < window(k) - MaxDelay
    <3>1. /\ recent'[k][i] = recent[k][i] + 1 /\ recent'[k][j] = recent[k][j] + 1
          /\ recent[k][i] \in Nat /\ recent[k][j] \in Nat
      BY <1>1, <1>2 DEF KeyOK
    <3>2. recent'[k][i] - recent'[k][j] < window(k) - MaxDelay
      OBVIOUS
    <3> QED
      BY <1>1, <3>1, <3>2
  <2> QED
    BY <2>1, <2>2 DEF WindowOK, WindowLimitOf
<1> QED
  BY <1>4, <1>5, <1>6 DEF WindowOK

(* The limit is kept by every step, one key at a time. *)
LEMMA WindowStep == TypeInv /\ TypeInv' /\ WindowInv /\ [Next]_vars => WindowInv'
<1> SUFFICES ASSUME TypeInv, TypeInv', WindowInv, [Next]_vars, NEW k \in Key
             PROVE  WindowOK(k)'
  BY DEF WindowInv
<1>1. WindowOK(k)
  BY DEF WindowInv
<1>2. ASSUME zset'[k] = zset[k], ttl'[k] = ttl[k], recent'[k] = recent[k]
      PROVE  WindowOK(k)'
  BY <1>1, <1>2 DEF WindowOK, LastsAWindow, RecentKept, WindowLimitOf
<1>3. CASE Tick
  BY <1>1, <1>3, WindowTick
<1>4. ASSUME NEW ip \in Ip, Flush(ip) PROVE WindowOK(k)'
  <2>1. CASE k[2] = ip
    <3>1. zset'[k] = Empty /\ recent'[k] = Empty
      BY <1>4, <2>1 DEF Flush
    <3> QED
      BY <3>1, EmptyWindowNext
  <2>2. CASE k[2] # ip
    <3>1. zset'[k] = zset[k] /\ ttl'[k] = ttl[k] /\ recent'[k] = recent[k]
      BY <1>4, <2>2 DEF Flush
    <3> QED
      BY <1>2, <3>1
  <2> QED
    BY <2>1, <2>2
<1>5. ASSUME NEW q \in Request, Admit(q) PROVE WindowOK(k)'
  <2>1. PICK j \in Key, age \in 0 .. MaxDelay, m \in Member : Admits(q, j, age, m)
    BY <1>5, AdmitNamed
  <2>2. OthersKept(j) /\ Admitted(j, age, m) /\ m \notin DOMAIN recent[j]
    BY <2>1, AdmitsKey DEF Admits
  <2>3. CASE k = j
    BY <1>1, <2>2, <2>3, WindowAdmit
  <2>4. CASE k # j
    <3>1. zset'[k] = zset[k] /\ ttl'[k] = ttl[k] /\ recent'[k] = recent[k]
      BY <2>2, <2>4 DEF OthersKept
    <3> QED
      BY <1>2, <3>1
  <2> QED
    BY <2>3, <2>4
<1>6. ASSUME NEW q \in Request, Block(q) PROVE WindowOK(k)'
  <2>1. PICK j \in Key, age \in 0 .. MaxDelay : \E old \in Fresh(j, age) : Blocks(j, age, old)
    BY <1>6, BlockNamed
  <2>2. PICK old \in Fresh(j, age) : Blocks(j, age, old)
    BY <2>1
  <2>3. /\ \A i \in Key \ {j} : zset'[i] = zset[i]
        /\ DOMAIN zset'[j] = Fresh(j, age)
        /\ \A n \in Fresh(j, age) : zset'[j][n] = zset[j][n]
    BY <2>2, BlocksKey
  <2>4. ttl' = ttl /\ recent' = recent
    BY <2>2 DEF Blocks
  <2>5. CASE k = j
    BY <1>1, <2>3, <2>4, <2>5, WindowBlock
  <2>6. CASE k # j
    BY <1>2, <2>3, <2>4, <2>6
  <2> QED
    BY <2>5, <2>6
<1>7. CASE UNCHANGED <<store, history>>
  BY <1>2, <1>7 DEF store, history
<1>8. CASE UNCHANGED vars
  BY <1>7, <1>8 DEF vars
<1> QED
  BY <1>3, <1>4, <1>5, <1>6, <1>7, <1>8, StepCases

(* The requests admitted under a key with times in any span of              *)
(* window - MaxDelay are at most `limit`, in whatever order their scripts   *)
(* run (WindowLimit).                                                       *)
THEOREM LimitHolds == Spec => []WindowLimit
<1>1. Init => WindowInv
  <2> SUFFICES ASSUME Init, NEW k \in Key PROVE WindowOK(k)
    BY DEF WindowInv
  <2>1. zset[k] = Empty /\ recent[k] = Empty
    BY DEF Init
  <2> QED
    BY <2>1, EmptyWindow
<1>2. WindowInv => WindowLimit
  BY DEF WindowInv, WindowOK, WindowLimitOf, WindowLimit
<1> QED
  BY <1>1, <1>2, TypeInit, TypeStep, WindowStep, PTL DEF Spec

-----------------------------------------------------------------------------
(* Retry-After *)

(* The members still counted when the Retry-After given out is over *)
StillCounted(k) == {m \in DOMAIN zset[k] : zset[k][m] + promise[k] < window(k)}

(* ... are fewer than the limit, unless somebody was admitted since. *)
PromiseOK(k) == promise[k] # NONE => Cardinality(StillCounted(k)) < limit(k)
PromiseInv   == \A k \in Key : PromiseOK(k)

(* A part of a finite set that counts fewer than the limit does so too. *)
LEMMA FewerStill ==
    ASSUME NEW S, IsFiniteSet(S), NEW T \in SUBSET S, NEW n \in Nat, Cardinality(S) < n
    PROVE  Cardinality(T) < n
<1>1. IsFiniteSet(T) /\ Cardinality(T) <= Cardinality(S)
  BY FS_Subset
<1>2. Cardinality(T) \in Nat /\ Cardinality(S) \in Nat
  BY <1>1, FS_CardinalityType
<1> QED
  BY <1>1, <1>2

(* One element less than a set within the limit is below it. *)
LEMMA OneLess ==
    ASSUME NEW S, IsFiniteSet(S), NEW x \in S, NEW T \in SUBSET (S \ {x}),
           NEW n \in Nat, Cardinality(S) <= n
    PROVE  Cardinality(T) < n
<1>1. IsFiniteSet(S \ {x}) /\ Cardinality(S \ {x}) = Cardinality(S) - 1
  BY FS_RemoveElement
<1>2. Cardinality(S) \in Nat
  BY FS_CardinalityType
<1>3. Cardinality(S \ {x}) < n
  BY <1>1, <1>2
<1> QED
  BY <1>1, <1>3, FewerStill

(* The members still counted are a finite set. *)
LEMMA StillFinite ==
    ASSUME TypeInv, NEW k \in Key
    PROVE  IsFiniteSet(StillCounted(k)) /\ IsFiniteSet(DOMAIN zset[k])
<1>1. IsFiniteSet(DOMAIN zset[k]) /\ StillCounted(k) \subseteq DOMAIN zset[k]
  BY DEF TypeInv, Shape, StillCounted
<1> QED
  BY <1>1, FS_Subset

(* A blocked request: when its Retry-After is over, the oldest member is a  *)
(* window old, and the set was not above the limit.                         *)
LEMMA PromiseBlock ==
    ASSUME TypeInv, NEW k \in Key, PromiseOK(k), NEW age \in 0 .. MaxDelay,
           NEW old \in Fresh(k, age),
           DOMAIN zset'[k] = Fresh(k, age),
           \A n \in Fresh(k, age) : zset'[k][n] = zset[k][n],
           promise'[k] = IF promise[k] = NONE THEN Wait(k, age, old)
                         ELSE Least(promise[k], Wait(k, age, old))
    PROVE  PromiseOK(k)'
<1>1. /\ KeyOK(k) /\ window(k) \in Nat /\ MaxDelay \in Nat /\ Sec \in Nat
      /\ limit(k) \in Nat
  BY TypeInvParts, KeyConstants
<1>2. Fresh(k, age) \subseteq DOMAIN zset[k]
  BY DEF Fresh
<1>3. /\ \A n \in DOMAIN zset[k] : zset[k][n] \in 0 .. window(k) + MaxDelay
      /\ Cardinality(DOMAIN zset[k]) <= limit(k)
  BY <1>1 DEF KeyOK
<1>4. IsFiniteSet(StillCounted(k)) /\ IsFiniteSet(DOMAIN zset[k])
  BY StillFinite
<1>5. /\ Wait(k, age, old) \in 0 .. window(k) + MaxDelay + Sec
      /\ zset[k][old] + Wait(k, age, old) >= window(k)
  BY WaitLasts
<1>6. StillCounted(k)' = {n \in Fresh(k, age) : zset[k][n] + promise'[k] < window(k)}
  BY DEF StillCounted
<1>7. CASE promise'[k] = Wait(k, age, old)
  <2>1. old \notin StillCounted(k)'
    BY <1>1, <1>2, <1>3, <1>5, <1>6, <1>7
  <2>2. StillCounted(k)' \in SUBSET (DOMAIN zset[k] \ {old})
    BY <1>2, <1>6, <2>1
  <2>3. Cardinality(StillCounted(k)') < limit(k)
    BY <1>1, <1>2, <1>3, <1>4, <2>2, OneLess
  <2> QED
    BY <2>3 DEF PromiseOK
<1>8. CASE promise[k] # NONE /\ promise'[k] = promise[k]
  <2>1. StillCounted(k)' \in SUBSET StillCounted(k)
    BY <1>2, <1>6, <1>8 DEF StillCounted
  <2>2. Cardinality(StillCounted(k)') < limit(k)
    BY <1>1, <1>4, <1>8, <2>1, FewerStill DEF PromiseOK
  <2> QED
    BY <2>2 DEF PromiseOK
<1> QED
  BY <1>7, <1>8 DEF Least

(* Time: a member never comes back, and one tick less is left for each.     *)
LEMMA PromiseTick ==
    ASSUME TypeInv, NEW k \in Key, PromiseOK(k), Tick
    PROVE  PromiseOK(k)'
<1>1. /\ KeyOK(k) /\ window(k) \in Nat /\ MaxDelay \in Nat /\ Sec \in Nat
      /\ limit(k) \in Nat /\ limit(k) > 0
  BY TypeInvParts, KeyConstants
<1>2. NONE \notin Nat
  BY RateAssumption
<1>3. promise'[k] = IF promise[k] \in {0, NONE} THEN promise[k] ELSE promise[k] - 1
  BY DEF Tick
<1>4. CASE promise[k] = NONE
  BY <1>3, <1>4 DEF PromiseOK
<1>5. CASE promise[k] # NONE
  <2>1. promise[k] \in Nat /\ promise'[k] \in Nat /\ promise'[k] >= promise[k] - 1
    BY <1>1, <1>3, <1>5 DEF KeyOK
  <2>2. IsFiniteSet(StillCounted(k)) /\ Cardinality(StillCounted(k)) < limit(k)
    BY <1>5, StillFinite DEF PromiseOK
  <2>3. StillCounted(k)' \in SUBSET StillCounted(k)
    <3> SUFFICES ASSUME NEW m \in StillCounted(k)' PROVE m \in StillCounted(k)
      OBVIOUS
    <3>1. m \in DOMAIN zset'[k] /\ zset'[k][m] + promise'[k] < window(k)
      BY DEF StillCounted
    <3>2. ttl[k] # 1
      BY <3>1, EmptyKey DEF Tick
    <3>3. zset'[k] = Aged(zset[k], window(k) + MaxDelay)
      BY <3>2 DEF Tick
    <3>4. m \in DOMAIN zset[k] /\ zset'[k][m] = Least(zset[k][m] + 1, window(k) + MaxDelay)
      BY <3>1, <3>3 DEF Aged
    <3>5. zset[k][m] \in 0 .. window(k) + MaxDelay
      BY <1>1, <3>4 DEF KeyOK
    <3>6. zset[k][m] + promise[k] < window(k)
      BY <1>1, <2>1, <3>1, <3>4, <3>5 DEF Least
    <3> QED
      BY <3>4, <3>6 DEF StillCounted
  <2>4. Cardinality(StillCounted(k)') < limit(k)
    BY <1>1, <2>2, <2>3, FewerStill
  <2> QED
    BY <2>4 DEF PromiseOK
<1> QED
  BY <1>4, <1>5

(* Every step keeps the promise, one key at a time. *)
LEMMA PromiseStep == TypeInv /\ PromiseInv /\ [Next]_vars => PromiseInv'
<1> SUFFICES ASSUME TypeInv, PromiseInv, [Next]_vars, NEW k \in Key
             PROVE  PromiseOK(k)'
  BY DEF PromiseInv
<1>1. PromiseOK(k)
  BY DEF PromiseInv
<1>2. ASSUME zset'[k] = zset[k], promise'[k] = promise[k]
      PROVE  PromiseOK(k)'
  BY <1>1, <1>2 DEF PromiseOK, StillCounted
<1>3. ASSUME promise'[k] = NONE PROVE PromiseOK(k)'
  BY <1>3 DEF PromiseOK
<1>4. CASE Tick
  BY <1>1, <1>4, PromiseTick
<1>5. ASSUME NEW ip \in Ip, Flush(ip) PROVE PromiseOK(k)'
  BY <1>2, <1>3, <1>5 DEF Flush
<1>6. ASSUME NEW q \in Request, Admit(q) PROVE PromiseOK(k)'
  <2>1. PICK j \in Key, age \in 0 .. MaxDelay, m \in Member : Admits(q, j, age, m)
    BY <1>6, AdmitNamed
  <2>2. OthersKept(j) /\ Admitted(j, age, m)
    BY <2>1, AdmitsKey
  <2>3. promise'[j] = NONE
    BY <2>2 DEF Admitted
  <2>4. k # j => zset'[k] = zset[k] /\ promise'[k] = promise[k]
    BY <2>2 DEF OthersKept
  <2> QED
    BY <1>2, <1>3, <2>3, <2>4
<1>7. ASSUME NEW q \in Request, Block(q) PROVE PromiseOK(k)'
  <2>1. PICK j \in Key, age \in 0 .. MaxDelay : \E old \in Fresh(j, age) :
           /\ Blocks(j, age, old)
           /\ promise' = [promise EXCEPT ![j] = IF @ = NONE THEN Wait(j, age, old)
                                                ELSE Least(@, Wait(j, age, old))]
    BY <1>7, BlockNamed
  <2>2. PICK old \in Fresh(j, age) :
           /\ Blocks(j, age, old)
           /\ promise' = [promise EXCEPT ![j] = IF @ = NONE THEN Wait(j, age, old)
                                                ELSE Least(@, Wait(j, age, old))]
    BY <2>1
  <2>3. /\ \A i \in Key \ {j} : zset'[i] = zset[i]
        /\ DOMAIN zset'[j] = Fresh(j, age)
        /\ \A n \in Fresh(j, age) : zset'[j][n] = zset[j][n]
    BY <2>2, BlocksKey
  <2>4. DOMAIN promise = Key
    BY TypeInvParts DEF Domains
  <2>5. CASE k = j
    <3>1. promise'[k] = IF promise[k] = NONE THEN Wait(k, age, old)
                        ELSE Least(promise[k], Wait(k, age, old))
      BY <2>2, <2>4, <2>5
    <3> QED
      BY <1>1, <2>3, <2>5, <3>1, PromiseBlock
  <2>6. CASE k # j
    BY <1>2, <2>2, <2>3, <2>4, <2>6
  <2> QED
    BY <2>5, <2>6
<1>8. CASE UNCHANGED <<store, history>>
  BY <1>2, <1>8 DEF store, history
<1>9. CASE UNCHANGED vars
  BY <1>8, <1>9 DEF vars
<1> QED
  BY <1>4, <1>5, <1>6, <1>7, <1>8, <1>9, StepCases

(* A client that waits as long as Retry-After says, while nobody else is    *)
(* admitted under its key, is let in (RetryAfterHonest).                    *)
THEOREM RetryAfterIsHonest == Spec => []RetryAfterHonest
<1>1. Init => PromiseInv
  BY DEF Init, PromiseInv, PromiseOK
<1>2. TypeInv /\ PromiseInv => RetryAfterHonest
  <2> SUFFICES ASSUME TypeInv, PromiseInv, NEW k \in Key, promise[k] = 0
               PROVE  Free(k, 0)
    BY DEF RetryAfterHonest
  <2>1. NONE \notin Nat
    BY RateAssumption
  <2>2. Cardinality(StillCounted(k)) < limit(k)
    BY <2>1 DEF PromiseInv, PromiseOK
  <2>3. KeyOK(k) /\ window(k) \in Nat /\ MaxDelay \in Nat
    BY TypeInvParts, KeyConstants
  <2>4. StillCounted(k) = Fresh(k, 0)
    BY <2>3 DEF StillCounted, Fresh, KeyOK
  <2> QED
    BY <2>2, <2>4 DEF Free
<1> QED
  BY <1>1, <1>2, TypeInit, TypeStep, PromiseStep, PTL DEF Spec
=============================================================================
