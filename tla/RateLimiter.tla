---------------------------- MODULE RateLimiter ----------------------------
(***************************************************************************)
(* The sliding-window rate limiter (hefest/middleware/rate_limit.py): the  *)
(* rule and the key of a request, and the Lua script over one Redis sorted *)
(* set per key.                                                            *)
(*                                                                         *)
(* A request takes its time in the API process and the script runs in      *)
(* Redis up to MaxDelay later, so requests may reach Redis in another      *)
(* order than their times.  Time is counted in ticks, Sec to a second, and *)
(* a score is stored as its age; an age saturates where every script       *)
(* would drop it.  Keys do not influence each other.                       *)
(*                                                                         *)
(* A sorted set is the function from its members to their scores; members  *)
(* are unique, so one that nothing refers to any more stands for a new one.*)
(***************************************************************************)
EXTENDS Integers, FiniteSets

CONSTANTS
    Kind,           \* bound: the kinds of request that are made
    Ip, User,
    Request,        \* slots for requests between time.time() and the script
    Member,         \* bound: members in use at once, f"{now}:{uuid4}"
    NONE,
    Limit, Window,  \* per tag: rate_limit_*_count, rate_limit_*_window_seconds
    Sec,            \* ticks in a second
    MaxDelay        \* bound: ticks between time.time() and the script's run

(* _RULES: the first that matches, and what it counts by.  A method that no *)
(* rule lists ("unlisted") passes unlimited.                                *)
Rule == [login          |-> [tag |-> "login", identifier |-> "ip"],
         register       |-> [tag |-> "register", identifier |-> "ip"],
         event_register |-> [tag |-> "event_register", identifier |-> "user"],
         other          |-> [tag |-> "global", identifier |-> "ip"]]

(* The tags and keys that the kinds of request made can have *)
Tag  == {Rule[kind].tag : kind \in Kind \cap DOMAIN Rule}
Key  == Tag \X (Ip \cup User)

ASSUME RateAssumption ==
    /\ Kind \subseteq DOMAIN Rule \cup {"unlisted"}
    /\ Limit \in [Tag -> Nat \ {0}] /\ Window \in [Tag -> Nat \ {0}]
    /\ Sec \in Nat \ {0} /\ MaxDelay \in Nat \ {0}
    /\ \A tag \in Tag : MaxDelay < Window[tag] * Sec
    /\ NONE \notin Ip \cup User \cup Nat

VARIABLES
    zset,       \* the sorted set of a key: the age of the score of each member
    ttl,        \* time until Redis drops the key, 0 if there is none
    req,        \* the request in a slot: its key, the user who made it, its age
    recent,     \* history: ages of the members admitted under a key
    promise,    \* history: time until the earliest Retry-After given out is over
    served      \* history: users with an admitted event registration

store   == <<zset, ttl>>
history == <<recent, promise, served>>
vars    == <<store, req, history>>

limit(k)  == Limit[k[1]]
window(k) == Window[k[1]] * Sec
Least(a, b) == IF a < b THEN a ELSE b
Empty == [m \in {} |-> 0]

TypeOK ==
    /\ \A k \in Key :
          /\ DOMAIN zset[k] \subseteq Member
          /\ \A m \in DOMAIN zset[k] : zset[k][m] \in 0 .. window(k) + MaxDelay
          /\ Cardinality(DOMAIN zset[k]) <= limit(k)
          /\ ttl[k] \in 0 .. window(k)
          /\ ttl[k] = 0 <=> DOMAIN zset[k] = {}
          /\ promise[k] \in 0 .. window(k) + MaxDelay + Sec \cup {NONE}
    /\ \A q \in Request :
          req[q] \in [key : Key, user : User \cup {NONE}, age : 0 .. MaxDelay] \cup {NONE}
    /\ served \subseteq User

Init ==
    /\ zset = [k \in Key |-> Empty]
    /\ ttl = [k \in Key |-> 0]
    /\ req = [q \in Request |-> NONE]
    /\ recent = [k \in Key |-> Empty]
    /\ promise = [k \in Key |-> NONE]
    /\ served = {}

-----------------------------------------------------------------------------
(* The key of a request *)

(* services/auth.create_access_token: every access token names an audience. *)
access_token(u) == [sub |-> u, aud |-> TRUE]

(* jwt.decode is given no audience: PyJWT then refuses a token that has one *)
(* (InvalidAudienceError), and the user id is None.                         *)
verified_user_id(token) == IF token = NONE \/ token.aud THEN NONE ELSE token.sub

key(kind, ip, token) ==
    LET uid == verified_user_id(token)
    IN  <<Rule[kind].tag,
          IF Rule[kind].identifier = "user" /\ uid # NONE THEN uid ELSE ip>>

-----------------------------------------------------------------------------
(* SLIDING_WINDOW_LUA *)

(* f"{now}:{uuid4}": a member that nothing else refers to.  It is drawn with *)
(* the time but first seen when the script adds it.                         *)
InUse(k)      == DOMAIN zset[k] \cup DOMAIN recent[k]
new_member(k) == CHOOSE m \in Member : m \notin InUse(k)

(* ZADD: a member with the request's time as its score *)
Add(s, m, age) == [n \in DOMAIN s \cup {m} |-> IF n = m THEN age ELSE s[n]]

(* ZREMRANGEBYSCORE 0 now - window, seen from a request of this age *)
Fresh(k, age) == {m \in DOMAIN zset[k] : zset[k][m] - age < window(k)}
Kept(k, age)  == [m \in Fresh(k, age) |-> zset[k][m]]

(* mutant: count <= limit *)
Free_OneMore(k, age) == Cardinality(Fresh(k, age)) <= limit(k)

(* ZCARD key < limit *)
Free(k, age) == Cardinality(Fresh(k, age)) < limit(k)

(* ZRANGE key 0 0: a member with the lowest score *)
Oldest(k, age) == {m \in Fresh(k, age) : \A n \in Fresh(k, age) : zset[k][n] <= zset[k][m]}

(* mutant: math.floor *)
retry_after_Floor(k, age, oldest) ==
    LET left == window(k) - (oldest - age) IN
    IF left < Sec THEN 1 ELSE left \div Sec

(* max(1, ceil(window - (now - oldest))), in seconds *)
retry_after(k, age, oldest) ==
    LET left == window(k) - (oldest - age) IN
    IF left < Sec THEN 1 ELSE (left + Sec - 1) \div Sec

-----------------------------------------------------------------------------
(* RateLimitMiddleware.dispatch *)

(* The rule is resolved, the key built and the time taken. *)
Arrive(q, kind, ip, u) ==
    /\ req[q] = NONE /\ kind \in DOMAIN Rule
    /\ LET token == IF u = NONE THEN NONE ELSE access_token(u) IN
       req' = [req EXCEPT ![q] =
                  [key |-> key(kind, ip, token), age |-> 0,
                   user |-> IF Rule[kind].identifier = "user" THEN u ELSE NONE]]
    /\ UNCHANGED <<store, history>>

(* No rule: call_next without a look at Redis *)
Pass(q, kind) == req[q] = NONE /\ kind \notin DOMAIN Rule /\ UNCHANGED vars

(* mutant: EXPIRE is missing *)
Admit_NoExpire(q) ==
    /\ req[q] # NONE
    /\ LET k == req[q].key  age == req[q].age IN
       /\ Free(k, age) /\ ~(Member \subseteq InUse(k))
       /\ zset' = [zset EXCEPT ![k] = Add(Kept(k, age), new_member(k), age)]
       /\ recent' = [recent EXCEPT ![k] = Add(@, new_member(k), age)]
       /\ promise' = [promise EXCEPT ![k] = NONE]
    /\ served' = served \cup ({req[q].user} \ {NONE})
    /\ req' = [req EXCEPT ![q] = NONE]
    /\ UNCHANGED ttl

(* The script admits and records the request. *)
Admit(q) ==
    /\ req[q] # NONE
    /\ LET k == req[q].key  age == req[q].age IN
       /\ Free(k, age) /\ ~(Member \subseteq InUse(k))
       /\ zset' = [zset EXCEPT ![k] = Add(Kept(k, age), new_member(k), age)]
       /\ ttl' = [ttl EXCEPT ![k] = window(k)]
       /\ recent' = [recent EXCEPT ![k] = Add(@, new_member(k), age)]
       /\ promise' = [promise EXCEPT ![k] = NONE]
    /\ served' = served \cup ({req[q].user} \ {NONE})
    /\ req' = [req EXCEPT ![q] = NONE]

(* mutant: a blocked request is recorded too (the oldest makes room, as the *)
(* size past the limit does not matter)                                     *)
Block_Records(q) ==
    /\ req[q] # NONE
    /\ LET k == req[q].key  age == req[q].age IN
       /\ ~Free(k, age)
       /\ \E old \in Oldest(k, age) :
             zset' = [zset EXCEPT ![k] = [m \in Fresh(k, age) |->
                                             IF m = old THEN age ELSE @[m]]]
       /\ ttl' = [ttl EXCEPT ![k] = window(k)]
       /\ promise' = [promise EXCEPT ![k] = NONE]
    /\ req' = [req EXCEPT ![q] = NONE]
    /\ UNCHANGED <<recent, served>>

(* 429 with Retry-After; what is too old is dropped all the same *)
Block(q) ==
    /\ req[q] # NONE
    /\ LET k == req[q].key  age == req[q].age IN
       /\ ~Free(k, age)
       /\ zset' = [zset EXCEPT ![k] = Kept(k, age)]
       /\ \E old \in Oldest(k, age) :
             LET wait == retry_after(k, age, zset[k][old]) * Sec - age
                 left == IF wait < 0 THEN 0 ELSE wait IN
             promise' = [promise EXCEPT ![k] = IF @ = NONE THEN left ELSE Least(@, left)]
    /\ req' = [req EXCEPT ![q] = NONE]
    /\ UNCHANGED <<ttl, recent, served>>

(* Redis does not answer: the exception is a 500, the request is not let in. *)
(* If the script ran and only its reply was lost, that is Admit or Block.    *)
Error(q) ==
    /\ req[q] # NONE
    /\ req' = [req EXCEPT ![q] = NONE]
    /\ UNCHANGED <<store, history>>

(* routers/internal.flush_ratelimit: every key of the calling IP.  KEYS and *)
(* DEL are two commands; each key only sees that it is gone.  The history   *)
(* of a flushed key starts again.                                           *)
Flush(ip) ==
    /\ zset' = [k \in Key |-> IF k[2] = ip THEN Empty ELSE zset[k]]
    /\ ttl' = [k \in Key |-> IF k[2] = ip THEN 0 ELSE ttl[k]]
    /\ recent' = [k \in Key |-> IF k[2] = ip THEN Empty ELSE recent[k]]
    /\ promise' = [k \in Key |-> IF k[2] = ip THEN NONE ELSE promise[k]]
    /\ UNCHANGED <<req, served>>

-----------------------------------------------------------------------------
(* One tick: ages grow, Redis drops a key whose TTL is over. *)
Aged(s, top) == [m \in DOMAIN s |-> Least(s[m] + 1, top)]

Tick ==
    /\ \A q \in Request : req[q] # NONE => req[q].age < MaxDelay
    /\ zset' = [k \in Key |-> IF ttl[k] = 1 THEN Empty
                              ELSE Aged(zset[k], window(k) + MaxDelay)]
    /\ ttl' = [k \in Key |-> IF ttl[k] > 0 THEN ttl[k] - 1 ELSE 0]
    /\ req' = [q \in Request |->
                  IF req[q] = NONE THEN NONE ELSE [req[q] EXCEPT !.age = @ + 1]]
    /\ recent' = [k \in Key |-> [m \in {n \in DOMAIN recent[k] :
                                           recent[k][n] + 1 < window(k) + MaxDelay}
                                   |-> recent[k][m] + 1]]
    /\ promise' = [k \in Key |-> IF promise[k] \in {0, NONE} THEN promise[k]
                                 ELSE promise[k] - 1]
    /\ UNCHANGED served

Serve(q) == Admit(q) \/ Block(q)

Next ==
    \/ Tick
    \/ \E ip \in Ip : Flush(ip)
    \/ \E q \in Request :
          \/ \E kind \in Kind : Pass(q, kind)
          \/ \E kind \in Kind, ip \in Ip, u \in User \cup {NONE} : Arrive(q, kind, ip, u)
          \/ Serve(q) \/ Error(q)

Spec == Init /\ [][Next]_vars

(* Time passes and Redis answers.  Nothing is asked of the clients. *)
FairSpec == Spec /\ WF_vars(Tick) /\ \A q \in Request : WF_vars(Serve(q) \/ Error(q))

-----------------------------------------------------------------------------
(* The limit holds although scripts run out of order: the requests admitted *)
(* under a key with times in any span of window - MaxDelay are at most      *)
(* `limit`.  (In a span of a whole window they may be more.)                *)
WindowLimit ==
    \A k \in Key : \A S \in SUBSET DOMAIN recent[k] :
        (\A m, n \in S : recent[k][m] - recent[k][n] < window(k) - MaxDelay)
            => Cardinality(S) <= limit(k)

(* Retry-After is honest: when it is over, and nobody else was admitted     *)
(* under the key in the meantime, a new request is not limited.             *)
RetryAfterHonest == \A k \in Key : promise[k] = 0 => Free(k, 0)

(* A blocked request never adds to the set: however many are made, a full   *)
(* window empties (the comment on SLIDING_WINDOW_LUA, "indefinite lockout").*)
NoLockout == \A k \in Key : ~Free(k, 0) ~> Free(k, 0)

-----------------------------------------------------------------------------
(* What the rules and tests say, and the code does not keep *)

(* _RULES: event registrations are counted by user (identifier="user"): a   *)
(* user who has not been let in yet is not limited by what others did.      *)
LimitedByOwnRequests ==
    \A q \in Request :
        req[q] # NONE /\ req[q].user # NONE /\ req[q].user \notin served
            => Free(req[q].key, req[q].age)
=============================================================================
