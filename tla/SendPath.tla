------------------------------ MODULE SendPath ------------------------------
(***************************************************************************)
(* One send inside a worker process: the pool of kept-alive SMTP clients   *)
(* (worker/mailer.py), the best-effort push that follows it                *)
(* (consumer._send_push, worker/pusher.py) and the devices table that the  *)
(* API's device service writes at the same time (services/device.py).      *)
(*                                                                         *)
(* A task is a slot for jobs: when it is done it takes another one.  The   *)
(* SMTP server, aiosmtplib and Expo are modelled by the answers the code   *)
(* tells apart.  An SMTP connection that survives an error may still be    *)
(* dropped right after it (ServerDrops).                                   *)
(***************************************************************************)
EXTENDS Naturals, Sequences, FiniteSets

CONSTANTS
    Task,
    Client,         \* the SMTP clients of the pool
    User, Token,    \* recipients, Expo push tokens
    Username,       \* is smtp_username set?
    NONE

Concurrency == Cardinality(Client)  \* worker_send_concurrency sizes pool and semaphore

ASSUME SendAssumption ==
    /\ IsFiniteSet(Client) /\ Client # {} /\ Username \in BOOLEAN
    /\ NONE \notin Client \cup User \cup Token

VARIABLES
    mode,       \* the process: up, stopping (tasks are being cancelled), closed
    step,       \* what the task of a job does next
    outcome,    \* how its send ended
    user,       \* the recipient
    held,       \* the client it has checked out
    pool,       \* the queue of idle clients
    conn,       \* a client: closed, connected (no login yet), ready, or
                \* unquit: its QUIT failed, so it may be open still
    tainted,    \* history: clients whose login failed on the connection they have
    tokens,     \* push tokens loaded for the job
    dead,       \* those that Expo reported as not registered, to be deleted
    device,     \* table devices: the owner of a token
    creating,   \* registrations that found no row and are about to insert one
    alive,      \* external: tokens under which Expo reaches an app
    wanted,     \* history: who registered the token last and has not removed it
    doubt       \* history: tokens reported dead since they were last registered

smtp    == <<held, pool, conn, tainted>>
push    == <<tokens, dead>>
devices == <<device, creating, alive, wanted>>
vars    == <<mode, step, outcome, user, smtp, push, devices, doubt>>

Failure == {"timeout", "4xx", "5xx", "disconnect"}
Mailing == {"checkout", "connect", "login", "mail"}
Pushing == {"tokens", "post", "prune"}
Step    == {"queued", "end"} \cup Mailing \cup Pushing

TypeOK ==
    /\ mode \in {"up", "stopping", "closed"}
    /\ step \in [Task -> Step]
    /\ outcome \in [Task -> {NONE, "completed", "transient", "permanent"}]
    /\ user \in [Task -> User \cup {NONE}]
    /\ held \in [Task -> Client \cup {NONE}]
    /\ pool \in Seq(Client) /\ Len(pool) <= Concurrency
    /\ conn \in [Client -> {"closed", "connected", "ready", "unquit"}]
    /\ tainted \subseteq {c \in Client : conn[c] = "connected"}
    /\ tokens \in [Task -> SUBSET Token] /\ dead \in [Task -> SUBSET Token]
    /\ device \in [Token -> User \cup {NONE}]
    /\ creating \subseteq User \X Token
    /\ alive \subseteq Token /\ doubt \subseteq Token
    /\ wanted \in [Token -> User \cup {NONE}]

(* A fresh process with its Mailer: clients are not connected yet. *)
FreshPool == {p \in [1 .. Concurrency -> Client] : {p[i] : i \in 1 .. Concurrency} = Client}

Init ==
    /\ mode = "up"
    /\ step = [j \in Task |-> "queued"]
    /\ outcome = [j \in Task |-> NONE]
    /\ user = [j \in Task |-> NONE]
    /\ held = [j \in Task |-> NONE]
    /\ pool \in FreshPool
    /\ conn = [c \in Client |-> "closed"]
    /\ tainted = {}
    /\ tokens = [j \in Task |-> {}] /\ dead = [j \in Task |-> {}]
    /\ device = [t \in Token |-> NONE] /\ creating = {}
    /\ alive = Token
    /\ wanted = [t \in Token |-> NONE]
    /\ doubt = {}

-----------------------------------------------------------------------------
GoTo(j, next) == step' = [step EXCEPT ![j] = next]

End(j, result) ==
    /\ GoTo(j, "end")
    /\ outcome' = [outcome EXCEPT ![j] = result]

(* mutant: put_nowait stands after the send, not in the finally block *)
PutBack_OnlyOnSuccess(j) ==
    /\ held' = [held EXCEPT ![j] = NONE]
    /\ pool' = IF step'[j] = "tokens" THEN Append(pool, held[j]) ELSE pool

(* mutant: an except block puts the client back as well *)
PutBack_Twice(j) ==
    /\ held' = [held EXCEPT ![j] = NONE]
    /\ pool' = pool \o <<held[j], held[j]>>

(* finally: self._pool.put_nowait(client) *)
PutBack(j) ==
    /\ held' = [held EXCEPT ![j] = NONE]
    /\ pool' = Append(pool, held[j])

SetConn(c, state) ==
    /\ conn' = [conn EXCEPT ![c] = state]
    /\ tainted' = tainted \ {c}

(* _classify_smtp_error *)
classify(e) == IF e = "5xx" THEN "permanent" ELSE "transient"

-----------------------------------------------------------------------------
(* _bounded_process, and _process_one up to the email *)

(* A semaphore slot, recipients.load and templates.render *)
Begin(j, u) ==
    /\ mode = "up" /\ step[j] = "queued"
    /\ Cardinality({i \in Task : step[i] # "queued"}) < Concurrency
    /\ GoTo(j, "checkout")
    /\ user' = [user EXCEPT ![j] = u]
    /\ UNCHANGED <<mode, outcome, smtp, push, devices, doubt>>

(* RecipientNotFound, unknown event type: PermanentError *)
Undeliverable(j) ==
    /\ mode = "up" /\ step[j] = "checkout"
    /\ End(j, "permanent")
    /\ UNCHANGED <<mode, user, smtp, push, devices, doubt>>

(* self._pool.get(), client.is_connected *)
CheckOut(j) ==
    /\ mode = "up" /\ step[j] = "checkout" /\ pool # <<>>
    /\ held' = [held EXCEPT ![j] = Head(pool)]
    /\ pool' = Tail(pool)
    /\ GoTo(j, IF conn[Head(pool)] = "closed" THEN "connect" ELSE "mail")
    /\ UNCHANGED <<mode, outcome, user, conn, tainted, push, devices, doubt>>

(* mutant: login is forgotten *)
Connect_NoLogin(j) ==
    /\ mode = "up" /\ step[j] = "connect"
    /\ SetConn(held[j], IF Username THEN "connected" ELSE "ready")
    /\ GoTo(j, "mail")
    /\ UNCHANGED <<mode, outcome, user, held, pool, push, devices, doubt>>

Connect(j) ==
    /\ mode = "up" /\ step[j] = "connect"
    /\ SetConn(held[j], IF Username THEN "connected" ELSE "ready")
    /\ GoTo(j, IF Username THEN "login" ELSE "mail")
    /\ UNCHANGED <<mode, outcome, user, held, pool, push, devices, doubt>>

Login(j) ==
    /\ mode = "up" /\ step[j] = "login" /\ conn[held[j]] # "closed"
    /\ SetConn(held[j], "ready")
    /\ GoTo(j, "mail")
    /\ UNCHANGED <<mode, outcome, user, held, pool, push, devices, doubt>>

(* client.send_message: accepted.  The client goes back before the push. *)
MailOk(j) ==
    /\ mode = "up" /\ step[j] = "mail" /\ conn[held[j]] # "closed"
    /\ GoTo(j, "tokens")
    /\ PutBack(j)
    /\ UNCHANGED <<mode, outcome, user, conn, tainted, push, devices, doubt>>

(* connect, login or send_message raises.  A failed login leaves the client *)
(* connected.  On a closed connection every command fails as disconnected.  *)
Fail(j, e) ==
    /\ mode = "up" /\ step[j] \in {"connect", "login", "mail"}
    /\ LET c == held[j]
           lost == e = "disconnect" \/ step[j] = "connect" IN
       /\ step[j] # "connect" /\ conn[c] = "closed" => e = "disconnect"
       /\ conn' = [conn EXCEPT ![c] = IF lost THEN "closed" ELSE @]
       /\ tainted' = IF lost THEN tainted \ {c}
                     ELSE IF step[j] = "login" THEN tainted \cup {c} ELSE tainted
    /\ End(j, classify(e))
    /\ PutBack(j)
    /\ UNCHANGED <<mode, user, push, devices, doubt>>

ServerDrops(c) ==
    /\ conn[c] # "closed"
    /\ SetConn(c, "closed")
    /\ UNCHANGED <<mode, step, outcome, user, held, pool, push, devices, doubt>>

-----------------------------------------------------------------------------
(* _send_push: whatever fails in it is logged and the job is completed *)

Completed(j) == End(j, "completed")

(* mutant: the exception of the push reaches _process_one *)
PushEnds_Raises(j) ==
    /\ mode = "up" /\ step[j] \in Pushing
    /\ End(j, "transient")
    /\ tokens' = [tokens EXCEPT ![j] = {}]
    /\ dead' = [dead EXCEPT ![j] = {}]
    /\ UNCHANGED <<mode, user, smtp, devices, doubt>>

(* No event, no tokens, a template error, a database error, an HTTP error. *)
PushEnds(j) ==
    /\ mode = "up" /\ step[j] \in Pushing
    /\ Completed(j)
    /\ tokens' = [tokens EXCEPT ![j] = {}]
    /\ dead' = [dead EXCEPT ![j] = {}]
    /\ UNCHANGED <<mode, user, smtp, devices, doubt>>

(* recipients.load_push_tokens *)
LoadTokens(j) ==
    /\ mode = "up" /\ step[j] = "tokens"
    /\ LET owned == {t \in Token : device[t] = user[j]} IN
       /\ owned # {}
       /\ tokens' = [tokens EXCEPT ![j] = owned]
    /\ GoTo(j, "post")
    /\ UNCHANGED <<mode, outcome, user, smtp, dead, devices, doubt>>

(* mutant: any error ticket counts as DeviceNotRegistered *)
Unregistered_AnyError(j) == tokens[j]

(* _is_unregistered of the tickets that Expo answers with *)
Unregistered(j) == tokens[j] \ alive

(* _send_batch: the answer names the tokens that are not registered. *)
Post(j) ==
    /\ mode = "up" /\ step[j] = "post" /\ Unregistered(j) # {}
    /\ dead' = [dead EXCEPT ![j] = Unregistered(j)]
    /\ doubt' = doubt \cup (tokens[j] \ alive)
    /\ GoTo(j, "prune")
    /\ UNCHANGED <<mode, outcome, user, smtp, tokens, devices>>

(* Device.filter(expo_push_token__in=dead_tokens).delete(): by value *)
Prune(j) ==
    /\ mode = "up" /\ step[j] = "prune"
    /\ device' = [t \in Token |-> IF t \in dead[j] THEN NONE ELSE device[t]]
    /\ Completed(j)
    /\ tokens' = [tokens EXCEPT ![j] = {}]
    /\ dead' = [dead EXCEPT ![j] = {}]
    /\ UNCHANGED <<mode, user, smtp, creating, alive, wanted, doubt>>

(* The finalizer (module Outbox) has run: the slot is free. *)
Done(j) ==
    /\ mode = "up" /\ step[j] = "end"
    /\ GoTo(j, "queued")
    /\ outcome' = [outcome EXCEPT ![j] = NONE]
    /\ user' = [user EXCEPT ![j] = NONE]
    /\ UNCHANGED <<mode, smtp, push, devices, doubt>>

-----------------------------------------------------------------------------
(* __main__._run: shutdown *)

(* SIGTERM, a lost lease, an unexpected error of one task *)
Stop ==
    /\ mode = "up" /\ mode' = "stopping"
    /\ UNCHANGED <<step, outcome, user, smtp, push, devices, doubt>>

(* CancelledError in a task: only the finally block of Mailer.send runs. *)
Cancel(j) ==
    /\ mode = "stopping" /\ step[j] # "queued"
    /\ step' = [step EXCEPT ![j] = "queued"]
    /\ outcome' = [outcome EXCEPT ![j] = NONE]
    /\ user' = [user EXCEPT ![j] = NONE]
    /\ tokens' = [tokens EXCEPT ![j] = {}] /\ dead' = [dead EXCEPT ![j] = {}]
    /\ IF held[j] = NONE THEN UNCHANGED <<held, pool>> ELSE PutBack(j)
    /\ UNCHANGED <<mode, conn, tainted, devices, doubt>>

(* QUIT to every client in the pool.  Its errors are suppressed, and then   *)
(* the connection is whatever the failure left of it.                       *)
QuitPool ==
    \E failed \in SUBSET {pool[i] : i \in DOMAIN pool} :
        /\ \A c \in failed : conn[c] # "closed"
        /\ conn' = [c \in Client |->
                      IF c \in failed THEN "unquit"
                      ELSE IF \E i \in DOMAIN pool : pool[i] = c THEN "closed" ELSE conn[c]]
        /\ tainted' = {c \in tainted : conn'[c] = "connected"}
        /\ pool' = <<>>

(* mutant: aclose does not wait for the gather of the cancelled tasks *)
Close_Early ==
    /\ mode = "stopping"
    /\ mode' = "closed"
    /\ QuitPool
    /\ UNCHANGED <<step, outcome, user, held, push, devices, doubt>>

(* gather has returned; mailer.aclose empties the pool. *)
Close ==
    /\ mode = "stopping" /\ \A j \in Task : step[j] = "queued"
    /\ mode' = "closed"
    /\ QuitPool
    /\ UNCHANGED <<step, outcome, user, held, push, devices, doubt>>

(* The process ends, and the orchestrator starts another one with clients   *)
(* of its own.                                                              *)
Restart ==
    /\ mode = "closed" /\ mode' = "up"
    /\ pool' \in FreshPool
    /\ conn' = [c \in Client |-> "closed"] /\ tainted' = {}
    /\ UNCHANGED <<step, outcome, user, held, push, devices, doubt>>

-----------------------------------------------------------------------------
(* services/device.py, in the API *)

(* The token is registered now, so an app answers to it; a report that a    *)
(* push still has in hand may yet delete the row.                           *)
Bind(u, t) ==
    /\ device' = [device EXCEPT ![t] = u]
    /\ wanted' = [wanted EXCEPT ![t] = u]
    /\ alive' = alive \cup {t}
    /\ doubt' = IF \E j \in Task : t \in dead[j] THEN doubt ELSE doubt \ {t}

(* register_device, update_or_create: the row is found and locked *)
Rebind(u, t) ==
    /\ device[t] # NONE
    /\ Bind(u, t)
    /\ UNCHANGED <<mode, step, outcome, user, smtp, push, creating>>

NotFound(u, t) ==
    /\ device[t] = NONE
    /\ creating' = creating \cup {<<u, t>>}
    /\ UNCHANGED <<mode, step, outcome, user, smtp, push, device, alive, wanted, doubt>>

(* The insert, or (IntegrityError) the row that another request inserted *)
(* first, which is returned as it is.                                     *)
Create(u, t) ==
    /\ <<u, t>> \in creating
    /\ creating' = creating \ {<<u, t>>}
    /\ IF device[t] = NONE THEN Bind(u, t)
       ELSE UNCHANGED <<device, alive, wanted, doubt>>
    /\ UNCHANGED <<mode, step, outcome, user, smtp, push>>

(* unregister_device: the owner's own token; another's is left alone *)
Unregister(u, t) ==
    /\ device[t] = u
    /\ device' = [device EXCEPT ![t] = NONE]
    /\ wanted' = [wanted EXCEPT ![t] = NONE]
    /\ UNCHANGED <<mode, step, outcome, user, smtp, push, creating, alive, doubt>>

(* The app is removed from the phone. *)
TokenDies(t) ==
    /\ t \in alive
    /\ alive' = alive \ {t}
    /\ UNCHANGED <<mode, step, outcome, user, smtp, push, device, creating, wanted, doubt>>

-----------------------------------------------------------------------------
Next ==
    \/ Stop \/ Close \/ Restart
    \/ \E c \in Client : ServerDrops(c)
    \/ \E j \in Task :
          \/ \E u \in User : Begin(j, u)
          \/ Undeliverable(j) \/ CheckOut(j) \/ Connect(j) \/ Login(j) \/ MailOk(j)
          \/ \E e \in Failure : Fail(j, e)
          \/ PushEnds(j) \/ LoadTokens(j) \/ Post(j) \/ Prune(j)
          \/ Done(j) \/ Cancel(j)
    \/ \E t \in Token : TokenDies(t)
    \/ \E u \in User, t \in Token :
          \/ Rebind(u, t) \/ NotFound(u, t) \/ Create(u, t) \/ Unregister(u, t)

Spec == Init /\ [][Next]_vars

-----------------------------------------------------------------------------
(* Clients are neither lost nor shared, whatever a send fails of or is      *)
(* cancelled at, so a task with a semaphore slot never waits for one.       *)
ClientsConserved ==
    LET idle == {pool[i] : i \in DOMAIN pool}
        busy == {held[j] : j \in Task} \ {NONE}
    IN  /\ Cardinality(idle) = Len(pool) /\ idle \cap busy = {}
        /\ \A i, j \in Task : held[i] # NONE /\ held[i] = held[j] => i = j
        /\ mode # "closed" => idle \cup busy = Client
        /\ mode = "up" => \A j \in Task : step[j] = "checkout" => pool # <<>>

(* Mail goes out on a connection without login only if a login has failed   *)
(* on that very connection before: nothing else skips _ensure_connected.    *)
LoginSkippedOnlyAfterFailure ==
    Username => \A j \in Task :
        step[j] = "mail" /\ conn[held[j]] = "connected" => held[j] \in tainted

(* The shutdown misses no connection: when the mailer has been closed, no   *)
(* send holds a client or returns one any more, and a connection that may   *)
(* still be open is one whose QUIT was sent and failed.                     *)
ShutdownMissesNoClient ==
    mode = "closed" =>
        /\ \A j \in Task : held[j] = NONE
        /\ pool = <<>>
        /\ \A c \in Client : conn[c] \in {"closed", "unquit"}

(* A registered device stays registered: its row goes only with its owner's *)
(* unregister, or after Expo reported the token dead, in a push that ended  *)
(* after the last registration.                                             *)
DevicesAreKept ==
    \A t \in Token : wanted[t] # NONE /\ t \notin doubt => device[t] = wanted[t]

(* The mailer and the push together keep the contract of one send: what was *)
(* accepted by the mail server is completed, however the push ends.         *)
Phase(j) == IF mode # "up" THEN "queued"
            ELSE IF step[j] \in Mailing THEN "sending"
            ELSE IF step[j] \in Pushing THEN "accepted"
            ELSE IF step[j] = "end" THEN outcome[j]
            ELSE "queued"
S == INSTANCE SendContract WITH phase <- [j \in Task |-> Phase(j)]
KeepsSendContract == S!Spec
=============================================================================
