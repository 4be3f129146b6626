------------------------------ MODULE Accounts ------------------------------
(***************************************************************************)
(* Accounts and sessions of the API (hefest/services/auth.py with the      *)
(* routers auth.py and sso.py): sign-up, verification, login, refresh-token *)
(* rotation, logout, password change and OAuth sign-in as concurrent        *)
(* requests over the users, oauth_identities and refresh_tokens tables.     *)
(*                                                                         *)
(* The variables hold committed rows (PostgreSQL, READ COMMITTED); what a   *)
(* request reads before a point where others can run is kept in loc.  Users *)
(* are never deleted and keep their email, which is unique, so an email     *)
(* stands for its user; an OAuth subject stands for (provider, subject).    *)
(* Tokens are numbered in the order of their creation.  Expiry is left out: *)
(* all it does is make a token that could be rotated refusable.             *)
(***************************************************************************)
EXTENDS Naturals

CONSTANTS
    Email, Password, Subject, Client,
    Request,        \* slots for requests that run at the same time
    NONE,           \* no value: SQL NULL
    MaxToken        \* bound: refresh tokens ever issued

ASSUME TokenBound == MaxToken \in Nat
ASSUME NoneIsNoValue ==
    NONE \notin Email \cup Password \cup Subject \cup Client \cup Request \cup Nat

Token == 1 .. MaxToken

VARIABLES
    account,    \* users: absent, or email_verified_at NULL or set
    password,   \* users.password_hash
    verify_job, \* emails with an EmailVerify row in notification_jobs
    linked,     \* oauth_identities: the user of each subject
    token,      \* refresh_tokens: absent, active (revoked_at NULL) or revoked
    owner, client,
    root,       \* history: the token issued at the sign-in a token stems from
    pc, loc     \* what the request in a slot does next, and what it has read

users  == <<account, password, verify_job, linked>>
tokens == <<token, owner, client, root>>
vars   == <<users, tokens, pc, loc>>

Point == {"idle", "signup", "issue", "rotate", "reuse", "change", "revoke_all", "revoking",
          "link", "takeover", "create"}

Locals == [email : Email \cup {NONE}, password : Password \cup {NONE},
           client : Client \cup {NONE}, subject : Subject \cup {NONE},
           token : Token \cup {NONE}, seen : SUBSET Token, before : SUBSET Token]

NoLocals == [email |-> NONE, password |-> NONE, client |-> NONE,
             subject |-> NONE, token |-> NONE, seen |-> {}, before |-> {}]

TypeOK ==
    /\ account \in [Email -> {"absent", "unverified", "verified"}]
    /\ password \in [Email -> Password \cup {NONE}]
    /\ verify_job \subseteq Email
    /\ linked \in [Subject -> Email \cup {NONE}]
    /\ token \in [Token -> {"absent", "active", "revoked"}]
    /\ owner \in [Token -> Email \cup {NONE}]
    /\ client \in [Token -> Client \cup {NONE}]
    /\ root \in [Token -> Token \cup {NONE}]
    /\ \A t \in Token : token[t] # "absent" => owner[t] # NONE /\ client[t] # NONE
    /\ pc \in [Request -> Point]
    /\ loc \in [Request -> Locals]

Init ==
    /\ account = [e \in Email |-> "absent"]
    /\ password = [e \in Email |-> NONE]
    /\ verify_job = {}
    /\ linked = [s \in Subject |-> NONE]
    /\ token = [t \in Token |-> "absent"]
    /\ owner = [t \in Token |-> NONE]
    /\ client = [t \in Token |-> NONE]
    /\ root = [t \in Token |-> NONE]
    /\ pc = [q \in Request |-> "idle"]
    /\ loc = [q \in Request |-> NoLocals]

-----------------------------------------------------------------------------
(* Beginning and end of a request, rows and locks *)

Go(q, next, locals) ==
    /\ pc' = [pc EXCEPT ![q] = next]
    /\ loc' = [loc EXCEPT ![q] = locals]

End(q) == Go(q, "idle", NoLocals)

Fresh  == {t \in Token : token[t] = "absent" /\ \A x \in Token : x < t => token[x] # "absent"}
Active(e) == {t \in Token : token[t] = "active" /\ owner[t] = e}

(* The row lock that rotate_refresh_token holds until it commits *)
Locked(t) == \E q \in Request : pc[q] \in {"rotate", "reuse"} /\ loc[q].token = t

Insert(t, e, c, r) ==
    /\ owner' = [owner EXCEPT ![t] = e]
    /\ client' = [client EXCEPT ![t] = c]
    /\ root' = [root EXCEPT ![t] = r]

-----------------------------------------------------------------------------
(* POST /register *)

SignUp(q, e, p) ==
    /\ pc[q] = "idle" /\ account[e] = "absent"
    /\ Go(q, "signup", [NoLocals EXCEPT !.email = e, !.password = p])
    /\ UNCHANGED <<users, tokens>>

(* User row and EmailVerify job in one transaction *)
SignUpCommit(q) ==
    /\ pc[q] = "signup"
    /\ LET e == loc[q].email IN
       /\ account[e] = "absent"
       /\ account' = [account EXCEPT ![e] = "unverified"]
       /\ password' = [password EXCEPT ![e] = loc[q].password]
       /\ verify_job' = verify_job \cup {e}
    /\ End(q)
    /\ UNCHANGED <<linked, tokens>>

(* The email was taken after the check: IntegrityError, rolled back *)
SignUpConflict(q) ==
    /\ pc[q] = "signup" /\ account[loc[q].email] # "absent"
    /\ End(q)
    /\ UNCHANGED <<users, tokens>>

-----------------------------------------------------------------------------
(* POST /auth/verify-email, POST /login and the end of every sign-in *)

(* The link of the EmailVerify message; the write is idempotent *)
VerifyEmail(q, e, c) ==
    /\ pc[q] = "idle" /\ e \in verify_job
    /\ account' = [account EXCEPT ![e] = "verified"]
    /\ Go(q, "issue", [NoLocals EXCEPT !.email = e, !.client = c])
    /\ UNCHANGED <<password, verify_job, linked, tokens>>

(* mutant: email_verified_at is not looked at *)
Login_Unverified(q, e, p, c) ==
    /\ pc[q] = "idle" /\ account[e] # "absent" /\ password[e] = p
    /\ Go(q, "issue", [NoLocals EXCEPT !.email = e, !.client = c])
    /\ UNCHANGED <<users, tokens>>

Login(q, e, p, c) ==
    /\ pc[q] = "idle" /\ account[e] = "verified" /\ password[e] = p
    /\ Go(q, "issue", [NoLocals EXCEPT !.email = e, !.client = c])
    /\ UNCHANGED <<users, tokens>>

(* mutant: an unknown X-Client-Id is not defaulted *)
Issue_NoClient(q) ==
    /\ pc[q] = "issue"
    /\ \E t \in Fresh :
          /\ token' = [token EXCEPT ![t] = "active"]
          /\ Insert(t, loc[q].email, NONE, t)
    /\ End(q)
    /\ UNCHANGED users

(* issue_refresh_token: a statement of its own *)
Issue(q) ==
    /\ pc[q] = "issue"
    /\ \E t \in Fresh :
          /\ token' = [token EXCEPT ![t] = "active"]
          /\ Insert(t, loc[q].email, loc[q].client, t)
    /\ End(q)
    /\ UNCHANGED users

-----------------------------------------------------------------------------
(* POST /auth/refresh: rotate_refresh_token *)

(* mutant: select_for_update is missing *)
Rotate_NoLock(q, t) ==
    /\ pc[q] = "idle" /\ token[t] = "active"
    /\ Go(q, "rotate", [NoLocals EXCEPT !.token = t, !.client = client[t]])
    /\ UNCHANGED <<users, tokens>>

(* The row is locked and valid for the client that presents it *)
Rotate(q, t) ==
    /\ pc[q] = "idle" /\ token[t] = "active" /\ ~Locked(t)
    /\ Go(q, "rotate", [NoLocals EXCEPT !.token = t, !.client = client[t]])
    /\ UNCHANGED <<users, tokens>>

RotateCommit(q) ==
    /\ pc[q] = "rotate"
    /\ LET old == loc[q].token IN
       \E new \in Fresh :
          /\ token' = [token EXCEPT ![old] = "revoked", ![new] = "active"]
          /\ Insert(new, owner[old], loc[q].client, root[old])
    /\ End(q)
    /\ UNCHANGED users

(* A revoked token comes back. *)
Reuse(q, t) ==
    /\ pc[q] = "idle" /\ token[t] = "revoked" /\ ~Locked(t)
    /\ Go(q, "reuse", [NoLocals EXCEPT !.token = t])
    /\ UNCHANGED <<users, tokens>>

(* The UPDATE that revokes the owner's other tokens is rolled back by the   *)
(* exception that is raised in its transaction: 401 token_reuse_detected.   *)
ReuseRollback(q) ==
    /\ pc[q] = "reuse"
    /\ End(q)
    /\ UNCHANGED <<users, tokens>>

-----------------------------------------------------------------------------
(* Logout and change of password *)

Logout(q, t) ==
    /\ pc[q] = "idle" /\ token[t] = "active" /\ ~Locked(t)
    /\ token' = [token EXCEPT ![t] = "revoked"]
    /\ UNCHANGED <<users, owner, client, root, pc, loc>>

(* before, here and in ChangePasswordWrite, is history: the sessions to end *)
LogoutAll(q, e) ==
    /\ pc[q] = "idle" /\ account[e] = "verified"
    /\ Go(q, "revoke_all", [NoLocals EXCEPT !.email = e, !.before = Active(e)])
    /\ UNCHANGED <<users, tokens>>

(* revoke_all_for_user: an UPDATE sees the rows committed when it starts,   *)
(* waits for those that are locked and skips those that are revoked by then *)
RevokeAll(q) ==
    /\ pc[q] = "revoke_all"
    /\ Go(q, "revoking", [loc[q] EXCEPT !.seen = Active(loc[q].email)])
    /\ UNCHANGED <<users, tokens>>

(* mutant: rows that a rotation has locked are skipped *)
RevokeAllCommit_SkipLocked(q) ==
    /\ pc[q] = "revoking"
    /\ token' = [t \in Token |-> IF t \in loc[q].seen /\ ~Locked(t)
                                 THEN "revoked" ELSE token[t]]
    /\ End(q)
    /\ UNCHANGED <<users, owner, client, root>>

RevokeAllCommit(q) ==
    /\ pc[q] = "revoking" /\ \A t \in loc[q].seen : ~Locked(t)
    /\ token' = [t \in Token |-> IF t \in loc[q].seen THEN "revoked" ELSE token[t]]
    /\ End(q)
    /\ UNCHANGED <<users, owner, client, root>>

(* The current password is checked on the row get_current_user has read *)
ChangePassword(q, e, old, new) ==
    /\ pc[q] = "idle" /\ account[e] = "verified" /\ password[e] = old
    /\ Go(q, "change", [NoLocals EXCEPT !.email = e, !.password = new])
    /\ UNCHANGED <<users, tokens>>

ChangePasswordWrite(q) ==
    /\ pc[q] = "change"
    /\ password' = [password EXCEPT ![loc[q].email] = loc[q].password]
    /\ Go(q, "revoke_all", [NoLocals EXCEPT !.email = loc[q].email,
                                            !.before = Active(loc[q].email)])
    /\ UNCHANGED <<account, verify_job, linked, tokens>>

-----------------------------------------------------------------------------
(* OAuth callback: find_or_create_oauth_user *)

(* The identity is known: sign its user in.  Otherwise decide by the email. *)
OAuth(q, s, e, c) ==
    /\ pc[q] = "idle"
    /\ IF linked[s] # NONE
       THEN Go(q, "issue", [NoLocals EXCEPT !.email = linked[s], !.client = c])
       ELSE Go(q, CASE account[e] = "verified"   -> "link"
                    [] account[e] = "unverified" -> "takeover"
                    [] account[e] = "absent"     -> "create",
               [NoLocals EXCEPT !.email = e, !.subject = s, !.client = c])
    /\ UNCHANGED <<users, tokens>>

(* mutant: (provider, subject) is not unique *)
Collides_EmailOnly(q) == pc[q] = "create" /\ account[loc[q].email] # "absent"

(* A unique constraint is hit: the subject, or the email of a new user *)
Collides(q) == \/ linked[loc[q].subject] # NONE
               \/ pc[q] = "create" /\ account[loc[q].email] # "absent"

OAuthCommit(q) ==
    /\ pc[q] \in {"link", "takeover", "create"} /\ ~Collides(q)
    /\ LET e == loc[q].email IN
       /\ account' = [account EXCEPT ![e] = "verified"]
       /\ password' = [password EXCEPT ![e] = IF pc[q] = "takeover" THEN NONE ELSE @]
       /\ linked' = [linked EXCEPT ![loc[q].subject] = e]
    /\ Go(q, "issue", [loc[q] EXCEPT !.subject = NONE])
    /\ UNCHANGED <<verify_job, tokens>>

(* mutant: the take-over is committed before the identity is inserted *)
OAuthConflict_KeepsTakeover(q) ==
    /\ pc[q] \in {"link", "takeover", "create"} /\ Collides(q)
    /\ LET e == loc[q].email IN
       IF pc[q] = "takeover"
       THEN /\ account' = [account EXCEPT ![e] = "verified"]
            /\ password' = [password EXCEPT ![e] = NONE]
       ELSE UNCHANGED <<account, password>>
    /\ End(q)
    /\ UNCHANGED <<verify_job, linked, tokens>>

(* IntegrityError: the second _inner() runs in the transaction PostgreSQL   *)
(* has aborted and fails as well; everything is rolled back.                *)
OAuthConflict(q) ==
    /\ pc[q] \in {"link", "takeover", "create"} /\ Collides(q)
    /\ End(q)
    /\ UNCHANGED <<users, tokens>>

-----------------------------------------------------------------------------
(* A request that dies keeps what it has committed so far.  A reuse that    *)
(* dies is rolled back like one that ends.                                  *)
Abort(q) ==
    /\ pc[q] \notin {"idle", "reuse"}
    /\ End(q)
    /\ UNCHANGED <<users, tokens>>

Proceed(q) ==
    \/ SignUpCommit(q) \/ SignUpConflict(q) \/ Issue(q) \/ RotateCommit(q)
    \/ ReuseRollback(q) \/ RevokeAll(q) \/ RevokeAllCommit(q) \/ ChangePasswordWrite(q)
    \/ OAuthCommit(q) \/ OAuthConflict(q)

Next ==
    \E q \in Request :
        \/ Proceed(q) \/ Abort(q)
        \/ \E t \in Token : Rotate(q, t) \/ Reuse(q, t) \/ Logout(q, t)
        \/ \E e \in Email :
              \/ LogoutAll(q, e)
              \/ \E p \in Password : SignUp(q, e, p)
              \/ \E old, new \in Password : ChangePassword(q, e, old, new)
              \/ \E c \in Client :
                    \/ VerifyEmail(q, e, c)
                    \/ \E p \in Password : Login(q, e, p, c)
                    \/ \E s \in Subject : OAuth(q, s, e, c)

Spec == Init /\ [][Next]_vars

-----------------------------------------------------------------------------
(* Safety *)

(* A session is a chain of tokens: however many requests present the same  *)
(* token at the same time, at most the newest token of a session is active, *)
(* and owner and client stay those of the sign-in (rotate_refresh_token).   *)
SessionIsAChain ==
    \A t, u \in Token :
        root[t] # NONE /\ root[t] = root[u] =>
            /\ owner[t] = owner[u] /\ client[t] = client[u]
            /\ token[t] = "active" => u <= t

(* No account is left without a way in: one that is not verified has its    *)
(* EmailVerify job, a verified one a password or a linked identity, also    *)
(* when sign-up, verification and OAuth take-over run at the same time.     *)
EveryAccountHasAWayIn ==
    \A e \in Email :
        /\ account[e] = "unverified" => e \in verify_job /\ password[e] # NONE
        /\ account[e] = "verified" =>
              password[e] # NONE \/ \E s \in Subject : linked[s] = e

(* Sessions exist only for verified accounts, and so do identities.         *)
OnlyVerifiedSignIn ==
    /\ \A t \in Token : token[t] # "absent" => account[owner[t]] = "verified"
    /\ \A s \in Subject : linked[s] # NONE => account[linked[s]] = "verified"

(* What is decided stays decided: a revoked token is never active again, a  *)
(* verified account stays verified and an identity keeps its user, although *)
(* requests write what they decided on an earlier read.                     *)
DecisionsStand ==
    [][/\ \A t \in Token : token[t] = "revoked" => token'[t] = "revoked"
       /\ \A e \in Email : account[e] = "verified" => account'[e] = "verified"
       /\ \A s \in Subject : linked[s] # NONE => linked'[s] = linked[s]]_vars

(* A change of password, or logout-all, that goes through ends the sessions *)
(* there were when it wrote the new hash: each of their tokens is revoked,  *)
(* by it or by the rotation it had to wait for.  (The token which such a    *)
(* rotation inserts in the meantime is not among them.)                     *)
OldTokensEnd ==
    [][\A q \in Request :
          pc[q] = "revoking" /\ pc'[q] = "idle" /\ token' # token
              => \A t \in loc[q].before : token'[t] = "revoked"]_vars

-----------------------------------------------------------------------------
(* What the documentation says, and the code does not keep *)

(* rotate_refresh_token, auth.py: "PermissionError: On reuse detection      *)
(* (revokes whole family)".                                                 *)
ReuseRevokesFamily ==
    [][\A q \in Request, t \in Token :
          pc[q] = "reuse" /\ pc'[q] = "idle" /\ owner[t] = owner[loc[q].token]
              => token'[t] # "active"]_vars
=============================================================================
