--------------------------- MODULE AccountsProofs ---------------------------
(***************************************************************************)
(* Theorems about Accounts, for every set of emails, passwords, subjects,  *)
(* clients and concurrent requests and every number of tokens.             *)
(***************************************************************************)
EXTENDS Accounts, TLAPS

(* What a request has read is there when its next statement needs it: the  *)
(* locals it set, and the facts about rows that no other request undoes.    *)
RequestOK(q) ==
    /\ pc[q] \in {"signup", "change"} => loc[q].password # NONE
    /\ pc[q] \in {"signup", "issue", "change", "revoke_all", "revoking",
                  "link", "takeover", "create"} => loc[q].email # NONE
    /\ pc[q] \in {"issue", "rotate", "link", "takeover", "create"} => loc[q].client # NONE
    /\ pc[q] \in {"link", "takeover", "create"} => loc[q].subject # NONE
    /\ pc[q] \in {"issue", "link", "change"} => account[loc[q].email] = "verified"
    /\ pc[q] = "takeover" => account[loc[q].email] # "absent"
    /\ pc[q] \in {"rotate", "reuse"} => loc[q].token # NONE /\ token[loc[q].token] # "absent"
    /\ pc[q] = "revoking" => \A t \in loc[q].seen : token[t] # "absent"

(* Only an account has an EmailVerify job, and only a verified one has       *)
(* identities.                                                             *)
AccountsFirst ==
    /\ \A e \in verify_job : account[e] # "absent"
    /\ \A s \in Subject : linked[s] # NONE => account[linked[s]] = "verified"

TypeInv == TypeOK /\ AccountsFirst /\ \A q \in Request : RequestOK(q)

(* The rotation of a token works on the locked row as it was read: nobody  *)
(* else has the row, it is still active, and its client is the one read.    *)
RotationsExclusive ==
    \A q \in Request :
        /\ pc[q] = "rotate" => /\ token[loc[q].token] = "active"
                               /\ client[loc[q].token] = loc[q].client
        /\ \A r \in Request :
              /\ pc[q] \in {"rotate", "reuse"} /\ pc[r] \in {"rotate", "reuse"}
              /\ loc[q].token = loc[r].token
              => q = r

(* Tokens are inserted in order, each with the session it belongs to. *)
TokensInOrder ==
    \A t \in Token :
        /\ token[t] = "absent" <=> root[t] = NONE
        /\ root[t] # NONE => token[root[t]] # "absent"
        /\ \A u \in Token : token[t] = "absent" /\ t < u => token[u] = "absent"

SessionInv == RotationsExclusive /\ TokensInOrder /\ SessionIsAChain

(* The tokens a revocation is to end are in its UPDATE's snapshot or have   *)
(* been revoked before it was taken.                                       *)
SnapshotCovers ==
    \A q \in Request :
        /\ pc[q] = "revoke_all" => \A t \in loc[q].before :
              token[t] # "absent" /\ owner[t] = loc[q].email
        /\ pc[q] = "revoking" => \A t \in loc[q].before :
              t \in loc[q].seen \/ token[t] = "revoked"

-----------------------------------------------------------------------------
(* The operators the requests are built from *)

(* NoLocals are locals. *)
LEMMA NoLocalsType == NoLocals \in Locals
  BY DEF NoLocals, Locals

(* Go moves the request in one slot and leaves the others where they are.   *)
LEMMA GoEffect ==
    ASSUME TypeOK, NEW q \in Request, NEW next \in Point, NEW locals \in Locals,
           Go(q, next, locals)
    PROVE  /\ pc' \in [Request -> Point]
           /\ loc' \in [Request -> Locals]
           /\ pc'[q] = next /\ loc'[q] = locals
           /\ \A r \in Request \ {q} : pc'[r] = pc[r] /\ loc'[r] = loc[r]
  BY DEF Go, TypeOK

(* End frees the slot. *)
LEMMA EndEffect ==
    ASSUME TypeOK, NEW q \in Request, End(q)
    PROVE  /\ pc' \in [Request -> Point]
           /\ loc' \in [Request -> Locals]
           /\ pc'[q] = "idle"
           /\ \A r \in Request \ {q} : pc'[r] = pc[r] /\ loc'[r] = loc[r]
  <1>1. "idle" \in Point
    BY DEF Point
  <1> QED
    BY <1>1, GoEffect, NoLocalsType DEF End

(* A fresh token is the least one that no sign-in and no rotation has used. *)
LEMMA FreshIsNext ==
    ASSUME TypeOK, TokensInOrder, NEW t \in Fresh
    PROVE  /\ t \in Token /\ token[t] = "absent"
           /\ \A u \in Token : token[u] # "absent" => u < t
  BY TokenBound DEF Fresh, TokensInOrder, Token, TypeOK

-----------------------------------------------------------------------------
(* Type correctness, and what a request may rely on *)

(* The tables are empty and every slot idle in a well-typed state. *)
LEMMA TypeInit == Init => TypeInv
  BY NoneIsNoValue, NoLocalsType
  DEF Init, TypeInv, TypeOK, RequestOK, AccountsFirst, Point

(* Every step keeps the types and what the requests rely on. *)
LEMMA TypeStep == TypeInv /\ [Next]_vars => TypeInv'
  <1> SUFFICES ASSUME TypeInv, [Next]_vars PROVE TypeInv'
    OBVIOUS
  <1> USE NoneIsNoValue
      DEF TypeInv, TypeOK, RequestOK, AccountsFirst, users, tokens
  <1>tok. NONE \notin Token
    BY TokenBound DEF Token
  <1>loc. \A q \in Request :
            /\ loc[q].email \in Email \cup {NONE} /\ loc[q].password \in Password \cup {NONE}
            /\ loc[q].token \in Token \cup {NONE} /\ loc[q].seen \subseteq Token
    BY DEF Locals
  <1>1. ASSUME NEW q \in Request, NEW e \in Email, NEW p \in Password, SignUp(q, e, p)
        PROVE  TypeInv'
    <2> DEFINE next == [NoLocals EXCEPT !.email = e, !.password = p]
    <2>1. next \in Locals /\ next.email = e /\ next.password = p
      BY DEF NoLocals, Locals
    <2> HIDE DEF next
    <2>2. Go(q, "signup", next)
      BY <1>1 DEF SignUp, next
    <2> QED
      BY <1>1, <2>1, <2>2, GoEffect DEF SignUp, Point
  <1>2. ASSUME NEW q \in Request, SignUpCommit(q) PROVE TypeInv'
    BY <1>2, <1>loc, EndEffect DEF SignUpCommit
  <1>3. ASSUME NEW q \in Request, SignUpConflict(q) \/ ReuseRollback(q) \/ OAuthConflict(q)
                                   \/ Abort(q)
        PROVE  TypeInv'
    BY <1>3, EndEffect DEF SignUpConflict, ReuseRollback, OAuthConflict, Abort
  <1>4. ASSUME NEW q \in Request, NEW e \in Email, NEW c \in Client, VerifyEmail(q, e, c)
        PROVE  TypeInv'
    <2> DEFINE next == [NoLocals EXCEPT !.email = e, !.client = c]
    <2>1. next \in Locals /\ next.email = e /\ next.client = c
      BY DEF NoLocals, Locals
    <2> HIDE DEF next
    <2>2. Go(q, "issue", next)
      BY <1>4 DEF VerifyEmail, next
    <2>3. TypeOK' /\ AccountsFirst'
      BY <1>4, <2>1, <2>2, GoEffect DEF VerifyEmail, Point
    <2>4. ASSUME NEW r \in Request PROVE RequestOK(r)'
      BY <1>4, <1>loc, <2>1, <2>2, GoEffect DEF VerifyEmail, Point
    <2> QED
      BY <2>3, <2>4
  <1>5. ASSUME NEW q \in Request, NEW e \in Email, NEW p \in Password, NEW c \in Client,
               Login(q, e, p, c)
        PROVE  TypeInv'
    <2> DEFINE next == [NoLocals EXCEPT !.email = e, !.client = c]
    <2>1. next \in Locals /\ next.email = e /\ next.client = c
      BY DEF NoLocals, Locals
    <2> HIDE DEF next
    <2>2. Go(q, "issue", next)
      BY <1>5 DEF Login, next
    <2> QED
      BY <1>5, <2>1, <2>2, GoEffect DEF Login, Point
  <1>6. ASSUME NEW q \in Request, Issue(q) PROVE TypeInv'
    BY <1>6, EndEffect DEF Issue, Insert, Fresh, Locals
  <1>7. ASSUME NEW q \in Request, NEW t \in Token, Rotate(q, t) \/ Reuse(q, t)
        PROVE  TypeInv'
    <2>1. CASE Rotate(q, t)
      <3> DEFINE next == [NoLocals EXCEPT !.token = t, !.client = client[t]]
      <3>1. next \in Locals /\ next.token = t /\ next.client = client[t]
        BY DEF NoLocals, Locals
      <3> HIDE DEF next
      <3>2. Go(q, "rotate", next)
        BY <2>1 DEF Rotate, next
      <3> QED
        BY <1>tok, <2>1, <3>1, <3>2, GoEffect DEF Rotate, Point
    <2>2. CASE Reuse(q, t)
      <3> DEFINE next == [NoLocals EXCEPT !.token = t]
      <3>1. next \in Locals /\ next.token = t
        BY DEF NoLocals, Locals
      <3> HIDE DEF next
      <3>2. Go(q, "reuse", next)
        BY <2>2 DEF Reuse, next
      <3> QED
        BY <1>tok, <2>2, <3>1, <3>2, GoEffect DEF Reuse, Point
    <2> QED
      BY <1>7, <2>1, <2>2
  <1>8. ASSUME NEW q \in Request, RotateCommit(q) PROVE TypeInv'
    <2>1. loc[q].token \in Token /\ loc[q].client \in Client \cup {NONE}
      BY <1>8, <1>loc DEF RotateCommit, Locals
    <2>2. PICK new \in Fresh :
            /\ token' = [token EXCEPT ![loc[q].token] = "revoked", ![new] = "active"]
            /\ Insert(new, owner[loc[q].token], loc[q].client, root[loc[q].token])
      BY <1>8 DEF RotateCommit
    <2>3. TypeOK' /\ AccountsFirst'
      BY <1>8, <2>1, <2>2, EndEffect DEF RotateCommit, Insert, Fresh
    <2>4. ASSUME NEW r \in Request PROVE RequestOK(r)'
      BY <1>8, <1>loc, <2>1, <2>2, EndEffect DEF RotateCommit, Fresh
    <2> QED
      BY <2>3, <2>4
  <1>9. ASSUME NEW q \in Request, NEW t \in Token, Logout(q, t) PROVE TypeInv'
    <2>1. TypeOK' /\ AccountsFirst'
      BY <1>9 DEF Logout
    <2>2. ASSUME NEW r \in Request PROVE RequestOK(r)'
      BY <1>9, <1>loc DEF Logout
    <2> QED
      BY <2>1, <2>2
  <1>10. ASSUME NEW q \in Request, NEW e \in Email, LogoutAll(q, e) PROVE TypeInv'
    <2> DEFINE next == [NoLocals EXCEPT !.email = e, !.before = Active(e)]
    <2>1. next \in Locals /\ next.email = e
      BY DEF NoLocals, Locals, Active
    <2> HIDE DEF next
    <2>2. Go(q, "revoke_all", next)
      BY <1>10 DEF LogoutAll, next
    <2> QED
      BY <1>10, <2>1, <2>2, GoEffect DEF LogoutAll, Point
  <1>11. ASSUME NEW q \in Request, RevokeAll(q) PROVE TypeInv'
    <2> DEFINE next == [loc[q] EXCEPT !.seen = Active(loc[q].email)]
    <2>1. /\ next \in Locals /\ next.email = loc[q].email
          /\ \A t \in next.seen : token[t] # "absent"
      BY DEF Locals, Active
    <2> HIDE DEF next
    <2>2. Go(q, "revoking", next)
      BY <1>11 DEF RevokeAll, next
    <2> QED
      BY <1>11, <2>1, <2>2, GoEffect DEF RevokeAll, Point
  <1>12. ASSUME NEW q \in Request, RevokeAllCommit(q) PROVE TypeInv'
    <2>1. TypeOK' /\ AccountsFirst'
      BY <1>12, EndEffect DEF RevokeAllCommit
    <2>2. ASSUME NEW r \in Request PROVE RequestOK(r)'
      BY <1>12, <1>loc, EndEffect DEF RevokeAllCommit
    <2> QED
      BY <2>1, <2>2
  <1>13. ASSUME NEW q \in Request, NEW e \in Email, NEW old \in Password, NEW new \in Password,
                ChangePassword(q, e, old, new)
         PROVE  TypeInv'
    <2> DEFINE next == [NoLocals EXCEPT !.email = e, !.password = new]
    <2>1. next \in Locals /\ next.email = e /\ next.password = new
      BY DEF NoLocals, Locals
    <2> HIDE DEF next
    <2>2. Go(q, "change", next)
      BY <1>13 DEF ChangePassword, next
    <2> QED
      BY <1>13, <2>1, <2>2, GoEffect DEF ChangePassword, Point
  <1>14. ASSUME NEW q \in Request, ChangePasswordWrite(q) PROVE TypeInv'
    <2> DEFINE next == [NoLocals EXCEPT !.email = loc[q].email,
                                        !.before = Active(loc[q].email)]
    <2>1. next \in Locals /\ next.email = loc[q].email
      BY DEF NoLocals, Locals, Active
    <2> HIDE DEF next
    <2>2. loc[q].email \in Email /\ loc[q].password \in Password
      BY <1>14 DEF ChangePasswordWrite, Locals
    <2>3. Go(q, "revoke_all", next)
      BY <1>14 DEF ChangePasswordWrite, next
    <2> QED
      BY <1>14, <2>1, <2>2, <2>3, GoEffect DEF ChangePasswordWrite, Point
  <1>15. ASSUME NEW q \in Request, NEW s \in Subject, NEW e \in Email, NEW c \in Client,
                OAuth(q, s, e, c)
         PROVE  TypeInv'
    <2>1. CASE linked[s] # NONE
      <3> DEFINE next == [NoLocals EXCEPT !.email = linked[s], !.client = c]
      <3>1. next \in Locals /\ next.email = linked[s] /\ next.client = c
        BY DEF NoLocals, Locals
      <3> HIDE DEF next
      <3>2. Go(q, "issue", next) /\ UNCHANGED <<users, tokens>>
        BY <1>15, <2>1 DEF OAuth, next
      <3> QED
        BY <2>1, <3>1, <3>2, GoEffect DEF Point
    <2>2. CASE linked[s] = NONE
      <3> DEFINE to == CASE account[e] = "verified"   -> "link"
                         [] account[e] = "unverified" -> "takeover"
                         [] account[e] = "absent"     -> "create"
                 next == [NoLocals EXCEPT !.email = e, !.subject = s, !.client = c]
      <3>1. /\ to \in {"link", "takeover", "create"}
            /\ to = "link" => account[e] = "verified"
            /\ to = "takeover" => account[e] # "absent"
        OBVIOUS
      <3>2. next \in Locals /\ next.email = e /\ next.subject = s /\ next.client = c
        BY DEF NoLocals, Locals
      <3>3. Go(q, to, next) /\ UNCHANGED <<users, tokens>>
        BY <1>15, <2>2 DEF OAuth
      <3> HIDE DEF to, next
      <3> QED
        BY <3>1, <3>2, <3>3, GoEffect DEF Point
    <2> QED
      BY <2>1, <2>2
  <1>16. ASSUME NEW q \in Request, OAuthCommit(q) PROVE TypeInv'
    <2> DEFINE next == [loc[q] EXCEPT !.subject = NONE]
    <2>1. next \in Locals /\ next.email = loc[q].email /\ next.client = loc[q].client
      BY DEF Locals
    <2> HIDE DEF next
    <2>2. loc[q].email \in Email /\ loc[q].subject \in Subject
      BY <1>16 DEF OAuthCommit, Locals
    <2>3. Go(q, "issue", next)
      BY <1>16 DEF OAuthCommit, next
    <2> QED
      BY <1>16, <2>1, <2>2, <2>3, GoEffect DEF OAuthCommit, Point
  <1>17. CASE UNCHANGED vars
    BY <1>17 DEF vars
  <1> QED
    BY <1>1, <1>2, <1>3, <1>4, <1>5, <1>6, <1>7, <1>8, <1>9, <1>10, <1>11, <1>12, <1>13,
       <1>14, <1>15, <1>16, <1>17 DEF Next, Proceed

(* The tables and what a request reads keep their types: a token always has *)
(* an owner and a client, whichever request inserts it (Accounts.TypeOK).    *)
THEOREM TypeCorrect == Spec => []TypeOK
  <1>1. TypeInv => TypeOK
    BY DEF TypeInv
  <1> QED
    BY TypeInit, TypeStep, <1>1, PTL DEF Spec

-----------------------------------------------------------------------------
(* Decisions and accounts *)

(* The steps that write tokens are an issue, a rotation, a logout and a     *)
(* revocation; the steps that write accounts or identities are a sign-up, a *)
(* verification and an OAuth commit.                                       *)
LEMMA Writers ==
    ASSUME [Next]_vars
    PROVE  /\ \/ UNCHANGED tokens
              \/ \E q \in Request : Issue(q) \/ RotateCommit(q) \/ RevokeAllCommit(q)
              \/ \E q \in Request, t \in Token : Logout(q, t)
           /\ \/ UNCHANGED <<account, verify_job, linked>>
              \/ \E q \in Request : SignUpCommit(q) \/ OAuthCommit(q)
              \/ \E q \in Request, e \in Email, c \in Client : VerifyEmail(q, e, c)
           /\ \/ UNCHANGED users
              \/ \E q \in Request : SignUpCommit(q) \/ OAuthCommit(q) \/ ChangePasswordWrite(q)
              \/ \E q \in Request, e \in Email, c \in Client : VerifyEmail(q, e, c)
  <1>1. CASE UNCHANGED vars
    BY <1>1 DEF vars, users, tokens
  <1>2. ASSUME NEW q \in Request,
               SignUpConflict(q) \/ ReuseRollback(q) \/ RevokeAll(q) \/ OAuthConflict(q) \/ Abort(q)
        PROVE  UNCHANGED <<users, tokens>>
    BY <1>2 DEF SignUpConflict, ReuseRollback, RevokeAll, OAuthConflict, Abort
  <1>3. ASSUME NEW q \in Request, NEW t \in Token, Rotate(q, t) \/ Reuse(q, t)
        PROVE  UNCHANGED <<users, tokens>>
    BY <1>3 DEF Rotate, Reuse
  <1>4. ASSUME NEW q \in Request, NEW e \in Email,
               \/ LogoutAll(q, e)
               \/ \E p \in Password : SignUp(q, e, p)
               \/ \E old, new \in Password : ChangePassword(q, e, old, new)
               \/ \E c \in Client, p \in Password : Login(q, e, p, c)
               \/ \E c \in Client, s \in Subject : OAuth(q, s, e, c)
        PROVE  UNCHANGED <<users, tokens>>
    BY <1>4 DEF LogoutAll, SignUp, ChangePassword, Login, OAuth
  <1>5. ASSUME NEW q \in Request, SignUpCommit(q) \/ OAuthCommit(q) PROVE UNCHANGED tokens
    BY <1>5 DEF SignUpCommit, OAuthCommit
  <1>6. ASSUME NEW q \in Request, ChangePasswordWrite(q)
        PROVE  UNCHANGED <<account, verify_job, linked, tokens>>
    BY <1>6 DEF ChangePasswordWrite
  <1>7. ASSUME NEW q \in Request, NEW e \in Email, NEW c \in Client, VerifyEmail(q, e, c)
        PROVE  UNCHANGED tokens
    BY <1>7 DEF VerifyEmail
  <1>8. ASSUME NEW q \in Request, Issue(q) \/ RotateCommit(q) \/ RevokeAllCommit(q)
        PROVE  UNCHANGED users
    BY <1>8 DEF Issue, RotateCommit, RevokeAllCommit
  <1>9. ASSUME NEW q \in Request, NEW t \in Token, Logout(q, t) PROVE UNCHANGED users
    BY <1>9 DEF Logout
  <1> QED
    BY <1>1, <1>2, <1>3, <1>4, <1>5, <1>6, <1>7, <1>8, <1>9 DEF Next, Proceed, users

(* A step undoes no decision. *)
LEMMA DecisionStep ==
    ASSUME TypeInv, [Next]_vars
    PROVE  /\ \A t \in Token : token[t] = "revoked" => token'[t] = "revoked"
           /\ \A t \in Token : token[t] # "absent" =>
                 token'[t] # "absent" /\ owner'[t] = owner[t]
           /\ \A e \in Email : account[e] = "verified" => account'[e] = "verified"
           /\ \A e \in Email : account[e] # "absent" => account'[e] # "absent"
           /\ \A s \in Subject : linked[s] # NONE => linked'[s] = linked[s]
  <1> USE NoneIsNoValue DEF TypeInv, TypeOK
  <1>tok. NONE \notin Token
    BY TokenBound DEF Token
  <1>1. ASSUME NEW q \in Request, Issue(q) \/ RotateCommit(q) \/ RevokeAllCommit(q)
        PROVE  \A t \in Token : /\ token[t] = "revoked" => token'[t] = "revoked"
                                /\ token[t] # "absent" =>
                                      token'[t] # "absent" /\ owner'[t] = owner[t]
    <2>1. CASE Issue(q)
      BY <2>1 DEF Issue, Fresh, Insert
    <2>2. CASE RotateCommit(q)
      <3>1. loc[q].token \in Token
        BY <2>2, <1>tok DEF RotateCommit, RequestOK, Locals
      <3> QED
        BY <2>2, <3>1 DEF RotateCommit, Fresh, Insert
    <2>3. CASE RevokeAllCommit(q)
      BY <2>3 DEF RevokeAllCommit
    <2> QED
      BY <1>1, <2>1, <2>2, <2>3
  <1>2. ASSUME NEW q \in Request, NEW t \in Token, Logout(q, t)
        PROVE  \A u \in Token : /\ token[u] = "revoked" => token'[u] = "revoked"
                                /\ token[u] # "absent" =>
                                      token'[u] # "absent" /\ owner'[u] = owner[u]
    BY <1>2 DEF Logout
  <1>3. ASSUME NEW q \in Request, SignUpCommit(q) \/ OAuthCommit(q)
        PROVE  /\ \A e \in Email : /\ account[e] = "verified" => account'[e] = "verified"
                                   /\ account[e] # "absent" => account'[e] # "absent"
               /\ \A s \in Subject : linked[s] # NONE => linked'[s] = linked[s]
    BY <1>3 DEF SignUpCommit, OAuthCommit, Collides
  <1>4. ASSUME NEW q \in Request, NEW f \in Email, NEW c \in Client, VerifyEmail(q, f, c)
        PROVE  /\ \A e \in Email : /\ account[e] = "verified" => account'[e] = "verified"
                                   /\ account[e] # "absent" => account'[e] # "absent"
               /\ \A s \in Subject : linked[s] # NONE => linked'[s] = linked[s]
    BY <1>4 DEF VerifyEmail
  <1> QED
    BY <1>1, <1>2, <1>3, <1>4, Writers DEF tokens

(* Revocations, verifications and identities are never undone, although    *)
(* requests write what they decided on an earlier read (DecisionsStand).    *)
THEOREM NoDecisionUndone == Spec => DecisionsStand
  <1>1. TypeInv /\ [Next]_vars =>
          [/\ \A t \in Token : token[t] = "revoked" => token'[t] = "revoked"
           /\ \A e \in Email : account[e] = "verified" => account'[e] = "verified"
           /\ \A s \in Subject : linked[s] # NONE => linked'[s] = linked[s]]_vars
    BY DecisionStep
  <1> QED
    BY TypeInit, TypeStep, <1>1, PTL DEF Spec, DecisionsStand

(* A step keeps OnlyVerifiedSignIn: the request that inserts a token still  *)
(* finds its account verified.                                             *)
LEMMA SignInStep ==
    ASSUME TypeInv, OnlyVerifiedSignIn, [Next]_vars
    PROVE  OnlyVerifiedSignIn'
  <1> USE NoneIsNoValue DEF TypeInv, TypeOK
  <1>tok. NONE \notin Token
    BY TokenBound DEF Token
  <1>ids. \A s \in Subject : linked'[s] # NONE => account'[linked'[s]] = "verified"
    BY TypeStep DEF AccountsFirst
  <1>old. \A t \in Token : token[t] # "absent" => account'[owner'[t]] = "verified"
    BY DecisionStep DEF OnlyVerifiedSignIn
  <1>1. ASSUME NEW q \in Request, Issue(q)
        PROVE  \A t \in Token : token'[t] # "absent" /\ token[t] = "absent" =>
                  account'[owner'[t]] = "verified"
    BY <1>1 DEF Issue, Fresh, Insert, RequestOK, users
  <1>2. ASSUME NEW q \in Request, RotateCommit(q)
        PROVE  \A t \in Token : token'[t] # "absent" /\ token[t] = "absent" =>
                  account'[owner'[t]] = "verified"
    <2>1. loc[q].token \in Token /\ token[loc[q].token] # "absent"
      BY <1>2, <1>tok DEF RotateCommit, RequestOK, Locals
    <2> QED
      BY <1>2, <2>1 DEF RotateCommit, Fresh, Insert, users, OnlyVerifiedSignIn
  <1>3. ASSUME NEW q \in Request, RevokeAllCommit(q)
        PROVE  \A t \in Token : token'[t] # "absent" => token[t] # "absent"
    BY <1>3 DEF RevokeAllCommit, RequestOK
  <1>4. ASSUME NEW q \in Request, NEW u \in Token, Logout(q, u)
        PROVE  \A t \in Token : token'[t] # "absent" => token[t] # "absent"
    BY <1>4 DEF Logout
  <1>5. \A t \in Token : token'[t] # "absent" /\ token[t] = "absent" =>
           account'[owner'[t]] = "verified"
    BY <1>1, <1>2, <1>3, <1>4, Writers DEF tokens
  <1> QED
    BY <1>ids, <1>old, <1>5 DEF OnlyVerifiedSignIn

(* Whatever requests run at the same time, sessions and identities exist    *)
(* only for verified accounts (OnlyVerifiedSignIn).                         *)
THEOREM SignInNeedsVerification == Spec => []OnlyVerifiedSignIn
  <1>1. Init => OnlyVerifiedSignIn
    BY NoneIsNoValue DEF Init, OnlyVerifiedSignIn
  <1>2. TypeInv /\ OnlyVerifiedSignIn /\ [Next]_vars => OnlyVerifiedSignIn'
    BY SignInStep
  <1> QED
    BY TypeInit, TypeStep, <1>1, <1>2, PTL DEF Spec

(* A step keeps EveryAccountHasAWayIn: a take-over that drops the password  *)
(* links the identity in the same transaction.                             *)
LEMMA WayInStep ==
    ASSUME TypeInv, EveryAccountHasAWayIn, [Next]_vars
    PROVE  EveryAccountHasAWayIn'
  <1> USE NoneIsNoValue DEF TypeInv, TypeOK, EveryAccountHasAWayIn
  <1>1. ASSUME NEW q \in Request, SignUpCommit(q) PROVE EveryAccountHasAWayIn'
    <2>1. loc[q].email \in Email /\ loc[q].password \in Password
      BY <1>1 DEF SignUpCommit, RequestOK, Locals
    <2> QED
      BY <1>1, <2>1 DEF SignUpCommit
  <1>2. ASSUME NEW q \in Request, OAuthCommit(q) PROVE EveryAccountHasAWayIn'
    <2>1. loc[q].email \in Email /\ loc[q].subject \in Subject
      BY <1>2 DEF OAuthCommit, RequestOK, Locals
    <2>2. /\ account' = [account EXCEPT ![loc[q].email] = "verified"]
          /\ linked' = [linked EXCEPT ![loc[q].subject] = loc[q].email]
          /\ \A e \in Email \ {loc[q].email} : password'[e] = password[e]
          /\ linked[loc[q].subject] = NONE
          /\ UNCHANGED verify_job
      BY <1>2, <2>1 DEF OAuthCommit, Collides
    <2>3. linked'[loc[q].subject] = loc[q].email
      BY <2>1, <2>2
    <2>4. \A s \in Subject : linked[s] # NONE => linked'[s] = linked[s]
      BY <2>1, <2>2
    <2> QED
      BY <2>1, <2>2, <2>3, <2>4
  <1>3. ASSUME NEW q \in Request, ChangePasswordWrite(q) PROVE EveryAccountHasAWayIn'
    <2>1. loc[q].email \in Email /\ loc[q].password \in Password
      BY <1>3 DEF ChangePasswordWrite, RequestOK, Locals
    <2> QED
      BY <1>3, <2>1 DEF ChangePasswordWrite
  <1>4. ASSUME NEW q \in Request, NEW e \in Email, NEW c \in Client, VerifyEmail(q, e, c)
        PROVE  EveryAccountHasAWayIn'
    BY <1>4 DEF VerifyEmail, AccountsFirst
  <1> QED
    BY <1>1, <1>2, <1>3, <1>4, Writers DEF users

(* No account is left without a way in by any interleaving of sign-up,      *)
(* verification, OAuth and change of password (EveryAccountHasAWayIn).      *)
THEOREM NoAccountLockedOut == Spec => []EveryAccountHasAWayIn
  <1>1. Init => EveryAccountHasAWayIn
    BY DEF Init, EveryAccountHasAWayIn
  <1>2. TypeInv /\ EveryAccountHasAWayIn /\ [Next]_vars => EveryAccountHasAWayIn'
    BY WayInStep
  <1> QED
    BY TypeInit, TypeStep, <1>1, <1>2, PTL DEF Spec

-----------------------------------------------------------------------------
(* Sessions *)

(* The requests that hold a row lock: a step moves at most one of them, and *)
(* the only way to take a lock is Rotate or Reuse of a row that is free.     *)
Holder == {q \in Request : pc[q] \in {"rotate", "reuse"}}

(* A holder was one before the step and has read the same, or it has just    *)
(* locked a row that nobody held.                                          *)
LEMMA HolderStep ==
    ASSUME TypeInv, [Next]_vars, NEW q \in Holder'
    PROVE  \/ q \in Holder /\ pc'[q] = pc[q] /\ loc'[q] = loc[q]
           \/ \E t \in Token :
                 /\ Rotate(q, t) \/ Reuse(q, t)
                 /\ loc'[q].token = t /\ ~Locked(t)
                 /\ \A r \in Request \ {q} : pc'[r] = pc[r] /\ loc'[r] = loc[r]
                 /\ UNCHANGED tokens
                 /\ pc'[q] = "rotate" => token[t] = "active" /\ loc'[q].client = client[t]
  <1> USE DEF TypeInv
  <1> q \in Request
    BY DEF Holder
  <1>1. ASSUME NEW r \in Request, End(r), r # q
        PROVE  q \in Holder /\ pc'[q] = pc[q] /\ loc'[q] = loc[q]
    BY <1>1, EndEffect DEF Holder
  <1>2. ASSUME NEW r \in Request, End(r) PROVE r # q
    BY <1>2, EndEffect DEF Holder
  <1>3. ASSUME NEW r \in Request, NEW next \in Point \ {"rotate", "reuse"}, NEW locals,
               Go(r, next, locals)
        PROVE  q \in Holder /\ pc'[q] = pc[q] /\ loc'[q] = loc[q]
    BY <1>3 DEF Holder, Go, TypeOK
  <1>4. ASSUME NEW r \in Request, NEW t \in Token, Rotate(r, t), r = q
        PROVE  \E u \in Token :
                 /\ Rotate(q, u) \/ Reuse(q, u)
                 /\ loc'[q].token = u /\ ~Locked(u)
                 /\ \A x \in Request \ {q} : pc'[x] = pc[x] /\ loc'[x] = loc[x]
                 /\ UNCHANGED tokens
                 /\ pc'[q] = "rotate" => token[u] = "active" /\ loc'[q].client = client[u]
    BY <1>4 DEF Rotate, Go, NoLocals, TypeOK
  <1>5. ASSUME NEW r \in Request, NEW t \in Token, Reuse(r, t), r = q
        PROVE  \E u \in Token :
                 /\ Rotate(q, u) \/ Reuse(q, u)
                 /\ loc'[q].token = u /\ ~Locked(u)
                 /\ \A x \in Request \ {q} : pc'[x] = pc[x] /\ loc'[x] = loc[x]
                 /\ UNCHANGED tokens
                 /\ pc'[q] = "rotate" => token[u] = "active" /\ loc'[q].client = client[u]
    BY <1>5 DEF Reuse, Go, NoLocals, TypeOK
  <1>6. ASSUME NEW r \in Request, NEW t \in Token, Rotate(r, t) \/ Reuse(r, t), r # q
        PROVE  q \in Holder /\ pc'[q] = pc[q] /\ loc'[q] = loc[q]
    BY <1>6 DEF Rotate, Reuse, Go, Holder, TypeOK
  <1>7. ASSUME NEW r \in Request, NEW t \in Token, Logout(r, t)
        PROVE  q \in Holder /\ pc'[q] = pc[q] /\ loc'[q] = loc[q]
    BY <1>7 DEF Logout, Holder
  <1>8. ASSUME NEW r \in Request, Proceed(r) \/ Abort(r)
        PROVE  q \in Holder /\ pc'[q] = pc[q] /\ loc'[q] = loc[q]
    BY <1>8, <1>1, <1>2, <1>3 DEF Proceed, Abort, SignUpCommit, SignUpConflict, Issue,
       RotateCommit, ReuseRollback, RevokeAll, RevokeAllCommit, ChangePasswordWrite,
       OAuthCommit, OAuthConflict, Point
  <1>9. ASSUME NEW r \in Request, NEW e \in Email,
               \/ LogoutAll(r, e)
               \/ \E p \in Password : SignUp(r, e, p)
               \/ \E old, new \in Password : ChangePassword(r, e, old, new)
               \/ \E c \in Client : VerifyEmail(r, e, c)
               \/ \E c \in Client, p \in Password : Login(r, e, p, c)
        PROVE  q \in Holder /\ pc'[q] = pc[q] /\ loc'[q] = loc[q]
    BY <1>9, <1>3 DEF LogoutAll, SignUp, ChangePassword, VerifyEmail, Login, Point
  <1>10. ASSUME NEW r \in Request, NEW e \in Email, NEW c \in Client, NEW s \in Subject,
                OAuth(r, s, e, c)
         PROVE  q \in Holder /\ pc'[q] = pc[q] /\ loc'[q] = loc[q]
    <2>1. CASE linked[s] # NONE
      BY <1>10, <2>1, <1>3 DEF OAuth, Point
    <2>2. CASE linked[s] = NONE
      <3> DEFINE to == CASE account[e] = "verified"   -> "link"
                         [] account[e] = "unverified" -> "takeover"
                         [] account[e] = "absent"     -> "create"
      <3>1. to \in {"link", "takeover", "create"}
        BY DEF TypeOK
      <3>2. Go(r, to, [NoLocals EXCEPT !.email = e, !.subject = s, !.client = c])
        BY <1>10, <2>2 DEF OAuth
      <3> HIDE DEF to
      <3> QED
        BY <3>1, <3>2, <1>3 DEF Point
    <2> QED
      BY <2>1, <2>2
  <1>11. CASE UNCHANGED vars
    BY <1>11 DEF vars, Holder
  <1> QED
    BY <1>4, <1>5, <1>6, <1>7, <1>8, <1>9, <1>10, <1>11 DEF Next

(* A step keeps the exclusive use of a locked row. *)
LEMMA RotationStep ==
    ASSUME TypeInv, RotationsExclusive, [Next]_vars
    PROVE  RotationsExclusive'
  <1> USE DEF TypeInv
  <1>tok. NONE \notin Token
    BY TokenBound, NoneIsNoValue DEF Token
  <1>1. ASSUME NEW q \in Holder', NEW r \in Holder', loc'[q].token = loc'[r].token
        PROVE  q = r
    <2>1. q \in Holder /\ r \in Holder /\ loc'[q] = loc[q] /\ loc'[r] = loc[r] => q = r
      BY <1>1 DEF RotationsExclusive, Holder
    <2> QED
      BY <1>1, <2>1, HolderStep DEF Locked, Holder
  <1>2. ASSUME NEW q \in Request, pc'[q] = "rotate"
        PROVE  token'[loc'[q].token] = "active" /\ client'[loc'[q].token] = loc'[q].client
    <2>1. q \in Holder'
      BY <1>2 DEF Holder
    <2>2. CASE q \in Holder /\ pc'[q] = pc[q] /\ loc'[q] = loc[q]
      <3> DEFINE u == loc[q].token
      <3>1. /\ u \in Token /\ token[u] = "active" /\ client[u] = loc[q].client
            /\ pc[q] = "rotate" /\ Locked(u)
        BY <1>2, <2>2, <1>tok DEF RotationsExclusive, RequestOK, TypeOK, Locals, Locked
      <3>2. ASSUME NEW x \in Request, Issue(x) \/ RevokeAllCommit(x)
            PROVE  token'[u] = "active" /\ client'[u] = client[u]
        BY <3>1, <3>2 DEF Issue, RevokeAllCommit, Fresh, Insert, TypeOK
      <3>3. ASSUME NEW x \in Request, NEW t \in Token, Logout(x, t)
            PROVE  token'[u] = "active" /\ client'[u] = client[u]
        BY <3>1, <3>3 DEF Logout, TypeOK
      <3>4. ASSUME NEW x \in Request, RotateCommit(x)
            PROVE  token'[u] = "active" /\ client'[u] = client[u]
        <4>1. x # q
          BY <3>4, <1>2, EndEffect DEF RotateCommit
        <4>2. loc[x].token \in Token /\ loc[x].token # u
          BY <3>4, <3>1, <4>1, <1>tok DEF RotateCommit, RotationsExclusive, RequestOK, TypeOK, Locals
        <4> QED
          BY <3>1, <3>4, <4>2 DEF RotateCommit, Fresh, Insert, TypeOK
      <3>5. token'[u] = "active" /\ client'[u] = client[u]
        BY <3>1, <3>2, <3>3, <3>4, Writers DEF tokens
      <3> QED
        BY <2>2, <3>1, <3>5
    <2>3. CASE \E t \in Token :
                 /\ loc'[q].token = t /\ UNCHANGED tokens
                 /\ pc'[q] = "rotate" => token[t] = "active" /\ loc'[q].client = client[t]
      BY <1>2, <2>3 DEF tokens
    <2> QED
      BY <2>1, <2>2, <2>3, HolderStep
  <1> QED
    BY <1>1, <1>2 DEF RotationsExclusive, Holder

(* A step keeps the order of the tokens and the chains. *)
LEMMA ChainStep ==
    ASSUME TypeInv, SessionInv, [Next]_vars
    PROVE  TokensInOrder' /\ SessionIsAChain'
  <1> USE DEF TypeInv, SessionInv
  <1>tok. NONE \notin Token /\ Token \subseteq Nat
    BY TokenBound, NoneIsNoValue DEF Token
  <1>1. ASSUME NEW q \in Request, Issue(q) PROVE TokensInOrder' /\ SessionIsAChain'
    <2>1. PICK new \in Fresh :
            /\ token' = [token EXCEPT ![new] = "active"]
            /\ Insert(new, loc[q].email, loc[q].client, new)
      BY <1>1 DEF Issue
    <2>2. /\ new \in Token /\ token[new] = "absent" /\ root[new] = NONE
          /\ \A u \in Token : token[u] # "absent" => u < new
          /\ \A u \in Token : root[u] # NONE => root[u] # new
      BY FreshIsNext DEF TokensInOrder
    <2>3. TokensInOrder'
      BY <2>1, <2>2, <1>tok DEF Insert, TokensInOrder, TypeOK, Fresh
    <2>4. SessionIsAChain'
      BY <2>1, <2>2, <1>tok DEF Insert, TokensInOrder, SessionIsAChain, TypeOK
    <2> QED
      BY <2>3, <2>4
  <1>2. ASSUME NEW q \in Request, RotateCommit(q) PROVE TokensInOrder' /\ SessionIsAChain'
    <2> DEFINE old == loc[q].token
    <2>1. PICK new \in Fresh :
            /\ token' = [token EXCEPT ![old] = "revoked", ![new] = "active"]
            /\ Insert(new, owner[old], loc[q].client, root[old])
      BY <1>2 DEF RotateCommit
    <2>2. /\ new \in Token /\ token[new] = "absent" /\ root[new] = NONE
          /\ \A u \in Token : token[u] # "absent" => u < new
      BY FreshIsNext DEF TokensInOrder
    <2>3. old \in Token /\ token[old] = "active" /\ client[old] = loc[q].client
      BY <1>2, <1>tok DEF RotateCommit, RotationsExclusive, RequestOK, TypeOK, Locals
    <2>4. root[old] \in Token /\ token[root[old]] # "absent" /\ old # new
      BY <2>2, <2>3 DEF TokensInOrder, TypeOK
    <2>5. \A u \in Token : root[u] = root[old] =>
             /\ owner[u] = owner[old] /\ client[u] = client[old]
             /\ token[u] = "active" => u = old
      <3> HIDE DEF old
      <3> SUFFICES ASSUME NEW u \in Token, root[u] = root[old]
                   PROVE  /\ owner[u] = owner[old] /\ client[u] = client[old]
                          /\ token[u] = "active" => u = old
        OBVIOUS
      <3>1. /\ owner[u] = owner[old] /\ client[u] = client[old] /\ u <= old
            /\ token[u] = "active" => old <= u
        BY <2>3, <2>4, <1>tok DEF SessionIsAChain
      <3>2. u \in Nat /\ old \in Nat
        BY <2>3, <1>tok
      <3> QED
        BY <3>1, <3>2
    <2> HIDE DEF old
    <2>6. TokensInOrder'
      BY <2>1, <2>2, <2>3, <2>4, <1>tok DEF Insert, TokensInOrder, TypeOK, Fresh
    <2>7. SessionIsAChain'
      <3>1. /\ token' = [token EXCEPT ![old] = "revoked", ![new] = "active"]
            /\ owner'[new] = owner[old] /\ client'[new] = client[old] /\ root'[new] = root[old]
            /\ \A u \in Token \ {new} : owner'[u] = owner[u] /\ client'[u] = client[u]
                                         /\ root'[u] = root[u]
        BY <2>1, <2>2, <2>3 DEF Insert, TypeOK
      <3>2. \A u \in Token : root[u] # NONE => u < new
        BY <2>2 DEF TokensInOrder
      <3> SUFFICES ASSUME NEW t \in Token, NEW u \in Token, root'[t] # NONE, root'[t] = root'[u]
                   PROVE  /\ owner'[t] = owner'[u] /\ client'[t] = client'[u]
                          /\ token'[t] = "active" => u <= t
        BY DEF SessionIsAChain
      <3>3. CASE t # new /\ u # new
        BY <3>1, <3>3, <2>2, <2>3 DEF SessionIsAChain, TypeOK
      <3>4. CASE t # new /\ u = new
        BY <3>1, <3>4, <2>2, <2>3, <2>4, <2>5 DEF TypeOK
      <3>5. CASE t = new
        BY <3>1, <3>2, <3>5, <2>2, <2>5, <1>tok
      <3> QED
        BY <3>3, <3>4, <3>5
    <2> QED
      BY <2>6, <2>7
  <1>3. ASSUME /\ UNCHANGED <<owner, client, root>>
               /\ token' \in [Token -> {"absent", "active", "revoked"}]
               /\ \A t \in Token : \/ token'[t] = token[t]
                                   \/ token[t] # "absent" /\ token'[t] = "revoked"
        PROVE  TokensInOrder' /\ SessionIsAChain'
    BY <1>3 DEF TokensInOrder, SessionIsAChain, TypeOK
  <1>4. ASSUME NEW q \in Request, RevokeAllCommit(q) PROVE TokensInOrder' /\ SessionIsAChain'
    BY <1>3, <1>4 DEF RevokeAllCommit, RequestOK, TypeOK
  <1>5. ASSUME NEW q \in Request, NEW t \in Token, Logout(q, t)
        PROVE  TokensInOrder' /\ SessionIsAChain'
    BY <1>3, <1>5 DEF Logout, TypeOK
  <1>6. CASE UNCHANGED tokens
    BY <1>3, <1>6 DEF tokens, TypeOK
  <1> QED
    BY <1>1, <1>2, <1>4, <1>5, <1>6, Writers

(* However many requests present a token at the same time, a session has at *)
(* most its newest token active, and its owner and client stay those of the *)
(* sign-in (SessionIsAChain).                                               *)
THEOREM SessionsAreChains == Spec => []SessionIsAChain
  <1>1. Init => SessionInv
    BY NoneIsNoValue DEF Init, SessionInv, RotationsExclusive, TokensInOrder, SessionIsAChain
  <1>2. TypeInv /\ SessionInv /\ [Next]_vars => SessionInv'
    BY RotationStep, ChainStep DEF SessionInv
  <1>3. SessionInv => SessionIsAChain
    BY DEF SessionInv
  <1> QED
    BY TypeInit, TypeStep, <1>1, <1>2, <1>3, PTL DEF Spec

-----------------------------------------------------------------------------
(* Revocation *)

(* A step keeps SnapshotCovers. *)
LEMMA SnapshotStep ==
    ASSUME TypeInv, SnapshotCovers, [Next]_vars
    PROVE  SnapshotCovers'
  <1> USE DEF TypeInv
  <1>loc. \A q \in Request : loc[q].before \subseteq Token /\ loc[q].seen \subseteq Token
    BY DEF TypeOK, Locals
  <1> SUFFICES ASSUME NEW q \in Request
               PROVE  /\ pc'[q] = "revoke_all" => \A t \in loc'[q].before :
                            token'[t] # "absent" /\ owner'[t] = loc'[q].email
                      /\ pc'[q] = "revoking" => \A t \in loc'[q].before :
                            t \in loc'[q].seen \/ token'[t] = "revoked"
    BY DEF SnapshotCovers
  <1>kept. CASE pc'[q] = pc[q] /\ loc'[q] = loc[q]
    BY <1>kept, <1>loc, DecisionStep DEF SnapshotCovers
  <1>else. CASE pc'[q] \notin {"revoke_all", "revoking"}
    BY <1>else
  <1>1. ASSUME NEW r \in Request, End(r)
        PROVE  \/ pc'[q] = pc[q] /\ loc'[q] = loc[q]
               \/ pc'[q] \notin {"revoke_all", "revoking"}
    BY <1>1, EndEffect
  <1>2. ASSUME NEW r \in Request, NEW next \in Point \ {"revoke_all", "revoking"}, NEW locals,
               Go(r, next, locals)
        PROVE  \/ pc'[q] = pc[q] /\ loc'[q] = loc[q]
               \/ pc'[q] \notin {"revoke_all", "revoking"}
    BY <1>2 DEF Go, TypeOK
  <1>3. ASSUME NEW r \in Request, NEW t \in Token, Rotate(r, t) \/ Reuse(r, t) \/ Logout(r, t)
        PROVE  \/ pc'[q] = pc[q] /\ loc'[q] = loc[q]
               \/ pc'[q] \notin {"revoke_all", "revoking"}
    BY <1>2, <1>3 DEF Rotate, Reuse, Logout, Point
  <1>4. ASSUME NEW r \in Request, Proceed(r) \/ Abort(r), ~RevokeAll(r), ~ChangePasswordWrite(r)
        PROVE  \/ pc'[q] = pc[q] /\ loc'[q] = loc[q]
               \/ pc'[q] \notin {"revoke_all", "revoking"}
    BY <1>1, <1>2, <1>4 DEF Proceed, Abort, SignUpCommit, SignUpConflict, Issue,
       RotateCommit, ReuseRollback, RevokeAllCommit, OAuthCommit, OAuthConflict, Point
  <1>5. ASSUME NEW r \in Request, NEW e \in Email,
               \/ \E p \in Password : SignUp(r, e, p)
               \/ \E old, new \in Password : ChangePassword(r, e, old, new)
               \/ \E c \in Client : VerifyEmail(r, e, c)
               \/ \E c \in Client, p \in Password : Login(r, e, p, c)
        PROVE  \/ pc'[q] = pc[q] /\ loc'[q] = loc[q]
               \/ pc'[q] \notin {"revoke_all", "revoking"}
    BY <1>2, <1>5 DEF SignUp, ChangePassword, VerifyEmail, Login, Point
  <1>6. ASSUME NEW r \in Request, NEW e \in Email, NEW c \in Client, NEW s \in Subject,
               OAuth(r, s, e, c)
        PROVE  \/ pc'[q] = pc[q] /\ loc'[q] = loc[q]
               \/ pc'[q] \notin {"revoke_all", "revoking"}
    <2>1. CASE linked[s] # NONE
      BY <1>6, <2>1, <1>2 DEF OAuth, Point
    <2>2. CASE linked[s] = NONE
      <3> DEFINE to == CASE account[e] = "verified"   -> "link"
                         [] account[e] = "unverified" -> "takeover"
                         [] account[e] = "absent"     -> "create"
      <3>1. to \in {"link", "takeover", "create"}
        BY DEF TypeOK
      <3>2. Go(r, to, [NoLocals EXCEPT !.email = e, !.subject = s, !.client = c])
        BY <1>6, <2>2 DEF OAuth
      <3> HIDE DEF to
      <3> QED
        BY <3>1, <3>2, <1>2 DEF Point
    <2> QED
      BY <2>1, <2>2
  <1>7. ASSUME NEW e \in Email, LogoutAll(q, e)
        PROVE  /\ pc'[q] = "revoke_all" /\ UNCHANGED tokens
               /\ \A t \in loc'[q].before : token[t] = "active" /\ owner[t] = loc'[q].email
    <2> DEFINE next == [NoLocals EXCEPT !.email = e, !.before = Active(e)]
    <2>1. next \in Locals /\ next.email = e /\ next.before = Active(e)
      BY DEF NoLocals, Locals, Active
    <2> HIDE DEF next
    <2>2. Go(q, "revoke_all", next)
      BY <1>7 DEF LogoutAll, next
    <2> QED
      BY <1>7, <2>1, <2>2, GoEffect DEF LogoutAll, Active, Point
  <1>8. ASSUME ChangePasswordWrite(q)
        PROVE  /\ pc'[q] = "revoke_all" /\ UNCHANGED tokens
               /\ \A t \in loc'[q].before : token[t] = "active" /\ owner[t] = loc'[q].email
    <2> DEFINE e == loc[q].email
               next == [NoLocals EXCEPT !.email = e, !.before = Active(e)]
    <2>1. next \in Locals /\ next.email = e /\ next.before = Active(e)
      BY DEF NoLocals, Locals, Active, TypeOK
    <2>2. Go(q, "revoke_all", next)
      BY <1>8 DEF ChangePasswordWrite
    <2> HIDE DEF next, e
    <2> QED
      BY <1>8, <2>1, <2>2, GoEffect DEF ChangePasswordWrite, Active, Point
  <1>9. ASSUME RevokeAll(q)
        PROVE  /\ pc[q] = "revoke_all" /\ pc'[q] = "revoking" /\ UNCHANGED tokens
               /\ loc'[q].before = loc[q].before /\ loc'[q].seen = Active(loc[q].email)
    <2> DEFINE next == [loc[q] EXCEPT !.seen = Active(loc[q].email)]
    <2>1. next \in Locals /\ next.before = loc[q].before /\ next.seen = Active(loc[q].email)
      BY DEF Locals, Active, TypeOK
    <2> HIDE DEF next
    <2>2. Go(q, "revoking", next)
      BY <1>9 DEF RevokeAll, next
    <2> QED
      BY <1>9, <2>1, <2>2, GoEffect DEF RevokeAll, Point
  <1>10. ASSUME NEW r \in Request, NEW e \in Email, r # q, LogoutAll(r, e)
         PROVE  pc'[q] = pc[q] /\ loc'[q] = loc[q]
    BY <1>10 DEF LogoutAll, Go, TypeOK
  <1>11. CASE UNCHANGED vars
    BY <1>11, <1>kept DEF vars
  <1>12. CASE RevokeAll(q)
    BY <1>9, <1>12, <1>loc DEF SnapshotCovers, Active, tokens, TypeOK
  <1>13. CASE ChangePasswordWrite(q) \/ \E e \in Email : LogoutAll(q, e)
    BY <1>7, <1>8, <1>13 DEF tokens
  <1>14. ASSUME NEW r \in Request, RevokeAll(r) \/ ChangePasswordWrite(r), r # q
         PROVE  pc'[q] = pc[q] /\ loc'[q] = loc[q]
    BY <1>14 DEF ChangePasswordWrite, RevokeAll, Go, TypeOK
  <1> QED
    BY <1>kept, <1>else, <1>3, <1>4, <1>5, <1>6, <1>10, <1>11, <1>12, <1>13, <1>14 DEF Next

(* A change of password, or logout-all, that commits its UPDATE ends every  *)
(* session there was when it wrote (OldTokensEnd): the row locks make it    *)
(* wait for a rotation instead of missing it.                              *)
THEOREM RevocationEndsSessions == Spec => OldTokensEnd
  <1>1. Init => SnapshotCovers
    BY DEF Init, SnapshotCovers
  <1>2. TypeInv /\ SnapshotCovers /\ [Next]_vars => SnapshotCovers'
    BY SnapshotStep
  <1>3. TypeInv /\ SnapshotCovers /\ [Next]_vars =>
          [\A q \in Request :
             pc[q] = "revoking" /\ pc'[q] = "idle" /\ token' # token
                 => \A t \in loc[q].before : token'[t] = "revoked"]_vars
    <2> SUFFICES ASSUME TypeInv, SnapshotCovers, [Next]_vars, NEW q \in Request,
                        pc[q] = "revoking", pc'[q] = "idle", token' # token,
                        NEW t \in loc[q].before
                 PROVE  token'[t] = "revoked"
      OBVIOUS
    <2>0. t \in Token
      BY DEF TypeInv, TypeOK, Locals
    <2>1. CASE token[t] = "revoked"
      BY <2>0, <2>1, DecisionStep
    <2>2. ASSUME NEW r \in Request, Issue(r) \/ RotateCommit(r) PROVE FALSE
      BY <2>2, EndEffect DEF Issue, RotateCommit, TypeInv
    <2>3. ASSUME NEW r \in Request, NEW u \in Token, Logout(r, u) PROVE FALSE
      BY <2>3 DEF Logout
    <2>4. ASSUME NEW r \in Request, RevokeAllCommit(r), t \in loc[q].seen
          PROVE  token'[t] = "revoked"
      <3>1. r = q
        BY <2>4, EndEffect DEF RevokeAllCommit, TypeInv
      <3> QED
        BY <2>0, <2>4, <3>1 DEF RevokeAllCommit
    <2> QED
      BY <2>1, <2>2, <2>3, <2>4, Writers DEF SnapshotCovers, tokens
  <1> QED
    BY TypeInit, TypeStep, <1>1, <1>2, <1>3, PTL DEF Spec, OldTokensEnd
=============================================================================
