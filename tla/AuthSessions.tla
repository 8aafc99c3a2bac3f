---------------------------- MODULE AuthSessions ----------------------------
(***************************************************************************)
(* One account of auth-service: its row in users, its refresh tokens, its  *)
(* password reset tokens and the access tokens signed for it.  Rows carry  *)
(* the user's id and tokens are random, so accounts do not meet.           *)
(*                                                                         *)
(* A process of Procs is the goroutine of a request.  Each of its steps is *)
(* one statement sent to PostgreSQL, or one operation on the map           *)
(* recentRotations, which lives in the memory of the process; no           *)
(* transaction joins two statements.                                       *)
(***************************************************************************)
EXTENDS Naturals

CONSTANTS
    Procs,          \* requests in progress
    Tokens,         \* values of refresh tokens, 32 random bytes each
    NoToken,        \* no refresh token
    Resets,         \* values of password reset tokens
    NoReset,        \* no reset token
    Passwords,      \* passwords of the account
    NoPassword      \* the account does not exist yet

ASSUME AuthAssumption ==
    /\ NoToken \notin Tokens
    /\ NoReset \notin Resets
    /\ NoPassword \notin Passwords

VARIABLES
    password,       \* users.password_hash; NoPassword: no row
    role,           \* users.role
    live,           \* refresh_tokens: the rows that have not expired
    made,           \* refresh tokens ever inserted
    parent,         \* the token each was exchanged for
    root,           \* the token its session began with
    grace,          \* recentRotations: old tokens that are answered from it
    known,          \* refresh tokens that an answer has carried
    resets,         \* password_reset_tokens: the rows that have not expired
    asked,          \* reset tokens ever inserted
    claimed,        \* roles in the access tokens signed so far
    req,            \* the requests in progress: where they are, what they hold
    raced,          \* tokens two requests held before either deleted the row
    kept,           \* tokens whose DELETE failed or, once used, was never reached
    ended,          \* sessions that met a logout, an expiry or an error
    closed,         \* sessions logged out of with nothing left of them
    used,           \* reset tokens that have set a password
    reused          \* reset tokens that have set one twice

accountVars == <<password, role, claimed>>
tokenVars == <<live, made, parent, root, known>>
sessionVars == <<ended, closed>>
resetVars == <<resets, asked, used, reused>>
vars == <<accountVars, tokenVars, grace, sessionVars, resetVars, req, raced, kept>>

Roles == {"customer", "organizer"}

PC == {"idle", "registerInsert", "refreshDelete", "refreshUser", "refreshStore",
       "pair", "upgradeWrite", "changeUpdate", "resetUpdate", "resetDelete"}

\* A request: the refresh token it was given and the one it made, the reset token
\* it was given, and the role it has read.
Idle == [pc |-> "idle", held |-> NoToken, next |-> NoToken, key |-> NoReset,
         seenRole |-> "customer"]

\* The requests there can be once the tokens of m and of k were made.
RequestsIn(m, k) ==
    [pc : PC, held : m \cup {NoToken}, next : m \cup {NoToken}, key : k \cup {NoReset},
     seenRole : Roles]

TypeOK ==
    /\ password \in Passwords \cup {NoPassword}
    /\ role \in Roles
    /\ claimed \subseteq Roles
    /\ live \subseteq made /\ known \subseteq made /\ made \subseteq Tokens
    /\ parent \in [Tokens -> made \cup {NoToken}]
    /\ root \in [Tokens -> made \cup {NoToken}]
    /\ \A t \in Tokens : (root[t] = NoToken) <=> (t \notin made)
    /\ \A t \in Tokens \ made : parent[t] = NoToken
    /\ grace \subseteq made
    /\ resets \subseteq asked /\ asked \subseteq Resets
    /\ req \in [Procs -> RequestsIn(made, asked)]
    /\ raced \subseteq Tokens \cup Resets
    /\ kept \subseteq Tokens \cup Resets
    /\ ended \subseteq made /\ closed \subseteq made
    /\ used \subseteq Resets /\ reused \subseteq Resets

Init ==
    /\ password = NoPassword
    /\ role = "customer"
    /\ claimed = {}
    /\ live = {} /\ made = {} /\ known = {}
    /\ parent = [t \in Tokens |-> NoToken]
    /\ root = [t \in Tokens |-> NoToken]
    /\ grace = {}
    /\ resets = {} /\ asked = {}
    /\ req = [p \in Procs |-> Idle]
    /\ raced = {} /\ kept = {}
    /\ ended = {} /\ closed = {}
    /\ used = {} /\ reused = {}

-----------------------------------------------------------------------------
At(p, where) == req[p].pc = where
Goto(p, where) == req' = [req EXCEPT ![p].pc = where]
Return(p) == req' = [req EXCEPT ![p] = Idle]

\* A refresh that has deleted its token and not yet inserted the next.
Exchanging(p) == req[p].pc \in {"refreshUser", "pair"} /\ req[p].held # NoToken

\* A refresh that may still insert a successor of its token.
MayExchange(p) == req[p].pc \in {"refreshDelete", "refreshUser", "pair"} /\ req[p].held # NoToken

\* GetUserByEmail and GetUserByID find the row, and it is active: no code deactivates
\* an account, nor makes one an admin.
UserFound == password # NoPassword

-----------------------------------------------------------------------------
(* generateTokenPair: an access token is signed with the role the caller   *)
(* has read, a refresh token is drawn and its row is inserted.             *)

\* The row of token t; `from` is the token it is exchanged for.
CreateRefreshToken(t, from) ==
    /\ t \notin made
    /\ made' = made \cup {t}
    /\ live' = live \cup {t}
    /\ parent' = [parent EXCEPT ![t] = from]
    /\ root' = [root EXCEPT ![t] = IF from = NoToken THEN t ELSE root[from]]

\* The pair is made.  A refresh has its answer to remember first, unless the INSERT is
\* answered with an error; any other request answers at once (a client that does not
\* get the answer just does not use it).
GenerateTokenPair(p) ==
    /\ At(p, "pair")
    /\ \E t \in Tokens :
         /\ CreateRefreshToken(t, req[p].held)
         /\ IF req[p].held = NoToken
               THEN /\ Return(p)
                    /\ known' = known \cup {t}
               ELSE /\ \/ req' = [req EXCEPT ![p].pc = "refreshStore", ![p].next = t]
                       \/ Return(p)
                    /\ known' = known
    /\ claimed' = claimed \cup {req[p].seenRole}
    /\ UNCHANGED <<password, role, grace, sessionVars, resetVars, raced, kept>>

\* A statement fails without effect, or the client has gone and the context is
\* cancelled: the request ends there.  A refresh past its DELETE leaves its session
\* without a row.  (A statement that takes effect and is answered with an error is a
\* case of its action.)
Fail(p) ==
    /\ req[p].pc \in {"registerInsert", "refreshDelete", "refreshUser", "pair",
                      "upgradeWrite", "changeUpdate", "resetUpdate"}
    /\ Return(p)
    /\ ended' = ended \cup IF Exchanging(p) THEN {root[req[p].held]} ELSE {}
    /\ UNCHANGED <<accountVars, tokenVars, grace, closed, resetVars, raced, kept>>

-----------------------------------------------------------------------------
(* Register, Login, UpgradeToOrganizer.                                    *)

\* The email is free; its hash is computed, which takes a while.
Register(p) ==
    /\ At(p, "idle")
    /\ ~UserFound
    /\ Goto(p, "registerInsert")
    /\ UNCHANGED <<accountVars, tokenVars, grace, sessionVars, resetVars, raced, kept>>

\* CreateUser; the unique index on email refuses the second of two.
CreateUser(p) ==
    /\ At(p, "registerInsert")
    /\ \/ /\ ~UserFound
          /\ password' \in Passwords
          /\ role' = "customer"
          /\ req' = [req EXCEPT ![p].pc = "pair", ![p].seenRole = "customer"] \/ Return(p)
       \/ /\ UserFound
          /\ Return(p)
          /\ UNCHANGED <<password, role>>
    /\ UNCHANGED <<claimed, tokenVars, grace, sessionVars, resetVars, raced, kept>>

\* The password given is compared with the hash read in the same step.
Login(p) ==
    /\ At(p, "idle")
    /\ UserFound
    /\ req' = [req EXCEPT ![p].pc = "pair", ![p].seenRole = role]
    /\ UNCHANGED <<accountVars, tokenVars, grace, sessionVars, resetVars, raced, kept>>

\* The account is read; one that is an organizer already only gets a new pair.
UpgradeToOrganizer(p) ==
    /\ At(p, "idle")
    /\ UserFound
    /\ req' = [req EXCEPT ![p].pc = IF role = "organizer" THEN "pair" ELSE "upgradeWrite",
                          ![p].seenRole = role]
    /\ UNCHANGED <<accountVars, tokenVars, grace, sessionVars, resetVars, raced, kept>>

\* Mutant: the error of UpdateUserRole is ignored.
UpdateUserRoleUnchecked(p) ==
    /\ At(p, "upgradeWrite")
    /\ role' \in {role, "organizer"}
    /\ req' = [req EXCEPT ![p].pc = "pair", ![p].seenRole = "organizer"]
    /\ UNCHANGED <<password, claimed, tokenVars, grace, sessionVars, resetVars, raced, kept>>

UpdateUserRole(p) ==
    /\ At(p, "upgradeWrite")
    /\ role' = "organizer"
    /\ req' = [req EXCEPT ![p].pc = "pair", ![p].seenRole = "organizer"] \/ Return(p)
    /\ UNCHANGED <<password, claimed, tokenVars, grace, sessionVars, resetVars, raced, kept>>

-----------------------------------------------------------------------------
(* RefreshToken and Logout.  A client sends any token it was ever given.   *)

\* Mutant: a token that was rotated is accepted although its row has gone.
GetRefreshTokenAnyRow(p) ==
    /\ At(p, "idle")
    /\ \E t \in known \ grace :
         /\ req' = [req EXCEPT ![p].pc = "refreshDelete", ![p].held = t]
         /\ raced' = raced \cup IF \E q \in Procs : At(q, "refreshDelete") /\ req[q].held = t
                                   THEN {t} ELSE {}
    /\ UNCHANGED <<accountVars, tokenVars, grace, sessionVars, resetVars, kept>>

\* The token is not remembered as rotated (one that is gets the same answer again,
\* which changes nothing) and its row is found.  Without a row it is refused.
GetRefreshToken(p) ==
    /\ At(p, "idle")
    /\ \E t \in (known \cap live) \ grace :
         /\ req' = [req EXCEPT ![p].pc = "refreshDelete", ![p].held = t]
         /\ raced' = raced \cup IF \E q \in Procs : At(q, "refreshDelete") /\ req[q].held = t
                                   THEN {t} ELSE {}
    /\ UNCHANGED <<accountVars, tokenVars, grace, sessionVars, resetVars, kept>>

\* Mutant: the rotation deletes the tokens of the user, not the one.
RotateDeletesAll(p) ==
    /\ At(p, "refreshDelete")
    /\ Goto(p, "refreshUser")
    /\ live' = {}
    /\ UNCHANGED <<accountVars, made, parent, root, known, grace, sessionVars, resetVars, raced,
                   kept>>

\* The row is deleted, whether another request has done so or not; an error of the
\* DELETE is ignored.
RotateDelete(p) ==
    /\ At(p, "refreshDelete")
    /\ Goto(p, "refreshUser")
    /\ \/ live' = live \ {req[p].held} /\ kept' = kept
       \/ live' = live /\ kept' = kept \cup {req[p].held}
    /\ UNCHANGED <<accountVars, made, parent, root, known, grace, sessionVars, resetVars, raced>>

\* The account is read again, with the role it has now.
RotateGetUser(p) ==
    /\ At(p, "refreshUser")
    /\ req' = [req EXCEPT ![p].pc = "pair", ![p].seenRole = role]
    /\ UNCHANGED <<accountVars, tokenVars, grace, sessionVars, resetVars, raced, kept>>

\* The answer is remembered under the old token for thirty seconds, and given.
RotateStore(p) ==
    /\ At(p, "refreshStore")
    /\ grace' = grace \cup {req[p].held}
    /\ known' = known \cup {req[p].next}
    /\ Return(p)
    /\ UNCHANGED <<accountVars, live, made, parent, root, sessionVars, resetVars, raced, kept>>

GraceEnds(t) ==
    /\ t \in grace
    /\ grace' = grace \ {t}
    /\ UNCHANGED <<accountVars, tokenVars, sessionVars, resetVars, req, raced, kept>>

\* Nothing is left of the session of r: no row, no refresh that could make one.
Over(r, rows) ==
    /\ \A t \in rows : root[t] # r
    /\ \A p \in Procs : MayExchange(p) => root[req[p].held] # r

\* The row of the token is deleted; that none was there is no error.
Logout(t) ==
    /\ t \in known
    /\ live' = live \ {t}
    /\ ended' = ended \cup {root[t]}
    /\ closed' = closed \cup IF Over(root[t], live \ {t}) THEN {root[t]} ELSE {}
    /\ UNCHANGED <<accountVars, made, parent, root, known, grace, resetVars, req, raced, kept>>

\* expires_at passes: seven days without a refresh.
ExpireToken(t) ==
    /\ t \in live
    /\ live' = live \ {t}
    /\ ended' = ended \cup {root[t]}
    /\ UNCHANGED <<accountVars, made, parent, root, known, grace, closed, resetVars, req, raced,
                   kept>>

-----------------------------------------------------------------------------
(* ForgotPassword, ResetPassword, ChangePassword.                          *)

\* UpdateUserPassword overwrites the hash, whatever it was.
UpdateUserPassword == password' \in Passwords

\* A reset token is inserted and sent by mail; earlier ones stay valid.
ForgotPassword ==
    /\ UserFound
    /\ \E k \in Resets \ asked :
         /\ asked' = asked \cup {k}
         /\ resets' = resets \cup {k}
    /\ UNCHANGED <<accountVars, tokenVars, grace, sessionVars, used, reused, req, raced, kept>>

\* The row is read and has not expired; then the new hash is computed.
ResetPassword(p) ==
    /\ At(p, "idle")
    /\ \E k \in resets :
         /\ req' = [req EXCEPT ![p].pc = "resetUpdate", ![p].key = k]
         /\ raced' = raced \cup IF \E q \in Procs : req[q].key = k THEN {k} ELSE {}
    /\ UNCHANGED <<accountVars, tokenVars, grace, sessionVars, resetVars, kept>>

\* An UPDATE answered with an error ends the request before the token is deleted, even
\* if it has set the password.
ResetUpdate(p) ==
    /\ At(p, "resetUpdate")
    /\ UpdateUserPassword
    /\ used' = used \cup {req[p].key}
    /\ reused' = reused \cup ({req[p].key} \cap used)
    /\ \/ Goto(p, "resetDelete") /\ kept' = kept
       \/ Return(p) /\ kept' = kept \cup {req[p].key}
    /\ UNCHANGED <<role, claimed, tokenVars, grace, sessionVars, resets, asked, raced>>

\* Mutant: the reset token is left to expire.
ResetKeeps(p) ==
    /\ At(p, "resetDelete")
    /\ Return(p)
    /\ UNCHANGED <<accountVars, tokenVars, grace, sessionVars, resetVars, raced, kept>>

\* The token is deleted; an error is ignored, and the token can be used again.
ResetDelete(p) ==
    /\ At(p, "resetDelete")
    /\ Return(p)
    /\ \/ resets' = resets \ {req[p].key} /\ kept' = kept
       \/ resets' = resets /\ kept' = kept \cup {req[p].key}
    /\ UNCHANGED <<accountVars, tokenVars, grace, sessionVars, asked, used, reused, raced>>

ExpireReset(k) ==
    /\ k \in resets
    /\ resets' = resets \ {k}
    /\ UNCHANGED <<accountVars, tokenVars, grace, sessionVars, asked, used, reused, req, raced,
                   kept>>

\* The hash is read and the old password given matches it.
ChangePassword(p) ==
    /\ At(p, "idle")
    /\ UserFound
    /\ Goto(p, "changeUpdate")
    /\ UNCHANGED <<accountVars, tokenVars, grace, sessionVars, resetVars, raced, kept>>

\* The UPDATE has no condition: it overwrites what others set since the comparison.
ChangeUpdate(p) ==
    /\ At(p, "changeUpdate")
    /\ UpdateUserPassword
    /\ Return(p)
    /\ UNCHANGED <<role, claimed, tokenVars, grace, sessionVars, resetVars, raced, kept>>

-----------------------------------------------------------------------------
\* The process stops and starts again: requests end where they are, and the map of
\* rotations is empty.
Restart ==
    /\ req' = [p \in Procs |-> Idle]
    /\ grace' = {}
    /\ ended' = ended \cup {root[req[p].held] : p \in {q \in Procs : Exchanging(q)}}
    /\ kept' = kept \cup {req[p].key : p \in {q \in Procs : At(q, "resetDelete")}}
    /\ UNCHANGED <<accountVars, tokenVars, closed, resetVars, raced>>

Sessions(p) ==
    \/ Register(p) \/ CreateUser(p) \/ Login(p)
    \/ UpgradeToOrganizer(p) \/ UpdateUserRole(p) \/ GenerateTokenPair(p)

Refresh(p) ==
    \/ GetRefreshToken(p) \/ RotateDelete(p) \/ RotateGetUser(p) \/ RotateStore(p)

Reset(p) == ResetPassword(p) \/ ResetUpdate(p) \/ ResetDelete(p)

Change(p) == ChangePassword(p) \/ ChangeUpdate(p)

Next ==
    \/ \E p \in Procs : Sessions(p) \/ Refresh(p) \/ Reset(p) \/ Change(p) \/ Fail(p)
    \/ \E t \in Tokens : Logout(t) \/ ExpireToken(t) \/ GraceEnds(t)
    \/ \E k \in Resets : ExpireReset(k)
    \/ ForgotPassword
    \/ Restart

Spec == Init /\ [][Next]_vars

-----------------------------------------------------------------------------
(* Properties.                                                             *)

\* A refresh token is exchanged for one successor only, however often and by however
\* many tabs it is sent, unless two requests of RefreshToken had read its row before
\* either deleted it, or the DELETE failed unnoticed.
SuccessorUnique ==
    \A a, b \in made :
        (a # b /\ parent[a] = parent[b] /\ parent[a] # NoToken) => parent[a] \in raced \cup kept

\* A session that was logged out of, when no sibling token and no refresh of it were
\* around, never has a refresh token again: neither the map of rotations nor an old
\* token in some tab revives it.
LoggedOutStaysOut == \A t \in live : root[t] \notin closed

\* A session never just disappears: until it is logged out of, expires or meets an
\* error, it has a valid refresh token or a RefreshToken about to insert one, whatever
\* the user's other sessions do.
SessionSurvives ==
    \A t \in made :
        \/ root[t] \in ended
        \/ \E u \in live : root[u] = root[t]
        \/ \E p \in Procs : Exchanging(p) /\ root[req[p].held] = root[t]

\* A reset token sets the password once, unless two requests of ResetPassword had read
\* it together, or it outlived its use because the DELETE failed or was never reached:
\* the UPDATE was answered with an error, or the process stopped.
ResetOnce == reused \subseteq raced \cup kept

\* No access token claims more than the account has: the role organizer is signed only
\* once UpdateUserRole has written it.
RoleNeverExceeds == "organizer" \in claimed => role = "organizer"

=============================================================================
