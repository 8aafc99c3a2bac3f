------------------------- MODULE AuthSessionsProofs -------------------------
(***************************************************************************)
(* Proofs about AuthSessions: type correctness, and what is promised of    *)
(* refresh tokens, sessions, reset tokens and roles, for any number of     *)
(* requests and tokens.                                                    *)
(***************************************************************************)
EXTENDS AuthSessions, TLAPS

\* What a request holds goes with the place it has got to.
Holds ==
    \A p \in Procs :
        /\ req[p].pc \in {"refreshDelete", "refreshUser", "refreshStore"} => req[p].held \in made
        /\ req[p].pc \notin {"refreshDelete", "refreshUser", "refreshStore", "pair"}
             => req[p].held = NoToken
        /\ req[p].pc = "refreshStore" => req[p].next \in made
        /\ req[p].pc \in {"resetUpdate", "resetDelete"} => req[p].key \in asked
        /\ req[p].pc \notin {"resetUpdate", "resetDelete"} => req[p].key = NoReset

Typed == TypeOK /\ Holds

LEMMA InitTyped == Init => Typed
BY AuthAssumption, SMTT(60) DEF Init, Typed, TypeOK, RequestsIn, Holds, Idle, Roles, PC

LEMMA PairTyped ==
    ASSUME Typed, NEW p \in Procs, GenerateTokenPair(p)
    PROVE  Typed'
<1> USE AuthAssumption
<1>1. PICK t \in Tokens :
        /\ CreateRefreshToken(t, req[p].held)
        /\ IF req[p].held = NoToken
              THEN Return(p) /\ known' = known \cup {t}
              ELSE /\ req' = [req EXCEPT ![p].pc = "refreshStore", ![p].next = t] \/ Return(p)
                   /\ known' = known
  BY DEF GenerateTokenPair
<1>2. TypeOK'
  BY <1>1, SMTT(90) DEF Typed, TypeOK, Holds, GenerateTokenPair, CreateRefreshToken, Return, RequestsIn, Idle, At,
     accountVars, tokenVars, sessionVars, resetVars, PC, Roles
<1>3. Holds'
  BY <1>1, SMTT(60) DEF Typed, TypeOK, Holds, GenerateTokenPair, CreateRefreshToken, Return, Idle, At, RequestsIn,
     accountVars, tokenVars, sessionVars, resetVars, PC, Roles
<1>4. QED
  BY <1>2, <1>3 DEF Typed

\* A request that has read the role is still one.
LEMMA ReadFits ==
    ASSUME NEW m, NEW k, NEW r \in RequestsIn(m, k), NEW c \in PC, NEW x \in Roles
    PROVE  [r EXCEPT !.pc = c, !.seenRole = x] \in RequestsIn(m, k)
BY DEF RequestsIn

\* Every other step of one request.
Step(p) ==
    \/ Register(p) \/ CreateUser(p) \/ Login(p) \/ UpgradeToOrganizer(p) \/ UpdateUserRole(p)
    \/ GetRefreshToken(p) \/ RotateDelete(p) \/ RotateGetUser(p) \/ RotateStore(p)
    \/ ResetPassword(p) \/ ResetUpdate(p) \/ ResetDelete(p)
    \/ ChangePassword(p) \/ ChangeUpdate(p) \/ Fail(p)

LEMMA StepTyped ==
    ASSUME Typed, NEW p \in Procs, Step(p)
    PROVE  Typed'
<1> USE AuthAssumption DEF Typed, TypeOK, Holds, At, Goto, Return, Idle, Roles, PC,
        accountVars, tokenVars, sessionVars, resetVars
<1>1. CASE Register(p)
  BY <1>1, SMTT(60) DEF Register, RequestsIn
<1>2. CASE CreateUser(p)
  BY <1>2, SMTT(60) DEF CreateUser, RequestsIn
<1>3. CASE Login(p)
  <2>1. req' = [req EXCEPT ![p] = [req[p] EXCEPT !.pc = "pair", !.seenRole = role]]
    BY <1>3 DEF Login
  <2>2. req' \in [Procs -> RequestsIn(made, asked)]
    BY ONLY <2>1, ReadFits, Typed, p \in Procs DEF Typed, TypeOK, PC, Roles
  <2>3. TypeOK'
    BY <1>3, <2>2 DEF Login
  <2>4. Holds'
    BY <1>3, SMTT(60) DEF Login, RequestsIn
  <2>5. QED
    BY <2>3, <2>4
<1>4. CASE UpgradeToOrganizer(p)
  <2>1. req' = [req EXCEPT ![p] = [req[p] EXCEPT !.pc = IF role = "organizer" THEN "pair" ELSE "upgradeWrite", !.seenRole = role]]
    BY <1>4 DEF UpgradeToOrganizer
  <2>2. req' \in [Procs -> RequestsIn(made, asked)]
    BY ONLY <2>1, ReadFits, Typed, p \in Procs DEF Typed, TypeOK, PC, Roles
  <2>3. TypeOK'
    BY <1>4, <2>2 DEF UpgradeToOrganizer
  <2>4. Holds'
    BY <1>4, SMTT(60) DEF UpgradeToOrganizer, RequestsIn
  <2>5. QED
    BY <2>3, <2>4
<1>5. CASE UpdateUserRole(p)
  <2>1. \/ req' = [req EXCEPT ![p] = [req[p] EXCEPT !.pc = "pair", !.seenRole = "organizer"]]
        \/ Return(p)
    BY <1>5 DEF UpdateUserRole
  <2>0. Idle \in RequestsIn(made, asked)
    BY DEF RequestsIn
  <2>2. req' \in [Procs -> RequestsIn(made, asked)]
    <3>1. CASE Return(p)
      BY ONLY <2>0, <3>1, Typed, p \in Procs DEF Typed, TypeOK, Return
    <3>2. CASE req' = [req EXCEPT ![p] = [req[p] EXCEPT !.pc = "pair", !.seenRole = "organizer"]]
      BY ONLY <3>2, ReadFits, Typed, p \in Procs DEF Typed, TypeOK, PC, Roles
    <3> QED  BY <2>1, <3>1, <3>2
  <2>3. TypeOK'
    BY <1>5, <2>2 DEF UpdateUserRole
  <2>4. Holds'
    BY <1>5, SMTT(60) DEF UpdateUserRole, RequestsIn
  <2>5. QED
    BY <2>3, <2>4
<1>6. CASE GetRefreshToken(p)
  BY <1>6, SMTT(60) DEF GetRefreshToken, RequestsIn
<1>7. CASE RotateDelete(p)
  BY <1>7, SMTT(60) DEF RotateDelete, RequestsIn
<1>8. CASE RotateGetUser(p)
  <2>1. req' = [req EXCEPT ![p] = [req[p] EXCEPT !.pc = "pair", !.seenRole = role]]
    BY <1>8 DEF RotateGetUser
  <2>2. req' \in [Procs -> RequestsIn(made, asked)]
    BY ONLY <2>1, ReadFits, Typed, p \in Procs DEF Typed, TypeOK, PC, Roles
  <2>3. TypeOK'
    BY <1>8, <2>2 DEF RotateGetUser
  <2>4. Holds'
    BY <1>8, SMTT(60) DEF RotateGetUser, RequestsIn
  <2>5. QED
    BY <2>3, <2>4
<1>9. CASE RotateStore(p)
  BY <1>9, SMTT(60) DEF RotateStore, RequestsIn
<1>10. CASE ResetPassword(p)
  BY <1>10, SMTT(60) DEF ResetPassword, RequestsIn
<1>11. CASE ResetUpdate(p)
  BY <1>11, SMTT(60) DEF ResetUpdate, UpdateUserPassword, RequestsIn
<1>12. CASE ResetDelete(p)
  BY <1>12, SMTT(60) DEF ResetDelete, RequestsIn
<1>13. CASE ChangePassword(p)
  BY <1>13, SMTT(60) DEF ChangePassword, RequestsIn
<1>14. CASE ChangeUpdate(p)
  BY <1>14, SMTT(60) DEF ChangeUpdate, UpdateUserPassword, RequestsIn
<1>15. CASE Fail(p)
  BY <1>15, SMTT(60) DEF Fail, Exchanging, RequestsIn
<1>16. QED
  BY <1>1, <1>2, <1>3, <1>4, <1>5, <1>6, <1>7, <1>8, <1>9, <1>10, <1>11, <1>12, <1>13, <1>14,
     <1>15 DEF Step

\* The steps that belong to no request.
Other ==
    \/ \E t \in Tokens : Logout(t) \/ ExpireToken(t) \/ GraceEnds(t)
    \/ \E k \in Resets : ExpireReset(k)
    \/ ForgotPassword
    \/ Restart

LEMMA OtherTyped ==
    ASSUME Typed, Other
    PROVE  Typed'
<1> USE AuthAssumption DEF Typed, TypeOK, Holds, At, Goto, Return, Idle, Roles, PC,
        accountVars, tokenVars, sessionVars, resetVars
<1>1. CASE \E t \in Tokens : Logout(t)
  BY <1>1, SMTT(60) DEF Logout, RequestsIn
<1>2. CASE \E t \in Tokens : ExpireToken(t)
  BY <1>2, SMTT(60) DEF ExpireToken, RequestsIn
<1>3. CASE \E t \in Tokens : GraceEnds(t)
  BY <1>3, SMTT(60) DEF GraceEnds, RequestsIn
<1>4. CASE \E k \in Resets : ExpireReset(k)
  BY <1>4, SMTT(60) DEF ExpireReset, RequestsIn
<1>5. CASE ForgotPassword
  BY <1>5, SMTT(60) DEF ForgotPassword, RequestsIn
<1>6. CASE Restart
  BY <1>6, SMTT(60) DEF Restart, Exchanging, RequestsIn
<1>7. QED
  BY <1>1, <1>2, <1>3, <1>4, <1>5, <1>6 DEF Other

LEMMA NextCases ==
    ASSUME Next
    PROVE  (\E p \in Procs : GenerateTokenPair(p) \/ Step(p)) \/ Other
BY DEF Next, Sessions, Refresh, Reset, Change, Step, Other

LEMMA NextTyped == Typed /\ [Next]_vars => Typed'
<1> SUFFICES ASSUME Typed, [Next]_vars PROVE Typed'
  OBVIOUS
<1>1. CASE UNCHANGED vars
  BY <1>1 DEF vars, Typed, TypeOK, Holds, accountVars, tokenVars, sessionVars, resetVars
<1>2. CASE Next
  BY <1>2, NextCases, PairTyped, StepTyped, OtherTyped
<1>3. QED
  BY <1>1, <1>2

\* Every variable of the model of auth-service keeps its type.
THEOREM TypeCorrect == Spec => []TypeOK
<1>1. Typed => TypeOK
  BY DEF Typed
<1>2. QED
  BY <1>1, InitTyped, NextTyped, PTL DEF Spec

-----------------------------------------------------------------------------
(* Most steps make no token and start no exchange.  What they may do to    *)
(* the sessions is said once.                                              *)

Quiet ==
    /\ UNCHANGED <<made, parent, root>>
    /\ live' \subseteq live
    /\ kept \subseteq kept' /\ raced \subseteq raced' /\ ended \subseteq ended'
    /\ \A t \in live \ live' : root[t] \in ended'
    /\ \A q \in Procs : MayExchange(q)' => MayExchange(q) /\ req'[q].held = req[q].held
    /\ \A q \in Procs : Exchanging(q)' => Exchanging(q)
    /\ \A q \in Procs : Exchanging(q)
         => (Exchanging(q)' /\ req'[q].held = req[q].held) \/ root[req[q].held] \in ended'
    /\ closed' = closed \/ \E t \in Tokens : Logout(t)

\* The three that are not quiet.
Loud(p) == GenerateTokenPair(p) \/ GetRefreshToken(p) \/ RotateDelete(p)

LEMMA QuietRequest ==
    ASSUME Typed, NEW p \in Procs, Step(p), ~Loud(p)
    PROVE  Quiet
<1> USE DEF Typed, TypeOK, RequestsIn, Holds, At, Goto, Return, Idle, PC, MayExchange, Exchanging,
        accountVars, tokenVars, sessionVars, resetVars, Quiet
<1>1. CASE Register(p)
  BY <1>1, SMTT(60) DEF Register
<1>2. CASE CreateUser(p)
  BY <1>2, SMTT(60) DEF CreateUser
<1>3. CASE Login(p)
  BY <1>3, SMTT(60) DEF Login
<1>4. CASE UpgradeToOrganizer(p)
  BY <1>4, SMTT(60) DEF UpgradeToOrganizer
<1>5. CASE UpdateUserRole(p)
  BY <1>5, SMTT(60) DEF UpdateUserRole
<1>6. CASE RotateGetUser(p)
  BY <1>6, SMTT(60) DEF RotateGetUser
<1>7. CASE RotateStore(p)
  BY <1>7, SMTT(60) DEF RotateStore
<1>8. CASE ResetPassword(p)
  BY <1>8, SMTT(60) DEF ResetPassword
<1>9. CASE ResetUpdate(p)
  BY <1>9, SMTT(60) DEF ResetUpdate
<1>10. CASE ResetDelete(p)
  BY <1>10, SMTT(60) DEF ResetDelete
<1>11. CASE ChangePassword(p)
  BY <1>11, SMTT(60) DEF ChangePassword
<1>12. CASE ChangeUpdate(p)
  BY <1>12, SMTT(60) DEF ChangeUpdate
<1>13. CASE Fail(p)
  BY <1>13, SMTT(60) DEF Fail
<1>14. QED
  BY <1>1, <1>2, <1>3, <1>4, <1>5, <1>6, <1>7, <1>8, <1>9, <1>10, <1>11, <1>12, <1>13 DEF Step, Loud

LEMMA QuietOther ==
    ASSUME Typed, Other
    PROVE  Quiet
<1> USE DEF Typed, TypeOK, RequestsIn, Holds, At, Goto, Return, Idle, PC, MayExchange, Exchanging,
        accountVars, tokenVars, sessionVars, resetVars, Quiet
<1>1. CASE \E t \in Tokens : Logout(t)
  <2>1. PICK u \in Tokens : Logout(u)
    BY <1>1
  <2>2. /\ UNCHANGED <<made, parent, root, req, kept, raced>>
        /\ live' = live \ {u} /\ ended' = ended \cup {root[u]}
    BY <2>1 DEF Logout
  <2>3. QED
    BY <1>1, <2>2
<1>2. CASE \E t \in Tokens : ExpireToken(t)
  BY <1>2, SMTT(60) DEF ExpireToken
<1>3. CASE \E t \in Tokens : GraceEnds(t)
  BY <1>3, SMTT(60) DEF GraceEnds
<1>4. CASE \E k \in Resets : ExpireReset(k)
  BY <1>4, SMTT(60) DEF ExpireReset
<1>5. CASE ForgotPassword
  BY <1>5, SMTT(60) DEF ForgotPassword
<1>6. CASE Restart
  BY <1>6, SMTT(60) DEF Restart
<1>7. QED
  BY <1>1, <1>2, <1>3, <1>4, <1>5, <1>6 DEF Other

LEMMA QuietStutter ==
    ASSUME UNCHANGED vars
    PROVE  Quiet
BY DEF vars, accountVars, tokenVars, sessionVars, resetVars, Quiet, MayExchange, Exchanging

\* Every step is quiet, or one of the three.
LEMMA QuietOrLoud ==
    ASSUME Typed, [Next]_vars
    PROVE  Quiet \/ \E p \in Procs : Loud(p)
<1>1. CASE UNCHANGED vars
  BY <1>1, QuietStutter
<1>2. CASE Next
  BY <1>2, NextCases, QuietRequest, QuietOther DEF Loud
<1>3. QED
  BY <1>1, <1>2

-----------------------------------------------------------------------------
\* A token that has a successor, or is about to have one, has no row any more, or is
\* kept; and a second exchange of it goes back to a race.
Exchange ==
    /\ \A n \in made : parent[n] # NoToken => parent[n] \notin live \/ parent[n] \in kept
    /\ \A p \in Procs : Exchanging(p) => req[p].held \notin live \/ req[p].held \in kept
    /\ \A p, q \in Procs : (p # q /\ MayExchange(p) /\ MayExchange(q) /\ req[p].held = req[q].held)
         => req[p].held \in raced \cup kept
    /\ \A p \in Procs, n \in made : (MayExchange(p) /\ parent[n] = req[p].held)
         => req[p].held \in raced \cup kept
    /\ SuccessorUnique

LEMMA QuietExchange ==
    ASSUME Typed, Exchange, Quiet
    PROVE  Exchange'
<1>1. (\A n \in made : parent[n] # NoToken => parent[n] \notin live \/ parent[n] \in kept)'
  BY DEF Exchange, Quiet
<1>2. (\A p \in Procs : Exchanging(p) => req[p].held \notin live \/ req[p].held \in kept)'
  BY DEF Exchange, Quiet, MayExchange, Exchanging
<1>3. (\A p, q \in Procs : (p # q /\ MayExchange(p) /\ MayExchange(q) /\ req[p].held = req[q].held)
         => req[p].held \in raced \cup kept)'
  BY DEF Exchange, Quiet
<1>4. (\A p \in Procs, n \in made : (MayExchange(p) /\ parent[n] = req[p].held)
         => req[p].held \in raced \cup kept)'
  BY DEF Exchange, Quiet
<1>5. SuccessorUnique'
  BY DEF Exchange, Quiet, SuccessorUnique
<1>6. QED
  BY <1>1, <1>2, <1>3, <1>4, <1>5 DEF Exchange

LEMMA LoudExchange ==
    ASSUME Typed, Exchange, NEW p \in Procs, Loud(p)
    PROVE  Exchange'
<1> USE AuthAssumption DEF Typed, TypeOK, RequestsIn, Holds, At, Goto, Return, Idle, PC, MayExchange,
        Exchanging, accountVars, tokenVars, sessionVars, resetVars, Exchange, SuccessorUnique
<1>1. CASE GenerateTokenPair(p)
  <2>1. PICK t \in Tokens : CreateRefreshToken(t, req[p].held)
    BY <1>1 DEF GenerateTokenPair
  <2>2. /\ ~MayExchange(p)'
        /\ \A q \in Procs \ {p} : req'[q] = req[q]
        /\ raced' = raced /\ kept' = kept
    BY <1>1 DEF GenerateTokenPair
  <2>3. /\ t \notin made /\ made' = made \cup {t} /\ live' = live \cup {t}
        /\ parent' = [parent EXCEPT ![t] = req[p].held]
    BY <2>1 DEF CreateRefreshToken
  <2>4. \A n \in made : parent'[n] = parent[n] /\ parent[n] # t
    BY <2>3
  <2>5. parent'[t] = req[p].held
    BY <2>3
  <2>6. req[p].held # NoToken => MayExchange(p) /\ Exchanging(p)
    BY <1>1 DEF GenerateTokenPair
  <2>7. (\A n \in made : parent[n] # NoToken => parent[n] \notin live \/ parent[n] \in kept)'
    BY <2>2, <2>3, <2>4, <2>5, <2>6
  <2>8. (\A q \in Procs : Exchanging(q) => req[q].held \notin live \/ req[q].held \in kept)'
    BY <2>2, <2>3
  <2>9. (\A q, r \in Procs :
           (q # r /\ MayExchange(q) /\ MayExchange(r) /\ req[q].held = req[r].held)
             => req[q].held \in raced \cup kept)'
    BY <2>2
  <2>10. (\A q \in Procs, n \in made : (MayExchange(q) /\ parent[n] = req[q].held)
            => req[q].held \in raced \cup kept)'
    BY <2>2, <2>3, <2>4, <2>5, <2>6
  <2>11. SuccessorUnique'
    BY <2>2, <2>3, <2>4, <2>5, <2>6
  <2>12. QED
    BY <2>7, <2>8, <2>9, <2>10, <2>11
<1>2. CASE GetRefreshToken(p)
  BY <1>2, SMTT(60) DEF GetRefreshToken
<1>3. CASE RotateDelete(p)
  BY <1>3, SMTT(60) DEF RotateDelete
<1>4. QED
  BY <1>1, <1>2, <1>3 DEF Loud

\* A refresh token has one successor, but for two requests that read its row before
\* either deleted it and for a DELETE that failed: RefreshToken.
THEOREM RefreshRotates == Spec => []SuccessorUnique
<1>1. Init => Exchange
  BY DEF Init, Exchange, SuccessorUnique, Exchanging, MayExchange, Idle
<1>2. Typed /\ Exchange /\ [Next]_vars => Exchange'
  BY QuietOrLoud, QuietExchange, LoudExchange
<1>3. Exchange => SuccessorUnique
  BY DEF Exchange
<1>4. QED
  BY <1>1, <1>2, <1>3, InitTyped, NextTyped, PTL DEF Spec

-----------------------------------------------------------------------------
\* A session logged out of for good has no row and no exchange that could make one.
Gone ==
    /\ LoggedOutStaysOut
    /\ \A p \in Procs : MayExchange(p) => root[req[p].held] \notin closed

LEMMA NextGone == Typed /\ Gone /\ [Next]_vars => Gone'
<1> SUFFICES ASSUME Typed, Gone, [Next]_vars PROVE Gone'
  OBVIOUS
<1>1. CASE Quiet /\ closed' = closed
  BY <1>1 DEF Quiet, Gone, LoggedOutStaysOut
<1>2. CASE \E t \in Tokens : Logout(t)
  BY <1>2, SMTT(60) DEF Logout, Over, Gone, LoggedOutStaysOut, MayExchange, tokenVars
<1>3. ASSUME NEW p \in Procs, Loud(p)
      PROVE  Gone'
  <2> USE AuthAssumption DEF Typed, TypeOK, RequestsIn, Holds, At, Goto, Return, Idle, PC, MayExchange,
          accountVars, tokenVars, sessionVars, resetVars, Gone, LoggedOutStaysOut
  <2>1. CASE GenerateTokenPair(p)
    BY <2>1, SMTT(90) DEF GenerateTokenPair, CreateRefreshToken
  <2>2. CASE GetRefreshToken(p)
    BY <2>2, SMTT(60) DEF GetRefreshToken
  <2>3. CASE RotateDelete(p)
    BY <2>3, SMTT(60) DEF RotateDelete
  <2>4. QED
    BY <1>3, <2>1, <2>2, <2>3 DEF Loud
<1>4. QED
  BY <1>1, <1>2, <1>3, QuietOrLoud DEF Quiet

\* Nothing revives a session that was logged out of with nothing of it left: Logout.
THEOREM LogoutIsFinal == Spec => []LoggedOutStaysOut
<1>1. Init => Gone
  BY DEF Init, Gone, LoggedOutStaysOut, MayExchange, Idle
<1>2. Gone => LoggedOutStaysOut
  BY DEF Gone
<1>3. QED
  BY <1>1, <1>2, InitTyped, NextTyped, NextGone, PTL DEF Spec

-----------------------------------------------------------------------------
LEMMA NextSurvives == Typed /\ SessionSurvives /\ [Next]_vars => SessionSurvives'
<1> SUFFICES ASSUME Typed, SessionSurvives, [Next]_vars PROVE SessionSurvives'
  OBVIOUS
<1>1. CASE Quiet
  BY <1>1, SMTT(60) DEF Quiet, SessionSurvives
<1>2. ASSUME NEW p \in Procs, Loud(p)
      PROVE  SessionSurvives'
  <2> USE AuthAssumption DEF Typed, TypeOK, RequestsIn, Holds, At, Goto, Return, Idle, PC, Exchanging,
          accountVars, tokenVars, sessionVars, resetVars, SessionSurvives
  <2>1. CASE GenerateTokenPair(p)
    BY <2>1, SMTT(90) DEF GenerateTokenPair, CreateRefreshToken
  <2>2. CASE GetRefreshToken(p)
    BY <2>2, SMTT(60) DEF GetRefreshToken
  <2>3. CASE RotateDelete(p)
    BY <2>3, SMTT(60) DEF RotateDelete
  <2>4. QED
    BY <1>2, <2>1, <2>2, <2>3 DEF Loud
<1>3. QED
  BY <1>1, <1>2, QuietOrLoud

\* Until it is logged out of, expires or meets an error, a session has a row or an
\* exchange that is about to insert one: RefreshToken, whatever other sessions do.
THEOREM SessionsSurvive == Spec => []SessionSurvives
<1>1. Init => SessionSurvives
  BY DEF Init, SessionSurvives
<1>2. QED
  BY <1>1, InitTyped, NextTyped, NextSurvives, PTL DEF Spec

-----------------------------------------------------------------------------
(* The account: its role and its reset tokens.                             *)

\* A role was read or signed only after it was written, to a row that exists.
RoleWritten ==
    /\ RoleNeverExceeds
    /\ \A p \in Procs : req[p].seenRole = "organizer" => role = "organizer"
    /\ role = "organizer" => UserFound
    /\ \A p \in Procs : At(p, "upgradeWrite") => UserFound

\* A reset token that may set a password again is raced or kept.
ResetOwned ==
    /\ ResetOnce
    /\ used \subseteq asked
    /\ \A p, q \in Procs : (p # q /\ req[p].key = req[q].key /\ req[p].key # NoReset)
         => req[p].key \in raced
    /\ \A k \in used \cap resets :
         k \in kept \/ \E p \in Procs : At(p, "resetDelete") /\ req[p].key = k
    /\ \A p \in Procs : (At(p, "resetUpdate") /\ req[p].key \in used)
         => req[p].key \in raced \cup kept

Account == RoleWritten /\ ResetOwned

LEMMA StepAccount ==
    ASSUME Typed, Account, NEW p \in Procs, GenerateTokenPair(p) \/ Step(p)
    PROVE  Account'
<1> USE AuthAssumption DEF Typed, TypeOK, RequestsIn, Holds, At, Goto, Return, Idle, Roles, UserFound,
        accountVars, tokenVars, sessionVars, resetVars, Account, RoleWritten, ResetOwned,
        RoleNeverExceeds, ResetOnce
<1>1. CASE Register(p)
  BY <1>1, SMTT(60) DEF Register
<1>2. CASE CreateUser(p)
  BY <1>2, SMTT(60) DEF CreateUser
<1>3. CASE Login(p)
  BY <1>3, SMTT(60) DEF Login
<1>4. CASE UpgradeToOrganizer(p)
  BY <1>4, SMTT(60) DEF UpgradeToOrganizer
<1>5. CASE UpdateUserRole(p)
  BY <1>5, SMTT(60) DEF UpdateUserRole
<1>6. CASE GetRefreshToken(p)
  BY <1>6, SMTT(60) DEF GetRefreshToken
<1>7. CASE RotateDelete(p)
  BY <1>7, SMTT(60) DEF RotateDelete
<1>8. CASE RotateGetUser(p)
  BY <1>8, SMTT(60) DEF RotateGetUser
<1>9. CASE RotateStore(p)
  BY <1>9, SMTT(60) DEF RotateStore
<1>10. CASE ResetPassword(p)
  BY <1>10, SMTT(60) DEF ResetPassword
<1>11. CASE ResetUpdate(p)
  BY <1>11, SMTT(60) DEF ResetUpdate, UpdateUserPassword
<1>12. CASE ResetDelete(p)
  BY <1>12, SMTT(60) DEF ResetDelete
<1>13. CASE ChangePassword(p)
  BY <1>13, SMTT(60) DEF ChangePassword
<1>14. CASE ChangeUpdate(p)
  BY <1>14, SMTT(60) DEF ChangeUpdate, UpdateUserPassword
<1>15. CASE Fail(p)
  BY <1>15, SMTT(60) DEF Fail
<1>16. CASE GenerateTokenPair(p)
  BY <1>16, SMTT(60) DEF GenerateTokenPair
<1>17. QED
  BY <1>1, <1>2, <1>3, <1>4, <1>5, <1>6, <1>7, <1>8, <1>9, <1>10, <1>11, <1>12, <1>13, <1>14,
     <1>15, <1>16 DEF Step

LEMMA OtherAccount ==
    ASSUME Typed, Account, Other
    PROVE  Account'
<1> USE AuthAssumption DEF Typed, TypeOK, RequestsIn, Holds, At, Goto, Return, Idle, Roles, UserFound,
        accountVars, tokenVars, sessionVars, resetVars, Account, RoleWritten, ResetOwned,
        RoleNeverExceeds, ResetOnce
<1>1. CASE \E t \in Tokens : Logout(t)
  BY <1>1, SMTT(60) DEF Logout
<1>2. CASE \E t \in Tokens : ExpireToken(t)
  BY <1>2, SMTT(60) DEF ExpireToken
<1>3. CASE \E t \in Tokens : GraceEnds(t)
  BY <1>3, SMTT(60) DEF GraceEnds
<1>4. CASE \E k \in Resets : ExpireReset(k)
  BY <1>4, SMTT(60) DEF ExpireReset
<1>5. CASE ForgotPassword
  BY <1>5, SMTT(60) DEF ForgotPassword
<1>6. CASE Restart
  BY <1>6, SMTT(60) DEF Restart
<1>7. QED
  BY <1>1, <1>2, <1>3, <1>4, <1>5, <1>6 DEF Other

LEMMA NextAccount == Typed /\ Account /\ [Next]_vars => Account'
<1> SUFFICES ASSUME Typed, Account, [Next]_vars PROVE Account'
  OBVIOUS
<1>1. CASE UNCHANGED vars
  BY <1>1 DEF vars, accountVars, tokenVars, sessionVars, resetVars, Account, RoleWritten, ResetOwned,
     RoleNeverExceeds, ResetOnce, At, UserFound
<1>2. CASE Next
  BY <1>2, NextCases, StepAccount, OtherAccount
<1>3. QED
  BY <1>1, <1>2

LEMMA InitAccount == Init => Account
BY DEF Init, Account, RoleWritten, ResetOwned, RoleNeverExceeds, ResetOnce, At, UserFound, Idle

\* No access token claims a role the account does not have: UpgradeToOrganizer.
THEOREM RolesAreWritten == Spec => []RoleNeverExceeds
<1>1. Account => RoleNeverExceeds
  BY DEF Account, RoleWritten
<1>2. QED
  BY <1>1, InitAccount, InitTyped, NextTyped, NextAccount, PTL DEF Spec

\* A reset token sets one password, but for a race and for a row whose DELETE failed or
\* was not reached after an UPDATE that took effect and was answered with an error:
\* ResetPassword.
THEOREM ResetsOnce == Spec => []ResetOnce
<1>1. Account => ResetOnce
  BY DEF Account, ResetOwned
<1>2. QED
  BY <1>1, InitAccount, InitTyped, NextTyped, NextAccount, PTL DEF Spec
=============================================================================
