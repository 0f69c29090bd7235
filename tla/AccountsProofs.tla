--------------------------- MODULE AccountsProofs ---------------------------
(***************************************************************************)
(* For any users, requests, bodies and bounds, with both stores and         *)
(* whatever fails: the types, that revocation is final, that ended sessions *)
(* stay ended, who is locked out stays out and a family has one heir.       *)
(***************************************************************************)
EXTENDS Accounts, FiniteSetTheorems, TLAPS

\* What a request has read still makes sense of the tables: the fields it is
\* about to store are ones the body has, and the family it works on is one
\* that was opened.
CallOK(c, n) ==
    /\ c.step = "role" => c.patch.role # Keep
    /\ c.step = "status" => c.patch.status # Keep
    /\ c.family \in 0..n
    /\ c.step \in {"owner", "rotate", "family"} => c.family # 0
    /\ c.step = "issue" /\ c.token # 0 => c.family # 0
    /\ c.step \in {"bootstrap", "bootstrap_login"} => c.family = 0 /\ c.token = 0
    /\ c.step = "rotate" => c.heir \in 1..n

CallsOK == \A r \in Request : CallOK(call[r], issued)

AccountsInv == TypeOK /\ CallsOK

-----------------------------------------------------------------------------
LEMMA RowTypes ==
    ASSUME NEW us \in [User -> UserRow], NEW u \in User \cup {Nobody}
    PROVE  /\ \A e \in Email : SetEmail(us, u, e) \in [User -> UserRow]
           /\ \A p \in Nat : SetPassword(us, u, p) \in [User -> UserRow]
           /\ \A role \in Role : SetRole(us, u, role) \in [User -> UserRow]
           /\ \A status \in {"active", "inactive"} :
                 SetStatus(us, u, status) \in [User -> UserRow]
           /\ DeleteUser(us, u) \in [User -> UserRow]
<1>1. CASE u \in User
  <2>1. us[u] \in UserRow
    BY <1>1
  <2> QED
    BY <1>1, <2>1 DEF SetEmail, SetPassword, SetRole, SetStatus, DeleteUser, UpdateWhere,
        UserRow, NoUser, Role
<1>2. CASE u \notin User
  BY <1>2 DEF SetEmail, SetPassword, SetRole, SetStatus, DeleteUser, UpdateWhere, Exists
<1> QED
  BY <1>1, <1>2

\* No statement on tokens but Create makes a row, and none but Create and the
\* cascade touches anything of a row except its revocation.
Kept(ts, rows) ==
    /\ rows \in [TokenID -> TokenRow]
    /\ \A t \in TokenID :
          \/ rows[t] = ts[t]
          \/ rows[t] = NoToken
          \/ /\ ts[t].state = "live" /\ rows[t].state = "revoked"
             /\ rows[t].family = ts[t].family /\ rows[t].user = ts[t].user
             /\ rows[t].password = ts[t].password

LEMMA RevokeKeeps ==
    ASSUME NEW ts \in [TokenID -> TokenRow], NEW t \in 0..MaxTokens, NEW h \in 0..MaxTokens
    PROVE  Kept(ts, Revoke(ts, t, h))
<1>1. \A s \in TokenID : ts[s] \in TokenRow
  OBVIOUS
<1>2. CASE t \in TokenID
  <2>1. [ts[t] EXCEPT !.state = "revoked", !.heir = h] \in TokenRow
    BY <1>1, <1>2 DEF TokenRow
  <2> QED
    BY <1>1, <1>2, <2>1 DEF Revoke, Kept, TokenRow
<1>3. CASE t \notin TokenID
  BY <1>3 DEF Revoke, Kept
<1> QED
  BY <1>2, <1>3

LEMMA OthersKeep ==
    ASSUME NEW ts \in [TokenID -> TokenRow], NEW f, NEW u
    PROVE  /\ Kept(ts, ts)
           /\ Kept(ts, RevokeFamily(ts, f))
           /\ Kept(ts, RevokeAllForUser(ts, u))
           /\ Kept(ts, CascadeTokens(ts, u))
<1>1. \A s \in TokenID : ts[s] \in TokenRow
  OBVIOUS
<1>2. NoToken \in TokenRow
  BY AccountRowsAssumption DEF NoToken, TokenRow, TokenID
<1>3. \A s \in TokenID : [ts[s] EXCEPT !.state = "revoked"] \in TokenRow
  BY <1>1 DEF TokenRow
<1>4. ASSUME NEW which \in SUBSET Live(ts) PROVE Kept(ts, RevokeAll(ts, which))
  BY <1>1, <1>3, <1>4 DEF RevokeAll, Live, TokenRow, Kept
<1>5. Kept(ts, RevokeFamily(ts, f)) /\ Kept(ts, RevokeAllForUser(ts, u))
  BY <1>4 DEF RevokeFamily, RevokeAllForUser, LiveIn, LiveOf
<1>6. Kept(ts, CascadeTokens(ts, u))
  BY <1>1, <1>2 DEF CascadeTokens, Kept
<1> QED
  BY <1>5, <1>6 DEF Kept

-----------------------------------------------------------------------------
LEMMA InitAccounts == Init => AccountsInv
<1> SUFFICES ASSUME Init PROVE AccountsInv
  OBVIOUS
<1> USE AccountRowsAssumption DEF Init, AccountsInv, At
<1>1. NoUser \in UserRow /\ NoToken \in TokenRow /\ Idle \in Call
  BY DEF NoUser, UserRow, NoToken, TokenRow, Idle, Call, Step, Keep, Role
<1>2. users \in [User -> UserRow]
  BY <1>1 DEF InsertUser, UserRow, Role
<1>3. TypeOK
  BY <1>1, <1>2 DEF TypeOK, TokenID, NoToken
<1>4. \A n \in Nat : CallOK(Idle, n)
  BY DEF CallOK, Idle
<1> QED
  BY <1>3, <1>4 DEF CallsOK

LEMMA IdleOK ==
    /\ Idle \in Call /\ Idle.token = 0 /\ Idle.family = 0
    /\ \A n \in Nat : CallOK(Idle, n)
<1>1. Idle \in Call
  BY AccountRowsAssumption DEF Idle, Call, Step
<1>2. ASSUME NEW n \in Nat PROVE CallOK(Idle, n)
  BY DEF Idle, CallOK
<1>3. Idle.token = 0 /\ Idle.family = 0
  BY DEF Idle
<1> QED
  BY <1>1, <1>2, <1>3

\* The types of everything but the requests.
TablesOK ==
    /\ store \in {"postgres", "memory"}
    /\ users \in [User -> UserRow]
    /\ tokens \in [TokenID -> TokenRow]
    /\ issued \in 0..MaxTokens
    /\ delivered \subseteq TokenID
    /\ ready \in BOOLEAN
    /\ changes \in Nat /\ calls \in Nat
    /\ forked \subseteq TokenID
    /\ \A t \in TokenID : tokens[t].state # "none" =>
           t <= issued /\ tokens[t].family \in 1..t

LEMMA TypesSplit == TypeOK <=> TablesOK /\ call \in [Request -> Call]
  BY DEF TypeOK, TablesOK

\* A request goes on as c; the others see that no token went back.
LEMMA CallStep ==
    ASSUME TypeOK, CallsOK, TablesOK', NEW r \in Request, NEW c \in Call,
           Becomes(r, c), issued' >= issued, CallOK(c, issued')
    PROVE  AccountsInv'
<1> USE AccountRowsAssumption DEF TypeOK, CallsOK, Becomes, TablesOK
<1>1. \A s \in Request : CallOK(call[s], issued')
  BY DEF CallOK, Call
<1>2. call' \in [Request -> Call] /\ CallsOK'
  BY <1>1
<1> QED
  BY <1>2, TypesSplit DEF AccountsInv

LEMMA KeptTokensOK ==
    ASSUME TablesOK, Kept(tokens, tokens'),
           UNCHANGED <<store, users, issued, delivered, ready, changes, forked>>,
           calls' \in Nat
    PROVE  TablesOK'
<1>1. \A t \in TokenID : tokens'[t].state # "none" =>
           t <= issued' /\ tokens'[t].family \in 1..t
  BY DEF TablesOK, Kept, NoToken, TokenRow
<1> QED
  BY <1>1 DEF TablesOK, Kept

LEMMA TokensBecomeKept ==
    ASSUME TablesOK, NEW ts, Kept(tokens, ts), TokensBecome(ts)
    PROVE  Kept(tokens, tokens')
  BY DEF TokensBecome, Kept, TablesOK

LEMMA StepAccounts == AccountsInv /\ [Next]_vars => AccountsInv'
<1> SUFFICES ASSUME AccountsInv, [Next]_vars PROVE AccountsInv'
  OBVIOUS
<1>a. TypeOK /\ CallsOK /\ TablesOK /\ issued \in Nat /\ MaxTokens \in Nat
  BY TypesSplit, AccountRowsAssumption DEF AccountsInv, TablesOK
<1>b. \A r \in Request : call[r] \in Call /\ CallOK(call[r], issued)
  BY <1>a DEF TypeOK, CallsOK
<1> USE <1>a, <1>b, IdleOK DEF At
<1>1. ASSUME NEW r \in Request, Login(r) PROVE AccountsInv'
  <2>1. PICK u \in User : Becomes(r, [Idle EXCEPT !.step = "issue", !.user = u,
                                              !.password = users[u].password])
    BY <1>1 DEF Login
  <2> DEFINE c == [Idle EXCEPT !.step = "issue", !.user = u, !.password = users[u].password]
  <2>2. users[u].password \in Nat
    BY DEF TablesOK, UserRow
  <2>3. c \in Call /\ CallOK(c, issued)
    BY <2>2 DEF Call, CallOK, Step
  <2>4. TablesOK' /\ issued' = issued
    BY <1>1 DEF Login, Arrive, TablesOK
  <2> QED
    BY <2>1, <2>3, <2>4, CallStep
<1>2. ASSUME NEW r \in Request, Refresh(r) PROVE AccountsInv'
  <2> DEFINE C(t) == [Idle EXCEPT !.step = AfterLookup(t), !.user = tokens[t].user,
                                  !.token = t, !.family = tokens[t].family,
                                  !.password = tokens[t].password]
  <2>1. PICK t \in TokenID : tokens[t].state # "none" /\ Becomes(r, C(t))
    BY <1>2 DEF Refresh, TablesOK
  <2>2. /\ tokens[t] \in TokenRow /\ tokens[t].family \in 1..issued
        /\ tokens[t].family \in 0..MaxTokens /\ t \in 0..MaxTokens
        /\ tokens[t].user \in User \cup {Nobody} /\ tokens[t].password \in Nat
        /\ AfterLookup(t) \in {"owner", "family"}
    <3>1. tokens[t] \in TokenRow
      BY DEF TablesOK
    <3> QED
      BY <2>1, <3>1 DEF TablesOK, TokenID, TokenRow, AfterLookup
  <2>3. C(t) \in Call
    BY <2>2 DEF Call, Step
  <2>4. CallOK(C(t), issued)
    BY <2>2 DEF Call, CallOK
  <2>5. TablesOK' /\ issued' = issued
    <3>1. \A s \in delivered : tokens[s].state = "live" => tokens[s].family \in TokenID
      BY DEF TablesOK, TokenID
    <3> QED
      BY <1>2, <3>1 DEF Refresh, Arrive, TablesOK
  <2> QED
    BY <2>1, <2>3, <2>4, <2>5, CallStep
<1>3. ASSUME NEW r \in Request, CondemnFamily(r) PROVE AccountsInv'
  <2>1. Kept(tokens, RevokeFamily(tokens, call[r].family))
    BY OthersKeep DEF TablesOK
  <2>2. TablesOK' /\ issued' = issued
    BY <1>3, <2>1, TokensBecomeKept, KeptTokensOK DEF CondemnFamily, TablesOK
  <2> QED
    BY <1>3, <2>2, CallStep DEF CondemnFamily, Ends
<1>4. ASSUME NEW r \in Request, FindOwner(r) PROVE AccountsInv'
  <2>1. TablesOK' /\ issued' = issued
    BY <1>4 DEF FindOwner, TablesOK
  <2>2. [call[r] EXCEPT !.step = "issue"] \in Call
        /\ CallOK([call[r] EXCEPT !.step = "issue"], issued)
    BY <1>4 DEF FindOwner, Call, CallOK, Step
  <2> QED
    BY <1>4, <2>1, <2>2, CallStep DEF FindOwner, Ends, Continue
<1>5. ASSUME NEW r \in Request, Issue(r) PROVE AccountsInv'
  <2> DEFINE t == issued + 1
             f == FamilyFor(call[r], t)
             d == [call[r] EXCEPT !.step = "rotate", !.heir = t]
  <2>1. t \in TokenID /\ f \in 1..t
    BY <1>5 DEF Issue, FamilyFor, TokenID, CallOK
  <2>2. CASE UNCHANGED <<tokens, issued, delivered>> /\ Ends(r)
    <3>1. TablesOK' /\ issued' = issued
      BY <1>5, <2>2 DEF Issue, TablesOK
    <3> QED
      BY <2>2, <3>1, CallStep DEF Ends
  <2>3. CASE /\ tokens' = InsertToken(tokens, t, call[r].user, f, call[r].password)
             /\ issued' = t
             /\ \/ call[r].token = 0 /\ Ends(r) /\ Deliver(r, t)
                \/ call[r].token # 0 /\ Becomes(r, d) /\ UNCHANGED delivered
    <3>1. [state |-> "live", user |-> call[r].user, family |-> f, heir |-> 0,
           password |-> call[r].password] \in TokenRow
      BY <2>1 DEF Call, TokenRow, TokenID
    <3>2. tokens' \in [TokenID -> TokenRow]
      BY <2>3, <3>1 DEF InsertToken, TablesOK
    <3>3. \A s \in TokenID : tokens'[s].state # "none" =>
              s <= issued' /\ tokens'[s].family \in 1..s
      BY <2>1, <2>3 DEF InsertToken, TablesOK, TokenID
    <3>4. delivered' \subseteq TokenID /\ issued' \in 0..MaxTokens /\ issued' >= issued
      BY <2>1, <2>3 DEF Deliver, TablesOK, TokenID
    <3>5. TablesOK'
      BY <1>5, <3>2, <3>3, <3>4 DEF Issue, TablesOK
    <3>6. d \in Call
      <4>1. t \in 0..MaxTokens
        BY <2>1 DEF TokenID
      <4> QED
        BY <4>1 DEF Call, Step
    <3>7. call[r].token # 0 => CallOK(d, t)
      BY <1>5, <2>1 DEF CallOK, Issue, Call, TokenID
    <3> QED
      BY <2>3, <3>4, <3>5, <3>6, <3>7, CallStep DEF Ends
  <2> QED
    BY <1>5, <2>2, <2>3 DEF Issue
<1>6. ASSUME NEW r \in Request, Rotate(r) PROVE AccountsInv'
  <2>1. Kept(tokens, Revoke(tokens, call[r].token, call[r].heir))
    BY RevokeKeeps DEF TablesOK, Call
  <2>2. Kept(tokens, tokens')
    BY <1>6, <2>1, OthersKeep DEF Rotate, TablesOK
  <2>3. delivered' \subseteq TokenID /\ forked' \subseteq TokenID
    <3>1. call[r].heir \in TokenID /\ call[r].family \in TokenID
      BY <1>6 DEF Rotate, TablesOK, CallOK, TokenID, Call
    <3> QED
      BY <1>6, <3>1 DEF Rotate, Deliver, TablesOK
  <2>4. TablesOK' /\ issued' = issued
    <3>1. \A t \in TokenID : tokens'[t].state # "none" =>
              t <= issued' /\ tokens'[t].family \in 1..t
      BY <1>6, <2>2 DEF Rotate, TablesOK, Kept, NoToken, TokenRow
    <3> QED
      BY <1>6, <2>2, <2>3, <3>1 DEF Rotate, TablesOK, Kept
  <2> QED
    BY <1>6, <2>4, CallStep DEF Rotate, Ends
<1>7. ASSUME NEW r \in Request, Logout(r) PROVE AccountsInv'
  <2>1. PICK t \in TokenID : Becomes(r, [Idle EXCEPT !.step = "logout", !.token = t])
    BY <1>7 DEF Logout, TablesOK
  <2>2. [Idle EXCEPT !.step = "logout", !.token = t] \in Call
        /\ CallOK([Idle EXCEPT !.step = "logout", !.token = t], issued)
    <3>1. t \in 0..MaxTokens
      BY DEF TokenID
    <3> QED
      BY <3>1 DEF Call, CallOK, Step
  <2>3. TablesOK' /\ issued' = issued
    BY <1>7 DEF Logout, Arrive, TablesOK
  <2> QED
    BY <2>1, <2>2, <2>3, CallStep
<1>8. ASSUME NEW r \in Request, LogoutRevoke(r) PROVE AccountsInv'
  <2>1. Kept(tokens, Revoke(tokens, call[r].token, 0))
    BY RevokeKeeps DEF TablesOK, Call
  <2>2. TablesOK' /\ issued' = issued
    BY <1>8, <2>1, TokensBecomeKept, KeptTokensOK DEF LogoutRevoke, TablesOK
  <2> QED
    BY <1>8, <2>2, CallStep DEF LogoutRevoke, Ends
<1>9. ASSUME NEW r \in Request, ChangePassword(r) PROVE AccountsInv'
  <2>1. PICK u \in User : Becomes(r, [Idle EXCEPT !.step = "password", !.user = u])
    BY <1>9 DEF ChangePassword, TablesOK
  <2>2. [Idle EXCEPT !.step = "password", !.user = u] \in Call /\ CallOK([Idle EXCEPT !.step = "password", !.user = u], issued)
    BY <2>1 DEF Call, CallOK, Step, TokenID
  <2>3. TablesOK' /\ issued' = issued
    BY <1>9 DEF ChangePassword, Arrive, TablesOK
  <2> QED
    BY <2>1, <2>2, <2>3, CallStep
<1>10. ASSUME NEW r \in Request, StorePassword(r) PROVE AccountsInv'
  <2>1. SetPassword(users, call[r].user, changes + 1) \in [User -> UserRow]
    <3>1. changes + 1 \in Nat /\ call[r].user \in User \cup {Nobody}
      BY DEF TablesOK, Call
    <3> QED
      BY <3>1, RowTypes DEF TablesOK
  <2>2. TablesOK' /\ issued' = issued
    BY <1>10, <2>1 DEF StorePassword, TablesOK
  <2>3. [call[r] EXCEPT !.step = "revoke_all"] \in Call /\ CallOK([call[r] EXCEPT !.step = "revoke_all"], issued)
    BY DEF Call, CallOK, Step
  <2> QED
    BY <1>10, <2>2, <2>3, CallStep DEF StorePassword, Ends, Continue
<1>11. ASSUME NEW r \in Request, RevokeSessions(r) PROVE AccountsInv'
  <2>1. Kept(tokens, RevokeAllForUser(tokens, call[r].user))
    BY OthersKeep DEF TablesOK, Call
  <2>2. TablesOK' /\ issued' = issued
    BY <1>11, <2>1, TokensBecomeKept, KeptTokensOK DEF RevokeSessions, TablesOK
  <2> QED
    BY <1>11, <2>2, CallStep DEF RevokeSessions, Ends
<1>12. ASSUME NEW r \in Request, CreateUser(r) PROVE AccountsInv'
  <2>1. users' \in [User -> UserRow]
    BY <1>12 DEF CreateUser, InsertUser, TablesOK, UserRow
  <2>2. TablesOK' /\ UNCHANGED <<issued, call>>
    BY <1>12, <2>1 DEF CreateUser, Arrive, TablesOK
  <2> QED
    BY <2>2 DEF TypeOK, TablesOK, CallsOK, AccountsInv
<1>13. ASSUME NEW r \in Request, UpdateProfile(r) PROVE AccountsInv'
  <2>1. users' \in [User -> UserRow]
    BY <1>13, RowTypes DEF UpdateProfile, TablesOK
  <2>2. TablesOK' /\ UNCHANGED <<issued, call>>
    BY <1>13, <2>1 DEF UpdateProfile, Arrive, TablesOK
  <2> QED
    BY <2>2 DEF TypeOK, TablesOK, CallsOK, AccountsInv
<1>14. ASSUME NEW r \in Request, PatchUser(r) PROVE AccountsInv'
  <2> DEFINE B(u, p) == [Idle EXCEPT !.user = u, !.patch = p]
  <2>1. PICK u \in User, p \in Patch :
           \/ Asks(p.role, users[u].role) /\ Becomes(r, [B(u, p) EXCEPT !.step = "role"])
           \/ Asks(p.status, users[u].status) /\ Becomes(r, [B(u, p) EXCEPT !.step = "status"])
           \/ Becomes(r, Idle)
    BY <1>14 DEF PatchUser
  <2>2. B(u, p) \in Call /\ CallOK(B(u, p), issued) /\ B(u, p).patch = p /\ B(u, p).step = "idle"
        /\ B(u, p).family = 0 /\ B(u, p).token = 0
    BY DEF Call, CallOK, Idle
  <2> HIDE DEF B
  <2>3. Asks(p.role, users[u].role) =>
            [B(u, p) EXCEPT !.step = "role"] \in Call
            /\ CallOK([B(u, p) EXCEPT !.step = "role"], issued)
    BY <2>2 DEF Call, CallOK, Asks, Step
  <2>4. Asks(p.status, users[u].status) =>
            [B(u, p) EXCEPT !.step = "status"] \in Call
            /\ CallOK([B(u, p) EXCEPT !.step = "status"], issued)
    BY <2>2 DEF Call, CallOK, Asks, Step
  <2>5. TablesOK' /\ issued' = issued
    BY <1>14 DEF PatchUser, Arrive, TablesOK
  <2> QED
    BY <2>1, <2>3, <2>4, <2>5, CallStep
<1>15. ASSUME NEW r \in Request, PatchRole(r) PROVE AccountsInv'
  <2>1. SetRole(users, call[r].user, call[r].patch.role) \in [User -> UserRow]
    <3>1. call[r].patch.role \in Role /\ call[r].user \in User \cup {Nobody}
      BY <1>15, AccountsAssumption DEF PatchRole, Call, CallOK
    <3> QED
      BY <3>1, RowTypes DEF TablesOK
  <2>2. TablesOK' /\ issued' = issued
    BY <1>15, <2>1 DEF PatchRole, TablesOK
  <2>3. [call[r] EXCEPT !.step = "reread"] \in Call /\ CallOK([call[r] EXCEPT !.step = "reread"], issued)
    BY DEF Call, CallOK, Step
  <2> QED
    BY <1>15, <2>2, <2>3, CallStep DEF PatchRole, Ends, Continue
<1>16. ASSUME NEW r \in Request, PatchReread(r) PROVE AccountsInv'
  <2>1. TablesOK' /\ issued' = issued
    BY <1>16 DEF PatchReread, TablesOK
  <2>2. Asks(call[r].patch.status, users[call[r].user].status) =>
            [call[r] EXCEPT !.step = "status"] \in Call
            /\ CallOK([call[r] EXCEPT !.step = "status"], issued)
    BY DEF Call, CallOK, Asks, Step
  <2> QED
    BY <1>16, <2>1, <2>2, CallStep DEF PatchReread, Ends, Continue
<1>17. ASSUME NEW r \in Request, PatchStatus(r) PROVE AccountsInv'
  <2>1. SetStatus(users, call[r].user, call[r].patch.status) \in [User -> UserRow]
    BY <1>17, RowTypes, AccountsAssumption DEF PatchStatus, TablesOK, Call, CallOK
  <2>2. TablesOK' /\ issued' = issued
    BY <1>17, <2>1 DEF PatchStatus, TablesOK
  <2>3. [call[r] EXCEPT !.step = "revoke_all"] \in Call /\ CallOK([call[r] EXCEPT !.step = "revoke_all"], issued)
    BY DEF Call, CallOK, Step
  <2> QED
    BY <1>17, <2>2, <2>3, CallStep DEF PatchStatus, Ends, Continue
<1>18. ASSUME NEW r \in Request, DeleteSessions(r) PROVE AccountsInv'
  <2>1. PICK u \in User : /\ TokensBecome(RevokeAllForUser(tokens, u))
                          /\ Becomes(r, [Idle EXCEPT !.step = "delete", !.user = u])
    BY <1>18 DEF DeleteSessions
  <2>2. Kept(tokens, tokens')
    BY <2>1, OthersKeep, TokensBecomeKept DEF TablesOK
  <2>3. TablesOK' /\ issued' = issued
    BY <1>18, <2>2, KeptTokensOK DEF DeleteSessions, Arrive, TablesOK
  <2>4. [Idle EXCEPT !.step = "delete", !.user = u] \in Call
        /\ CallOK([Idle EXCEPT !.step = "delete", !.user = u], issued)
    BY DEF Call, CallOK, Step
  <2> QED
    BY <2>1, <2>3, <2>4, CallStep
<1>19. ASSUME NEW r \in Request, Delete(r) PROVE AccountsInv'
  <2>1. Kept(tokens, tokens')
    BY <1>19, OthersKeep DEF Delete, TablesOK
  <2>2. users' \in [User -> UserRow]
    BY <1>19, RowTypes DEF Delete, TablesOK, Call
  <2>3. \A t \in TokenID : tokens'[t].state # "none" =>
            t <= issued' /\ tokens'[t].family \in 1..t
    BY <1>19, <2>1 DEF Delete, TablesOK, Kept, NoToken, TokenRow
  <2>4. TablesOK' /\ issued' = issued
    BY <1>19, <2>1, <2>2, <2>3 DEF Delete, TablesOK, Kept
  <2> QED
    BY <1>19, <2>4, CallStep DEF Delete, Ends
<1>20. ASSUME NEW r \in Request, Bootstrap(r) PROVE AccountsInv'
  <2> DEFINE C(e, step) == [Idle EXCEPT !.email = e, !.step = step]
  <2>1. PICK e \in Email, step \in {"bootstrap", "bootstrap_login"} : Becomes(r, C(e, step))
    BY <1>20 DEF Bootstrap
  <2>2. C(e, step) \in Call /\ CallOK(C(e, step), issued)
    <3>1. C(e, step).family = 0 /\ C(e, step).token = 0 /\ C(e, step) \in Call
          /\ C(e, step).step = step
      BY DEF Call, Step, Idle
    <3> QED
      BY <3>1 DEF Call, CallOK
  <2>3. TablesOK' /\ issued' = issued
    BY <1>20 DEF Bootstrap, Arrive, TablesOK
  <2> QED
    BY <2>1, <2>2, <2>3, CallStep
<1>21. ASSUME NEW r \in Request, BootstrapAdmin(r) PROVE AccountsInv'
  <2>1. CASE Continue(r, "bootstrap_login") /\ UNCHANGED users
    <3>1. TablesOK' /\ issued' = issued
      BY <1>21, <2>1 DEF BootstrapAdmin, TablesOK
    <3>2. [call[r] EXCEPT !.step = "bootstrap_login"] \in Call
          /\ CallOK([call[r] EXCEPT !.step = "bootstrap_login"], issued)
      BY <1>21 DEF BootstrapAdmin, Call, CallOK, Step
    <3> QED
      BY <2>1, <3>1, <3>2, CallStep DEF Continue
  <2>2. ASSUME NEW u \in User,
               users' = InsertUser(users, u, call[r].email, "admin", 0),
               Becomes(r, [call[r] EXCEPT !.step = "issue", !.user = u])
        PROVE  AccountsInv'
    <3>1. users' \in [User -> UserRow]
      BY <2>2 DEF InsertUser, TablesOK, UserRow, Role, Call
    <3>2. TablesOK' /\ issued' = issued
      BY <1>21, <3>1 DEF BootstrapAdmin, TablesOK
    <3>3. [call[r] EXCEPT !.step = "issue", !.user = u] \in Call
          /\ CallOK([call[r] EXCEPT !.step = "issue", !.user = u], issued)
      BY <1>21 DEF BootstrapAdmin, Call, CallOK, Step
    <3> QED
      BY <2>2, <3>2, <3>3, CallStep
  <2> QED
    BY <1>21, <2>1, <2>2 DEF BootstrapAdmin
<1>22. ASSUME NEW r \in Request, BootstrapLogin(r) PROVE AccountsInv'
  <2> DEFINE C(u) == [call[r] EXCEPT !.step = "issue", !.user = u,
                                     !.password = users[u].password,
                                     !.deliver = (users[u].role = "admin")]
  <2>1. TablesOK' /\ issued' = issued
    BY <1>22 DEF BootstrapLogin, TablesOK
  <2>2. ASSUME NEW u \in User PROVE C(u) \in Call /\ CallOK(C(u), issued)
    <3>1. users[u].password \in Nat
      BY DEF TablesOK, UserRow
    <3> QED
      BY <1>22, <3>1 DEF BootstrapLogin, Call, CallOK, Step
  <2>3. CASE Ends(r)
    BY <2>1, <2>3, CallStep DEF Ends
  <2>4. ASSUME NEW u \in User, Becomes(r, C(u)) PROVE AccountsInv'
    <3> HIDE DEF C
    <3> QED
      BY <2>1, <2>2, <2>4, CallStep
  <2> QED
    BY <1>22, <2>3, <2>4 DEF BootstrapLogin
<1>23. ASSUME NEW r \in Request, Abandon(r) PROVE AccountsInv'
  <2>1. TablesOK' /\ issued' = issued
    <3>1. At(r, "rotate") => call[r].family \in TokenID
      BY DEF CallOK, TablesOK, TokenID
    <3> QED
      BY <1>23, <3>1 DEF Abandon, TablesOK
  <2> QED
    BY <1>23, <2>1, CallStep DEF Abandon, Ends
<1>24. CASE ProvidersChange
  BY <1>24, TypesSplit DEF ProvidersChange, TablesOK, TypeOK, CallsOK, AccountsInv
<1>25. CASE UNCHANGED vars
  BY <1>25, TypesSplit DEF vars, TablesOK, TypeOK, CallsOK, AccountsInv
<1> QED
  BY <1>1, <1>2, <1>3, <1>4, <1>5, <1>6, <1>7, <1>8, <1>9, <1>10, <1>11, <1>12, <1>13, <1>14, <1>15, <1>16, <1>17, <1>18, <1>19, <1>20, <1>21, <1>22, <1>23, <1>24, <1>25 DEF Next, SessionStep, UserStep, SetupStep

\* The variables keep their types, tokens are issued in order and each into a
\* family opened before.
THEOREM TypeCorrect == Spec => []TypeOK
<1>1. Spec => []AccountsInv
  BY InitAccounts, StepAccounts, PTL DEF Spec
<1> QED
  BY <1>1, PTL DEF AccountsInv

LEMMA Invariant == Spec => []AccountsInv
  BY InitAccounts, StepAccounts, PTL DEF Spec

-----------------------------------------------------------------------------
(* What a step may do to the tokens.                                        *)

\* The rows stay but for revocations and the cascade.
Revokes == Kept(tokens, tokens')

\* Request r stores a new row for its user.
Creates(r) ==
    LET t == issued + 1
    IN /\ At(r, "issue") /\ t \in TokenID
       /\ tokens' = InsertToken(tokens, t, call[r].user, FamilyFor(call[r], t),
                                call[r].password)
       /\ issued' = t /\ UNCHANGED users
       /\ Becomes(r, Idle) \/ Becomes(r, [call[r] EXCEPT !.step = "rotate", !.heir = t])

LEMMA StepOnTokens ==
    ASSUME AccountsInv, [Next]_vars
    PROVE  Revokes \/ \E r \in Request : Creates(r)
<1> USE DEF Revokes
<1>a. /\ tokens \in [TokenID -> TokenRow] /\ issued \in Nat /\ MaxTokens \in Nat
      /\ \A r \in Request : call[r] \in Call
  BY AccountRowsAssumption DEF AccountsInv, TypeOK
<1>1. CASE UNCHANGED tokens
  BY <1>a, <1>1, OthersKeep
<1>2. ASSUME NEW r \in Request, CondemnFamily(r) \/ Rotate(r) \/ LogoutRevoke(r)
             \/ RevokeSessions(r) \/ DeleteSessions(r) \/ Delete(r)
      PROVE  Revokes
  <2>1. /\ call[r].token \in 0..MaxTokens /\ call[r].heir \in 0..MaxTokens
        /\ 0 \in 0..MaxTokens
    BY <1>a DEF Call
  <2> QED
    BY <1>a, <1>2, <2>1, RevokeKeeps, OthersKeep
       DEF CondemnFamily, Rotate, LogoutRevoke, RevokeSessions, DeleteSessions, Delete,
           TokensBecome
<1>3. ASSUME NEW r \in Request, Issue(r) PROVE UNCHANGED tokens \/ Creates(r)
  BY <1>a, <1>3 DEF Issue, Creates, Ends, TokenID
<1> QED
  BY <1>1, <1>2, <1>3
     DEF Next, SessionStep, UserStep, SetupStep, vars, Login, Refresh, FindOwner, Logout,
         ChangePassword, StorePassword, CreateUser, UpdateProfile, PatchUser, PatchRole,
         PatchReread, PatchStatus, Bootstrap, BootstrapAdmin, BootstrapLogin, Abandon,
         ProvidersChange

\* Nothing writes a revoked row again, except that it goes with its user.
THEOREM RevocationFinal == Spec => RevocationIsFinal
<1>1. ASSUME AccountsInv, [Next]_vars, NEW t \in TokenID, tokens[t].state = "revoked"
      PROVE  tokens'[t] \in {tokens[t], NoToken}
  <2>1. CASE Revokes
    BY <1>1, <2>1 DEF Revokes, Kept
  <2>2. ASSUME NEW r \in Request, Creates(r) PROVE tokens'[t] = tokens[t]
    BY <1>1, <2>2, AccountRowsAssumption DEF Creates, InsertToken, AccountsInv, TypeOK, TokenID
  <2> QED
    BY <1>1, <2>1, <2>2, StepOnTokens
<1>2. AccountsInv /\ [Next]_vars =>
          [\A t \in TokenID : tokens[t].state = "revoked" =>
               tokens'[t] \in {tokens[t], NoToken}]_vars
  BY <1>1
<1> QED
  BY <1>2, Invariant, PTL DEF Spec, RevocationIsFinal

RotationStep == {"owner", "issue", "rotate"}

\* A request that goes on as c begins no rotation of family f.
LEMMA NoNewRotation ==
    ASSUME NEW f, NEW r \in Request, NEW c, TypeOK, Becomes(r, c),
           \/ c.family # f
           \/ c.step \notin RotationStep
           \/ call[r].family = f /\ call[r].step \in RotationStep
    PROVE  InRotation(f)' => InRotation(f)
  BY DEF InRotation, Becomes, TypeOK, RotationStep

\* Only a live token starts a rotation of its family.
LEMMA RotationNeedsLive ==
    ASSUME AccountsInv, [Next]_vars, NEW f \in TokenID, InRotation(f)'
    PROVE  InRotation(f) \/ LiveIn(tokens, f) # {}
<1>a. /\ TypeOK /\ f # 0
      /\ \A r \in Request : call[r] \in Call /\ CallOK(call[r], issued)
  BY AccountRowsAssumption DEF AccountsInv, TypeOK, CallsOK, TokenID
<1>b. Idle \in Call /\ Idle.family = 0 /\ Idle.step \notin RotationStep
  BY IdleOK DEF Idle, RotationStep
<1> USE <1>a, <1>b DEF At, RotationStep
<1>1. CASE UNCHANGED call
  BY <1>1 DEF InRotation
<1>2. ASSUME NEW r \in Request, Ends(r) PROVE InRotation(f)
  BY <1>2, NoNewRotation DEF Ends
<1>3. ASSUME NEW r \in Request, NEW c, c.family = 0, Becomes(r, c) PROVE InRotation(f)
  BY <1>3, NoNewRotation
<1>4. ASSUME NEW r \in Request, NEW c, c.step \notin RotationStep, Becomes(r, c)
      PROVE  InRotation(f)
  BY <1>4, NoNewRotation
<1>5. ASSUME NEW r \in Request, NEW step, step \notin RotationStep, Continue(r, step)
      PROVE  InRotation(f)
  <2>1. [call[r] EXCEPT !.step = step].step = step
    BY DEF Call
  <2> QED
    BY <1>5, <2>1, NoNewRotation DEF Continue
<1>6. ASSUME NEW r \in Request, NEW c, c.family = call[r].family, Becomes(r, c),
             call[r].step \in RotationStep
      PROVE  InRotation(f)
  <2>1. \/ c.family # f
        \/ call[r].family = f /\ call[r].step \in RotationStep
    BY <1>6
  <2> QED
    BY <1>6, <2>1, NoNewRotation
<1>7. ASSUME NEW r \in Request, Login(r) PROVE InRotation(f)
  <2>1. \A u \in User : [Idle EXCEPT !.step = "issue", !.user = u,
                                     !.password = users[u].password].family = 0
    BY DEF Call
  <2> QED
    BY <1>7, <2>1, <1>3 DEF Login
<1>8. ASSUME NEW r \in Request, Refresh(r) PROVE InRotation(f) \/ LiveIn(tokens, f) # {}
  <2> DEFINE C(t) == [Idle EXCEPT !.step = AfterLookup(t), !.user = tokens[t].user,
                                  !.token = t, !.family = tokens[t].family,
                                  !.password = tokens[t].password]
  <2>1. PICK t \in TokenID : tokens[t].state # "none" /\ Becomes(r, C(t))
    BY <1>8 DEF Refresh, TypeOK
  <2>2. C(t).step = AfterLookup(t) /\ C(t).family = tokens[t].family
    BY DEF Call
  <2> HIDE DEF C
  <2>3. CASE tokens[t].state = "revoked"
    BY <2>1, <2>2, <2>3, <1>4 DEF AfterLookup
  <2>4. CASE tokens[t].state = "live" /\ tokens[t].family = f
    BY <2>4 DEF LiveIn, Live
  <2>5. CASE tokens[t].family # f
    BY <2>1, <2>2, <2>5, NoNewRotation
  <2> QED
    BY <2>1, <2>3, <2>4, <2>5 DEF TypeOK, TokenRow
<1>9. ASSUME NEW r \in Request, FindOwner(r) PROVE InRotation(f)
  <2>1. [call[r] EXCEPT !.step = "issue"].family = call[r].family
    BY DEF Call
  <2> QED
    BY <1>9, <2>1, <1>2, <1>6 DEF FindOwner, Continue
<1>10. ASSUME NEW r \in Request, Issue(r) PROVE InRotation(f)
  <2>1. [call[r] EXCEPT !.step = "rotate", !.heir = issued + 1].family = call[r].family
    BY DEF Call
  <2> QED
    BY <1>10, <2>1, <1>2, <1>6 DEF Issue
<1>11. ASSUME NEW r \in Request, Logout(r) \/ ChangePassword(r) \/ PatchUser(r)
              \/ DeleteSessions(r) \/ Bootstrap(r)
       PROVE  InRotation(f)
  <2>1. /\ \A t : [Idle EXCEPT !.step = "logout", !.token = t].family = 0
        /\ \A u : [Idle EXCEPT !.step = "password", !.user = u].family = 0
        /\ \A u : [Idle EXCEPT !.step = "delete", !.user = u].family = 0
        /\ \A e, step : [Idle EXCEPT !.email = e, !.step = step].family = 0
    BY DEF Idle
  <2>2. \A u, p : /\ [[Idle EXCEPT !.user = u, !.patch = p] EXCEPT !.step = "role"].family = 0
                  /\ [[Idle EXCEPT !.user = u, !.patch = p] EXCEPT !.step = "status"].family = 0
    BY DEF Idle
  <2>3. CASE Logout(r)
    BY <2>3, <2>1, <1>3 DEF Logout
  <2>4. CASE ChangePassword(r)
    BY <2>4, <2>1, <1>3 DEF ChangePassword
  <2>5. CASE DeleteSessions(r)
    BY <2>5, <2>1, <1>3 DEF DeleteSessions
  <2>6. CASE Bootstrap(r)
    BY <2>6, <2>1, <1>3 DEF Bootstrap
  <2>7. CASE PatchUser(r)
    BY <2>7, <2>2, <1>2, <1>3 DEF PatchUser, Ends
  <2> QED
    BY <1>11, <2>3, <2>4, <2>5, <2>6, <2>7
<1>12. ASSUME NEW r \in Request, BootstrapAdmin(r) \/ BootstrapLogin(r) PROVE InRotation(f)
  <2>1. call[r].family = 0
    BY <1>12 DEF BootstrapAdmin, BootstrapLogin, CallOK
  <2>2. \A u : [call[r] EXCEPT !.step = "issue", !.user = u].family = 0
    BY <2>1 DEF Call
  <2>3. CASE BootstrapAdmin(r)
    BY <2>3, <2>2, <1>3, <1>5 DEF BootstrapAdmin
  <2>4. CASE BootstrapLogin(r)
    <3> DEFINE C(u) == [call[r] EXCEPT !.step = "issue", !.user = u,
                                       !.password = users[u].password,
                                       !.deliver = (users[u].role = "admin")]
    <3>1. \A u \in User : C(u).family = 0
      BY <2>1 DEF Call
    <3>2. Ends(r) \/ \E u \in User : Becomes(r, C(u))
      BY <2>4 DEF BootstrapLogin
    <3> HIDE DEF C
    <3> QED
      BY <3>1, <3>2, <1>2, <1>3
  <2> QED
    BY <1>12, <2>3, <2>4
<1>13. ASSUME NEW r \in Request, StorePassword(r) \/ PatchRole(r) \/ PatchReread(r)
              \/ PatchStatus(r)
       PROVE  InRotation(f)
  BY <1>13, <1>2, <1>5 DEF StorePassword, PatchRole, PatchReread, PatchStatus
<1>14. ASSUME NEW r \in Request, CondemnFamily(r) \/ Rotate(r) \/ LogoutRevoke(r)
              \/ RevokeSessions(r) \/ Delete(r) \/ Abandon(r)
       PROVE  InRotation(f)
  BY <1>14, <1>2 DEF CondemnFamily, Rotate, LogoutRevoke, RevokeSessions, Delete, Abandon
<1>15. ASSUME NEW r \in Request, CreateUser(r) \/ UpdateProfile(r) PROVE UNCHANGED call
  BY <1>15 DEF CreateUser, UpdateProfile
<1> QED
  BY <1>1, <1>7, <1>8, <1>9, <1>10, <1>11, <1>12, <1>13, <1>14, <1>15
     DEF Next, SessionStep, UserStep, SetupStep, vars, ProvidersChange

\* A session that ended while nobody was refreshing it has ended for good.
THEOREM EndedIsEnded == Spec => EndedStaysEnded
<1>1. ASSUME AccountsInv, [Next]_vars, NEW f \in TokenID, Ended(f)
      PROVE  LiveIn(tokens', f) = {} /\ ~InRotation(f)'
  <2>1. ~InRotation(f)'
    BY <1>1, RotationNeedsLive DEF Ended
  <2>2. CASE Revokes
    <3>1. \A t \in TokenID : tokens'[t].state = "live" => tokens'[t] = tokens[t]
      BY <2>2 DEF Revokes, Kept, NoToken
    <3>2. \A t \in TokenID : ~(tokens[t].state = "live" /\ tokens[t].family = f)
      BY <1>1 DEF Ended, LiveIn, Live
    <3>3. \A t \in TokenID : ~(tokens'[t].state = "live" /\ tokens'[t].family = f)
      BY <3>1, <3>2
    <3>4. \A t : t \notin LiveIn(tokens', f)
      BY <3>3 DEF LiveIn, Live
    <3> QED
      BY <2>1, <3>4, Zenon
  <2>3. ASSUME NEW r \in Request, Creates(r) PROVE LiveIn(tokens', f) = {}
    <3>1. PICK t \in Rows : tokens[t].family = f
      BY <1>1 DEF Ended
    <3>2. /\ tokens \in [TokenID -> TokenRow] /\ issued \in Nat
          /\ t \in TokenID /\ t <= issued /\ f \in 1..t
      BY <1>1, <3>1, AccountRowsAssumption DEF AccountsInv, TypeOK, Rows, TokenID
    <3>3. FamilyFor(call[r], issued + 1) # f
      BY <1>1, <2>3, <3>2 DEF Creates, At, FamilyFor, Ended, InRotation, TokenID
    <3> QED
      BY <1>1, <2>3, <3>2, <3>3 DEF Creates, InsertToken, Ended, LiveIn, Live
  <2> QED
    BY <1>1, <2>1, <2>2, <2>3, StepOnTokens
<1>2. AccountsInv /\ [Next]_vars =>
          [\A f \in TokenID : Ended(f) => LiveIn(tokens', f) = {} /\ ~InRotation(f)']_vars
  BY <1>1
<1> QED
  BY <1>2, Invariant, PTL DEF Spec, EndedStaysEnded

-----------------------------------------------------------------------------
(* Who is locked out stays out.                                             *)

\* An account that was created is never uncreated.
LEMMA AccountStays ==
    ASSUME AccountsInv, [Next]_vars, NEW u \in User, users[u].status # "none"
    PROVE  users'[u].status # "none"
<1>a. users \in [User -> UserRow]
  BY DEF AccountsInv, TypeOK
<1>1. CASE UNCHANGED users
  BY <1>1
<1>2. ASSUME NEW v \in User, NEW e, NEW role, users[v].status = "none",
             users' = InsertUser(users, v, e, role, 0)
      PROVE  users'[u].status # "none"
  BY <1>a, <1>2 DEF InsertUser
<1>3. ASSUME NEW v, NEW row, users' = UpdateWhere(users, v, row), row.status # "none"
      PROVE  users'[u].status # "none"
  BY <1>a, <1>3 DEF UpdateWhere
<1>4. ASSUME NEW v
      PROVE  /\ \A e : users' = SetEmail(users, v, e) => users'[u].status # "none"
             /\ \A q : users' = SetPassword(users, v, q) => users'[u].status # "none"
             /\ \A role : users' = SetRole(users, v, role) => users'[u].status # "none"
             /\ \A st : users' = SetStatus(users, v, st) /\ st # "none"
                    => users'[u].status # "none"
             /\ users' = DeleteUser(users, v) => users'[u].status # "none"
  <2>1. CASE Exists(users, v)
    <3>1. users[v] \in UserRow /\ users[v].status # "none"
      BY <1>a, <2>1 DEF Exists
    <3>2. /\ \A e : [users[v] EXCEPT !.email = e].status # "none"
          /\ \A q : [users[v] EXCEPT !.password = q].status # "none"
          /\ \A role : [users[v] EXCEPT !.role = role].status # "none"
          /\ \A st : [users[v] EXCEPT !.status = st].status = st
          /\ [NoUser EXCEPT !.status = "deleted"].status # "none"
      BY <3>1 DEF UserRow, NoUser
    <3>3. ASSUME NEW e, users' = SetEmail(users, v, e) PROVE users'[u].status # "none"
      BY <3>2, <3>3, <1>3 DEF SetEmail
    <3>4. ASSUME NEW q, users' = SetPassword(users, v, q) PROVE users'[u].status # "none"
      BY <3>2, <3>4, <1>3 DEF SetPassword
    <3>5. ASSUME NEW role, users' = SetRole(users, v, role) PROVE users'[u].status # "none"
      BY <3>2, <3>5, <1>3 DEF SetRole
    <3>6. ASSUME NEW st, users' = SetStatus(users, v, st), st # "none"
          PROVE  users'[u].status # "none"
      BY <3>2, <3>6, <1>3 DEF SetStatus
    <3>7. ASSUME users' = DeleteUser(users, v) PROVE users'[u].status # "none"
      BY <3>2, <3>7, <1>3 DEF DeleteUser
    <3> QED
      BY <3>3, <3>4, <3>5, <3>6, <3>7
  <2>2. CASE ~Exists(users, v)
    BY <2>2, <1>1 DEF SetEmail, SetPassword, SetRole, SetStatus, DeleteUser, UpdateWhere
  <2> QED
    BY <2>1, <2>2
<1>5. ASSUME NEW r \in Request, CreateUser(r) \/ BootstrapAdmin(r)
      PROVE  users'[u].status # "none"
  BY <1>5, <1>1, <1>2 DEF CreateUser, BootstrapAdmin
<1>6. ASSUME NEW r \in Request, PatchStatus(r) PROVE users'[u].status # "none"
  <2>1. call[r].patch.status # "none"
    BY <1>6, AccountsAssumption DEF PatchStatus, AccountsInv, TypeOK, CallsOK, CallOK, Call, Keep, At
  <2> QED
    BY <1>6, <2>1, <1>1, <1>4 DEF PatchStatus
<1>7. ASSUME NEW r \in Request,
             UpdateProfile(r) \/ StorePassword(r) \/ PatchRole(r) \/ Delete(r)
      PROVE  users'[u].status # "none"
  BY <1>7, <1>1, <1>4 DEF UpdateProfile, StorePassword, PatchRole, Delete
<1> QED
  BY <1>1, <1>5, <1>6, <1>7
     DEF Next, SessionStep, UserStep, SetupStep, vars, Login, Refresh, CondemnFamily,
         FindOwner, Issue, Rotate, Logout, LogoutRevoke, ChangePassword, RevokeSessions,
         PatchUser, PatchReread, DeleteSessions, Bootstrap, BootstrapLogin, Abandon,
         ProvidersChange

\* The request is past its last look at the account of user u.
Issuing(c, u) == c.user = u /\ c.step \in {"issue", "rotate"}

\* Only a request that finds the account active, or creates it, goes on to
\* issue a session for it.
LEMMA IssuingNeedsAccount ==
    ASSUME AccountsInv, [Next]_vars, NEW u \in User, ~Active(users, u),
           users[u].status # "none", \A r \in Request : ~Issuing(call[r], u)
    PROVE  \A r \in Request : ~Issuing(call'[r], u)
<1>a. /\ call \in [Request -> Call] /\ \A r \in Request : call[r] \in Call
      /\ Idle \in Call
  BY IdleOK DEF AccountsInv, TypeOK
<1> DEFINE Goal == \A r \in Request : ~Issuing(call'[r], u)
<1> USE <1>a DEF At
<1>1. ASSUME UNCHANGED call PROVE Goal
  BY <1>1
<1>2. ASSUME NEW r \in Request, NEW c, ~Issuing(c, u), Becomes(r, c) PROVE Goal
  BY <1>2 DEF Becomes
<1>3. ASSUME NEW r \in Request, Ends(r) PROVE Goal
  <2>1. Idle.step = "idle"
    BY DEF Idle
  <2> QED
    BY <1>3, <1>2, <2>1 DEF Ends, Issuing
<1>4. ASSUME NEW r \in Request, NEW step, step \notin {"issue", "rotate"}, Continue(r, step)
      PROVE  Goal
  <2>1. [call[r] EXCEPT !.step = step].step = step
    BY DEF Call
  <2> QED
    BY <1>4, <1>2, <2>1 DEF Continue, Issuing
<1>5. ASSUME NEW r \in Request, NEW c, NEW v \in User, c.user = v, Becomes(r, c),
             Active(users, v) \/ users[v].status = "none"
      PROVE  Goal
  BY <1>5, <1>2 DEF Issuing
<1> HIDE DEF Goal
<1>6. ASSUME NEW r \in Request, Login(r) PROVE Goal
  <2>1. \A v \in User : [Idle EXCEPT !.step = "issue", !.user = v,
                                     !.password = users[v].password].user = v
    BY DEF Call
  <2> QED
    BY <1>6, <2>1, <1>5 DEF Login
<1>7. ASSUME NEW r \in Request, Refresh(r) PROVE Goal
  <2> DEFINE C(t) == [Idle EXCEPT !.step = AfterLookup(t), !.user = tokens[t].user,
                                  !.token = t, !.family = tokens[t].family,
                                  !.password = tokens[t].password]
  <2>1. PICK t : Becomes(r, C(t))
    BY <1>7 DEF Refresh
  <2>2. C(t).step = AfterLookup(t)
    BY DEF Call
  <2> HIDE DEF C
  <2> QED
    BY <2>1, <2>2, <1>2 DEF AfterLookup, Issuing
<1>8. ASSUME NEW r \in Request, FindOwner(r) PROVE Goal
  <2>1. CASE MayRefresh(call[r].user) /\ Continue(r, "issue")
    <3>1. call[r].user # u
      BY <2>1 DEF MayRefresh
    <3>2. [call[r] EXCEPT !.step = "issue"].user = call[r].user
      BY DEF Call
    <3> QED
      BY <2>1, <3>1, <3>2, <1>2 DEF Continue, Issuing
  <2> QED
    BY <1>8, <2>1, <1>3 DEF FindOwner
<1>9. ASSUME NEW r \in Request, Issue(r) PROVE Goal
  <2>1. call[r].user # u
    BY <1>9 DEF Issue, Issuing
  <2>2. [call[r] EXCEPT !.step = "rotate", !.heir = issued + 1].user = call[r].user
    BY DEF Call
  <2>3. ASSUME Becomes(r, [call[r] EXCEPT !.step = "rotate", !.heir = issued + 1]) PROVE Goal
    BY <2>1, <2>2, <2>3, <1>2 DEF Issuing
  <2> QED
    BY <1>9, <2>3, <1>3 DEF Issue
<1>10. ASSUME NEW r \in Request, Logout(r) \/ ChangePassword(r) \/ PatchUser(r)
              \/ DeleteSessions(r) \/ Bootstrap(r)
       PROVE  Goal
  <2>1. /\ \A t : [Idle EXCEPT !.step = "logout", !.token = t].step = "logout"
        /\ \A v : [Idle EXCEPT !.step = "password", !.user = v].step = "password"
        /\ \A v : [Idle EXCEPT !.step = "delete", !.user = v].step = "delete"
        /\ \A e, step : [Idle EXCEPT !.email = e, !.step = step].step = step
        /\ \A v, q : /\ [[Idle EXCEPT !.user = v, !.patch = q] EXCEPT !.step = "role"].step = "role"
                     /\ [[Idle EXCEPT !.user = v, !.patch = q] EXCEPT !.step = "status"].step = "status"
    BY DEF Idle
  <2>2. ASSUME NEW c, c.step \notin {"issue", "rotate"}, Becomes(r, c) PROVE Goal
    BY <2>2, <1>2 DEF Issuing
  <2>3. CASE Logout(r)
    BY <2>3, <2>1, <2>2 DEF Logout
  <2>4. CASE ChangePassword(r)
    BY <2>4, <2>1, <2>2 DEF ChangePassword
  <2>5. CASE DeleteSessions(r)
    BY <2>5, <2>1, <2>2 DEF DeleteSessions
  <2>6. CASE Bootstrap(r)
    <3>1. PICK e \in Email, step \in {"bootstrap", "bootstrap_login"} :
              Becomes(r, [Idle EXCEPT !.email = e, !.step = step])
      BY <2>6 DEF Bootstrap
    <3> DEFINE C == [Idle EXCEPT !.email = e, !.step = step]
    <3>2. C.step = step
      BY <2>1
    <3>3. Becomes(r, C)
      BY <3>1
    <3> HIDE DEF C
    <3> QED
      BY <3>2, <3>3, <2>2
  <2>7. CASE PatchUser(r)
    BY <2>7, <2>1, <2>2, <1>3 DEF PatchUser, Ends
  <2> QED
    BY <1>10, <2>3, <2>4, <2>5, <2>6, <2>7
<1>11. ASSUME NEW r \in Request, BootstrapAdmin(r) PROVE Goal
  <2>1. \A v \in User : [call[r] EXCEPT !.step = "issue", !.user = v].user = v
    BY DEF Call
  <2> QED
    BY <1>11, <2>1, <1>4, <1>5 DEF BootstrapAdmin
<1>12. ASSUME NEW r \in Request, BootstrapLogin(r) PROVE Goal
  <2> DEFINE C(v) == [call[r] EXCEPT !.step = "issue", !.user = v,
                                     !.password = users[v].password,
                                     !.deliver = (users[v].role = "admin")]
  <2>1. \A v \in User : C(v).user = v
    BY DEF Call
  <2>2. Ends(r) \/ \E v \in User : Active(users, v) /\ Becomes(r, C(v))
    BY <1>12 DEF BootstrapLogin
  <2> HIDE DEF C
  <2> QED
    BY <2>1, <2>2, <1>3, <1>5
<1>13. ASSUME NEW r \in Request, StorePassword(r) \/ PatchRole(r) \/ PatchReread(r)
              \/ PatchStatus(r)
       PROVE  Goal
  BY <1>13, <1>3, <1>4 DEF StorePassword, PatchRole, PatchReread, PatchStatus
<1>14. ASSUME NEW r \in Request, CondemnFamily(r) \/ Rotate(r) \/ LogoutRevoke(r)
              \/ RevokeSessions(r) \/ Delete(r) \/ Abandon(r)
       PROVE  Goal
  BY <1>14, <1>3 DEF CondemnFamily, Rotate, LogoutRevoke, RevokeSessions, Delete, Abandon
<1>15. ASSUME NEW r \in Request, CreateUser(r) \/ UpdateProfile(r) PROVE UNCHANGED call
  BY <1>15 DEF CreateUser, UpdateProfile
<1>16. Goal
  BY <1>1, <1>6, <1>7, <1>8, <1>9, <1>10, <1>11, <1>12, <1>13, <1>14, <1>15
     DEF Next, SessionStep, UserStep, SetupStep, vars, ProvidersChange
<1> QED
  BY <1>16 DEF Goal

\* Who is locked out stays so until an administrator reactivates the account.
THEOREM LockedOutIsOut == Spec => LockedOutStaysOut
<1>1. ASSUME AccountsInv, [Next]_vars, NEW u \in User, LockedOut(u), ~Active(users', u)
      PROVE  LockedOut(u)'
  <2>1. \A r \in Request : ~Issuing(call[r], u)
    BY <1>1 DEF LockedOut, Issuing
  <2>2. \A r \in Request : ~Issuing(call'[r], u)
    BY <1>1, <2>1, IssuingNeedsAccount DEF LockedOut
  <2>3. users'[u].status # "none"
    BY <1>1, AccountStays DEF LockedOut
  <2>4. \A t \in TokenID : ~(tokens[t].state = "live" /\ tokens[t].user = u)
    BY <1>1 DEF LockedOut, LiveOf, Live
  <2>5. \A t \in TokenID : ~(tokens'[t].state = "live" /\ tokens'[t].user = u)
    <3>1. CASE Revokes
      <4>1. \A t \in TokenID : tokens'[t].state = "live" => tokens'[t] = tokens[t]
        BY <3>1 DEF Revokes, Kept, NoToken
      <4> QED
        BY <2>4, <4>1
    <3>2. ASSUME NEW r \in Request, Creates(r)
          PROVE  \A t \in TokenID : ~(tokens'[t].state = "live" /\ tokens'[t].user = u)
      <4>1. call[r].user # u
        BY <2>1, <3>2 DEF Creates, At, Issuing
      <4> QED
        BY <1>1, <2>4, <3>2, <4>1 DEF Creates, InsertToken, AccountsInv, TypeOK
    <3> QED
      BY <1>1, <3>1, <3>2, StepOnTokens
  <2>6. LiveOf(tokens', u) = {}
    BY <2>5 DEF LiveOf, Live
  <2> QED
    BY <1>1, <2>2, <2>3, <2>6 DEF LockedOut, Issuing
<1>2. AccountsInv /\ [Next]_vars =>
          [\A u \in User : LockedOut(u) => LockedOut(u)' \/ Active(users', u)]_vars
  BY <1>1
<1> QED
  BY <1>2, Invariant, PTL DEF Spec, LockedOutStaysOut

-----------------------------------------------------------------------------
(* One heir.                                                                *)

\* A request that may issue an heir in family f.
Rotates(c, f) == c.family = f /\ c.step \in RotationStep

\* One request at a time rotates a family, its token is the live one, and the
\* heir takes its place.
OneHeir(f) ==
    /\ \A r, q \in Request : Rotates(call[r], f) /\ Rotates(call[q], f) => r = q
    /\ \A r \in Request : Rotates(call[r], f) =>
           LiveIn(tokens, f) \subseteq
              {call[r].token} \cup (IF At(r, "rotate") THEN {call[r].heir} ELSE {})
    /\ ~InRotation(f) => \A t, u \in LiveIn(tokens, f) : t = u

\* No client has an heir before its rotation is done.
HeirsHidden ==
    \A r \in Request : At(r, "rotate") =>
        /\ call[r].heir \notin delivered
        /\ \A q \in Request : q # r /\ At(q, "rotate") => call[q].heir # call[r].heir

\* A request that issues a token presents another one or opens a family.
Opens(c) == /\ c.step = "owner" => c.token # 0
            /\ c.step = "issue" /\ c.token = 0 => c.family = 0

HeirInv ==
    /\ delivered \subseteq 1..issued
    /\ HeirsHidden
    /\ \A r \in Request : Opens(call[r])
    /\ \A f \in TokenID \ forked : OneHeir(f)

LEMMA HeirInit == Init => HeirInv
<1> SUFFICES ASSUME Init PROVE HeirInv
  OBVIOUS
<1>1. \A r \in Request : call[r].step = "idle"
  BY DEF Init, Idle
<1>2. \A f : LiveIn(tokens, f) = {}
  BY DEF Init, LiveIn, Live, NoToken
<1>3. \A f \in TokenID : OneHeir(f)
  BY <1>1, <1>2 DEF OneHeir, Rotates, RotationStep
<1>4. delivered \subseteq 1..issued
  BY DEF Init
<1> QED
  BY <1>1, <1>3, <1>4 DEF HeirInv, HeirsHidden, Opens, At

LEMMA LiveShrinks ==
    ASSUME TypeOK, Kept(tokens, tokens')
    PROVE  \A f : LiveIn(tokens', f) \subseteq LiveIn(tokens, f)
  BY DEF TypeOK, Kept, LiveIn, Live, NoToken

\* A request that rotates nothing from now on leaves its family as it should
\* be, unless it breaks off between its two statements.
LEMMA HeirLeaves ==
    ASSUME AccountsInv, HeirInv, NEW r \in Request, NEW c, Becomes(r, c), Opens(c),
           c.step \notin RotationStep \/ (c.family = 0 /\ c.step = "issue"),
           Kept(tokens, tokens'), forked \subseteq forked', issued' = issued,
           delivered' \subseteq delivered \cup (IF At(r, "rotate") THEN {call[r].heir} ELSE {}),
           At(r, "rotate") => \/ call[r].family \in forked'
                              \/ LiveIn(tokens', call[r].family) \subseteq {call[r].heir}
    PROVE  HeirInv'
<1>1. call'[r] = c /\ \A q \in Request : q # r => call'[q] = call[q]
  BY DEF Becomes, AccountsInv, TypeOK
<1>2. \A f : LiveIn(tokens', f) \subseteq LiveIn(tokens, f)
  BY LiveShrinks DEF AccountsInv
<1>3. delivered' \subseteq 1..issued'
  BY DEF HeirInv, AccountsInv, CallsOK, CallOK, At
<1>4. HeirsHidden'
  <2> SUFFICES ASSUME NEW q \in Request, call'[q].step = "rotate"
               PROVE  /\ call'[q].heir \notin delivered'
                      /\ \A p \in Request : p # q /\ call'[p].step = "rotate" =>
                            call'[p].heir # call'[q].heir
    BY DEF HeirsHidden, At
  <2>1. q # r /\ At(q, "rotate") /\ call'[q] = call[q]
    BY <1>1 DEF RotationStep, At
  <2>2. At(r, "rotate") => call[r].heir # call[q].heir
    BY <2>1 DEF HeirInv, HeirsHidden
  <2>3. call[q].heir \notin delivered'
    BY <2>1, <2>2 DEF HeirInv, HeirsHidden
  <2> QED
    BY <1>1, <2>1, <2>3 DEF HeirInv, HeirsHidden, At, RotationStep
<1>5. \A q \in Request : Opens(call'[q])
  BY <1>1 DEF HeirInv
<1>6. ASSUME NEW f \in TokenID \ forked' PROVE OneHeir(f)'
  <2>1. OneHeir(f) /\ f # 0
    BY DEF HeirInv, TokenID
  <2>2. ~Rotates(call'[r], f)
    BY <1>1, <2>1 DEF Rotates, RotationStep
  <2>3. \A q \in Request : Rotates(call'[q], f) => q # r /\ Rotates(call[q], f) /\ call'[q] = call[q]
    BY <1>1, <2>2
  <2>4. ASSUME NEW q \in Request, Rotates(call'[q], f)
        PROVE  LiveIn(tokens', f) \subseteq
                  {call'[q].token} \cup (IF call'[q].step = "rotate" THEN {call'[q].heir} ELSE {})
    BY <1>2, <2>1, <2>3, <2>4 DEF OneHeir, At
  <2>5. ASSUME ~InRotation(f)', NEW t \in LiveIn(tokens', f), NEW u \in LiveIn(tokens', f)
        PROVE  t = u
    <3>1. t \in LiveIn(tokens, f) /\ u \in LiveIn(tokens, f)
      BY <1>2
    <3>2. CASE ~InRotation(f)
      BY <2>1, <3>1, <3>2 DEF OneHeir
    <3>3. CASE InRotation(f)
      <4>1. Rotates(call[r], f)
        BY <1>1, <2>5, <3>3 DEF InRotation, Rotates, RotationStep
      <4>2. CASE At(r, "rotate")
        <5>1. LiveIn(tokens', f) \subseteq {call[r].heir}
          BY <4>1, <4>2 DEF Rotates
        <5> QED
          BY <5>1
      <4>3. CASE ~At(r, "rotate")
        BY <2>1, <3>1, <4>1, <4>3 DEF OneHeir
      <4> QED
        BY <4>2, <4>3
    <3> QED
      BY <3>2, <3>3
  <2>6. \A q, p \in Request : Rotates(call'[q], f) /\ Rotates(call'[p], f) => q = p
    BY <2>1, <2>3 DEF OneHeir
  <2> QED
    BY <2>4, <2>5, <2>6 DEF OneHeir, At
<1> QED
  BY <1>3, <1>4, <1>5, <1>6 DEF HeirInv

\* A live token that is presented is the only one, or its family is raced.
LEMMA HeirRefresh ==
    ASSUME AccountsInv, HeirInv, NEW r \in Request, Refresh(r)
    PROVE  HeirInv'
<1> DEFINE C(t) == [Idle EXCEPT !.step = AfterLookup(t), !.user = tokens[t].user,
                                !.token = t, !.family = tokens[t].family,
                                !.password = tokens[t].password]
<1>1. PICK t \in delivered :
         /\ tokens[t].state # "none"
         /\ Becomes(r, C(t))
         /\ forked' = IF tokens[t].state = "live" /\ Rotating(t) # {}
                      THEN forked \cup {tokens[t].family} ELSE forked
  BY DEF Refresh
<1>2. /\ C(t).step = AfterLookup(t) /\ C(t).family = tokens[t].family /\ C(t).token = t
  BY DEF Idle
<1> DEFINE c == C(t)
<1>3. Becomes(r, c) /\ c.step = AfterLookup(t) /\ c.family = tokens[t].family /\ c.token = t
  BY <1>1, <1>2
<1> HIDE DEF c
<1>4. /\ UNCHANGED <<tokens, issued, delivered>> /\ At(r, "idle") /\ forked \subseteq forked'
      /\ t \in TokenID /\ t # 0
  BY <1>1 DEF Refresh, Arrive, AccountsInv, TypeOK, TokenID
<1>5. Opens(c)
  BY <1>3, <1>4 DEF Opens, AfterLookup
<1>6. CASE tokens[t].state = "revoked"
  <2>1. c.step \notin RotationStep
    BY <1>3, <1>6 DEF AfterLookup, RotationStep
  <2>2. Kept(tokens, tokens')
    BY <1>4, OthersKeep DEF AccountsInv, TypeOK
  <2> QED
    BY <1>3, <1>4, <1>5, <2>1, <2>2, HeirLeaves DEF At
<1>7. CASE tokens[t].state = "live"
  <2>1. c.step = "owner"
    BY <1>3, <1>7 DEF AfterLookup
  <2>2. call'[r] = c /\ \A q \in Request : q # r => call'[q] = call[q]
    BY <1>3 DEF Becomes, AccountsInv, TypeOK
  <2>3. HeirsHidden'
    BY <1>4, <2>1, <2>2 DEF HeirInv, HeirsHidden, At
  <2>4. (delivered \subseteq 1..issued)' /\ \A q \in Request : Opens(call'[q])
    BY <1>4, <1>5, <2>2 DEF HeirInv
  <2>5. ASSUME NEW f \in TokenID \ forked' PROVE OneHeir(f)'
    <3>1. OneHeir(f)
      BY <1>4 DEF HeirInv
    <3>2. ~Rotates(call[r], f)
      BY <1>4 DEF At, Rotates, RotationStep
    <3>3. CASE f # tokens[t].family
      <4>1. \A q \in Request : Rotates(call'[q], f) <=> Rotates(call[q], f)
        BY <1>3, <2>2, <3>2, <3>3 DEF Rotates
      <4>2. \A q \in Request : Rotates(call'[q], f) => call'[q] = call[q]
        BY <2>2, <3>2, <4>1
      <4>3. InRotation(f)' <=> InRotation(f)
        BY <4>1 DEF InRotation, Rotates, RotationStep
      <4> QED
        BY <1>4, <3>1, <4>1, <4>2, <4>3 DEF OneHeir, At
    <3>4. CASE f = tokens[t].family
      <4>1. Rotating(t) = {}
        BY <1>1, <1>7, <2>5, <3>4
      <4>2. t \in LiveIn(tokens, f)
        BY <1>4, <1>7, <3>4 DEF LiveIn, Live
      <4>3. ASSUME NEW q \in Request, Rotates(call[q], f) PROVE FALSE
        <5>1. call[q].token # t
          BY <4>1, <4>3 DEF Rotating, Rotates, RotationStep
        <5>2. At(q, "rotate") /\ t = call[q].heir
          BY <3>1, <4>2, <4>3, <5>1 DEF OneHeir
        <5> QED
          BY <1>1, <5>2 DEF HeirInv, HeirsHidden
      <4>4. LiveIn(tokens, f) \subseteq {t}
        BY <3>1, <4>2, <4>3 DEF OneHeir, InRotation, Rotates, RotationStep
      <4>5. \A q \in Request : Rotates(call'[q], f) => q = r
        BY <2>2, <4>3
      <4>6. LiveIn(tokens', f) \subseteq {call'[r].token}
        BY <1>3, <1>4, <2>2, <4>4
      <4>7. \A q, p \in Request : Rotates(call'[q], f) /\ Rotates(call'[p], f) => q = p
        BY <4>5
      <4>8. \A q \in Request : Rotates(call'[q], f) =>
               LiveIn(tokens', f) \subseteq
                  {call'[q].token} \cup (IF At(q, "rotate")' THEN {call'[q].heir} ELSE {})
        BY <4>5, <4>6
      <4>9. \A u, v \in LiveIn(tokens', f) : u = v
        BY <4>6
      <4> QED
        BY <4>7, <4>8, <4>9 DEF OneHeir
    <3> QED
      BY <3>3, <3>4
  <2> QED
    BY <2>3, <2>4, <2>5 DEF HeirInv
<1> QED
  BY <1>1, <1>4, <1>6, <1>7 DEF AccountsInv, TypeOK, TokenRow

\* The owner is found: the rotation goes on.
LEMMA HeirFound ==
    ASSUME AccountsInv, HeirInv, NEW r \in Request, At(r, "owner"), Continue(r, "issue"),
           UNCHANGED <<tokens, issued, delivered, forked>>
    PROVE  HeirInv'
<1>1. /\ call'[r].step = "issue" /\ call'[r].family = call[r].family /\ call'[r].token = call[r].token
      /\ \A q \in Request : q # r => call'[q] = call[q]
  BY DEF Continue, Becomes, AccountsInv, TypeOK, Call
<1>2. HeirsHidden'
  BY <1>1 DEF HeirInv, HeirsHidden, At
<1>3. \A q \in Request : Opens(call'[q])
  BY <1>1 DEF HeirInv, Opens, At
<1>4. ASSUME NEW f \in TokenID \ forked' PROVE OneHeir(f)'
  <2>1. OneHeir(f)
    BY DEF HeirInv
  <2>2. \A q \in Request : Rotates(call'[q], f) <=> Rotates(call[q], f)
    BY <1>1 DEF Rotates, RotationStep, At
  <2>3. \A q \in Request : call'[q].token = call[q].token
    BY <1>1
  <2>4. \A q \in Request : At(q, "rotate")' <=> At(q, "rotate")
    BY <1>1 DEF At
  <2>5. \A q \in Request : At(q, "rotate") => call'[q].heir = call[q].heir
    BY <1>1 DEF At
  <2>6. InRotation(f)' <=> InRotation(f)
    BY <2>2 DEF InRotation, Rotates, RotationStep
  <2> QED
    BY <2>1, <2>2, <2>3, <2>4, <2>5, <2>6 DEF OneHeir
<1> QED
  BY <1>2, <1>3, <1>4 DEF HeirInv

\* The heir joins the token it replaces, or opens a family that nobody knows.
LEMMA HeirIssue ==
    ASSUME AccountsInv, HeirInv, NEW r \in Request, At(r, "issue"), issued < MaxTokens,
           tokens' = InsertToken(tokens, issued + 1, call[r].user, FamilyFor(call[r], issued + 1),
                                 call[r].password),
           issued' = issued + 1, forked' = forked,
           IF call[r].token = 0
           THEN Ends(r) /\ Deliver(r, issued + 1)
           ELSE /\ Becomes(r, [call[r] EXCEPT !.step = "rotate", !.heir = issued + 1])
                /\ UNCHANGED delivered
    PROVE  HeirInv'
<1> DEFINE t == issued + 1
           g == FamilyFor(call[r], t)
<1>1. /\ issued \in Nat /\ MaxTokens \in Nat /\ t \in TokenID /\ t \notin 1..issued
      /\ issued' = t /\ tokens \in [TokenID -> TokenRow]
      /\ \A u \in TokenID : tokens[u].state # "none" => u <= issued /\ tokens[u].family \in 1..u
  BY AccountRowsAssumption DEF AccountsInv, TypeOK, TokenID
<1>2. /\ tokens'[t].state = "live" /\ tokens'[t].family = g
      /\ \A u \in TokenID : u # t => tokens'[u] = tokens[u]
  BY <1>1 DEF InsertToken
<1>3. /\ \A q \in Request : q # r => call'[q] = call[q]
      /\ call[r].token = 0 => call'[r] = Idle
      /\ call[r].token # 0 =>
            /\ call'[r].step = "rotate" /\ call'[r].family = call[r].family
            /\ call'[r].token = call[r].token /\ call'[r].heir = t
  BY DEF Ends, Becomes, AccountsInv, TypeOK, Call
<1>4. \A q \in Request : CallOK(call[q], issued)
  BY DEF AccountsInv, CallsOK
<1>5. call[r].token = 0 <=> call[r].family = 0
  BY <1>4 DEF HeirInv, Opens, CallOK, At
<1> HIDE DEF t
<1>6. ~At(r, "rotate") /\ delivered \subseteq 1..issued
  BY DEF HeirInv, At
<1>7. delivered' = delivered \/ (call[r].token = 0 /\ delivered' = delivered \cup {t})
  BY DEF Deliver, t
<1>8. delivered' \subseteq 1..issued'
  BY <1>1, <1>6, <1>7 DEF t
<1>9. HeirsHidden'
  <2>1. \A q \in Request : q # r /\ call'[q].step = "rotate" =>
           At(q, "rotate") /\ call'[q].heir \in 1..issued /\ call'[q].heir = call[q].heir
    BY <1>3, <1>4 DEF At, CallOK
  <2>2. call[r].token # 0 => t \notin delivered'
    BY <1>1, <1>6, <1>7
  <2>3. call'[r].step = "rotate" => call[r].token # 0 /\ call'[r].heir = t
    BY <1>3 DEF Idle
  <2> SUFFICES ASSUME NEW q \in Request, call'[q].step = "rotate"
               PROVE  /\ call'[q].heir \notin delivered'
                      /\ \A p \in Request : p # q /\ call'[p].step = "rotate" =>
                            call'[p].heir # call'[q].heir
    BY DEF HeirsHidden, At
  <2>4. CASE q = r
    BY <1>1, <2>1, <2>2, <2>3, <2>4
  <2>5. CASE q # r
    <3>1. call'[q].heir \notin delivered'
      BY <1>1, <1>7, <2>1, <2>5 DEF HeirInv, HeirsHidden
    <3>2. \A p \in Request : p # q /\ p # r /\ call'[p].step = "rotate" =>
             call'[p].heir # call'[q].heir
      BY <2>1, <2>5 DEF HeirInv, HeirsHidden
    <3> QED
      BY <1>1, <2>1, <2>3, <2>5, <3>1, <3>2
  <2> QED
    BY <2>4, <2>5
<1>10. \A q \in Request : Opens(call'[q])
  BY <1>3 DEF HeirInv, Opens, Idle
<1>11. ASSUME NEW f \in TokenID \ forked' PROVE OneHeir(f)'
  <2>1. OneHeir(f) /\ f # 0
    BY DEF HeirInv, TokenID
  <2>2. f # g => LiveIn(tokens', f) = LiveIn(tokens, f)
    BY <1>1, <1>2 DEF LiveIn, Live
  <2>3. LiveIn(tokens', g) = LiveIn(tokens, g) \cup {t}
    BY <1>1, <1>2 DEF LiveIn, Live
  <2>4. CASE call[r].token = 0
    <3>1. g = t /\ ~Rotates(call'[r], f) /\ ~Rotates(call[r], f)
      BY <1>3, <1>5, <2>1, <2>4 DEF FamilyFor, Rotates, RotationStep, Idle
    <3>2. \A q \in Request : Rotates(call'[q], f) <=> Rotates(call[q], f)
      BY <1>3, <3>1
    <3>3. \A q \in Request : Rotates(call'[q], f) => call'[q] = call[q]
      BY <1>3, <3>1
    <3>4. InRotation(f)' <=> InRotation(f)
      BY <3>2 DEF InRotation, Rotates, RotationStep
    <3>5. CASE f # t
      BY <2>1, <2>2, <3>1, <3>2, <3>3, <3>4, <3>5 DEF OneHeir, At
    <3>6. CASE f = t
      <4>1. LiveIn(tokens, f) = {}
        BY <1>1, <3>6 DEF LiveIn, Live, TokenID
      <4>2. LiveIn(tokens', f) = {t}
        BY <2>3, <3>1, <3>6, <4>1
      <4>3. \A q \in Request : ~Rotates(call[q], f)
        BY <1>1, <1>4, <2>1, <3>6 DEF CallOK, Rotates
      <4> QED
        BY <3>2, <4>2, <4>3 DEF OneHeir
    <3> QED
      BY <3>5, <3>6
  <2>5. CASE call[r].token # 0
    <3>1. g = call[r].family /\ Rotates(call[r], g) /\ Rotates(call'[r], g)
      BY <1>3, <1>5, <2>5 DEF FamilyFor, Rotates, RotationStep, At
    <3>2. \A q \in Request : Rotates(call'[q], f) <=> Rotates(call[q], f)
      BY <1>3, <2>5 DEF Rotates, RotationStep, At
    <3>3. InRotation(f)' <=> InRotation(f)
      BY <3>2 DEF InRotation, Rotates, RotationStep
    <3>4. \A q, p \in Request : Rotates(call'[q], f) /\ Rotates(call'[p], f) => q = p
      BY <2>1, <3>2 DEF OneHeir
    <3>5. CASE f # g
      <4>1. ~Rotates(call'[r], f)
        BY <3>1, <3>2, <3>5 DEF Rotates
      <4>2. \A q \in Request : Rotates(call'[q], f) => call'[q] = call[q]
        BY <1>3, <4>1
      <4> QED
        BY <2>1, <2>2, <3>2, <3>3, <3>5, <4>2 DEF OneHeir, At
    <3>6. CASE f = g
      <4>1. LiveIn(tokens, f) \subseteq {call[r].token}
        BY <1>6, <2>1, <3>1, <3>6 DEF OneHeir
      <4>2. LiveIn(tokens', f) \subseteq {call'[r].token} \cup {call'[r].heir}
        BY <1>3, <2>3, <2>5, <3>6, <4>1
      <4>3. \A q \in Request : Rotates(call'[q], f) => q = r
        BY <3>1, <3>4, <3>6
      <4>4. At(r, "rotate")' /\ InRotation(f)'
        BY <1>3, <2>5, <3>1, <3>6 DEF At, InRotation, Rotates, RotationStep
      <4>5. \A q \in Request : Rotates(call'[q], f) =>
               LiveIn(tokens', f) \subseteq
                  {call'[q].token} \cup (IF At(q, "rotate")' THEN {call'[q].heir} ELSE {})
        BY <4>2, <4>3, <4>4
      <4> QED
        BY <3>4, <4>4, <4>5 DEF OneHeir
    <3> QED
      BY <3>5, <3>6
  <2> QED
    BY <2>4, <2>5
<1> QED
  BY <1>8, <1>9, <1>10, <1>11 DEF HeirInv

LEMMA HeirNext == AccountsInv /\ HeirInv /\ [Next]_vars => HeirInv'
<1> SUFFICES ASSUME AccountsInv, HeirInv, [Next]_vars PROVE HeirInv'
  OBVIOUS
<1>a. /\ TypeOK /\ tokens \in [TokenID -> TokenRow]
      /\ \A r \in Request : call[r] \in Call /\ CallOK(call[r], issued)
      /\ Kept(tokens, tokens)
      /\ \A f : Kept(tokens, RevokeFamily(tokens, f))
      /\ \A u : Kept(tokens, RevokeAllForUser(tokens, u)) /\ Kept(tokens, CascadeTokens(tokens, u))
  BY OthersKeep DEF AccountsInv, CallsOK, TypeOK
<1>b. Idle.step = "idle" /\ Opens(Idle) /\ Idle.step \notin RotationStep
  BY DEF Idle, Opens, RotationStep
\* A request that is not rotating goes on, and rotates nothing.
<1>1. ASSUME NEW r \in Request, NEW c, Becomes(r, c), Opens(c), ~At(r, "rotate"),
             c.step \notin RotationStep \/ (c.family = 0 /\ c.step = "issue"),
             Kept(tokens, tokens'), UNCHANGED <<issued, delivered, forked>>
      PROVE  HeirInv'
  BY <1>1, HeirLeaves
<1>2. ASSUME NEW r \in Request, Ends(r), ~At(r, "rotate"), Kept(tokens, tokens'),
             UNCHANGED <<issued, delivered, forked>>
      PROVE  HeirInv'
  BY <1>2, <1>1, <1>b DEF Ends
<1>3. ASSUME NEW r \in Request, NEW step, Continue(r, step), ~At(r, "rotate"),
             step \notin RotationStep, Kept(tokens, tokens'),
             UNCHANGED <<issued, delivered, forked>>
      PROVE  HeirInv'
  <2>1. [call[r] EXCEPT !.step = step].step = step
    BY <1>a DEF Call
  <2>2. Opens([call[r] EXCEPT !.step = step])
    BY <1>3, <2>1 DEF Opens, RotationStep
  <2> QED
    BY <1>1, <1>3, <2>1, <2>2 DEF Continue
<1>4. ASSUME UNCHANGED <<tokens, call, issued, delivered, forked>> PROVE HeirInv'
  BY <1>4 DEF HeirInv, HeirsHidden, OneHeir, InRotation, At, Live, LiveIn
<1>5. ASSUME NEW r \in Request, Login(r) PROVE HeirInv'
  <2> DEFINE C(u) == [Idle EXCEPT !.step = "issue", !.user = u, !.password = users[u].password]
  <2>1. \A u : C(u).step = "issue" /\ C(u).family = 0 /\ C(u).token = 0
    BY DEF Idle
  <2>2. PICK u \in User : Becomes(r, C(u))
    BY <1>5 DEF Login
  <2>3. Opens(C(u))
    BY <2>1 DEF Opens
  <2>4. ~At(r, "rotate") /\ UNCHANGED <<tokens, issued, delivered, forked>>
    BY <1>5 DEF Login, Arrive, At
  <2> HIDE DEF C
  <2> QED
    BY <1>1, <1>a, <2>1, <2>2, <2>3, <2>4
<1>6. ASSUME NEW r \in Request, CondemnFamily(r) \/ LogoutRevoke(r) \/ RevokeSessions(r) \/ Delete(r)
      PROVE  HeirInv'
  <2>1. Kept(tokens, Revoke(tokens, call[r].token, 0))
    <3>1. call[r].token \in 0..MaxTokens /\ 0 \in 0..MaxTokens
      BY <1>a, AccountRowsAssumption DEF Call
    <3> QED
      BY <1>a, <3>1, RevokeKeeps
  <2>2. Kept(tokens, tokens')
    BY <1>a, <1>6, <2>1 DEF CondemnFamily, LogoutRevoke, RevokeSessions, Delete, TokensBecome
  <2>3. Ends(r) /\ ~At(r, "rotate") /\ UNCHANGED <<issued, delivered, forked>>
    BY <1>6 DEF CondemnFamily, LogoutRevoke, RevokeSessions, Delete, At
  <2> QED
    BY <1>2, <2>2, <2>3
<1>7. ASSUME NEW r \in Request, FindOwner(r) PROVE HeirInv'
  BY <1>7, <1>a, <1>2, HeirFound DEF FindOwner, At
<1>8. ASSUME NEW r \in Request, Issue(r) PROVE HeirInv'
  <2>1. CASE Ends(r) /\ UNCHANGED <<tokens, issued, delivered>>
    BY <1>8, <1>a, <1>2, <2>1 DEF Issue, At
  <2>2. CASE ~(Ends(r) /\ UNCHANGED <<tokens, issued, delivered>>)
    BY <1>8, <2>2, HeirIssue DEF Issue
  <2> QED
    BY <2>1, <2>2
<1>9. ASSUME NEW r \in Request, Rotate(r) PROVE HeirInv'
  <2>1. At(r, "rotate") /\ Becomes(r, Idle) /\ issued' = issued
    BY <1>9 DEF Rotate, Ends
  <2>2. CASE UNCHANGED <<tokens, delivered>> /\ forked' = forked \cup {call[r].family}
    <3>1. /\ Kept(tokens, tokens') /\ call[r].family \in forked' /\ forked \subseteq forked'
          /\ delivered' \subseteq delivered \cup {call[r].heir}
      BY <1>a, <2>2
    <3> QED
      BY <1>b, <2>1, <3>1, HeirLeaves
  <2>3. CASE /\ tokens' = Revoke(tokens, call[r].token, call[r].heir)
             /\ Deliver(r, call[r].heir) /\ UNCHANGED forked
    <3>1. call[r].token \in 0..MaxTokens /\ call[r].heir \in 0..MaxTokens
      BY <1>a DEF Call
    <3>2. Kept(tokens, tokens')
      BY <1>a, <2>3, <3>1, RevokeKeeps
    <3>3. delivered' \subseteq delivered \cup {call[r].heir}
      BY <2>3 DEF Deliver
    <3>4. call[r].token \notin LiveIn(tokens', call[r].family)
      BY <1>a, <2>3 DEF Revoke, LiveIn, Live, TokenRow
    <3>5. CASE call[r].family \in forked
      BY <1>b, <2>1, <2>3, <3>2, <3>3, <3>5, HeirLeaves
    <3>6. CASE call[r].family \notin forked
      <4>1. call[r].family \in TokenID
        BY <1>a, <2>1 DEF Call, CallOK, At, TokenID
      <4>2. LiveIn(tokens, call[r].family) \subseteq {call[r].token} \cup {call[r].heir}
        BY <2>1, <3>6, <4>1 DEF HeirInv, OneHeir, Rotates, RotationStep, At
      <4>3. LiveIn(tokens', call[r].family) \subseteq {call[r].heir}
        BY <1>a, <3>2, <3>4, <4>2, LiveShrinks
      <4> QED
        BY <1>b, <2>1, <2>3, <3>2, <3>3, <4>3, HeirLeaves
    <3> QED
      BY <3>5, <3>6
  <2> QED
    BY <1>9, <2>2, <2>3 DEF Rotate
<1>10. ASSUME NEW r \in Request, Logout(r) \/ ChangePassword(r) \/ PatchUser(r)
              \/ DeleteSessions(r) \/ Bootstrap(r)
       PROVE  HeirInv'
  <2>1. ~At(r, "rotate") /\ UNCHANGED <<issued, delivered, forked>>
    BY <1>10 DEF Logout, ChangePassword, PatchUser, DeleteSessions, Bootstrap, Arrive, At
  <2>2. Kept(tokens, tokens')
    BY <1>10, <1>a DEF Logout, ChangePassword, PatchUser, DeleteSessions, Bootstrap, TokensBecome
  <2>3. ASSUME NEW c, Becomes(r, c), c.step \notin RotationStep PROVE HeirInv'
    <3>1. Opens(c)
      BY <2>3 DEF Opens, RotationStep
    <3> QED
      BY <1>1, <2>1, <2>2, <2>3, <3>1
  <2>4. /\ \A t : [Idle EXCEPT !.step = "logout", !.token = t].step \notin RotationStep
        /\ \A u : [Idle EXCEPT !.step = "password", !.user = u].step \notin RotationStep
        /\ \A u : [Idle EXCEPT !.step = "delete", !.user = u].step \notin RotationStep
        /\ \A e : \A step \in {"bootstrap", "bootstrap_login"} :
              [Idle EXCEPT !.email = e, !.step = step].step \notin RotationStep
    BY DEF Idle, RotationStep
  <2>5. \A u, p : \A step \in {"role", "status"} :
           [[Idle EXCEPT !.user = u, !.patch = p] EXCEPT !.step = step].step \notin RotationStep
    BY DEF Idle, RotationStep
  <2>6. CASE Logout(r)
    BY <2>3, <2>4, <2>6 DEF Logout
  <2>7. CASE ChangePassword(r)
    BY <2>3, <2>4, <2>7 DEF ChangePassword
  <2>8. CASE DeleteSessions(r)
    BY <2>3, <2>4, <2>8 DEF DeleteSessions
  <2>9. CASE Bootstrap(r)
    BY <2>3, <2>4, <2>9 DEF Bootstrap
  <2>10. CASE PatchUser(r)
    BY <1>b, <2>3, <2>5, <2>10 DEF PatchUser
  <2> QED
    BY <1>10, <2>6, <2>7, <2>8, <2>9, <2>10
<1>11. ASSUME NEW r \in Request, StorePassword(r) \/ PatchRole(r) \/ PatchReread(r)
              \/ PatchStatus(r)
       PROVE  HeirInv'
  <2>1. ~At(r, "rotate") /\ Kept(tokens, tokens') /\ UNCHANGED <<issued, delivered, forked>>
    BY <1>11, <1>a DEF StorePassword, PatchRole, PatchReread, PatchStatus, At
  <2>2. Ends(r) \/ \E step \in {"revoke_all", "reread", "status"} : Continue(r, step)
    BY <1>11 DEF StorePassword, PatchRole, PatchReread, PatchStatus
  <2> QED
    BY <1>2, <1>3, <2>1, <2>2 DEF RotationStep
<1>12. ASSUME NEW r \in Request, BootstrapAdmin(r) \/ BootstrapLogin(r) PROVE HeirInv'
  <2>1. /\ ~At(r, "rotate") /\ UNCHANGED <<tokens, issued, delivered, forked>>
        /\ call[r].family = 0 /\ call[r].token = 0
    BY <1>12, <1>a DEF BootstrapAdmin, BootstrapLogin, At, CallOK
  <2> DEFINE A(u) == [call[r] EXCEPT !.step = "issue", !.user = u]
             L(u) == [call[r] EXCEPT !.step = "issue", !.user = u,
                                     !.password = users[u].password,
                                     !.deliver = (users[u].role = "admin")]
  <2>2. \A u : /\ A(u).step = "issue" /\ A(u).family = 0
               /\ L(u).step = "issue" /\ L(u).family = 0
    BY <1>a, <2>1 DEF Call
  <2>3. \A u : /\ A(u).token = 0 /\ L(u).token = 0
    BY <1>a, <2>1 DEF Call
  <2>4. \/ Ends(r) \/ Continue(r, "bootstrap_login")
        \/ \E u \in User : Becomes(r, A(u)) \/ Becomes(r, L(u))
    BY <1>12 DEF BootstrapAdmin, BootstrapLogin
  <2> HIDE DEF A, L
  <2>5. \A u : Opens(A(u)) /\ Opens(L(u))
    BY <2>2, <2>3 DEF Opens
  <2> QED
    BY <1>1, <1>2, <1>3, <1>a, <2>1, <2>2, <2>4, <2>5 DEF RotationStep
<1>13. ASSUME NEW r \in Request, Abandon(r) PROVE HeirInv'
  <2>1. /\ Becomes(r, Idle) /\ issued' = issued /\ delivered' = delivered /\ tokens' = tokens
        /\ forked \subseteq forked'
        /\ At(r, "rotate") => call[r].family \in forked'
    BY <1>13 DEF Abandon, Ends
  <2> QED
    BY <1>a, <1>b, <2>1, HeirLeaves
<1>14. ASSUME NEW r \in Request, CreateUser(r) \/ UpdateProfile(r) PROVE HeirInv'
  BY <1>14, <1>4 DEF CreateUser, UpdateProfile
<1>15. CASE ProvidersChange \/ UNCHANGED vars
  BY <1>15, <1>4 DEF ProvidersChange, vars
<1> QED
  BY <1>5, <1>6, <1>7, <1>8, <1>9, <1>10, <1>11, <1>12, <1>13, <1>14, <1>15, HeirRefresh
     DEF Next, SessionStep, UserStep, SetupStep

\* A client holds one live token per family, whatever is refreshed, revoked
\* or abandoned at a time: two are live only while one replaces the other, or
\* after a rotation of the family was raced or broke off.
THEOREM OneHeirPerFamily == Spec => []SingleHeir
<1>1. ASSUME AccountsInv, HeirInv PROVE SingleHeir
  <2> SUFFICES ASSUME NEW f \in TokenID, f \notin forked,
                      \A r \in Request : ~(At(r, "rotate") /\ call[r].family = f)
               PROVE  ~(Cardinality(LiveIn(tokens, f)) > 1)
    BY DEF SingleHeir
  <2>1. OneHeir(f)
    BY <1>1 DEF HeirInv
  <2>2. \A t, u \in LiveIn(tokens, f) : t = u
    <3>1. CASE InRotation(f)
      <4>1. PICK r \in Request : Rotates(call[r], f)
        BY <3>1 DEF InRotation, Rotates, RotationStep
      <4>2. ~At(r, "rotate")
        BY <4>1 DEF Rotates
      <4>3. LiveIn(tokens, f) \subseteq {call[r].token}
        BY <2>1, <4>1, <4>2 DEF OneHeir
      <4> QED
        BY <4>3
    <3>2. CASE ~InRotation(f)
      BY <2>1, <3>2 DEF OneHeir
    <3> QED
      BY <3>1, <3>2
  <2>3. CASE LiveIn(tokens, f) = {}
    BY <2>3, FS_EmptySet
  <2>4. ASSUME NEW t \in LiveIn(tokens, f) PROVE Cardinality(LiveIn(tokens, f)) = 1
    <3>1. LiveIn(tokens, f) = {t}
      BY <2>2, <2>4
    <3> QED
      BY <3>1, FS_Singleton
  <2> QED
    BY <2>3, <2>4
<1>2. Spec => []HeirInv
  BY HeirInit, HeirNext, Invariant, PTL DEF Spec
<1> QED
  BY <1>1, <1>2, Invariant, PTL

=============================================================================
