--------------------------- MODULE SessionTokens ---------------------------
(***************************************************************************)
(* One dashboard tab and the account rows its tokens speak for: session.ts *)
(* and token-store.ts in the browser, auth.service.ts, the password reset  *)
(* and the account switch on the server.  Tokens are stateless: what a     *)
(* token says was read from the row when it was issued, and nothing takes  *)
(* it back before it expires.  A refresh token only names its account.     *)
(*                                                                         *)
(* The tab is single threaded: an answer and the continuations it resolves *)
(* are one step.  A request that succeeds changes nothing here and has no  *)
(* action; a 401 does, and its answer may come after anything else.        *)
(***************************************************************************)
EXTENDS Naturals

CONSTANTS
  Customers, Staff,  \* accounts of the two tables
  Requests,          \* requests the tab may have open
  MaxPasswords,      \* bound on passwords set per account
  NoAccount

Accounts == Customers \cup Staff

ASSUME SessionAssumption ==
  /\ Customers \cap Staff = {}
  /\ NoAccount \notin Accounts
  /\ MaxPasswords \in Nat

VARIABLES
  row,        \* row[a]: isActive, mustChangePassword, passwordHash
  tab,        \* the token store of the tab
  flight,     \* the refresh in flight
  form,       \* the login or the password change in flight
  request,    \* request[q]: idle, its 401 on the way back, or awaiting the refresh
  leaving,    \* the requests of POST /auth/logout not answered yet
  user,       \* ghost: the account the user last entered and has not left
  overtaken   \* ghost: a logout or a login passed an answer still on its way

sessionVars == <<row, tab, flight, form, request, leaving, user, overtaken>>

Kind(a) == IF a \in Customers THEN "customer" ELSE "staff"

NoToken == [sub |-> NoAccount, must |-> FALSE, fresh |-> FALSE]
NoSession == [access |-> NoToken, refresh |-> NoAccount, actor |-> "none"]
NoFlight == [stage |-> "none", sub |-> NoAccount, must |-> FALSE]
NoForm == [stage |-> "none", sub |-> NoAccount, must |-> FALSE]

SessionInit ==
  /\ row = [a \in Accounts |->
       [active |-> TRUE, must |-> a \in Customers,
        password |-> [n |-> 0, temporary |-> a \in Customers]]]
  /\ tab = NoSession
  /\ flight = NoFlight
  /\ form = NoForm
  /\ request = [q \in Requests |-> "idle"]
  /\ leaving = {}
  /\ user = NoAccount
  /\ overtaken = FALSE

\* What an access token issued from the row of a says of it.
Token(a, must) == [sub |-> a, must |-> must, fresh |-> TRUE]

-----------------------------------------------------------------------------
(* The rows                                                                *)

\* Mutant of ResetPassword: the flag is not raised again.
ResetPasswordHashOnly(c) ==
  /\ row[c].password.n < MaxPasswords
  /\ row' = [row EXCEPT
       ![c].password = [n |-> row[c].password.n + 1, temporary |-> TRUE]]
  /\ UNCHANGED <<tab, flight, form, request, leaving, user, overtaken>>

\* CustomersService.resetPassword: hash and flag in one UPDATE.
ResetPassword(c) ==
  /\ row[c].password.n < MaxPasswords
  /\ row' = [row EXCEPT ![c].must = TRUE,
       ![c].password = [n |-> row[c].password.n + 1, temporary |-> TRUE]]
  /\ UNCHANGED <<tab, flight, form, request, leaving, user, overtaken>>

\* setActive of a customer; deactivate and update of an employee.
SetActive(a, isActive) ==
  /\ row[a].active # isActive
  /\ row' = [row EXCEPT ![a].active = isActive]
  /\ UNCHANGED <<tab, flight, form, request, leaving, user, overtaken>>

-----------------------------------------------------------------------------
(* Requests of the tab                                                     *)

\* The access token outlives its 15 minutes.
Expire ==
  /\ tab.access.fresh
  /\ tab' = [tab EXCEPT !.access.fresh = FALSE]
  /\ UNCHANGED <<row, flight, form, request, leaving, user, overtaken>>

\* The page is loaded again: the refresh token and the actor are in localStorage,
\* all else is gone.
Reload ==
  /\ form.stage = "none"
  /\ tab' = [tab EXCEPT !.access = NoToken]
  /\ flight' = NoFlight
  /\ request' = [q \in Requests |-> "idle"]
  /\ leaving' = {}
  /\ UNCHANGED <<row, form, user, overtaken>>

\* A request is refused with 401: no token, an expired one, or the account's own
\* profile when the row is not active.  Other requests do not look at the row.
Unauthorized(q) ==
  /\ request[q] = "idle"
  /\ tab.refresh # NoAccount
  /\ tab.access.fresh => ~row[tab.access.sub].active
  /\ request' = [request EXCEPT ![q] = "refused"]
  /\ UNCHANGED <<row, tab, flight, form, leaving, user, overtaken>>

\* Its answer arrives and withAuthRetry calls refresh: join the one in flight,
\* give up if the session is gone, else send the refresh token of the store.
Refresh(q) ==
  /\ request[q] = "refused"
  /\ \/ /\ flight.stage # "none"
        /\ request' = [request EXCEPT ![q] = "waiting"]
        /\ UNCHANGED flight
     \/ /\ flight.stage = "none" /\ tab.refresh = NoAccount
        /\ request' = [request EXCEPT ![q] = "idle"]
        /\ UNCHANGED flight
     \/ /\ flight.stage = "none" /\ tab.refresh # NoAccount
        /\ request' = [request EXCEPT ![q] = "waiting"]
        /\ flight' = [stage |-> "sent", sub |-> tab.refresh, must |-> FALSE]
  /\ UNCHANGED <<row, tab, form, leaving, user, overtaken>>

\* Mutant of ServeRefresh: the payload of the old token is signed again.
ServeRefreshFromToken ==
  /\ flight.stage = "sent"
  /\ flight' = IF row[flight.sub].active
               THEN [stage |-> "issued", sub |-> flight.sub, must |-> tab.access.must]
               ELSE [flight EXCEPT !.stage = "refused"]
  /\ UNCHANGED <<row, tab, form, request, leaving, user, overtaken>>

\* refreshTokens and refreshCustomerTokens: role, branch and flag are read again,
\* an account that is not active is refused.
ServeRefresh ==
  /\ flight.stage = "sent"
  /\ flight' = IF row[flight.sub].active
               THEN [stage |-> "issued", sub |-> flight.sub, must |-> row[flight.sub].must]
               ELSE [flight EXCEPT !.stage = "refused"]
  /\ UNCHANGED <<row, tab, form, request, leaving, user, overtaken>>

\* The network or a 5xx loses the refresh or its answer.
LoseRefresh ==
  /\ flight.stage \in {"sent", "issued", "refused"}
  /\ flight' = [flight EXCEPT !.stage = "failed", !.must = FALSE]
  /\ UNCHANGED <<row, tab, form, request, leaving, user, overtaken>>

\* Requests that wait for the refresh are sent once more, whatever it brought; a
\* second 401 is final.
Resume ==
  /\ flight' = NoFlight
  /\ request' = [q \in Requests |->
       IF request[q] = "waiting" THEN "idle" ELSE request[q]]

\* Mutant of SettleRefresh: a lost answer clears the store as well.
SettleRefreshClears ==
  /\ \/ /\ flight.stage = "issued"
        /\ tab' = [tab EXCEPT !.access = Token(flight.sub, flight.must),
                              !.refresh = flight.sub]
        /\ UNCHANGED user
     \/ /\ flight.stage = "refused"
        /\ tab' = NoSession
        /\ user' = NoAccount
     \/ /\ flight.stage = "failed"
        /\ tab' = NoSession
        /\ UNCHANGED user
  /\ Resume
  /\ UNCHANGED <<row, form, leaving, overtaken>>

\* The answer of the refresh: new tokens keep the actor, a refusal ends the
\* session of the tab, a failure leaves it.
SettleRefresh ==
  /\ \/ /\ flight.stage = "issued"
        /\ tab' = [tab EXCEPT !.access = Token(flight.sub, flight.must),
                              !.refresh = flight.sub]
        /\ UNCHANGED user
     \/ /\ flight.stage = "refused"
        /\ tab' = NoSession
        /\ user' = NoAccount
     \/ /\ flight.stage = "failed"
        /\ UNCHANGED <<tab, user>>
  /\ Resume
  /\ UNCHANGED <<row, form, leaving, overtaken>>

-----------------------------------------------------------------------------
(* login, changeWholesalePassword, logout                                  *)

\* The login page is shown to a tab without a session; the password typed is the
\* one of the row (another gets 401 and changes nothing).
Login(a) ==
  /\ form.stage = "none"
  /\ tab.refresh = NoAccount
  /\ form' = [stage |-> "login", sub |-> a, must |-> FALSE]
  /\ UNCHANGED <<row, tab, flight, request, leaving, user, overtaken>>

ServeLogin ==
  /\ form.stage = "login"
  /\ form' = IF row[form.sub].active
             THEN [form EXCEPT !.stage = "issued", !.must = row[form.sub].must]
             ELSE NoForm
  /\ UNCHANGED <<row, tab, flight, request, leaving, user, overtaken>>

\* The form is sent with a live token of a customer; the server reads the row and
\* finds it active and the old password right.
CheckPassword ==
  /\ form.stage = "none"
  /\ tab.access.fresh
  /\ tab.access.sub \in Customers
  /\ row[tab.access.sub].active
  /\ form' = [stage |-> "checked", sub |-> tab.access.sub, must |-> FALSE]
  /\ UNCHANGED <<row, tab, flight, request, leaving, user, overtaken>>

\* The UPDATE of changeWholesalePassword is unconditional: a reset that came after
\* the check is overwritten.
ChangePassword ==
  /\ form.stage = "checked"
  /\ row[form.sub].password.n < MaxPasswords
  /\ row' = [row EXCEPT ![form.sub].must = FALSE,
       ![form.sub].password =
          [n |-> row[form.sub].password.n + 1, temporary |-> FALSE]]
  /\ form' = [form EXCEPT !.stage = "issued", !.must = FALSE]
  /\ UNCHANGED <<tab, flight, request, leaving, user, overtaken>>

\* The form fails before the UPDATE, or its answer is lost.
LoseForm ==
  /\ form.stage # "none"
  /\ form' = NoForm
  /\ UNCHANGED <<row, tab, flight, request, leaving, user, overtaken>>

\* setTokens with the actor.  A refresh still in flight will overwrite them, a logout
\* still in flight will clear them.
Enter ==
  /\ form.stage = "issued"
  /\ tab' = [access |-> Token(form.sub, form.must), refresh |-> form.sub,
             actor |-> Kind(form.sub)]
  /\ form' = NoForm
  /\ user' = form.sub
  /\ overtaken' =
       \/ flight.stage # "none"
            /\ (overtaken \/ flight.sub # form.sub \/ tab.refresh = NoAccount)
       \/ leaving # {} /\ (overtaken \/ tab.refresh = NoAccount)
  /\ UNCHANGED <<row, flight, request, leaving>>

\* Mutant of Clear: the access token stays in memory.
ClearStorageOnly ==
  /\ tab' = [NoSession EXCEPT !.access = tab.access]
  /\ overtaken' = (overtaken \/ flight.stage # "none" \/ form.stage # "none")

\* store.clear(): it takes nothing back that is still on its way.
Clear ==
  /\ tab' = NoSession
  /\ overtaken' = (overtaken \/ flight.stage # "none" \/ form.stage # "none")

\* logout with an access token tells the server first, through withAuthRetry.
Logout(q) ==
  /\ tab.refresh # NoAccount
  /\ \/ /\ tab.access # NoToken
        /\ request[q] = "idle"
        /\ leaving' = leaving \cup {q}
        /\ UNCHANGED <<tab, user, overtaken>>
     \/ /\ tab.access = NoToken
        /\ Clear
        /\ user' = NoAccount
        /\ UNCHANGED leaving
  /\ UNCHANGED <<row, flight, form, request>>

\* The call ended, well or not: finally clears the store, whoever's session is in it.
\* The user of a session entered since the logout was sent has not left it.
LoggedOut(q) ==
  /\ q \in leaving
  /\ request[q] = "idle"
  /\ Clear
  /\ leaving' = leaving \ {q}
  /\ user' = IF overtaken THEN user ELSE NoAccount
  /\ UNCHANGED <<row, flight, form, request>>

-----------------------------------------------------------------------------
SessionNext ==
  \/ \E c \in Customers : ResetPassword(c)
  \/ \E a \in Accounts, b \in BOOLEAN : SetActive(a, b)
  \/ Expire \/ Reload \/ ServeRefresh \/ LoseRefresh \/ SettleRefresh
  \/ \E q \in Requests : Unauthorized(q) \/ Refresh(q) \/ Logout(q) \/ LoggedOut(q)
  \/ \E a \in Accounts : Login(a)
  \/ ServeLogin \/ CheckPassword \/ ChangePassword \/ LoseForm \/ Enter

\* Time passes, and what was sent is answered or lost.
SessionFairness ==
  /\ WF_sessionVars(Expire)
  /\ WF_sessionVars(ServeRefresh \/ LoseRefresh)
  /\ WF_sessionVars(SettleRefresh)
  /\ WF_sessionVars(ServeLogin \/ ChangePassword \/ Enter \/ LoseForm)

SessionSpec == SessionInit /\ [][SessionNext]_sessionVars /\ SessionFairness

-----------------------------------------------------------------------------
(* Properties                                                              *)

\* Types; whoever waits waits for a refresh that is in flight, and the store holds
\* an access token only next to the refresh token of the same account.
SessionTypeOK ==
  /\ row \in [Accounts -> [active : BOOLEAN, must : BOOLEAN,
                password : [n : 0..MaxPasswords, temporary : BOOLEAN]]]
  /\ tab \in [access : [sub : Accounts \cup {NoAccount}, must : BOOLEAN, fresh : BOOLEAN],
              refresh : Accounts \cup {NoAccount},
              actor : {"none", "staff", "customer"}]
  /\ flight \in [stage : {"none", "sent", "issued", "refused", "failed"},
                 sub : Accounts \cup {NoAccount}, must : BOOLEAN]
  /\ form \in [stage : {"none", "login", "checked", "issued"},
               sub : Accounts \cup {NoAccount}, must : BOOLEAN]
  /\ request \in [Requests -> {"idle", "refused", "waiting"}]
  /\ leaving \subseteq Requests
  /\ user \in Accounts \cup {NoAccount}
  /\ overtaken \in BOOLEAN
  /\ \A q \in Requests : request[q] = "waiting" => flight.stage # "none"
  /\ tab.access # NoToken => tab.refresh = tab.access.sub

\* The session in the tab is the one its user entered and has not left, and routed
\* as that kind of account: neither a refresh, nor a lost answer, nor a reload
\* ends it, changes its owner or brings it back (session.ts 13-35 and 72-84).  The
\* exception is a refresh, a form or a logout that a logout or a login overtook: its
\* answer is still written to the store, or still clears it.
SessionIsUsers ==
  ~overtaken =>
    /\ tab.refresh = user
    /\ user # NoAccount => tab.actor = Kind(user)

\* A password an admin has chosen cannot be kept: it is in force exactly while the
\* row demands a change, whatever way resets and changes cross
\* (password-change-required.guard.ts 13-15).
TemporaryIsForced ==
  \A c \in Customers : row[c].must <=> row[c].password.temporary

Live(a) == tab.access.sub = a /\ tab.access.fresh

\* Tokens catch up with the row: once an account is switched off for good, its
\* last live token dies and is not renewed; once a reset or a password change is the
\* last word on a customer, no live token says otherwise for ever
\* (auth.service.ts 350-352 and 421-423).
TokensCatchUp ==
  /\ \A a \in Accounts : <>[](~row[a].active) => <>[]~Live(a)
  /\ \A c \in Customers, m \in BOOLEAN :
       <>[](row[c].must = m) => <>[](Live(c) => tab.access.must = m)

=============================================================================
