--------------------------- MODULE BrowserProofs ---------------------------
(***************************************************************************)
(* Proofs about the session and the cart a browser keeps, for any accounts *)
(* and requests, tabs, products and orders under way.                      *)
(***************************************************************************)
EXTENDS MCBrowser, TLAPS

-----------------------------------------------------------------------------
(* The session: its parts                                                  *)

RowRecord == [active : BOOLEAN, must : BOOLEAN,
              password : [n : 0..MaxPasswords, temporary : BOOLEAN]]
TokenRecord == [sub : Accounts \cup {NoAccount}, must : BOOLEAN, fresh : BOOLEAN]
TabRecord == [access : TokenRecord, refresh : Accounts \cup {NoAccount},
              actor : {"none", "staff", "customer"}]
FlightRecord == [stage : {"none", "sent", "issued", "refused", "failed"},
                 sub : Accounts \cup {NoAccount}, must : BOOLEAN]
FormRecord == [stage : {"none", "login", "checked", "issued"},
               sub : Accounts \cup {NoAccount}, must : BOOLEAN]

RowTyped == row \in [Accounts -> RowRecord]
TabTyped ==
  /\ tab \in TabRecord
  /\ tab.access # NoToken => tab.refresh = tab.access.sub

\* A request is in flight for some account.
FlightTyped ==
  /\ flight \in FlightRecord
  /\ flight.stage # "none" => flight.sub \in Accounts
FormTyped ==
  /\ form \in FormRecord
  /\ form.stage # "none" => form.sub \in Accounts
RequestTyped ==
  /\ request \in [Requests -> {"idle", "refused", "waiting"}]
  /\ leaving \subseteq Requests
  /\ user \in Accounts \cup {NoAccount}
  /\ overtaken \in BOOLEAN
  /\ \A q \in Requests : request[q] = "waiting" => flight.stage # "none"

\* The refresh in flight that nothing has overtaken is the user's.
FlightIsUsers == ~overtaken /\ flight.stage # "none" => flight.sub = user

SessionInv ==
  /\ RowTyped /\ TabTyped /\ FlightTyped /\ FormTyped /\ RequestTyped
  /\ FlightIsUsers
  /\ SessionIsUsers
  /\ TemporaryIsForced

LEMMA SessionTypes == SessionInv => SessionTypeOK
BY DEF SessionInv, RowTyped, TabTyped, FlightTyped, FormTyped, RequestTyped, SessionTypeOK,
       RowRecord, TokenRecord, TabRecord, FlightRecord, FormRecord

LEMMA SessionStarts == SessionInit => SessionInv
<1> SUFFICES ASSUME SessionInit PROVE SessionInv
  OBVIOUS
<1> USE SessionAssumption DEF SessionInit
<1>1. RowTyped /\ TemporaryIsForced
  <2>1. \A a \in Accounts : row[a] \in RowRecord
    <3> SUFFICES ASSUME NEW a \in Accounts PROVE row[a] \in RowRecord
      OBVIOUS
    <3>1. row[a] = [active |-> TRUE, must |-> a \in Customers,
                    password |-> [n |-> 0, temporary |-> a \in Customers]]
      OBVIOUS
    <3>2. (a \in Customers) \in BOOLEAN /\ 0 \in 0..MaxPasswords
      OBVIOUS
    <3>3. QED
      BY <3>1, <3>2 DEF RowRecord
  <2>2. RowTyped
    BY <2>1 DEF RowTyped
  <2>3. TemporaryIsForced
    BY DEF TemporaryIsForced, Accounts
  <2>4. QED
    BY <2>2, <2>3
<1>2. TabTyped /\ SessionIsUsers
  BY DEF TabTyped, TabRecord, TokenRecord, NoSession, NoToken, SessionIsUsers
<1>3. FlightTyped /\ FormTyped /\ RequestTyped /\ FlightIsUsers
  BY DEF FlightTyped, FlightRecord, NoFlight, FormTyped, FormRecord, NoForm, RequestTyped,
         FlightIsUsers
<1>4. QED
  BY <1>1, <1>2, <1>3 DEF SessionInv

-----------------------------------------------------------------------------
(* The session: its steps                                                  *)

\* Steps that write a row keep the flag and the temporary password together.
LEMMA RowSteps ==
  ASSUME SessionInv,
         \/ \E c \in Customers : ResetPassword(c)
         \/ \E a \in Accounts, b \in BOOLEAN : SetActive(a, b)
         \/ ChangePassword
  PROVE  SessionInv'
<1> USE SessionAssumption DEF SessionInv
<1>1. CASE \E c \in Customers : ResetPassword(c)
  <2> PICK c \in Customers : ResetPassword(c)
    BY <1>1
  <2>1. RowTyped' /\ TemporaryIsForced'
    BY DEF ResetPassword, RowTyped, RowRecord, TemporaryIsForced, Accounts
  <2>2. QED
    BY <2>1 DEF ResetPassword, TabTyped, FlightTyped, FormTyped, RequestTyped, FlightIsUsers,
                SessionIsUsers
<1>2. CASE \E a \in Accounts, b \in BOOLEAN : SetActive(a, b)
  <2> PICK a \in Accounts, b \in BOOLEAN : SetActive(a, b)
    BY <1>2
  <2>1. RowTyped' /\ TemporaryIsForced'
    BY DEF SetActive, RowTyped, RowRecord, TemporaryIsForced, Accounts
  <2>2. QED
    BY <2>1 DEF SetActive, TabTyped, FlightTyped, FormTyped, RequestTyped, FlightIsUsers,
                SessionIsUsers
<1>3. CASE ChangePassword
  <2>1. form.sub \in Accounts
    BY <1>3 DEF ChangePassword, FormTyped
  <2>2. RowTyped' /\ TemporaryIsForced'
    BY <1>3, <2>1 DEF ChangePassword, RowTyped, RowRecord, TemporaryIsForced, Accounts
  <2>3. FormTyped'
    BY <1>3, <2>1 DEF ChangePassword, FormTyped, FormRecord
  <2>4. QED
    BY <1>3, <2>2, <2>3 DEF ChangePassword, TabTyped, FlightTyped, RequestTyped,
                            FlightIsUsers, SessionIsUsers
<1>4. QED
  BY <1>1, <1>2, <1>3

\* Steps of the requests and of the refresh they share.
LEMMA RefreshSteps ==
  ASSUME SessionInv,
         \/ Expire \/ Reload \/ ServeRefresh \/ LoseRefresh \/ SettleRefresh
         \/ \E q \in Requests : Unauthorized(q) \/ Refresh(q)
  PROVE  SessionInv'
<1> USE SessionAssumption DEF SessionInv
<1>1. CASE Expire
  <2>1. tab' = [tab EXCEPT !.access = [tab.access EXCEPT !.fresh = FALSE]]
    BY <1>1 DEF Expire
  <2>2. tab.access \in TokenRecord /\ tab.access # NoToken
    BY <1>1 DEF Expire, TabTyped, TabRecord, NoToken
  <2>3. /\ tab'.access \in TokenRecord /\ tab'.access.sub = tab.access.sub
        /\ tab'.refresh = tab.refresh /\ tab'.actor = tab.actor /\ tab' \in TabRecord
    BY <2>1, <2>2 DEF TabTyped, TabRecord, TokenRecord
  <2>4. TabTyped' /\ SessionIsUsers'
    BY <1>1, <2>2, <2>3 DEF Expire, TabTyped, SessionIsUsers
  <2>5. QED
    BY <1>1, <2>4 DEF Expire, RowTyped, FlightTyped, FormTyped, RequestTyped, FlightIsUsers,
                      TemporaryIsForced
<1>2. CASE Reload
  <2>1. TabTyped' /\ SessionIsUsers'
    BY <1>2 DEF Reload, TabTyped, TabRecord, TokenRecord, SessionIsUsers, NoToken
  <2>2. FlightTyped' /\ RequestTyped' /\ FlightIsUsers'
    BY <1>2 DEF Reload, FlightTyped, FlightRecord, NoFlight, RequestTyped, FlightIsUsers
  <2>3. QED
    BY <1>2, <2>1, <2>2 DEF Reload, RowTyped, FormTyped, TemporaryIsForced
<1>3. CASE ServeRefresh
  <2>1. flight.sub \in Accounts /\ row[flight.sub].must \in BOOLEAN
    BY <1>3 DEF ServeRefresh, FlightTyped, RowTyped, RowRecord
  <2>2. FlightTyped' /\ FlightIsUsers' /\ RequestTyped'
    BY <1>3, <2>1 DEF ServeRefresh, FlightTyped, FlightRecord, FlightIsUsers, RequestTyped
  <2>3. QED
    BY <1>3, <2>2 DEF ServeRefresh, RowTyped, TabTyped, FormTyped, SessionIsUsers,
                      TemporaryIsForced
<1>4. CASE LoseRefresh
  <2>1. FlightTyped' /\ FlightIsUsers' /\ RequestTyped'
    BY <1>4 DEF LoseRefresh, FlightTyped, FlightRecord, FlightIsUsers, RequestTyped
  <2>2. QED
    BY <1>4, <2>1 DEF LoseRefresh, RowTyped, TabTyped, FormTyped, SessionIsUsers,
                      TemporaryIsForced
<1>5. CASE SettleRefresh
  <2>1. FlightTyped' /\ FlightIsUsers' /\ RowTyped' /\ FormTyped' /\ TemporaryIsForced'
    BY <1>5 DEF SettleRefresh, Resume, FlightTyped, FlightRecord, FlightIsUsers, NoFlight,
                RowTyped, FormTyped, TemporaryIsForced
  <2>2. RequestTyped'
    BY <1>5 DEF SettleRefresh, Resume, RequestTyped
  <2>3. flight.stage # "none" /\ flight.sub \in Accounts /\ flight.must \in BOOLEAN
    BY <1>5 DEF SettleRefresh, FlightTyped, FlightRecord
  <2>4. TabTyped' /\ SessionIsUsers'
    <3>1. CASE flight.stage = "issued"
      <4>1. /\ tab'.access = Token(flight.sub, flight.must) /\ tab'.refresh = flight.sub
            /\ tab'.actor = tab.actor /\ tab' \in TabRecord
        <5>1. tab' = [tab EXCEPT !.access = Token(flight.sub, flight.must),
                                 !.refresh = flight.sub]
          BY <1>5, <3>1 DEF SettleRefresh
        <5>2. Token(flight.sub, flight.must) \in TokenRecord
          BY <2>3 DEF Token, TokenRecord
        <5>3. QED
          BY <2>3, <5>1, <5>2 DEF TabTyped, TabRecord
      <4>2. tab'.refresh = tab'.access.sub
        BY <4>1 DEF Token
      <4>3. UNCHANGED <<user, overtaken>>
        BY <1>5, <3>1 DEF SettleRefresh
      <4>4. QED
        BY <2>3, <4>1, <4>2, <4>3 DEF TabTyped, SessionIsUsers, FlightIsUsers
    <3>2. CASE flight.stage = "refused"
      <4>1. tab' = NoSession /\ user' = NoAccount
        BY <1>5, <3>2 DEF SettleRefresh
      <4>2. QED
        BY <4>1 DEF TabTyped, TabRecord, TokenRecord, NoSession, NoToken, SessionIsUsers
    <3>3. CASE flight.stage = "failed"
      BY <1>5, <3>3 DEF SettleRefresh, TabTyped, SessionIsUsers
    <3>4. QED
      BY <1>5, <3>1, <3>2, <3>3 DEF SettleRefresh
  <2>5. QED
    BY <2>1, <2>2, <2>4
<1>6. ASSUME NEW q \in Requests, Unauthorized(q)
      PROVE  SessionInv'
  BY <1>6 DEF Unauthorized, RowTyped, TabTyped, FlightTyped, FormTyped, RequestTyped,
              FlightIsUsers, SessionIsUsers, TemporaryIsForced
<1>7. ASSUME NEW q \in Requests, Refresh(q)
      PROVE  SessionInv'
  <2>1. FlightTyped' /\ FlightIsUsers'
    <3>1. CASE flight' = [stage |-> "sent", sub |-> tab.refresh, must |-> FALSE]
               /\ tab.refresh # NoAccount
      <4>1. tab.refresh \in Accounts
        BY <3>1 DEF TabTyped, TabRecord
      <4>2. ~overtaken => tab.refresh = user
        BY DEF SessionIsUsers
      <4>3. UNCHANGED <<user, overtaken>>
        BY <1>7 DEF Refresh
      <4>4. QED
        BY <3>1, <4>1, <4>2, <4>3 DEF FlightTyped, FlightRecord, FlightIsUsers
    <3>2. CASE UNCHANGED flight
      BY <1>7, <3>2 DEF Refresh, FlightTyped, FlightIsUsers
    <3>3. QED
      BY <1>7, <3>1, <3>2 DEF Refresh
  <2>2. RequestTyped'
    BY <1>7 DEF Refresh, RequestTyped
  <2>3. QED
    BY <1>7, <2>1, <2>2 DEF Refresh, RowTyped, TabTyped, FormTyped, SessionIsUsers,
                            TemporaryIsForced
<1>8. QED
  BY <1>1, <1>2, <1>3, <1>4, <1>5, <1>6, <1>7

\* Steps of the two forms up to their answer.
LEMMA FormSteps ==
  ASSUME SessionInv,
         \/ \E a \in Accounts : Login(a)
         \/ ServeLogin \/ CheckPassword \/ LoseForm
  PROVE  SessionInv'
<1> USE SessionAssumption DEF SessionInv
<1>1. FormTyped'
  <2>1. CASE \E a \in Accounts : Login(a)
    BY <2>1 DEF Login, FormTyped, FormRecord
  <2>2. CASE ServeLogin
    <3>1. form.sub \in Accounts /\ row[form.sub].must \in BOOLEAN
      BY <2>2 DEF ServeLogin, FormTyped, RowTyped, RowRecord
    <3>2. QED
      BY <2>2, <3>1 DEF ServeLogin, FormTyped, FormRecord, NoForm
  <2>3. CASE CheckPassword
    BY <2>3 DEF CheckPassword, FormTyped, FormRecord, Accounts
  <2>4. CASE LoseForm
    BY <2>4 DEF LoseForm, FormTyped, FormRecord, NoForm
  <2>5. QED
    BY <2>1, <2>2, <2>3, <2>4
<1>2. UNCHANGED <<row, tab, flight, request, leaving, user, overtaken>>
  BY DEF Login, ServeLogin, CheckPassword, LoseForm
<1>3. QED
  BY <1>1, <1>2 DEF RowTyped, TabTyped, FlightTyped, RequestTyped, FlightIsUsers,
                    SessionIsUsers, TemporaryIsForced

\* Steps that begin and end a session in the tab.
LEMMA SessionSteps ==
  ASSUME SessionInv,
         Enter \/ \E q \in Requests : Logout(q) \/ LoggedOut(q)
  PROVE  SessionInv'
<1> USE SessionAssumption DEF SessionInv
<1>1. CASE Enter
  <2>1. form.sub \in Accounts /\ form.must \in BOOLEAN
    BY <1>1 DEF Enter, FormTyped, FormRecord
  <2>2. TabTyped' /\ SessionIsUsers'
    BY <1>1, <2>1 DEF Enter, TabTyped, TabRecord, TokenRecord, Token, NoToken, Kind,
                      SessionIsUsers
  <2>3. FormTyped'
    BY <1>1 DEF Enter, FormTyped, FormRecord, NoForm
  <2>4. RequestTyped' /\ FlightIsUsers'
    BY <1>1, <2>1 DEF Enter, RequestTyped, FlightIsUsers
  <2>5. QED
    BY <1>1, <2>2, <2>3, <2>4 DEF Enter, RowTyped, FlightTyped, TemporaryIsForced
<1>2. ASSUME Clear, leaving' \subseteq Requests,
             user' = NoAccount \/ (overtaken /\ user' = user),
             UNCHANGED <<row, flight, form, request>>
      PROVE  SessionInv'
  <2>1. TabTyped' /\ SessionIsUsers'
    BY <1>2 DEF Clear, TabTyped, TabRecord, TokenRecord, NoSession, NoToken, SessionIsUsers
  <2>2. RequestTyped' /\ FlightIsUsers'
    BY <1>2 DEF Clear, RequestTyped, FlightIsUsers
  <2>3. QED
    BY <1>2, <2>1, <2>2 DEF RowTyped, FlightTyped, FormTyped, TemporaryIsForced
<1>3. ASSUME NEW q \in Requests, LoggedOut(q)
      PROVE  SessionInv'
  BY <1>2, <1>3 DEF LoggedOut, RequestTyped
<1>4. ASSUME NEW q \in Requests, Logout(q)
      PROVE  SessionInv'
  <2>1. CASE Clear /\ user' = NoAccount /\ UNCHANGED leaving
    BY <1>2, <1>4, <2>1 DEF Logout, RequestTyped
  <2>2. CASE leaving' = leaving \cup {q} /\ UNCHANGED <<tab, user, overtaken>>
    BY <1>4, <2>2 DEF Logout, RowTyped, TabTyped, FlightTyped, FormTyped, RequestTyped,
                      FlightIsUsers, SessionIsUsers, TemporaryIsForced
  <2>3. QED
    BY <1>4, <2>1, <2>2 DEF Logout
<1>5. QED
  BY <1>1, <1>3, <1>4

LEMMA SessionStep ==
  ASSUME SessionInv, [SessionNext]_sessionVars
  PROVE  SessionInv'
<1>1. CASE SessionNext
  BY <1>1, RowSteps, RefreshSteps, FormSteps, SessionSteps DEF SessionNext
<1>2. CASE UNCHANGED sessionVars
  BY <1>2 DEF sessionVars, SessionInv, RowTyped, TabTyped, FlightTyped, FormTyped,
              RequestTyped, FlightIsUsers, SessionIsUsers, TemporaryIsForced
<1>3. QED
  BY <1>1, <1>2

-----------------------------------------------------------------------------
(* The cart: its parts                                                     *)

OrderRecord == [pc : {"none", "sent", "placed"}, tab : Tabs \cup {NoTab},
                items : SUBSET Products]

\* A product in two orders under way has been excused when the second was sent.
SharedExcused ==
  \A o1, o2 \in CartOrders :
    o1 # o2 => sending[o1].items \cap sending[o2].items \subseteq excused

\* An order on its way to the server repeats no product without excuse.
RepeatsExcused ==
  \A o \in CartOrders :
    sending[o].pc = "sent" => sending[o].items \cap ordered \subseteq excused

\* A product ordered already is in the cart only while its order is under way.
OrderedLeaves ==
  \A p \in ordered \cap stored :
    p \in excused \/ \E o \in CartOrders : p \in sending[o].items

CartInv ==
  /\ CartTypeOK
  /\ WantedKept
  /\ OrderedOnce
  /\ SharedExcused
  /\ RepeatsExcused
  /\ OrderedLeaves

LEMMA CartStarts == CartInit => CartInv
BY DEF CartInit, CartInv, CartTypeOK, WantedKept, OrderedOnce, SharedExcused, RepeatsExcused,
       OrderedLeaves, NoOrder

-----------------------------------------------------------------------------
(* The cart: its steps                                                     *)

\* Whatever a tab writes: the copies agree again where the tabs are up to date, and a
\* product the storage did not hold is excused unless the tab has just got it.
LEMMA WriteEffect ==
  ASSUME CartInv, NEW t \in Tabs, NEW next \in SUBSET Products, Write(t, next)
  PROVE  /\ lines' \in [Tabs -> SUBSET Products]
         /\ stored' = next
         /\ unheard' \subseteq Tabs
         /\ \A u \in Tabs \ unheard' : lines'[u] = stored'
         /\ excused' \subseteq Products /\ excused \subseteq excused'
         /\ (next \cap lines[t]) \ stored \subseteq excused'
BY DEF CartInv, CartTypeOK, Write

\* What is wanted and not overwritten is in the copy of the tab.
LEMMA OverwrittenRest ==
  ASSUME CartInv, NEW t \in Tabs
  PROVE  /\ wanted \ Overwritten(t) \subseteq lines[t]
         /\ lines[t] \subseteq Products
BY DEF CartInv, CartTypeOK, WantedKept, Overwritten

\* The steps that write the cart and send nothing.
LEMMA WriteSteps ==
  ASSUME CartInv, NEW t \in Tabs,
         \/ \E p \in Products : Add(t, p) \/ SetPallets(t, p) \/ RemoveLine(t, p)
         \/ EmptyCart(t)
  PROVE  CartInv'
<1>1. ASSUME NEW next \in SUBSET Products, Write(t, next),
             wanted' \subseteq next, ordered' \subseteq ordered,
             ordered' \cap next \subseteq lines[t],
             UNCHANGED <<sending, twice>>, page' = page
      PROVE  CartInv'
  <2>1. CartTypeOK'
    BY <1>1, WriteEffect DEF CartInv, CartTypeOK
  <2>2. WantedKept' /\ OrderedOnce'
    BY <1>1, WriteEffect DEF CartInv, WantedKept, OrderedOnce
  <2>3. SharedExcused' /\ RepeatsExcused'
    BY <1>1, WriteEffect DEF CartInv, SharedExcused, RepeatsExcused
  <2>4. OrderedLeaves'
    BY <1>1, WriteEffect DEF CartInv, OrderedLeaves
  <2>5. QED
    BY <2>1, <2>2, <2>3, <2>4 DEF CartInv
<1>2. ASSUME NEW p \in Products, Add(t, p)
      PROVE  CartInv'
  BY <1>1, <1>2, OverwrittenRest DEF Add
<1>3. ASSUME NEW p \in Products, SetPallets(t, p) \/ RemoveLine(t, p)
      PROVE  CartInv'
  BY <1>1, <1>3, OverwrittenRest DEF SetPallets, RemoveLine
<1>4. CASE EmptyCart(t)
  BY <1>1, <1>4, OverwrittenRest DEF EmptyCart
<1>5. QED
  BY <1>2, <1>3, <1>4

\* The steps of a tab that write nothing.
LEMMA TabSteps ==
  ASSUME CartInv, NEW t \in Tabs,
         Hear(t) \/ OpenCart(t) \/ LeaveCart(t) \/ ReloadTab(t)
  PROVE  CartInv'
<1>1. UNCHANGED <<stored, wanted, ordered, excused, twice>>
  BY DEF Hear, OpenCart, LeaveCart, ReloadTab
<1>2. /\ sending' \in [CartOrders -> OrderRecord]
      /\ \A o \in CartOrders : /\ sending'[o].items = sending[o].items
                               /\ sending'[o].pc = sending[o].pc
  BY DEF Hear, OpenCart, LeaveCart, ReloadTab, Unmounted, CartInv, CartTypeOK, OrderRecord
<1>3. CartTypeOK'
  BY <1>1, <1>2 DEF Hear, OpenCart, LeaveCart, ReloadTab, CartInv, CartTypeOK, OrderRecord
<1>4. QED
  BY <1>1, <1>2, <1>3 DEF CartInv, WantedKept, OrderedOnce, SharedExcused, RepeatsExcused,
                          OrderedLeaves

\* An order that ends with an answer empties the cart, one that ends without is excused.
LEMMA OrderSteps ==
  ASSUME CartInv, NEW o \in CartOrders,
         \/ \E t \in Tabs : Submit(t, o)
         \/ PlaceOrder(o) \/ OrderSucceeded(o) \/ OrderUnanswered(o)
  PROVE  CartInv'
<1>1. ASSUME NEW t \in Tabs, Submit(t, o)
      PROVE  CartInv'
  <2>1. /\ lines[t] \subseteq Products
        /\ sending' = [sending EXCEPT ![o] = [pc |-> "sent", tab |-> t, items |-> lines[t]]]
        /\ excused' = excused \cup (lines[t] \cap UnderWay) \cup (lines[t] \ stored)
        /\ UNCHANGED <<stored, lines, unheard, page, wanted, ordered, twice>>
        /\ sending[o].items = {}
    BY <1>1 DEF Submit, CartInv, CartTypeOK, NoOrder
  <2>2. CartTypeOK'
    BY <2>1 DEF CartInv, CartTypeOK
  <2>3. \A p \in lines[t], v \in CartOrders : p \in sending[v].items => p \in excused'
    BY <2>1 DEF UnderWay
  <2>4. \A v \in CartOrders : sending'[v] = IF v = o
            THEN [pc |-> "sent", tab |-> t, items |-> lines[t]] ELSE sending[v]
    BY <2>1 DEF CartInv, CartTypeOK
  <2>5. SharedExcused'
    BY <2>1, <2>3, <2>4 DEF CartInv, SharedExcused
  <2>6. RepeatsExcused'
    <3>1. \A p \in lines[t] \cap ordered : p \in excused'
      BY <2>1, <2>3 DEF CartInv, OrderedLeaves
    <3>2. QED
      BY <2>1, <2>4, <3>1 DEF CartInv, RepeatsExcused
  <2>7. OrderedLeaves' /\ WantedKept' /\ OrderedOnce'
    BY <2>1, <2>4 DEF CartInv, OrderedLeaves, WantedKept, OrderedOnce
  <2>8. QED
    BY <2>2, <2>5, <2>6, <2>7 DEF CartInv
<1>2. CASE PlaceOrder(o)
  <2>1. \A v \in CartOrders : /\ sending'[v].items = sending[v].items
                              /\ sending'[v].tab = sending[v].tab
                              /\ sending'[v].pc = IF v = o THEN "placed" ELSE sending[v].pc
    BY <1>2 DEF PlaceOrder, CartInv, CartTypeOK
  <2>2. CartTypeOK'
    <3>1. sending' \in [CartOrders -> OrderRecord]
      BY <1>2 DEF PlaceOrder, CartInv, CartTypeOK, OrderRecord
    <3>2. sending[o].items \subseteq Products
      BY DEF CartInv, CartTypeOK
    <3>3. QED
      BY <1>2, <3>1, <3>2 DEF PlaceOrder, CartInv, CartTypeOK, OrderRecord
  <2>3. WantedKept' /\ OrderedOnce'
    BY <1>2 DEF PlaceOrder, CartInv, WantedKept, OrderedOnce, RepeatsExcused
  <2>4. SharedExcused' /\ RepeatsExcused' /\ OrderedLeaves'
    BY <1>2, <2>1 DEF PlaceOrder, CartInv, SharedExcused, RepeatsExcused, OrderedLeaves
  <2>5. QED
    BY <2>2, <2>3, <2>4 DEF CartInv
<1>3. CASE OrderSucceeded(o)
  <2>1. PICK t \in Tabs : t = sending[o].tab
    BY <1>3 DEF OrderSucceeded, CartInv, CartTypeOK
  <2>2. /\ Write(t, {})
        /\ sending' = [sending EXCEPT ![o] = NoOrder]
        /\ page' = [page EXCEPT ![t] = "other"]
        /\ wanted' = wanted \ stored
        /\ UNCHANGED <<ordered, twice>>
    BY <1>3, <2>1 DEF OrderSucceeded
  <2>3. \A v \in CartOrders : sending'[v] = IF v = o THEN NoOrder ELSE sending[v]
    BY <2>2 DEF CartInv, CartTypeOK
  <2>4. NoOrder \in OrderRecord
    BY DEF NoOrder, OrderRecord
  <2>5. CartTypeOK'
    BY <2>2, <2>4, WriteEffect DEF CartInv, CartTypeOK, OrderRecord
  <2>6. WantedKept' /\ OrderedOnce' /\ OrderedLeaves'
    BY <2>2, WriteEffect DEF CartInv, WantedKept, OrderedOnce, OrderedLeaves
  <2>7. SharedExcused' /\ RepeatsExcused'
    BY <2>2, <2>3, WriteEffect DEF CartInv, SharedExcused, RepeatsExcused, NoOrder
  <2>8. QED
    BY <2>5, <2>6, <2>7 DEF CartInv
<1>4. CASE OrderUnanswered(o)
  <2>1. /\ excused' = IF sending[o].pc = "placed"
                      THEN excused \cup sending[o].items ELSE excused
        /\ sending' = [sending EXCEPT ![o] = NoOrder]
        /\ sending[o].pc = "sent" \/ sending[o].pc = "placed"
        /\ UNCHANGED <<stored, lines, unheard, page, wanted, ordered, twice>>
    BY <1>4 DEF OrderUnanswered
  <2>2. \A v \in CartOrders : sending'[v] = IF v = o THEN NoOrder ELSE sending[v]
    BY <2>1 DEF CartInv, CartTypeOK
  <2>3. NoOrder \in OrderRecord /\ sending[o].items \subseteq Products
    BY DEF NoOrder, OrderRecord, CartInv, CartTypeOK
  <2>4. CartTypeOK'
    BY <2>1, <2>3 DEF CartInv, CartTypeOK, OrderRecord
  <2>5. WantedKept' /\ OrderedOnce' /\ SharedExcused' /\ RepeatsExcused'
    BY <2>1, <2>2 DEF CartInv, WantedKept, OrderedOnce, SharedExcused, RepeatsExcused, NoOrder
  <2>6. OrderedLeaves'
    <3>1. \A p \in sending[o].items \cap ordered : p \in excused'
      BY <2>1 DEF CartInv, RepeatsExcused
    <3>2. QED
      BY <2>1, <2>2, <3>1 DEF CartInv, OrderedLeaves
  <2>7. QED
    BY <2>4, <2>5, <2>6 DEF CartInv
<1>5. QED
  BY <1>1, <1>2, <1>3, <1>4

LEMMA CartStep ==
  ASSUME CartInv, [CartNext]_cartVars
  PROVE  CartInv'
<1>1. CASE CartNext
  BY <1>1, WriteSteps, TabSteps, OrderSteps DEF CartNext
<1>2. CASE UNCHANGED cartVars
  BY <1>2 DEF cartVars, CartInv, CartTypeOK, WantedKept, OrderedOnce, SharedExcused,
              RepeatsExcused, OrderedLeaves
<1>3. QED
  BY <1>1, <1>2

-----------------------------------------------------------------------------
(* The theorems                                                            *)

\* The session's invariant holds: types, the refresh in flight is the user's unless
\* something overtook it, and what SessionIsUsers and TemporaryIsForced say.
THEOREM SessionInvariant == SessionSpec => []SessionInv
<1>1. QED
  BY SessionStarts, SessionStep, PTL DEF SessionSpec

\* The session in the tab is the one its user entered (session.ts 13-35 and 72-84).
THEOREM SessionStaysTheUsers == SessionSpec => []SessionIsUsers
<1>1. SessionInv => SessionIsUsers
  BY DEF SessionInv
<1>2. QED
  BY <1>1, SessionInvariant, PTL

\* A password an admin has chosen is in force exactly while the row demands a change
\* (password-change-required.guard.ts 13-15).
THEOREM TemporaryPasswordsAreForced == SessionSpec => []TemporaryIsForced
<1>1. SessionInv => TemporaryIsForced
  BY DEF SessionInv
<1>2. QED
  BY <1>1, SessionInvariant, PTL

\* The cart's invariant holds: types, and a product ordered already is in the storage,
\* in an order sent, or in two orders under way, only when that was excused.
THEOREM CartInvariant == CartSpec => []CartInv
<1>1. QED
  BY CartStarts, CartStep, PTL DEF CartSpec

\* What was put in the cart stays until it is taken out or ordered (cart-store.ts 19-20).
THEOREM CartKeepsWhatIsWanted == CartSpec => []WantedKept
<1>1. CartInv => WantedKept
  BY DEF CartInv
<1>2. QED
  BY <1>1, CartInvariant, PTL

\* A cart is ordered once but for the excuses named in the model (CartPage.tsx 67-102).
THEOREM CartIsOrderedOnce == CartSpec => []OrderedOnce
<1>1. CartInv => OrderedOnce
  BY DEF CartInv
<1>2. QED
  BY <1>1, CartInvariant, PTL

\* Both live in one browser and share nothing: what is said of either holds of the
\* browser, in one behaviour.
THEOREM BrowserKeeps ==
  BrowserSpec => [](/\ BrowserTypeOK
                    /\ SessionIsUsers /\ TemporaryIsForced
                    /\ WantedKept /\ OrderedOnce)
<1> DEFINE Inv == SessionInv /\ CartInv
<1>1. BrowserInit => Inv
  BY SessionStarts, CartStarts DEF BrowserInit
<1>2. Inv /\ [BrowserNext]_browserVars => Inv'
  <2> SUFFICES ASSUME Inv, [BrowserNext]_browserVars PROVE Inv'
    OBVIOUS
  <2>1. [SessionNext]_sessionVars /\ [CartNext]_cartVars
    BY DEF BrowserNext, browserVars
  <2>2. QED
    BY <2>1, SessionStep, CartStep
<1>3. Inv => /\ BrowserTypeOK
             /\ SessionIsUsers /\ TemporaryIsForced
             /\ WantedKept /\ OrderedOnce
  BY SessionTypes DEF BrowserTypeOK, SessionInv, CartInv
<1>4. QED
  BY <1>1, <1>2, <1>3, PTL DEF BrowserSpec

=============================================================================
