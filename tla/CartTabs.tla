------------------------------ MODULE CartTabs ------------------------------
(***************************************************************************)
(* The customer's cart (cart-store.ts, cart.ts, CartPage.tsx): it lives in *)
(* localStorage, every tab holds a copy and writes the whole of it back,   *)
(* and the browser tells the other tabs afterwards.  The order is sent     *)
(* from the cart page, which empties the cart when the answer comes, if    *)
(* the page is still there.                                                *)
(*                                                                         *)
(* A cart is the set of its products, of which only a few are modelled:    *)
(* how many pallets a line has is left out, not that changing them writes  *)
(* the cart, and a cart may be full because of lines that are not here.    *)
(***************************************************************************)
EXTENDS Naturals

CONSTANTS
  Tabs, Products,
  CartOrders,  \* POST /orders that may be under way at once
  NoTab

ASSUME CartAssumption == NoTab \notin Tabs

VARIABLES
  stored,   \* the cart in localStorage
  lines,    \* lines[t]: the copy of the tab
  unheard,  \* tabs with a storage event to come
  page,     \* page[t]: whether the tab shows the cart page
  sending,  \* sending[o]: an order under way
  wanted,   \* ghost: products put in the cart and since then not taken out, not ordered
            \* and not lost in a way named where it happens
  ordered,  \* ghost: products ordered and not put in the cart again since
  excused,  \* ghost: products that may be ordered again, each where the reason arises
  twice     \* ghost: products ordered again without such a reason

cartVars == <<stored, lines, unheard, page, sending, wanted, ordered, excused, twice>>

NoOrder == [pc |-> "none", tab |-> NoTab, items |-> {}]

CartInit ==
  /\ stored = {}
  /\ lines = [t \in Tabs |-> {}]
  /\ unheard = {}
  /\ page = [t \in Tabs |-> "other"]
  /\ sending = [o \in CartOrders |-> NoOrder]
  /\ wanted = {} /\ ordered = {} /\ excused = {} /\ twice = {}

\* Products of the orders under way.
UnderWay == UNION {sending[o].items : o \in CartOrders}

-----------------------------------------------------------------------------
(* cart-store.ts                                                           *)

\* write: the copy of the tab, then the storage; the other tabs are told when the
\* stored value changed, and a change of pallets changes it.  A tab that has not
\* heard of the last write undoes it: what it did not know of is lost, and what it
\* did not know was gone is back.
Write(t, next) ==
  /\ lines' = [lines EXCEPT ![t] = next]
  /\ stored' = next
  /\ unheard' = unheard \cup (Tabs \ {t})
  /\ excused' = IF t \in unheard THEN excused \cup ((next \cap lines[t]) \ stored) ELSE excused

\* Lines of the storage that t overwrites without knowing of them.
Overwritten(t) == IF t \in unheard THEN stored \ lines[t] ELSE {}

\* add: a product already there gets more pallets, a full cart stays as it is; both
\* write.  Catalogue and product pages have the button, the cart page has not.
Add(t, p) ==
  /\ page[t] = "other"
  /\ \/ /\ Write(t, lines[t] \cup {p})
        /\ wanted' = (wanted \ Overwritten(t)) \cup {p}
        /\ ordered' = ordered \ {p}
     \/ /\ p \notin lines[t]
        /\ Write(t, lines[t])
        /\ wanted' = wanted \ Overwritten(t)
        /\ UNCHANGED ordered
  /\ UNCHANGED <<page, sending, twice>>

SetPallets(t, p) ==
  /\ page[t] = "cart"
  /\ p \in lines[t]
  /\ Write(t, lines[t])
  /\ wanted' = wanted \ Overwritten(t)
  /\ UNCHANGED <<page, sending, ordered, twice>>

RemoveLine(t, p) ==
  /\ page[t] = "cart"
  /\ p \in lines[t]
  /\ Write(t, lines[t] \ {p})
  /\ wanted' = wanted \ (Overwritten(t) \cup {p})
  /\ UNCHANGED <<page, sending, ordered, twice>>

\* The page's mutation is pending.
Pending(t) == \E o \in CartOrders : sending[o].tab = t

\* "Empty the cart": not while the order is being sent.
EmptyCart(t) ==
  /\ page[t] = "cart"
  /\ lines[t] # {} /\ ~Pending(t)
  /\ Write(t, {})
  /\ wanted' = wanted \ (Overwritten(t) \cup lines[t])
  /\ UNCHANGED <<page, sending, ordered, twice>>

\* Mutant of Hear: the tab writes its own copy once more.
HearOwn(t) ==
  /\ t \in unheard
  /\ stored' = lines[t]
  /\ unheard' = unheard \ {t}
  /\ UNCHANGED <<lines, page, sending, wanted, ordered, excused, twice>>

\* sync: read, and write what was read, which changes nothing stored.
Hear(t) ==
  /\ t \in unheard
  /\ lines' = [lines EXCEPT ![t] = stored]
  /\ unheard' = unheard \ {t}
  /\ UNCHANGED <<stored, page, sending, wanted, ordered, excused, twice>>

-----------------------------------------------------------------------------
(* CartPage.tsx                                                            *)

\* What the unmounted page sent goes on, but onSuccess is not called any more.
Unmounted(t) ==
  [o \in CartOrders |->
     IF sending[o].tab = t THEN [sending[o] EXCEPT !.tab = NoTab] ELSE sending[o]]

OpenCart(t) ==
  /\ page[t] = "other"
  /\ page' = [page EXCEPT ![t] = "cart"]
  /\ UNCHANGED <<stored, lines, unheard, sending, wanted, ordered, excused, twice>>

LeaveCart(t) ==
  /\ page[t] = "cart"
  /\ page' = [page EXCEPT ![t] = "other"]
  /\ sending' = Unmounted(t)
  /\ UNCHANGED <<stored, lines, unheard, wanted, ordered, excused, twice>>

\* The tab is reloaded, or closed and opened: it reads the storage again.
ReloadTab(t) ==
  /\ lines' = [lines EXCEPT ![t] = stored]
  /\ unheard' = unheard \ {t}
  /\ sending' = Unmounted(t)
  /\ UNCHANGED <<stored, page, wanted, ordered, excused, twice>>

\* submit: the lines of this render.  They may be under way already from another
\* page, or have left the storage without the tab having heard.
Submit(t, o) ==
  /\ page[t] = "cart"
  /\ lines[t] # {} /\ ~Pending(t)
  /\ sending[o] = NoOrder
  /\ sending' = [sending EXCEPT ![o] = [pc |-> "sent", tab |-> t, items |-> lines[t]]]
  /\ excused' = excused \cup (lines[t] \cap UnderWay) \cup (lines[t] \ stored)
  /\ UNCHANGED <<stored, lines, unheard, page, wanted, ordered, twice>>

\* POST /orders on the server; it has no key that would tell a repetition.  More of a
\* product, asked for while it is under way, counts as ordered with it.
PlaceOrder(o) ==
  /\ sending[o].pc = "sent"
  /\ sending' = [sending EXCEPT ![o].pc = "placed"]
  /\ twice' = twice \cup ((sending[o].items \cap ordered) \ excused)
  /\ ordered' = ordered \cup sending[o].items
  /\ wanted' = wanted \ sending[o].items
  /\ UNCHANGED <<stored, lines, unheard, page, excused>>

\* Mutant of OrderSucceeded: the copy of the tab is emptied, the storage is not.
SucceededHere(o) ==
  LET t == sending[o].tab IN
  /\ sending[o].pc = "placed" /\ t # NoTab
  /\ lines' = [lines EXCEPT ![t] = {}]
  /\ page' = [page EXCEPT ![t] = "other"]
  /\ sending' = [sending EXCEPT ![o] = NoOrder]
  /\ UNCHANGED <<stored, unheard, wanted, ordered, excused, twice>>

\* onSuccess: clear, and on to the page of the order.  Lines put in since the order
\* was sent go too.
OrderSucceeded(o) ==
  LET t == sending[o].tab IN
  /\ sending[o].pc = "placed" /\ t # NoTab
  /\ Write(t, {})
  /\ page' = [page EXCEPT ![t] = "other"]
  /\ sending' = [sending EXCEPT ![o] = NoOrder]
  /\ wanted' = wanted \ stored
  /\ UNCHANGED <<ordered, twice>>

\* Refused, or the answer is lost, or the page that asked is gone: the cart stays,
\* and if the order was placed its lines may be ordered again.
OrderUnanswered(o) ==
  /\ sending[o].pc = "sent" \/ sending[o].pc = "placed"
  /\ excused' = IF sending[o].pc = "placed" THEN excused \cup sending[o].items ELSE excused
  /\ sending' = [sending EXCEPT ![o] = NoOrder]
  /\ UNCHANGED <<stored, lines, unheard, page, wanted, ordered, twice>>

-----------------------------------------------------------------------------
CartNext ==
  \/ \E t \in Tabs :
       \/ \E p \in Products : Add(t, p) \/ SetPallets(t, p) \/ RemoveLine(t, p)
       \/ EmptyCart(t) \/ Hear(t)
       \/ OpenCart(t) \/ LeaveCart(t) \/ ReloadTab(t)
       \/ \E o \in CartOrders : Submit(t, o)
  \/ \E o \in CartOrders : PlaceOrder(o) \/ OrderSucceeded(o) \/ OrderUnanswered(o)

CartSpec == CartInit /\ [][CartNext]_cartVars

-----------------------------------------------------------------------------
(* Properties                                                              *)

\* Types; a tab that has heard everything shows the cart that is stored.
CartTypeOK ==
  /\ stored \subseteq Products
  /\ lines \in [Tabs -> SUBSET Products]
  /\ unheard \subseteq Tabs
  /\ page \in [Tabs -> {"cart", "other"}]
  /\ sending \in [CartOrders -> [pc : {"none", "sent", "placed"}, tab : Tabs \cup {NoTab},
                                 items : SUBSET Products]]
  /\ wanted \subseteq Products /\ ordered \subseteq Products
  /\ excused \subseteq Products /\ twice \subseteq Products
  /\ \A t \in Tabs \ unheard : lines[t] = stored

\* "What he adds in one tab is seen in the other" (cart-store.ts 19-20): what was put
\* in the cart stays until it is taken out or ordered, in whichever tab, unless a tab
\* wrote before it heard, or an order's success emptied the cart after it.
WantedKept == wanted \subseteq stored

\* A cart is ordered once: a product is ordered again without having been put in the
\* cart again only when the first order's answer did not reach its page, or another page sent
\* the same cart before it knew (CartPage.tsx 67-102).
OrderedOnce == twice = {}

=============================================================================
