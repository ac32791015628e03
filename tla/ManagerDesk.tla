---------------------------- MODULE ManagerDesk ----------------------------
(***************************************************************************)
(* Who looks after a customer and an order (customers-admin.service.ts,    *)
(* staff-admin.service.ts, orders-admin.service.ts, manager-assignment.ts, *)
(* and the placing requests of orders.service.ts, supply-orders.service.ts)*)
(* A manager sees only what belongs to his branch.  The branch of the row  *)
(* and the manager's are in different tables: a request reads the row,     *)
(* then the manager, then writes, each a statement of its own, while       *)
(* managers are moved and switched off.  Roles are those that may be       *)
(* assigned, and do not change; which branches are open is left out.       *)
(***************************************************************************)
CONSTANTS
  Shops, Central,  \* branches; those that are central warehouses
  Managers,        \* staff of the assignable roles
  Firms, Sales,    \* rows of customers and of orders
  Desk,            \* requests under way
  NoOne

ASSUME ManagerAssumption ==
  /\ Central \subseteq Shops
  /\ Firms \cap Sales = {}
  /\ NoOne \notin Shops \cup Managers \cup Firms \cup Sales

VARIABLES
  post,     \* post[m]: branchId and isActive of the manager
  link,     \* link[r]: branchId and managerId of a customer or an order
  request,  \* request[k]: what it will write
  parted    \* ghost: rows whose manager left them, or that two requests wrote across
            \* each other

managerVars == <<post, link, request, parted>>

Rows == Firms \cup Sales
NoRow == [shop |-> NoOne, manager |-> NoOne]
NoTurn == [pc |-> "idle", row |-> NoOne, to |-> NoRow, writes |-> {}, left |-> FALSE,
           passed |-> FALSE]
Whole == {"shop", "manager"}

Exists(r) == link[r].shop # NoOne

\* assertAssignable, and the same test in assign and pick.
Suits(m, shop) == post[m].isActive /\ post[m].shop = shop

ManagerInit ==
  /\ post \in [Managers -> [shop : Shops, isActive : {TRUE}]]
  /\ link = [r \in Rows |-> NoRow]
  /\ request = [k \in Desk |-> NoTurn]
  /\ parted = {}

-----------------------------------------------------------------------------
(* The first statement of a request: what it reads of the row.             *)

Turn(k, r, shop, m, fields) ==
  /\ request[k] = NoTurn
  /\ request' = [request EXCEPT ![k] =
       [pc |-> "read", row |-> r, to |-> [shop |-> shop, manager |-> m], writes |-> fields,
        left |-> FALSE, passed |-> FALSE]]
  /\ UNCHANGED <<post, link, parted>>

New(r) == ~Exists(r) /\ \A k \in Desk : request[k].row # r

CreateFirm(k, c) ==
  /\ New(c)
  /\ \E s \in Shops, m \in Managers \cup {NoOne} : Turn(k, c, s, m, Whole)

\* dto.managerId given: it is what will be written.
UpdateManager(k, c) ==
  /\ Exists(c)
  /\ \E s \in Shops, m \in Managers \cup {NoOne} :
       Turn(k, c, s, m, IF s = link[c].shop THEN {"manager"} ELSE Whole)

\* Mutant of UpdateShop: the manager goes with the customer.
UpdateShopOnly(k, c) ==
  /\ Exists(c)
  /\ \E s \in Shops \ {link[c].shop} : Turn(k, c, s, NoOne, {"shop"})

\* Not given: a customer who moves loses the manager he has.
UpdateShop(k, c) ==
  /\ Exists(c)
  /\ \E s \in Shops \ {link[c].shop} :
       Turn(k, c, s, NoOne, IF link[c].manager = NoOne THEN {"shop"} ELSE Whole)

AssignSale(k, o) ==
  /\ Exists(o)
  /\ \E m \in Managers \cup {NoOne} : Turn(k, o, link[o].shop, m, {"manager"})

\* OrdersService.create: requireCustomer reads the branch and the preferred manager.
PlaceOwn(k, o, c) ==
  /\ New(o)
  /\ Exists(c)
  /\ Turn(k, o, link[c].shop, link[c].manager, Whole)

\* createManual: the manager who enters the order comes before the customer's; for a
\* guest the branch is the one named or the actor's.  (By other staff: PlaceOwn.)
PlaceManual(k, o) ==
  /\ New(o)
  /\ \/ \E c \in Firms, m \in Managers : Exists(c) /\ Turn(k, o, link[c].shop, m, Whole)
     \/ \E s \in Shops, m \in Managers \cup {NoOne} : Turn(k, o, s, m, Whole)

PlaceSupply(k, o) ==
  /\ New(o)
  /\ \E s \in Central : Turn(k, o, s, NoOne, Whole)

-----------------------------------------------------------------------------
(* The second: what it reads of the manager.                               *)

\* 400: not found, not active or of another branch.
Assignable(k) ==
  LET q == request[k] IN
  /\ q.pc = "read"
  /\ q.row \in Firms \/ Exists(q.row)
  /\ request' = [request EXCEPT ![k] =
       IF q.to.manager = NoOne \/ Suits(q.to.manager, q.to.shop)
       THEN [q EXCEPT !.pc = "checked"] ELSE NoTurn]
  /\ UNCHANGED <<post, link, parted>>

\* Mutant of Pick: the customer's manager is taken to be good.
PickPreferred(k) ==
  /\ request[k].pc = "read"
  /\ request[k].row \in Sales /\ ~Exists(request[k].row)
  /\ request' = [request EXCEPT ![k].pc = "checked"]
  /\ UNCHANGED <<post, link, parted>>

\* CustomerManagerOnlyStrategy: the preferred manager if he still suits, else nobody.
Pick(k) ==
  LET q == request[k]
      suits == q.to.manager # NoOne /\ Suits(q.to.manager, q.to.shop) IN
  /\ q.pc = "read"
  /\ q.row \in Sales /\ ~Exists(q.row)
  /\ request' = [request EXCEPT ![k] =
       [q EXCEPT !.pc = "checked",
                 !.to = [shop |-> q.to.shop,
                         manager |-> IF suits THEN q.to.manager ELSE NoOne]]]
  /\ UNCHANGED <<post, link, parted>>

-----------------------------------------------------------------------------
(* The last: the write, of the fields the request decided to write.        *)

Relinked(k) ==
  LET q == request[k] IN
  [link EXCEPT ![q.row] =
     [shop |-> IF "shop" \in q.writes THEN q.to.shop ELSE @.shop,
      manager |-> IF "manager" \in q.writes THEN q.to.manager ELSE @.manager]]

\* A manager who left after he was read, or half a link written next to what another
\* request has written since the row was read.
Astray(q) == q.left \/ q.passed

WriteLink(k) ==
  LET q == request[k] IN
  /\ q.pc = "checked"
  /\ link' = Relinked(k)
  /\ parted' = IF Astray(q) /\ link'[q.row].manager # NoOne
               THEN parted \cup {q.row} ELSE parted \ {q.row}
  /\ request' = [u \in Desk |->
       IF u = k THEN NoTurn
       ELSE IF request[u].row = q.row /\ q.row \in Firms /\ request[u].writes # Whole
            THEN [request[u] EXCEPT !.passed = TRUE] ELSE request[u]]
  /\ UNCHANGED post

\* It throws, its connection is lost, or the process dies before the write.
Abandon(k) ==
  /\ request[k] # NoTurn
  /\ request' = [request EXCEPT ![k] = NoTurn]
  /\ UNCHANGED <<post, link, parted>>

-----------------------------------------------------------------------------
(* staff-admin.service.ts: nothing that names the manager is written.      *)

Leaves(m) ==
  /\ parted' = parted \cup {r \in Rows : link[r].manager = m}
  /\ request' = [k \in Desk |->
       IF request[k].pc = "checked" /\ request[k].to.manager = m
       THEN [request[k] EXCEPT !.left = TRUE] ELSE request[k]]

\* assertBranch: managers work in shops, moderators in central warehouses.
MoveManager(m) ==
  /\ \E s \in Shops \ {post[m].shop} :
       /\ s \in Central <=> post[m].shop \in Central
       /\ post' = [post EXCEPT ![m].shop = s]
  /\ Leaves(m)
  /\ UNCHANGED link

Deactivate(m) ==
  /\ post' = [post EXCEPT ![m].isActive = FALSE]
  /\ Leaves(m)
  /\ UNCHANGED link

Activate(m) ==
  /\ post' = [post EXCEPT ![m].isActive = TRUE]
  /\ UNCHANGED <<link, request, parted>>

-----------------------------------------------------------------------------
ManagerNext ==
  \/ \E k \in Desk, c \in Firms : CreateFirm(k, c) \/ UpdateManager(k, c) \/ UpdateShop(k, c)
  \/ \E k \in Desk, o \in Sales :
       \/ AssignSale(k, o) \/ PlaceManual(k, o) \/ PlaceSupply(k, o)
       \/ \E c \in Firms : PlaceOwn(k, o, c)
  \/ \E k \in Desk : Assignable(k) \/ Pick(k) \/ WriteLink(k) \/ Abandon(k)
  \/ \E m \in Managers : MoveManager(m) \/ Deactivate(m) \/ Activate(m)

ManagerSpec == ManagerInit /\ [][ManagerNext]_managerVars

-----------------------------------------------------------------------------
(* Properties                                                              *)

PostRow == [shop : Shops, isActive : BOOLEAN]
LinkRow == [shop : Shops \cup {NoOne}, manager : Managers \cup {NoOne}]
Request == [pc : {"idle", "read", "checked"}, row : Rows \cup {NoOne}, to : LinkRow,
            writes : SUBSET Whole, left : BOOLEAN, passed : BOOLEAN]

ManagerTypeOK ==
  /\ post \in [Managers -> PostRow]
  /\ link \in [Rows -> LinkRow]
  /\ request \in [Desk -> Request]
  /\ parted \subseteq Rows

Looked(r) == link[r].manager # NoOne => Suits(link[r].manager, link[r].shop)

\* A customer's manager is active and of the customer's branch, for otherwise neither
\* finds the other (customers-admin.service.ts 259-262): so through every chain of
\* moves and assignments.  The exceptions: the manager himself was moved or switched
\* off, or two updates of the customer crossed.
FirmsLookedAfter == \A c \in Firms \ parted : Looked(c)

\* The same of an order (orders-admin.service.ts 238-242), also when it was placed from
\* a customer's row that names a manager who has left: the exception is only that he
\* leaves after he was found to suit.
SalesLookedAfter == \A o \in Sales \ parted : Looked(o)

=============================================================================
