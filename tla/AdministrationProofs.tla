----------------------- MODULE AdministrationProofs -----------------------
(***************************************************************************)
(* Proofs about what the staff's panel and the site's forms keep in order: *)
(* a phone belongs to one account (PhoneOwnedOnce), a message makes one    *)
(* lead (LeadOnce), and firms and sales keep a manager (FirmsLookedAfter,  *)
(* SalesLookedAfter), for any number of accounts, phones, forms, branches, *)
(* managers and requests.                                                  *)
(***************************************************************************)
EXTENDS PhoneRegistry, LeadDesk, ManagerDesk, FiniteSetTheorems, TLAPS

-----------------------------------------------------------------------------
(* PhoneRegistry.  A request that has asked the other table, or keeps the  *)
(* number it read, knows that the other table does not have it, unless the *)
(* number is crossed already or the request has been passed since.         *)

\* The index of each table.
UniqueInTable ==
  \A g, h \in Holders :
    Table(g) = Table(h) /\ phone[g] = phone[h] /\ phone[h] # NoPhone => g = h

EditTyped ==
  \A e \in Admins : edit[e].pc # "idle" => edit[e].holder \in Holders /\ edit[e].to \in Phones

\* What the request relies on when it writes.
Ready(q) == q.pc = "checked" \/ (q.pc = "read" /\ q.to = q.current)

Backed(q) ==
  Ready(q) /\ ~q.passed /\ Taken(q.to, OtherTable(q.holder)) => q.to \in crossed

ClearedFree == \A e \in Admins : Backed(edit[e])

PhoneInv ==
  /\ PhoneTypeOK /\ EditTyped
  /\ UniqueInTable /\ ClearedFree /\ PhoneOwnedOnce

LEMMA PhoneInitInv == PhoneInit => PhoneInv
BY PhoneAssumption DEF PhoneInit, PhoneInv, PhoneTypeOK, Edit, EditTyped, UniqueInTable,
   ClearedFree, Backed, Ready, PhoneOwnedOnce, NoEdit

\* The two tables are all there is, and the other of the other is one's own.
LEMMA TwoTables ==
  ASSUME NEW g \in Holders, NEW h \in Holders
  PROVE  /\ h \in Table(h) /\ h \notin OtherTable(h)
         /\ Table(h) \subseteq Holders /\ OtherTable(h) \subseteq Holders
         /\ g \in Table(h) <=> Table(g) = Table(h)
         /\ g \in OtherTable(h) <=> Table(g) # Table(h)
         /\ g \in OtherTable(h) <=> h \in OtherTable(g)
         /\ g \in Table(h) => OtherTable(g) = OtherTable(h)
<1> USE PhoneAssumption DEF Holders, Table, OtherTable
<1>1. CASE h \in Clients
  <2>1. h \notin Employees
    BY <1>1
  <2>2. QED
    BY <1>1, <2>1
<1>2. CASE h \in Employees
  <2>1. h \notin Clients
    BY <1>2
  <2>2. QED
    BY <1>2, <2>1
<1>3. QED
  BY <1>1, <1>2

\* A request that is at most taken further leaves the phones as they are: only it can
\* become cleared.
LEMMA EditInv ==
  ASSUME PhoneInv, NEW e \in Admins, NEW new \in Edit,
         edit' = [edit EXCEPT ![e] = new], phone' = phone, crossed' = crossed,
         new.pc # "idle" => new.holder \in Holders /\ new.to \in Phones,
         Backed(new)
  PROVE  PhoneInv'
<1> USE DEF PhoneInv
<1>1. /\ \A u \in Admins : edit'[u] = IF u = e THEN new ELSE edit[u]
      /\ edit' \in [Admins -> Edit]
  BY DEF PhoneTypeOK
<1>2. PhoneTypeOK' /\ EditTyped'
  BY <1>1 DEF PhoneTypeOK, EditTyped
<1>3. UniqueInTable' /\ PhoneOwnedOnce'
  BY DEF UniqueInTable, PhoneOwnedOnce
<1>4. ClearedFree'
  BY <1>1 DEF ClearedFree, Backed, Ready, Taken
<1>5. QED
  BY <1>2, <1>3, <1>4

\* The request reads its row: if it keeps the number and another table has it too, the
\* number is crossed.
LEMMA ReadInv ==
  ASSUME PhoneInv, NEW e \in Admins, NEW h \in Holders, NEW p \in Phones, Begin(e, h, p)
  PROVE  PhoneInv'
<1> USE PhoneAssumption
<1>1. PICK new : new = [pc |-> "read", holder |-> h, current |-> phone[h], to |-> p,
                        passed |-> FALSE]
  OBVIOUS
<1>2. phone[h] \in Phones \cup {NoPhone}
  BY DEF PhoneInv, PhoneTypeOK
<1>3. new \in Edit /\ edit' = [edit EXCEPT ![e] = new]
  BY <1>1, <1>2 DEF Begin, Edit
<1>4. new.pc = "read" /\ new.holder = h /\ new.current = phone[h] /\ new.to = p
  BY <1>1
<1>5. ASSUME p = phone[h], Taken(p, OtherTable(h))
      PROVE  p \in crossed
  <2>1. PICK g \in OtherTable(h) : phone[g] = p
    BY <1>5 DEF Taken
  <2>2. g \in Holders /\ g # h
    BY <2>1, TwoTables
  <2>3. QED
    BY <1>5, <2>1, <2>2 DEF PhoneInv, PhoneOwnedOnce
<1>6. Backed(new)
  BY <1>4, <1>5 DEF Backed, Ready
<1>7. phone' = phone /\ crossed' = crossed
  BY DEF Begin
<1>8. QED
  BY <1>3, <1>4, <1>6, <1>7, EditInv

\* The request is refused, or is cleared because the other table has not the number, or
\* because it was cleared when it read.
LEMMA AskedInv ==
  ASSUME PhoneInv, NEW e \in Admins, CheckOther(e)
  PROVE  PhoneInv'
<1> USE PhoneAssumption
<1>1. PICK q \in Edit : q = edit[e]
  BY DEF PhoneInv, PhoneTypeOK
<1>2. /\ phone' = phone /\ crossed' = crossed
      /\ q.pc = "read" /\ q.holder \in Holders /\ q.to \in Phones
  BY <1>1 DEF CheckOther, PhoneInv, EditTyped
<1>3. CASE q.to # q.current /\ Taken(q.to, OtherTable(q.holder))
  <2>1. PICK new : new = NoEdit
    OBVIOUS
  <2>2. new \in Edit /\ new.pc = "idle"
    BY <2>1 DEF NoEdit, Edit
  <2>3. edit' = [edit EXCEPT ![e] = new]
    BY <1>1, <1>3, <2>1 DEF CheckOther
  <2>4. Backed(new)
    BY <2>2 DEF Backed, Ready
  <2>5. QED
    BY <1>2, <2>2, <2>3, <2>4, EditInv
<1>4. CASE ~(q.to # q.current /\ Taken(q.to, OtherTable(q.holder)))
  <2>1. PICK new : new = [q EXCEPT !.pc = "checked"]
    OBVIOUS
  <2>2. /\ new \in Edit /\ new.pc = "checked" /\ new.holder = q.holder /\ new.to = q.to
        /\ new.passed = q.passed
    BY <2>1 DEF Edit
  <2>3. edit' = [edit EXCEPT ![e] = new]
    BY <1>1, <1>4, <2>1 DEF CheckOther
  <2>4. Backed(new)
    <3>1. Backed(q)
      BY <1>1 DEF PhoneInv, ClearedFree
    <3>2. QED
      BY <1>2, <1>4, <2>2, <3>1 DEF Backed, Ready
  <2>5. QED
    BY <1>2, <2>2, <2>3, <2>4, EditInv
<1>5. QED
  BY <1>3, <1>4

\* The statement writes: who had cleared the same number for the other table is passed.
LEMMA PhoneWriteInv ==
  ASSUME PhoneInv, NEW e \in Admins, WritePhone(e)
  PROVE  PhoneInv'
<1> USE PhoneAssumption
<1>1. PICK q \in Edit : q = edit[e]
  BY DEF PhoneInv, PhoneTypeOK
<1>2. PICK h \in Holders, p \in Phones : h = q.holder /\ p = q.to /\ q.pc = "checked"
  BY <1>1 DEF WritePhone, PhoneInv, EditTyped
<1>3. CASE Taken(p, Table(h) \ {h})
  <2>1. PICK new : new = NoEdit
    OBVIOUS
  <2>2. new \in Edit /\ new.pc = "idle"
    BY <2>1 DEF NoEdit, Edit
  <2>3. edit' = [edit EXCEPT ![e] = new] /\ phone' = phone /\ crossed' = crossed
    BY <1>1, <1>2, <1>3, <2>1 DEF WritePhone
  <2>4. Backed(new)
    BY <2>2 DEF Backed, Ready
  <2>5. QED
    BY <2>2, <2>3, <2>4, EditInv
<1>4. CASE ~Taken(p, Table(h) \ {h})
  <2>1. /\ phone' = [phone EXCEPT ![h] = p]
        /\ crossed' = IF q.passed THEN crossed \cup {p}
                      ELSE IF Taken(p, OtherTable(h)) THEN crossed ELSE crossed \ {p}
        /\ edit' = [u \in Admins |->
             IF u = e THEN NoEdit
             ELSE IF edit[u].to = p /\ edit[u].holder \in OtherTable(h)
                  THEN [edit[u] EXCEPT !.passed = TRUE] ELSE edit[u]]
    BY <1>1, <1>2, <1>4 DEF WritePhone
  <2>2. \A g \in Holders : phone'[g] = IF g = h THEN p ELSE phone[g]
    BY <2>1 DEF PhoneInv, PhoneTypeOK
  <2>3. \A g \in Holders : g # h /\ Table(g) = Table(h) => phone[g] # p
    BY <1>4, TwoTables DEF Taken
  <2>4. NoEdit \in Edit /\ NoEdit.pc = "idle"
    BY DEF NoEdit, Edit
  <2>5. \A u \in Admins : /\ edit'[u] \in Edit
                          /\ u = e => edit'[u].pc = "idle"
                          /\ u # e => /\ edit'[u].pc = edit[u].pc
                                      /\ edit'[u].holder = edit[u].holder
                                      /\ edit'[u].to = edit[u].to
                                      /\ edit'[u].current = edit[u].current
                                      /\ edit[u].passed => edit'[u].passed
                                      /\ edit[u].to = p /\ edit[u].holder \in OtherTable(h)
                                           => edit'[u].passed
    <3>1. SUFFICES ASSUME NEW u \in Admins
                   PROVE  /\ edit'[u] \in Edit
                          /\ u = e => edit'[u].pc = "idle"
                          /\ u # e => /\ edit'[u].pc = edit[u].pc
                                      /\ edit'[u].holder = edit[u].holder
                                      /\ edit'[u].to = edit[u].to
                                      /\ edit'[u].current = edit[u].current
                                      /\ edit[u].passed => edit'[u].passed
                                      /\ edit[u].to = p /\ edit[u].holder \in OtherTable(h)
                                           => edit'[u].passed
      OBVIOUS
    <3>2. PICK old \in Edit : old = edit[u]
      BY DEF PhoneInv, PhoneTypeOK
    <3>3. PICK marked : marked = [old EXCEPT !.passed = TRUE]
      OBVIOUS
    <3>4. /\ marked \in Edit /\ marked.pc = old.pc /\ marked.holder = old.holder
          /\ marked.to = old.to /\ marked.current = old.current /\ marked.passed = TRUE
      BY <3>3 DEF Edit
    <3>5. edit'[u] = IF u = e THEN NoEdit
                     ELSE IF old.to = p /\ old.holder \in OtherTable(h) THEN marked ELSE old
      BY <2>1, <3>2, <3>3
    <3>6. QED
      BY <2>4, <3>2, <3>4, <3>5
  <2>6. PhoneTypeOK' /\ EditTyped'
    <3>1. edit' \in [Admins -> Edit]
      BY <2>1, <2>5
    <3>2. phone' \in [Holders -> Phones \cup {NoPhone}] /\ crossed' \subseteq Phones
      BY <2>1 DEF PhoneInv, PhoneTypeOK
    <3>3. QED
      BY <2>5, <3>1, <3>2 DEF PhoneTypeOK, EditTyped, PhoneInv
  <2>7. UniqueInTable'
    BY <2>2, <2>3 DEF UniqueInTable, PhoneInv
  <2>8. Taken(p, OtherTable(h)) => p \in crossed'
    <3>1. Backed(q)
      BY <1>1 DEF PhoneInv, ClearedFree
    <3>2. QED
      BY <1>2, <2>1, <3>1 DEF Backed, Ready
  <2>9. \A r : r # p => (r \in crossed' <=> r \in crossed)
    BY <2>1
  <2>10. PhoneOwnedOnce'
    <3>1. SUFFICES ASSUME NEW f \in Holders, NEW g \in Holders, f # g,
                          phone'[f] = phone'[g], phone'[g] # NoPhone
                   PROVE  phone'[g] \in crossed'
      BY DEF PhoneOwnedOnce
    <3>2. CASE phone'[g] = p
      <4>1. \A k \in Holders : k # h /\ phone[k] = p => p \in crossed'
        BY <2>3, <2>8, TwoTables DEF Taken
      <4>2. QED
        BY <2>2, <3>1, <3>2, <4>1
    <3>3. CASE phone'[g] # p
      BY <2>2, <2>9, <3>1, <3>3 DEF PhoneInv, PhoneOwnedOnce
    <3>4. QED
      BY <3>2, <3>3
  <2>11. ClearedFree'
    <3>1. SUFFICES ASSUME NEW u \in Admins, Ready(edit'[u]), ~edit'[u].passed,
                          NEW g \in OtherTable(edit'[u].holder), phone'[g] = edit'[u].to
                   PROVE  edit'[u].to \in crossed'
      BY DEF ClearedFree, Backed, Ready, Taken
    <3>2. u # e /\ Ready(edit[u]) /\ ~edit[u].passed /\ edit[u].holder \in Holders
      BY <2>5, <3>1 DEF Ready, PhoneInv, EditTyped
    <3>3. g \in Holders /\ g \in OtherTable(edit[u].holder)
      BY <2>5, <3>1, <3>2, TwoTables
    <3>4. CASE edit[u].to = p
      <4>1. edit[u].holder \notin OtherTable(h)
        BY <2>5, <3>1, <3>2, <3>4
      <4>2. g \in OtherTable(h) /\ phone[g] = p
        BY <2>2, <2>5, <3>1, <3>2, <3>3, <3>4, <4>1, TwoTables
      <4>3. QED
        BY <2>5, <2>8, <3>2, <3>4, <4>2 DEF Taken
    <3>5. CASE edit[u].to # p
      <4>1. phone[g] = edit[u].to
        BY <2>2, <2>5, <3>1, <3>2, <3>3, <3>5
      <4>2. edit[u].to \in crossed
        BY <3>2, <3>3, <4>1 DEF PhoneInv, ClearedFree, Backed, Taken
      <4>3. QED
        BY <2>5, <2>9, <3>2, <3>5, <4>2
    <3>6. QED
      BY <3>4, <3>5
  <2>12. QED
    BY <2>6, <2>7, <2>10, <2>11 DEF PhoneInv
<1>5. QED
  BY <1>3, <1>4

LEMMA PhoneStep == ASSUME PhoneInv, [PhoneNext]_phoneVars PROVE PhoneInv'
<1>1. CASE PhoneNext
  BY <1>1, ReadInv, AskedInv, PhoneWriteInv DEF PhoneNext
<1>2. CASE UNCHANGED phoneVars
  BY <1>2 DEF phoneVars, PhoneInv, PhoneTypeOK, EditTyped, UniqueInTable, ClearedFree, Backed,
              Ready, Taken, PhoneOwnedOnce
<1>3. QED
  BY <1>1, <1>2

\* The indexes, and what every request under way relies on, hold in every reachable state.
THEOREM PhoneInvariant == PhoneSpec => []PhoneInv
<1>1. QED
  BY PhoneInitInv, PhoneStep, PTL DEF PhoneSpec

\* Login finds one account (auth.service.ts 206-210), for any number of accounts, numbers
\* and requests: two rows have a number only when requests for it crossed.
THEOREM PhonesAreOwnedOnce == PhoneSpec => []PhoneOwnedOnce
<1>1. PhoneInv => PhoneOwnedOnce
  BY DEF PhoneInv
<1>2. QED
  BY <1>1, PhoneInvariant, PTL

-----------------------------------------------------------------------------
(* LeadDesk.  While the window holds a lead no form is searched but those  *)
(* that an insert has passed.                                              *)

LeadInv ==
  /\ LeadTypeOK
  /\ recent # {} => \A f \in Forms : form[f] = "searched" => f \in passed
  /\ \A f, g \in recent \ passed : f = g

LEMMA LeadInitInv == LeadInit => LeadInv
BY DEF LeadInit, LeadInv, LeadTypeOK

LEMMA LeadStep == ASSUME LeadInv, [LeadNext]_leadVars PROVE LeadInv'
<1> USE DEF LeadInv, LeadTypeOK
<1>1. ASSUME NEW f \in Forms, FindDuplicate(f)
      PROVE  LeadInv'
  BY <1>1 DEF FindDuplicate
<1>2. ASSUME NEW f \in Forms, InsertLead(f)
      PROVE  LeadInv'
  BY <1>2 DEF InsertLead
<1>3. ASSUME NEW f \in Forms, LeaveWindow(f)
      PROVE  LeadInv'
  BY <1>3 DEF LeaveWindow
<1>4. CASE UNCHANGED leadVars
  BY <1>4 DEF leadVars
<1>5. QED
  BY <1>1, <1>2, <1>3, <1>4 DEF LeadNext

\* What the window holds, and who was searched before it, in every reachable state.
THEOREM LeadInvariant == LeadSpec => []LeadInv
<1>1. QED
  BY LeadInitInv, LeadStep, PTL DEF LeadSpec

\* Two leads of the window that no insert passed are one.
LEMMA OneLead == ASSUME LeadInv PROVE LeadOnce
<1>1. CASE recent \ passed = {}
  BY <1>1, FS_EmptySet DEF LeadOnce
<1>2. ASSUME NEW f \in recent \ passed
      PROVE  LeadOnce
  <2>1. recent \ passed = {f}
    BY <1>2 DEF LeadInv
  <2>2. QED
    BY <2>1, FS_Singleton DEF LeadOnce
<1>3. QED
  BY <1>1, <1>2

\* A message sent several times within the window makes one lead, however many forms are
\* sent (leads.service.ts 110-119), but for those an insert passed.
THEOREM LeadsAreMadeOnce == LeadSpec => []LeadOnce
<1>1. QED
  BY LeadInvariant, OneLead, PTL

-----------------------------------------------------------------------------
(* ManagerDesk.  Between its statements a request relies on what it read:  *)
(* the invariant says what of it still holds.  An order never changes its  *)
(* branch; a customer may, and then the half-written requests of that      *)
(* customer are marked; a manager found to suit suits until he is marked   *)
(* as having left.                                                         *)

\* A row has one author: the request that creates it.
Alone ==
  \A k, u \in Desk :
    request[k].row \in Rows /\ ~Exists(request[k].row) /\ request[u].row = request[k].row
      => k = u

\* What a request under way does not write is what the row still says.
Founded ==
  \A k \in Desk :
    LET q == request[k] IN
    /\ q.pc = "idle" => q.row = NoOne
    /\ q.pc # "idle" =>
         /\ q.row \in Rows
         /\ q.to.shop \in Shops
         /\ ~Exists(q.row) => q.writes = Whole
         /\ Exists(q.row) /\ q.row \in Sales =>
              q.writes = {"manager"} /\ q.to.shop = link[q.row].shop
         /\ ~q.passed => "shop" \in q.writes \/ q.to.shop = link[q.row].shop
         /\ ~q.passed => "manager" \in q.writes \/ link[q.row].manager = NoOne

\* The manager a request has checked suits until he leaves.
Checked ==
  \A k \in Desk :
    LET q == request[k] IN
    q.pc = "checked" /\ ~q.left /\ q.to.manager # NoOne => Suits(q.to.manager, q.to.shop)

Unborn == \A r \in Rows : ~Exists(r) => link[r].manager = NoOne

LookedAfter == \A r \in Rows \ parted : Looked(r)

ManagerInv == ManagerTypeOK /\ Alone /\ Founded /\ Checked /\ Unborn /\ LookedAfter

-----------------------------------------------------------------------------
\* Nobody has anything to do.
LEMMA ManagerInitInv == ManagerInit => ManagerInv
<1> SUFFICES ASSUME ManagerInit PROVE ManagerInv
  OBVIOUS
<1> USE ManagerAssumption DEF ManagerInit
<1>1. /\ \A r \in Rows : link[r] = NoRow
      /\ \A k \in Desk : request[k] = NoTurn
  OBVIOUS
<1>2. ManagerTypeOK
  BY DEF ManagerTypeOK, PostRow, LinkRow, Request, NoRow, NoTurn
<1>3. Alone /\ Founded /\ Checked
  BY <1>1 DEF Alone, Founded, Checked, NoTurn, Rows
<1>4. Unborn /\ LookedAfter
  BY <1>1 DEF Unborn, LookedAfter, Looked, Exists, NoRow
<1> QED
  BY <1>2, <1>3, <1>4 DEF ManagerInv

\* A request begins: it reads the row it is about.
LEMMA TurnInv ==
  ASSUME ManagerInv, NEW k \in Desk, NEW r \in Rows, NEW shop \in Shops,
         NEW m \in Managers \cup {NoOne}, NEW fields \in SUBSET Whole,
         Turn(k, r, shop, m, fields),
         ~Exists(r) => New(r) /\ fields = Whole,
         Exists(r) /\ r \in Sales => fields = {"manager"} /\ shop = link[r].shop,
         "shop" \in fields \/ shop = link[r].shop,
         "manager" \in fields \/ link[r].manager = NoOne
  PROVE  ManagerInv'
<1> USE ManagerAssumption
<1> DEFINE new == [pc |-> "read", row |-> r, to |-> [shop |-> shop, manager |-> m],
                   writes |-> fields, left |-> FALSE, passed |-> FALSE]
<1>1. /\ request' \in [Desk -> Request]
      /\ request'[k] = new
      /\ \A u \in Desk \ {k} : request'[u] = request[u]
      /\ UNCHANGED <<post, link, parted>>
  <2>1. new \in Request
    BY DEF Request, LinkRow, NoTurn, Whole
  <2> HIDE DEF new
  <2>2. request' = [request EXCEPT ![k] = new] /\ UNCHANGED <<post, link, parted>>
    BY DEF Turn, new
  <2> QED
    BY <2>1, <2>2 DEF ManagerInv, ManagerTypeOK
<1>2. /\ new.pc = "read" /\ new.row = r /\ new.to.shop = shop /\ new.to.manager = m
      /\ new.writes = fields
  OBVIOUS
<1> HIDE DEF new
<1>3. ManagerTypeOK'
  BY <1>1 DEF ManagerInv, ManagerTypeOK
<1>4. Alone'
  BY <1>1, <1>2 DEF ManagerInv, Alone, New, Exists
<1>5. Founded'
  BY <1>1, <1>2 DEF ManagerInv, Founded, Exists
<1>6. Checked'
  BY <1>1, <1>2 DEF ManagerInv, Checked, Suits
<1>7. Unborn' /\ LookedAfter'
  BY <1>1 DEF ManagerInv, Unborn, LookedAfter, Looked, Exists, Suits
<1> QED
  BY <1>3, <1>4, <1>5, <1>6, <1>7 DEF ManagerInv

\* Customers: created, given a manager, moved.
LEMMA FirmTurnsInv ==
  ASSUME ManagerInv, NEW k \in Desk, NEW c \in Firms,
         CreateFirm(k, c) \/ UpdateManager(k, c) \/ UpdateShop(k, c)
  PROVE  ManagerInv'
<1> USE ManagerAssumption DEF Rows, Whole
<1>1. c \in Rows /\ c \notin Sales
  OBVIOUS
<1>2. CASE CreateFirm(k, c)
  <2>1. PICK s \in Shops, m \in Managers \cup {NoOne} : Turn(k, c, s, m, Whole)
    BY <1>2 DEF CreateFirm
  <2> QED
    BY <1>1, <1>2, <2>1, TurnInv DEF CreateFirm, New
<1>3. CASE UpdateManager(k, c)
  <2>1. PICK s \in Shops, m \in Managers \cup {NoOne} :
          Turn(k, c, s, m, IF s = link[c].shop THEN {"manager"} ELSE Whole)
    BY <1>3 DEF UpdateManager
  <2> DEFINE fields == IF s = link[c].shop THEN {"manager"} ELSE Whole
  <2>2. /\ fields \in SUBSET Whole /\ "manager" \in fields
        /\ "shop" \in fields \/ s = link[c].shop
    OBVIOUS
  <2>3. Turn(k, c, s, m, fields)
    BY <2>1
  <2> HIDE DEF fields
  <2> QED
    BY <1>1, <1>3, <2>2, <2>3, TurnInv DEF UpdateManager
<1>4. CASE UpdateShop(k, c)
  <2>1. PICK s \in Shops \ {link[c].shop} :
          Turn(k, c, s, NoOne, IF link[c].manager = NoOne THEN {"shop"} ELSE Whole)
    BY <1>4 DEF UpdateShop
  <2> DEFINE fields == IF link[c].manager = NoOne THEN {"shop"} ELSE Whole
  <2>2. /\ fields \in SUBSET Whole /\ "shop" \in fields
        /\ "manager" \in fields \/ link[c].manager = NoOne
    OBVIOUS
  <2>3. Turn(k, c, s, NoOne, fields)
    BY <2>1
  <2> HIDE DEF fields
  <2> QED
    BY <1>1, <1>4, <2>2, <2>3, TurnInv DEF UpdateShop
<1> QED
  BY <1>2, <1>3, <1>4

\* Orders: placed by the customer, by staff, by a shop, and assigned.
LEMMA SaleTurnsInv ==
  ASSUME ManagerInv, NEW k \in Desk, NEW o \in Sales,
         \/ AssignSale(k, o) \/ PlaceManual(k, o) \/ PlaceSupply(k, o)
         \/ \E c \in Firms : PlaceOwn(k, o, c)
  PROVE  ManagerInv'
<1> USE ManagerAssumption DEF Rows, Whole
<1>1. o \in Rows /\ o \notin Firms
  OBVIOUS
<1>2. \A r \in Rows : Exists(r) => link[r].shop \in Shops
  BY DEF ManagerInv, ManagerTypeOK, LinkRow, Exists
<1>3. ASSUME NEW s \in Shops, NEW m \in Managers \cup {NoOne}, Turn(k, o, s, m, Whole), New(o)
      PROVE  ManagerInv'
  BY <1>1, <1>3, TurnInv DEF New
<1>4. CASE AssignSale(k, o)
  <2>1. PICK m \in Managers \cup {NoOne} : Turn(k, o, link[o].shop, m, {"manager"})
    BY <1>4 DEF AssignSale
  <2> QED
    BY <1>1, <1>2, <1>4, <2>1, TurnInv DEF AssignSale
<1>5. CASE PlaceManual(k, o)
  <2>1. CASE \E c \in Firms, m \in Managers : Exists(c) /\ Turn(k, o, link[c].shop, m, Whole)
    <3>1. PICK c \in Firms, m \in Managers : Exists(c) /\ Turn(k, o, link[c].shop, m, Whole)
      BY <2>1
    <3> QED
      BY <1>2, <1>3, <1>5, <3>1 DEF PlaceManual
  <2>2. CASE \E s \in Shops, m \in Managers \cup {NoOne} : Turn(k, o, s, m, Whole)
    <3>1. PICK s \in Shops, m \in Managers \cup {NoOne} : Turn(k, o, s, m, Whole)
      BY <2>2
    <3> QED
      BY <1>3, <1>5, <3>1 DEF PlaceManual
  <2> QED
    BY <1>5, <2>1, <2>2 DEF PlaceManual
<1>6. CASE PlaceSupply(k, o)
  <2>1. PICK s \in Central : Turn(k, o, s, NoOne, Whole)
    BY <1>6 DEF PlaceSupply
  <2> QED
    BY <1>3, <1>6, <2>1 DEF PlaceSupply
<1>7. ASSUME NEW c \in Firms, PlaceOwn(k, o, c) PROVE ManagerInv'
  <2>1. link[c].manager \in Managers \cup {NoOne}
    BY DEF ManagerInv, ManagerTypeOK, LinkRow
  <2> QED
    BY <1>2, <1>3, <1>7, <2>1 DEF PlaceOwn
<1> QED
  BY <1>4, <1>5, <1>6, <1>7

\* The manager is read: the request goes on with him, without anybody, or ends.
LEMMA CheckInv ==
  ASSUME ManagerInv, NEW k \in Desk, Assignable(k) \/ Pick(k) \/ Abandon(k)
  PROVE  ManagerInv'
<1> USE ManagerAssumption DEF ManagerInv
<1>0. PICK q \in Request : q = request[k]
  BY DEF ManagerTypeOK
<1>1. PICK new \in Request :
        /\ request' = [request EXCEPT ![k] = new]
        /\ UNCHANGED <<post, link, parted>>
        /\ \/ new = NoTurn
           \/ /\ q.pc = "read" /\ new.pc = "checked"
              /\ new.row = q.row /\ new.to.shop = q.to.shop /\ new.writes = q.writes
              /\ new.left = q.left /\ new.passed = q.passed
              /\ new.to.manager # NoOne => Suits(new.to.manager, new.to.shop)
  <2>1. NoTurn \in Request
    BY DEF NoTurn, NoRow, Request, LinkRow
  <2>2. [q EXCEPT !.pc = "checked"] \in Request
    BY DEF Request
  <2>3. CASE Assignable(k)
    BY <1>0, <2>1, <2>2, <2>3 DEF Assignable, Request
  <2>4. CASE Pick(k)
    <3> DEFINE suits == q.to.manager # NoOne /\ Suits(q.to.manager, q.to.shop)
               to == [shop |-> q.to.shop, manager |-> IF suits THEN q.to.manager ELSE NoOne]
    <3>1. q.to \in LinkRow
      BY DEF Request
    <3>2. /\ to \in LinkRow /\ to.shop = q.to.shop
          /\ to.manager # NoOne => Suits(to.manager, to.shop)
      BY <3>1 DEF LinkRow
    <3>3. /\ q.pc = "read" /\ UNCHANGED <<post, link, parted>>
          /\ request' = [request EXCEPT ![k] = [q EXCEPT !.pc = "checked", !.to = to]]
      BY <1>0, <2>4 DEF Pick
    <3> HIDE DEF to
    <3>4. [q EXCEPT !.pc = "checked", !.to = to] \in Request
      BY <3>2 DEF Request
    <3> QED
      BY <3>2, <3>3, <3>4 DEF Request
  <2>5. CASE Abandon(k)
    BY <2>1, <2>5 DEF Abandon
  <2> QED
    BY <2>3, <2>4, <2>5
<1>2. /\ request' \in [Desk -> Request]
      /\ request'[k] = new
      /\ \A u \in Desk \ {k} : request'[u] = request[u]
  BY <1>1 DEF ManagerTypeOK
<1>3. ManagerTypeOK'
  BY <1>1, <1>2 DEF ManagerTypeOK
<1>4. Alone'
  BY <1>0, <1>1, <1>2 DEF Alone, Exists, NoTurn, Rows
<1>5. Founded'
  BY <1>0, <1>1, <1>2 DEF Founded, Exists, NoTurn
<1>6. Checked'
  BY <1>1, <1>2 DEF Checked, Suits, NoTurn
<1>7. Unborn' /\ LookedAfter'
  BY <1>1 DEF Unborn, LookedAfter, Looked, Exists, Suits
<1> QED
  BY <1>3, <1>4, <1>5, <1>6, <1>7

\* The write: what the request read, checked and did not write fits what it writes, or
\* the row is marked.
LEMMA WriteInv ==
  ASSUME ManagerInv, NEW k \in Desk, WriteLink(k)
  PROVE  ManagerInv'
<1> USE ManagerAssumption DEF ManagerInv
<1>1. PICK q \in Request, r \in Rows :
        /\ q = request[k] /\ r = q.row
        /\ q.pc = "checked" /\ q.to.shop \in Shops
        /\ q.to.manager \in Managers \cup {NoOne} /\ q.writes \in SUBSET Whole
        /\ ~Exists(r) => q.writes = Whole
        /\ Exists(r) /\ r \in Sales => q.writes = {"manager"} /\ q.to.shop = link[r].shop
        /\ ~q.passed => "shop" \in q.writes \/ q.to.shop = link[r].shop
        /\ ~q.passed => "manager" \in q.writes \/ link[r].manager = NoOne
        /\ ~q.left /\ q.to.manager # NoOne => Suits(q.to.manager, q.to.shop)
  BY DEF WriteLink, ManagerTypeOK, Request, LinkRow, Founded, Checked
<1>2. PICK new \in LinkRow :
        /\ new.shop = IF "shop" \in q.writes THEN q.to.shop ELSE link[r].shop
        /\ new.manager = IF "manager" \in q.writes THEN q.to.manager ELSE link[r].manager
        /\ link' = [link EXCEPT ![r] = new]
  <2> DEFINE made == [shop |-> IF "shop" \in q.writes THEN q.to.shop ELSE link[r].shop,
                      manager |-> IF "manager" \in q.writes THEN q.to.manager
                                  ELSE link[r].manager]
  <2>1. link[r] \in LinkRow /\ q.to \in LinkRow
    BY <1>1 DEF ManagerTypeOK, Request
  <2>2. made \in LinkRow
    BY <2>1 DEF LinkRow
  <2>3. link' = [link EXCEPT ![r] = made]
    BY <1>1 DEF WriteLink, Relinked, ManagerTypeOK
  <2> QED
    BY <2>2, <2>3
<1>3. /\ link' \in [Rows -> LinkRow]
      /\ link'[r] = new
      /\ \A s \in Rows \ {r} : link'[s] = link[s]
      /\ UNCHANGED post
  BY <1>2 DEF WriteLink, ManagerTypeOK
<1>4. /\ request' \in [Desk -> Request]
      /\ request'[k] = NoTurn
      /\ \A u \in Desk \ {k} :
           /\ request'[u].pc = request[u].pc /\ request'[u].row = request[u].row
           /\ request'[u].to = request[u].to /\ request'[u].writes = request[u].writes
           /\ request'[u].left = request[u].left
           /\ ~request'[u].passed => ~request[u].passed
           /\ request[u].row = r /\ r \in Firms /\ request[u].writes # Whole
                => request'[u].passed
  <2>1. \A u \in Desk : request[u] \in Request /\ [request[u] EXCEPT !.passed = TRUE] \in Request
    BY DEF ManagerTypeOK, Request
  <2>2. NoTurn \in Request
    BY DEF NoTurn, NoRow, Request, LinkRow
  <2>3. request' = [u \in Desk |->
          IF u = k THEN NoTurn
          ELSE IF request[u].row = r /\ r \in Firms /\ request[u].writes # Whole
               THEN [request[u] EXCEPT !.passed = TRUE] ELSE request[u]]
    BY <1>1 DEF WriteLink
  <2> QED
    BY <2>1, <2>2, <2>3 DEF Request
<1>5. parted' = IF Astray(q) /\ new.manager # NoOne THEN parted \cup {r} ELSE parted \ {r}
  BY <1>1, <1>3 DEF WriteLink
<1>6. new.shop # NoOne
  BY <1>1, <1>2 DEF Exists, Whole
<1>7. ManagerTypeOK'
  BY <1>3, <1>4, <1>5 DEF ManagerTypeOK
<1>8. Alone'
  BY <1>3, <1>4, <1>6 DEF Alone, Exists, NoTurn, Rows
<1>9. Founded'
  <2>1. \A u \in Desk \ {k} : request[u].row = r /\ r \in Sales =>
          request[u].writes = {"manager"} /\ Exists(r)
    BY <1>1 DEF Founded, Alone
  <2> QED
    BY <1>1, <1>2, <1>3, <1>4, <1>6, <2>1 DEF Founded, Exists, NoTurn, Rows
<1>10. Checked'
  BY <1>3, <1>4 DEF Checked, Suits, NoTurn
<1>11. Unborn'
  BY <1>3, <1>6 DEF Unborn, Exists
<1>12. r \in parted' \/ Looked(r)'
  BY <1>1, <1>2, <1>3, <1>5 DEF Looked, Suits, Astray, Rows, Exists, Unborn, Whole
<1>13. LookedAfter'
  BY <1>3, <1>5, <1>12 DEF LookedAfter, Looked, Suits
<1> QED
  BY <1>7, <1>8, <1>9, <1>10, <1>11, <1>13

\* A manager moved or switched off: his rows are marked, and the requests that had found
\* him to suit.
LEMMA StaffInv ==
  ASSUME ManagerInv, NEW m \in Managers, MoveManager(m) \/ Deactivate(m) \/ Activate(m)
  PROVE  ManagerInv'
<1> USE ManagerAssumption DEF ManagerInv
<1>1. /\ link' = link
      /\ post' \in [Managers -> PostRow]
      /\ \A n \in Managers \ {m} : post'[n] = post[n]
  <2>1. post[m] \in PostRow /\ Managers # {}
    BY DEF ManagerTypeOK
  <2>2. /\ \A s \in Shops : [post[m] EXCEPT !.shop = s] \in PostRow
        /\ \A b \in BOOLEAN : [post[m] EXCEPT !.isActive = b] \in PostRow
    BY <2>1 DEF PostRow
  <2>3. CASE MoveManager(m)
    BY <2>2, <2>3 DEF MoveManager, ManagerTypeOK
  <2>4. CASE Deactivate(m)
    BY <2>2, <2>4 DEF Deactivate, ManagerTypeOK
  <2>5. CASE Activate(m)
    BY <2>2, <2>5 DEF Activate, ManagerTypeOK
  <2> QED
    BY <2>3, <2>4, <2>5
<1>2. \/ Leaves(m)
      \/ /\ UNCHANGED <<request, parted>>
         /\ \A shop : Suits(m, shop) => Suits(m, shop)'
  BY DEF MoveManager, Deactivate, Activate, Suits, ManagerTypeOK, PostRow
<1>3. \A n \in Managers \ {m} : \A shop : Suits(n, shop)' <=> Suits(n, shop)
  BY <1>1 DEF Suits
<1>4. /\ request' \in [Desk -> Request]
      /\ parted' \subseteq Rows /\ parted \subseteq parted'
      /\ \A k \in Desk :
           /\ request'[k].pc = request[k].pc /\ request'[k].row = request[k].row
           /\ request'[k].to = request[k].to /\ request'[k].writes = request[k].writes
           /\ request'[k].passed = request[k].passed
           /\ ~request'[k].left => ~request[k].left
  <2>1. \A k \in Desk : request[k] \in Request /\ [request[k] EXCEPT !.left = TRUE] \in Request
    BY DEF ManagerTypeOK, Request
  <2>2. CASE Leaves(m)
    BY <2>1, <2>2 DEF Leaves, ManagerTypeOK, Request
  <2> QED
    BY <1>2, <2>2 DEF ManagerTypeOK
<1>5. ManagerTypeOK'
  BY <1>1, <1>4 DEF ManagerTypeOK
<1>6. Alone' /\ Founded' /\ Unborn'
  BY <1>1, <1>4 DEF Alone, Founded, Unborn, Exists
<1>7. Checked'
  <2> SUFFICES ASSUME NEW k \in Desk, request'[k].pc = "checked", ~request'[k].left,
                      NEW n \in Managers, NEW s,
                      request'[k].to.manager = n, request'[k].to.shop = s
               PROVE  Suits(n, s)'
    <3>1. \A k \in Desk : request'[k].to.manager \in Managers \cup {NoOne}
      BY <1>4 DEF Request, LinkRow
    <3> QED
      BY <3>1 DEF Checked, Suits
  <2>1. Suits(n, s)
    BY <1>4 DEF Checked
  <2>2. CASE n # m
    BY <1>3, <2>1, <2>2
  <2>3. CASE n = m
    <3>1. ~Leaves(m)
      <4>1. request[k] \in Request
        BY DEF ManagerTypeOK
      <4> QED
        BY <1>4, <2>3, <4>1 DEF Leaves, Request
    <3> QED
      BY <1>2, <2>1, <2>3, <3>1
  <2> QED
    BY <2>2, <2>3
<1>8. LookedAfter'
  <2> SUFFICES ASSUME NEW r \in Rows \ parted', link[r].manager # NoOne
               PROVE  Suits(link[r].manager, link[r].shop)'
    BY <1>1 DEF LookedAfter, Looked, Suits
  <2>1. PICK n \in Managers, s \in Shops \cup {NoOne} : link[r].manager = n /\ link[r].shop = s
    BY DEF ManagerTypeOK, LinkRow
  <2>2. Suits(n, s)
    BY <1>4, <2>1 DEF LookedAfter, Looked
  <2>3. n = m => ~Leaves(m)
    BY <2>1 DEF Leaves
  <2> QED
    BY <1>1, <1>2, <1>3, <2>1, <2>2, <2>3 DEF Suits
<1> QED
  BY <1>5, <1>6, <1>7, <1>8

\* Every step keeps the invariant.
LEMMA ManagerStep == ManagerInv /\ [ManagerNext]_managerVars => ManagerInv'
<1> SUFFICES ASSUME ManagerInv, [ManagerNext]_managerVars PROVE ManagerInv'
  OBVIOUS
<1>1. ASSUME NEW k \in Desk, NEW c \in Firms,
             CreateFirm(k, c) \/ UpdateManager(k, c) \/ UpdateShop(k, c)
      PROVE  ManagerInv'
  BY <1>1, FirmTurnsInv
<1>2. ASSUME NEW k \in Desk, NEW o \in Sales,
             \/ AssignSale(k, o) \/ PlaceManual(k, o) \/ PlaceSupply(k, o)
             \/ \E c \in Firms : PlaceOwn(k, o, c)
      PROVE  ManagerInv'
  BY <1>2, SaleTurnsInv
<1>3. ASSUME NEW k \in Desk, Assignable(k) \/ Pick(k) \/ Abandon(k) PROVE ManagerInv'
  BY <1>3, CheckInv
<1>4. ASSUME NEW k \in Desk, WriteLink(k) PROVE ManagerInv'
  BY <1>4, WriteInv
<1>5. ASSUME NEW m \in Managers, MoveManager(m) \/ Deactivate(m) \/ Activate(m)
      PROVE  ManagerInv'
  BY <1>5, StaffInv
<1>6. CASE UNCHANGED managerVars
  BY <1>6 DEF managerVars, ManagerInv, ManagerTypeOK, Alone, Founded, Checked, Unborn,
     LookedAfter, Looked, Suits, Exists
<1> QED
  BY <1>1, <1>2, <1>3, <1>4, <1>5, <1>6 DEF ManagerNext

-----------------------------------------------------------------------------
\* What each request relies on between its statements holds in every reachable state.
THEOREM ManagerInvariant == ManagerSpec => []ManagerInv
<1> QED
  BY ManagerInitInv, ManagerStep, PTL DEF ManagerSpec

\* For any branches, managers, customers and requests: a customer's manager is active and
\* of the customer's branch, unless the manager left or two updates crossed.
THEOREM FirmsKeepTheirManager == ManagerSpec => []FirmsLookedAfter
<1>1. ManagerInv => FirmsLookedAfter
  BY DEF ManagerInv, LookedAfter, FirmsLookedAfter, Rows
<1> QED
  BY <1>1, ManagerInvariant, PTL

\* The same of every order's manager, also one taken from the customer's row.
THEOREM SalesKeepTheirManager == ManagerSpec => []SalesLookedAfter
<1>1. ManagerInv => SalesLookedAfter
  BY DEF ManagerInv, LookedAfter, SalesLookedAfter, Rows
<1> QED
  BY <1>1, ManagerInvariant, PTL

=============================================================================
