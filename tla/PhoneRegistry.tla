--------------------------- MODULE PhoneRegistry ---------------------------
(***************************************************************************)
(* The phone an account logs in with (customers-admin.service.ts,          *)
(* staff-admin.service.ts, AuthService.login).  A phone is unique within a *)
(* table by its index; across the two tables only by a query made before   *)
(* the statement, and an update makes it only when the phone differs from  *)
(* the one it read.                                                        *)
(***************************************************************************)
EXTENDS Naturals

CONSTANTS
  Clients, Employees,  \* rows of customers and of users
  Phones, Admins,      \* numbers, and the requests of the admin panel
  NoPhone

Holders == Clients \cup Employees

ASSUME PhoneAssumption ==
  /\ Clients \cap Employees = {}
  /\ NoPhone \notin Phones
  /\ NoPhone \notin Holders

VARIABLES
  phone,    \* phone[h]: the number of the row, NoPhone if there is no row
  edit,     \* edit[e]: a create or an update in progress
  crossed   \* ghost: numbers written by a request that one of the other table crossed

phoneVars == <<phone, edit, crossed>>

NoEdit == [pc |-> "idle", holder |-> NoPhone, current |-> NoPhone, to |-> NoPhone,
           passed |-> FALSE]

PhoneInit ==
  /\ phone = [h \in Holders |-> NoPhone]
  /\ edit = [e \in Admins |-> NoEdit]
  /\ crossed = {}

Table(h) == IF h \in Clients THEN Clients ELSE Employees
OtherTable(h) == Holders \ Table(h)
Taken(p, table) == \E h \in table : phone[h] = p

\* create: no row yet; update: requireInScope reads the row.
Begin(e, h, p) ==
  /\ edit[e].pc = "idle"
  /\ phone[h] = NoPhone => \A u \in Admins : edit[u].holder # h
  /\ edit' = [edit EXCEPT ![e] = [pc |-> "read", holder |-> h, current |-> phone[h],
                                  to |-> p, passed |-> FALSE]]
  /\ UNCHANGED <<phone, crossed>>

\* Mutant of CheckOther: an update trusts the index of its own table.
CheckOtherOnCreate(e) ==
  /\ edit[e].pc = "read"
  /\ IF edit[e].current = NoPhone /\ Taken(edit[e].to, OtherTable(edit[e].holder))
     THEN edit' = [edit EXCEPT ![e] = NoEdit]
     ELSE edit' = [edit EXCEPT ![e].pc = "checked"]
  /\ UNCHANGED <<phone, crossed>>

\* assertPhoneNotStaff, assertPhoneNotCustomer: 409 when the other table has it; not
\* asked when the phone is the one the request read.
CheckOther(e) ==
  /\ edit[e].pc = "read"
  /\ IF edit[e].to # edit[e].current /\ Taken(edit[e].to, OtherTable(edit[e].holder))
     THEN edit' = [edit EXCEPT ![e] = NoEdit]
     ELSE edit' = [edit EXCEPT ![e].pc = "checked"]
  /\ UNCHANGED <<phone, crossed>>

\* The statement: P2002 when another row of its table has the number.  A request
\* under way that is to put the same number in the other table has been crossed.
WritePhone(e) ==
  LET h == edit[e].holder
      p == edit[e].to IN
  /\ edit[e].pc = "checked"
  /\ IF Taken(p, Table(h) \ {h})
     THEN /\ edit' = [edit EXCEPT ![e] = NoEdit]
          /\ UNCHANGED <<phone, crossed>>
     ELSE /\ phone' = [phone EXCEPT ![h] = p]
          /\ crossed' = IF edit[e].passed THEN crossed \cup {p}
                        ELSE IF Taken(p, OtherTable(h)) THEN crossed ELSE crossed \ {p}
          /\ edit' = [u \in Admins |->
               IF u = e THEN NoEdit
               ELSE IF edit[u].to = p /\ edit[u].holder \in OtherTable(h)
                    THEN [edit[u] EXCEPT !.passed = TRUE] ELSE edit[u]]

PhoneNext ==
  \E e \in Admins :
    \/ \E h \in Holders, p \in Phones : Begin(e, h, p)
    \/ CheckOther(e) \/ WritePhone(e)

PhoneSpec == PhoneInit /\ [][PhoneNext]_phoneVars

-----------------------------------------------------------------------------
(* Properties                                                              *)

Edit == [pc : {"idle", "read", "checked"}, holder : Holders \cup {NoPhone},
         current : Phones \cup {NoPhone}, to : Phones \cup {NoPhone}, passed : BOOLEAN]

PhoneTypeOK ==
  /\ phone \in [Holders -> Phones \cup {NoPhone}]
  /\ edit \in [Admins -> Edit]
  /\ crossed \subseteq Phones

\* Login finds one account: a phone belongs to one row of the two tables
\* (auth.service.ts 206-210), however often phones are given up and taken again.
\* The exception is a number the other table took while the request that writes it
\* was under way.
PhoneOwnedOnce ==
  \A g, h \in Holders :
    g # h /\ phone[g] = phone[h] /\ phone[h] # NoPhone => phone[h] \in crossed

=============================================================================
