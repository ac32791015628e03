------------------------------ MODULE MCOffice ------------------------------
(***************************************************************************)
(* The services around the order, side by side.  They share no state, so a *)
(* behaviour is a behaviour of one of them while the others stay at their  *)
(* initial states: desk names the one that moves.                          *)
(***************************************************************************)
EXTENDS BackupRuns, ImageFiles, PhoneRegistry, LeadDesk, UpdatesPolling, Broadcasts,
        OrderNotices, ContractDesk, ManagerDesk, PriceQuotes

VARIABLE desk

officeVars == <<backupVars, imageVars, phoneVars, leadVars, pollVars, castVars,
                noticeVars, deskVars, managerVars, desk>>

Desks == {"backup", "images", "phones", "leads", "updates", "broadcasts", "notices",
          "contracts", "managers"}

\* The first content, for the tables while another service moves.
Resting == [t \in Tables |-> CHOOSE c \in Contents : TRUE]

OfficeInit ==
  /\ BackupInit /\ ImageInit /\ PhoneInit /\ LeadInit /\ PollInit /\ CastInit
  /\ NoticeInit /\ DeskInit /\ ManagerInit
  /\ desk \in Desks
  /\ desk # "backup" => db = Resting
  /\ desk # "managers" => post = [m \in Managers |-> [shop |-> CHOOSE s \in Shops : TRUE,
                                                     isActive |-> TRUE]]

Rest(d, vars) == desk # d => UNCHANGED vars

OfficeNext ==
  /\ \/ desk = "backup" /\ BackupNext
     \/ desk = "images" /\ ImageNext
     \/ desk = "phones" /\ PhoneNext
     \/ desk = "leads" /\ LeadNext
     \/ desk = "updates" /\ PollNext
     \/ desk = "broadcasts" /\ CastNext
     \/ desk = "notices" /\ NoticeNext
     \/ desk = "contracts" /\ DeskNext
     \/ desk = "managers" /\ ManagerNext
  /\ Rest("backup", backupVars) /\ Rest("images", imageVars)
  /\ Rest("phones", phoneVars) /\ Rest("leads", leadVars)
  /\ Rest("updates", pollVars) /\ Rest("broadcasts", castVars)
  /\ Rest("notices", noticeVars) /\ Rest("contracts", deskVars)
  /\ Rest("managers", managerVars)
  /\ UNCHANGED desk

\* BackupFairness and NoticeFairness, each where its service is the one that moves.
OfficeFairness ==
  /\ WF_backupVars(desk = "backup" /\ RunTimer)
  /\ WF_backupVars(desk = "backup" /\ RunStep)
  /\ \A n \in OrderChanges :
       WF_noticeVars(desk = "notices" /\ (EmitChange(n) \/ TellBuyer(n) \/ TellStaff(n)
                                          \/ HandlerThrows(n)))

OfficeSpec == OfficeInit /\ [][OfficeNext]_officeVars /\ OfficeFairness

\* The types of all of them.
OfficeTypeOK ==
  /\ BackupTypeOK /\ ImageTypeOK /\ ManagerTypeOK
  /\ PhoneTypeOK /\ LeadTypeOK /\ PollTypeOK /\ CastTypeOK /\ NoticeTypeOK /\ DeskTypeOK
  /\ desk \in Desks

-----------------------------------------------------------------------------
(* PriceQuotes is pure: it is compared with reference definitions, and TLC *)
(* evaluates the comparisons before it explores any state.                 *)

Distance(a, b) == IF a > b THEN a - b ELSE b - a

\* The integer nearest to n / d, the larger of two.
Nearest(n, d) ==
  CHOOSE k \in 0..n :
    \A j \in 0..n :
      /\ Distance(k * d, n) <= Distance(j * d, n)
      /\ Distance(k * d, n) = Distance(j * d, n) => j <= k

ASSUME RoundingAgrees == \A n \in 0..40, d \in 1..7 : RoundHalfUp(n, d) = Nearest(n, d)

SomeRules == {[type |-> "FIXED", value |-> 3], [type |-> "PERCENT", value |-> -9999],
              [type |-> "PERCENT", value |-> 1550]}
SomeLevels == {<<"PRODUCT", "PRODUCT", "x">>, <<"PRODUCT", "FACTORY", "y">>, <<"PRODUCT", "ALL">>,
               <<"TRANSPORT", "ALL">>}
SomeCustomers == UNION {[s -> SomeRules] : s \in SUBSET SomeLevels}

\* The order of TZ 3.3.1 for a product x of factory y, written out.
ProductPrice(rules, base) ==
  LET on(level) == level \in DOMAIN rules IN
  CASE on(<<"PRODUCT", "PRODUCT", "x">>) -> ApplyRule(rules[<<"PRODUCT", "PRODUCT", "x">>], base)
    [] ~on(<<"PRODUCT", "PRODUCT", "x">>) /\ on(<<"PRODUCT", "FACTORY", "y">>)
         -> ApplyRule(rules[<<"PRODUCT", "FACTORY", "y">>], base)
    [] ~on(<<"PRODUCT", "PRODUCT", "x">>) /\ ~on(<<"PRODUCT", "FACTORY", "y">>)
         /\ on(<<"PRODUCT", "ALL">>) -> ApplyRule(rules[<<"PRODUCT", "ALL">>], base)
    [] OTHER -> base

ASSUME PriceAgrees ==
  /\ \A r \in SomeRules : IsRule(r)
  /\ \A rules \in SomeCustomers, base \in {1, 7, 12000} :
       Resolve(rules, ProductLevels("x", "y"), base) = ProductPrice(rules, base)

\* The least number of vehicles that hold the pallets.
Vehicles(pallets, capacity) ==
  CHOOSE k \in 0..pallets : k * capacity >= pallets /\ (k - 1) * capacity < pallets

\* An order of x and z: the total is what the lines and the vehicles come to.
ASSUME TotalAgrees ==
  \A rules \in SomeCustomers, m, n \in 1..4, capacity \in 1..3 :
    LET items == [p \in {"x", "z"} |->
          [pallets |-> IF p = "x" THEN m ELSE n, sqmPerPallet |-> 14401,
           factory |-> "y", base |-> 7]]
        tariff == [capacity |-> capacity, route |-> "v", base |-> 500] IN
    GrandTotal(items, {tariff}, rules) =
      LineTotal("x", items["x"], rules) + LineTotal("z", items["z"], rules)
        + Vehicles(m + n, capacity) * Resolve(rules, TransportLevels("v"), 500)
=============================================================================
