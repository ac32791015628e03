---------------------------- MODULE OfficeProofs ----------------------------
(***************************************************************************)
(* The services of the office side by side: the invariants proved of each  *)
(* one alone hold of the behaviours of MCOffice too, and what the          *)
(* arithmetic of PriceQuotes guarantees for every price and every order.   *)
(***************************************************************************)
EXTENDS MCOffice, AdministrationProofs, FileProofs, NotificationProofs, FiniteSetTheorems,
        WellFoundedInduction, TLAPS

\* Every service's inductive invariant, whichever of them moves.
OfficeInv ==
  /\ BackupInv /\ ImageInv /\ OrphansExplained /\ PhoneInv /\ LeadInv /\ PollInv /\ CastInv
  /\ NoticeInv /\ DeskInv /\ ManagerInv
  /\ desk \in Desks

\* A step of the office is for each service one of its own steps or none.
LEMMA StepOfEach ==
  ASSUME [OfficeNext]_officeVars
  PROVE  /\ [BackupNext]_backupVars /\ [ImageNext]_imageVars /\ [PhoneNext]_phoneVars
         /\ [LeadNext]_leadVars /\ [PollNext]_pollVars /\ [CastNext]_castVars
         /\ [NoticeNext]_noticeVars /\ [DeskNext]_deskVars /\ [ManagerNext]_managerVars
         /\ UNCHANGED desk
<1>1. CASE OfficeNext
  BY <1>1 DEF OfficeNext, Rest
<1>2. CASE UNCHANGED officeVars
  BY <1>2 DEF officeVars
<1>3. QED
  BY <1>1, <1>2

LEMMA OfficeInitInv == OfficeInit => OfficeInv
<1>1. QED
  BY BackupInitInv, ImageInitInv, PhoneInitInv, LeadInitInv, PollInitInv, CastInitInv,
     NoticeInitInv, DeskInitInv, ManagerInitInv DEF OfficeInit, OfficeInv

LEMMA OfficeStep == ASSUME OfficeInv, [OfficeNext]_officeVars PROVE OfficeInv'
<1>1. BackupInv' /\ ImageInv' /\ OrphansExplained'
  BY StepOfEach, BackupStep, ImageStep, OrphansStep DEF OfficeInv
<1>2. PhoneInv' /\ LeadInv' /\ ManagerInv'
  BY StepOfEach, PhoneStep, LeadStep, ManagerStep DEF OfficeInv
<1>3. PollInv' /\ CastInv' /\ NoticeInv' /\ DeskInv'
  BY StepOfEach, PollStep, CastStep, NoticeStep, DeskStep DEF OfficeInv
<1>4. desk' \in Desks
  BY StepOfEach DEF OfficeInv, Desks
<1>5. QED
  BY <1>1, <1>2, <1>3, <1>4 DEF OfficeInv

THEOREM OfficeInvariant == OfficeSpec => []OfficeInv
<1>1. QED
  BY OfficeInitInv, OfficeStep, PTL DEF OfficeSpec

\* The types of every service hold in the office.
THEOREM OfficeTypes == OfficeSpec => []OfficeTypeOK
<1>1. OfficeInv => OfficeTypeOK
  <2>1. ImageInv => ImageTypeOK
    BY DEF ImageInv, ImageTyped, ImageStaged, ImageTypeOK
  <2>2. QED
    BY <2>1 DEF OfficeInv, OfficeTypeOK, BackupInv, PhoneInv, LeadInv, PollInv, CastInv,
                NoticeInv, DeskInv, ManagerInv
<1>2. QED
  BY <1>1, OfficeInvariant, PTL

\* Each service keeps in the office what it promises alone: the nine of them share no
\* state (the modules of src/api/src/modules have tables of their own).
THEOREM OfficeKeeps ==
  OfficeSpec => [](/\ MirrorHolds /\ ForcedSends /\ RowsHaveFiles /\ OrphansExplained
                   /\ PhoneOwnedOnce /\ LeadOnce /\ FirmsLookedAfter /\ SalesLookedAfter
                   /\ NothingDropped /\ AnnouncedOnce /\ ReachesAll /\ NoticeOfCommitted
                   /\ ContractsDownloadable)
<1>1. ASSUME OfficeInv
      PROVE  MirrorHolds /\ ForcedSends /\ RowsHaveFiles /\ OrphansExplained
  BY <1>1 DEF OfficeInv, BackupInv, RunSound, Remembered, CallSound, MirrorHolds, ImageInv
<1>2. ASSUME OfficeInv
      PROVE  PhoneOwnedOnce /\ LeadOnce /\ FirmsLookedAfter /\ SalesLookedAfter
  BY <1>2, OneLead DEF OfficeInv, PhoneInv, ManagerInv, LookedAfter, FirmsLookedAfter,
                       SalesLookedAfter, Rows
<1>3. ASSUME OfficeInv
      PROVE  /\ NothingDropped /\ AnnouncedOnce /\ ReachesAll /\ NoticeOfCommitted
             /\ ContractsDownloadable
  BY <1>3 DEF OfficeInv, PollInv, SinceSafe, Before, Unshown, NothingDropped, CastInv,
              NoticeInv, DeskInv
<1>4. QED
  BY <1>1, <1>2, <1>3, OfficeInvariant, PTL

-----------------------------------------------------------------------------
(* Sums.  A fold takes the elements one by one in an order nobody knows;   *)
(* that the order does not matter is shown on a least set for which it did. *)

\* it is the table of the sums of f over the subsets of S.
Sums(f, S, it) ==
  it = [s \in SUBSET S |->
          IF s = {} THEN 0
          ELSE f[CHOOSE x \in s : TRUE] + it[s \ {CHOOSE x \in s : TRUE}]]

\* Among subsets of a finite set there is one that no other is part of.
LEMMA MinimalSubset ==
  ASSUME NEW S, IsFiniteSet(S), NEW F \in SUBSET SUBSET S, F # {}
  PROVE  \E s \in F : \A r \in F : r \subseteq s => r = s
<1> DEFINE R == StrictSubsetOrdering(S)
<1>1. IsWellFoundedOn(R, SUBSET S)
  BY FS_StrictSubsetOrderingWellFounded, FS_FiniteSubsetsOfFinite
<1>2. PICK s \in F : \A r \in F : ~(<<r, s>> \in R)
  <2> HIDE DEF R
  <2>1. QED
    BY <1>1, WFMin
<1>3. QED
  BY <1>2 DEF StrictSubsetOrdering

\* Two tables say the same of a set both have.
LEMMA SumsAgree ==
  ASSUME NEW f, NEW S, IsFiniteSet(S), NEW T, NEW i, NEW j, Sums(f, S, i), Sums(f, T, j),
         NEW u \in SUBSET S, u \subseteq T
  PROVE  i[u] = j[u]
<1> DEFINE F == {s \in SUBSET S : s \subseteq T /\ i[s] # j[s]}
<1> SUFFICES ASSUME F # {} PROVE FALSE
  OBVIOUS
<1>1. F \in SUBSET SUBSET S
  OBVIOUS
<1>2. PICK s \in F : \A r \in F : r \subseteq s => r = s
  <2> HIDE DEF F
  <2>1. QED
    BY <1>1, MinimalSubset
<1> DEFINE x == CHOOSE y \in s : TRUE
<1>3. s # {} /\ i[s] = f[x] + i[s \ {x}] /\ j[s] = f[x] + j[s \ {x}]
  BY DEF Sums
<1>4. x \in s
  BY <1>3
<1>5. s \ {x} \notin F
  BY <1>2, <1>4
<1>6. i[s \ {x}] = j[s \ {x}]
  BY <1>5
<1>7. QED
  BY <1>3, <1>6

\* Every finite set has a table.
LEMMA SumsExist ==
  ASSUME NEW f, NEW S, IsFiniteSet(S)
  PROVE  \E i : Sums(f, S, i)
<1> DEFINE F == {s \in SUBSET S : ~ \E i : Sums(f, s, i)}
<1> SUFFICES ASSUME F # {} PROVE FALSE
  OBVIOUS
<1>1. F \in SUBSET SUBSET S
  OBVIOUS
<1>2. PICK b \in F : \A r \in F : r \subseteq b => r = b
  <2> HIDE DEF F
  <2>1. QED
    BY <1>1, MinimalSubset
<1> DEFINE tab(s) == CHOOSE i : Sums(f, s, i)
           x(s) == CHOOSE y \in s : TRUE
           val(s) == IF s = {} THEN 0 ELSE f[x(s)] + tab(s \ {x(s)})[s \ {x(s)}]
           it == [s \in SUBSET b |-> val(s)]
<1>3. \A s \in SUBSET b : s # b => Sums(f, s, tab(s))
  <2> SUFFICES ASSUME NEW s \in SUBSET b, s # b PROVE \E i : Sums(f, s, i)
    OBVIOUS
  <2>1. QED
    BY <1>2
<1>4. \A s : s # {} => x(s) \in s
  OBVIOUS
<1>5. ASSUME NEW s \in SUBSET b, s # b
      PROVE  tab(s)[s] = val(s)
  <2>1. CASE s = {}
    <3>1. Sums(f, s, tab(s))
      BY <1>3, <1>5
    <3>2. QED
      BY <2>1, <3>1 DEF Sums
  <2>2. CASE s # {}
    <3>1. Sums(f, s, tab(s)) /\ Sums(f, s \ {x(s)}, tab(s \ {x(s)}))
      BY <1>3, <1>4, <1>5, <2>2
    <3>2. tab(s)[s] = f[x(s)] + tab(s)[s \ {x(s)}]
      BY <2>2, <3>1 DEF Sums
    <3>3. IsFiniteSet(s)
      BY FS_Subset
    <3>4. tab(s)[s \ {x(s)}] = tab(s \ {x(s)})[s \ {x(s)}]
      <4> HIDE DEF tab, x
      <4>1. s \ {x(s)} \in SUBSET s
        OBVIOUS
      <4>2. QED
        BY <3>1, <3>3, <4>1, SumsAgree
    <3>5. QED
      BY <2>2, <3>2, <3>4
  <2>3. QED
    BY <2>1, <2>2
<1>6. ASSUME NEW s \in SUBSET b, s # {}
      PROVE  it[s] = f[x(s)] + it[s \ {x(s)}]
  <2>1. s \ {x(s)} \in SUBSET b /\ s \ {x(s)} # b
    BY <1>4, <1>6
  <2>2. it[s] = f[x(s)] + tab(s \ {x(s)})[s \ {x(s)}]
    BY <1>6
  <2>3. it[s \ {x(s)}] = val(s \ {x(s)})
    BY <2>1
  <2>4. QED
    <3> HIDE DEF it, val, tab, x
    <3>1. QED
      BY <1>5, <2>1, <2>2, <2>3
<1>7. Sums(f, b, it)
  <2>1. it[{}] = 0
    OBVIOUS
  <2>2. \A s \in SUBSET b : it[s] = IF s = {} THEN 0 ELSE f[x(s)] + it[s \ {x(s)}]
    <3> HIDE DEF it, x
    <3>1. QED
      BY <1>6, <2>1
  <2>3. it = [s \in SUBSET b |-> it[s]]
    OBVIOUS
  <2>4. it = [s \in SUBSET b |-> IF s = {} THEN 0 ELSE f[x(s)] + it[s \ {x(s)}]]
    <3> HIDE DEF it, x
    <3>1. QED
      BY <2>2, <2>3
  <2>5. QED
    BY <2>4 DEF Sums
<1>8. QED
  BY <1>2, <1>7

\* What the library's fold is.
LEMMA SumUnfolds ==
  ASSUME NEW f, NEW S, IsFiniteSet(S)
  PROVE  \E i : Sums(f, S, i) /\ SumFunctionOnSet(f, S) = i[S]
<1> DEFINE k == CHOOSE j : j = [s \in SUBSET S |->
                  IF s = {} THEN 0
                  ELSE f[CHOOSE x \in s : TRUE] + j[s \ {CHOOSE x \in s : TRUE}]]
<1>1. SumFunctionOnSet(f, S) = k[S]
  BY Zenon DEF SumFunctionOnSet, FoldFunctionOnSet, MapThenFoldSet
<1>2. Sums(f, S, k)
  <2>1. PICK i : Sums(f, S, i)
    BY SumsExist
  <2>2. QED
    BY <2>1, Zenon DEF Sums
<1>3. QED
  BY <1>1, <1>2

\* Nothing comes to zero, and a sum is one of its terms and the sum of the others.
LEMMA SumOfNothing == ASSUME NEW f PROVE SumFunctionOnSet(f, {}) = 0
<1>1. PICK i : Sums(f, {}, i) /\ SumFunctionOnSet(f, {}) = i[{}]
  BY SumUnfolds, FS_EmptySet
<1>2. QED
  BY <1>1 DEF Sums

LEMMA SumOfFirst ==
  ASSUME NEW f, NEW S, IsFiniteSet(S), S # {}
  PROVE  \E x \in S : SumFunctionOnSet(f, S) = f[x] + SumFunctionOnSet(f, S \ {x})
<1> DEFINE x == CHOOSE y \in S : TRUE
<1>1. x \in S /\ IsFiniteSet(S \ {x})
  BY FS_Subset
<1>2. PICK i : Sums(f, S, i) /\ SumFunctionOnSet(f, S) = i[S]
  BY SumUnfolds
<1>3. PICK j : Sums(f, S \ {x}, j) /\ SumFunctionOnSet(f, S \ {x}) = j[S \ {x}]
  BY <1>1, SumUnfolds
<1>4. i[S] = f[x] + i[S \ {x}]
  BY <1>2 DEF Sums
<1>5. i[S \ {x}] = j[S \ {x}]
  <2> HIDE DEF x
  <2>1. S \ {x} \in SUBSET S
    OBVIOUS
  <2>2. QED
    BY <1>2, <1>3, <2>1, SumsAgree
<1>6. QED
  BY <1>1, <1>2, <1>3, <1>4, <1>5

\* Naturals sum up to a natural.
LEMMA SumIsNat ==
  ASSUME NEW f, NEW S, IsFiniteSet(S), \A x \in S : f[x] \in Nat
  PROVE  SumFunctionOnSet(f, S) \in Nat
<1> DEFINE F == {s \in SUBSET S : SumFunctionOnSet(f, s) \notin Nat}
<1> SUFFICES ASSUME F # {} PROVE FALSE
  OBVIOUS
<1>1. F \in SUBSET SUBSET S
  OBVIOUS
<1>2. PICK s \in F : \A r \in F : r \subseteq s => r = s
  <2> HIDE DEF F
  <2>1. QED
    BY <1>1, MinimalSubset
<1>3. s # {} /\ IsFiniteSet(s)
  <2>1. IsFiniteSet(s)
    BY FS_Subset
  <2>2. SumFunctionOnSet(f, {}) = 0
    BY SumOfNothing
  <2>3. QED
    BY <2>1, <2>2
<1>4. PICK x \in s : SumFunctionOnSet(f, s) = f[x] + SumFunctionOnSet(f, s \ {x})
  BY <1>3, SumOfFirst
<1>5. SumFunctionOnSet(f, s \ {x}) \in Nat
  BY <1>2
<1>6. QED
  BY <1>4, <1>5

\* Whichever term is taken first.
LEMMA SumOfOne ==
  ASSUME NEW f, NEW S, IsFiniteSet(S), \A x \in S : f[x] \in Nat, NEW a \in S
  PROVE  SumFunctionOnSet(f, S) = f[a] + SumFunctionOnSet(f, S \ {a})
<1> DEFINE Sum(s) == SumFunctionOnSet(f, s)
           F == {s \in SUBSET S : \E c \in s : Sum(s) # f[c] + Sum(s \ {c})}
<1> SUFFICES ASSUME F # {} PROVE FALSE
  OBVIOUS
<1>1. F \in SUBSET SUBSET S
  OBVIOUS
<1>2. PICK s \in F : \A r \in F : r \subseteq s => r = s
  <2> HIDE DEF F
  <2>1. QED
    BY <1>1, MinimalSubset
<1>3. PICK c \in s : Sum(s) # f[c] + Sum(s \ {c})
  BY <1>2
<1>4. IsFiniteSet(s) /\ \A r \in SUBSET s : Sum(r) \in Nat
  <2>1. IsFiniteSet(s)
    BY FS_Subset
  <2>2. ASSUME NEW r \in SUBSET s
        PROVE  Sum(r) \in Nat
    <3>1. IsFiniteSet(r) /\ \A x \in r : f[x] \in Nat
      BY <2>1, FS_Subset
    <3>2. QED
      BY <3>1, SumIsNat
  <2>3. QED
    BY <2>1, <2>2
<1>5. PICK d \in s : Sum(s) = f[d] + Sum(s \ {d})
  BY <1>4, SumOfFirst
<1>6. d # c
  BY <1>3, <1>5
<1>7. Sum(s \ {d}) = f[c] + Sum((s \ {d}) \ {c})
  <2>1. s \ {d} \notin F
    BY <1>2
  <2>2. QED
    BY <1>6, <2>1
<1>8. Sum(s \ {c}) = f[d] + Sum((s \ {c}) \ {d})
  <2>1. s \ {c} \notin F
    BY <1>2
  <2>2. QED
    BY <1>6, <2>1
<1>9. (s \ {d}) \ {c} = (s \ {c}) \ {d} /\ Sum((s \ {d}) \ {c}) \in Nat
  BY <1>4
<1>10. f[c] \in Nat /\ f[d] \in Nat
  OBVIOUS
<1> HIDE DEF Sum
<1>11. QED
  BY <1>3, <1>5, <1>7, <1>8, <1>9, <1>10

\* Smaller terms, a smaller sum.
LEMMA SumsCompare ==
  ASSUME NEW f, NEW g, NEW S, IsFiniteSet(S),
         \A x \in S : f[x] \in Nat /\ g[x] \in Nat /\ f[x] <= g[x]
  PROVE  SumFunctionOnSet(f, S) <= SumFunctionOnSet(g, S)
<1> DEFINE F == {s \in SUBSET S : ~(SumFunctionOnSet(f, s) <= SumFunctionOnSet(g, s))}
<1> SUFFICES ASSUME F # {} PROVE FALSE
  OBVIOUS
<1>1. F \in SUBSET SUBSET S
  OBVIOUS
<1>2. PICK s \in F : \A r \in F : r \subseteq s => r = s
  <2> HIDE DEF F
  <2>1. QED
    BY <1>1, MinimalSubset
<1>3. s # {} /\ IsFiniteSet(s)
  <2>1. IsFiniteSet(s)
    BY FS_Subset
  <2>2. SumFunctionOnSet(f, {}) = 0 /\ SumFunctionOnSet(g, {}) = 0
    BY SumOfNothing
  <2>3. QED
    BY <2>1, <2>2
<1>4. PICK x \in s : SumFunctionOnSet(f, s) = f[x] + SumFunctionOnSet(f, s \ {x})
  BY <1>3, SumOfFirst
<1>5. SumFunctionOnSet(g, s) = g[x] + SumFunctionOnSet(g, s \ {x})
  BY <1>3, SumOfOne
<1>6. SumFunctionOnSet(f, s \ {x}) <= SumFunctionOnSet(g, s \ {x})
  BY <1>2
<1>7. SumFunctionOnSet(f, s \ {x}) \in Nat /\ SumFunctionOnSet(g, s \ {x}) \in Nat
  <2>1. IsFiniteSet(s \ {x})
    BY <1>3, FS_Subset
  <2>2. QED
    BY <2>1, SumIsNat
<1>8. QED
  BY <1>4, <1>5, <1>6, <1>7

\* A term is no larger than the sum.
LEMMA SumCoversTerms ==
  ASSUME NEW f, NEW S, IsFiniteSet(S), \A x \in S : f[x] \in Nat, NEW a \in S
  PROVE  f[a] <= SumFunctionOnSet(f, S)
<1>1. IsFiniteSet(S \ {a})
  BY FS_Subset
<1>2. SumFunctionOnSet(f, S \ {a}) \in Nat
  BY <1>1, SumIsNat
<1>3. QED
  BY <1>2, SumOfOne

-----------------------------------------------------------------------------
(* Prices                                                                  *)

(***************************************************************************)
(* toDecimalPlaces(2, ROUND_HALF_UP) is off by half of the last place at   *)
(* most, and a half goes up.                                               *)
(***************************************************************************)
THEOREM RoundingIsNearest ==
  ASSUME NEW n \in Nat, NEW d \in Nat \ {0}
  PROVE  /\ RoundHalfUp(n, d) \in Nat
         /\ 2 * d * RoundHalfUp(n, d) <= 2 * n + d
         /\ 2 * n < 2 * d * RoundHalfUp(n, d) + d
<1> DEFINE q == (2 * n + d) \div (2 * d)
           e == 2 * d
           m == 2 * n + d
<1>1. e \in Nat \ {0} /\ m \in Nat
  OBVIOUS
<1>2. m \div e \in Int /\ (m \div e) * e <= m /\ m < (m \div e) * e + e
  BY <1>1
<1>3. m \div e >= 0
  BY <1>1, <1>2
<1>4. (m \div e) * e = 2 * d * q
  BY <1>2
<1> QED
  BY <1>1, <1>2, <1>3, <1>4 DEF RoundHalfUp

(***************************************************************************)
(* However large the discount, nothing is given away, and a discount never *)
(* makes a price higher nor a surcharge make it lower                      *)
(* (pricing-resolver.service.ts 39-44).                                    *)
(***************************************************************************)
THEOREM PercentKeepsSign ==
  ASSUME NEW base \in Nat \ {0}, NEW value \in Int, value > -10000
  PROVE  /\ PercentPrice(value, base) \in Nat \ {0}
         /\ value <= 0 => PercentPrice(value, base) <= base
         /\ value >= 0 => PercentPrice(value, base) >= base
<1> DEFINE n == base * (10000 + value)
<1>1. n \in Nat
  BY SMT
<1>2. value <= 0 => n <= base * 10000
  BY SMT
<1>3. value >= 0 => n >= base * 10000
  BY SMT
<1> HIDE DEF n
<1>4. /\ RoundHalfUp(n, 10000) \in Nat
      /\ 20000 * RoundHalfUp(n, 10000) <= 2 * n + 10000
      /\ 2 * n < 20000 * RoundHalfUp(n, 10000) + 10000
  BY <1>1 DEF RoundHalfUp
<1>5. PercentPrice(value, base) =
        IF RoundHalfUp(n, 10000) < 1 THEN 1 ELSE RoundHalfUp(n, 10000)
  BY DEF PercentPrice, MinPrice, n
<1>6. value <= 0 => RoundHalfUp(n, 10000) <= base
  BY <1>1, <1>2, <1>4
<1>7. value >= 0 => RoundHalfUp(n, 10000) >= base
  BY <1>1, <1>3, <1>4
<1> QED
  BY <1>4, <1>5, <1>6, <1>7

(***************************************************************************)
(* The rule picked is one of a level of the target, and no more specific   *)
(* level has one (pricing-resolver.service.ts 54-56).                      *)
(***************************************************************************)
THEOREM MostSpecificRule ==
  ASSUME NEW rules, NEW levels, NEW n \in Nat, DOMAIN levels = 1..n,
         NEW i \in 1..n, levels[i] \in DOMAIN rules,
         \A j \in 1..n : j < i => levels[j] \notin DOMAIN rules
  PROVE  PickRule(rules, levels) = rules[levels[i]]
<1> DEFINE hits == {j \in DOMAIN levels : levels[j] \in DOMAIN rules}
<1>1. i \in hits /\ \A j \in hits : i <= j
  OBVIOUS
<1>2. \A k \in hits : (\A j \in hits : k <= j) => k = i
  BY <1>1
<1>3. (CHOOSE k \in hits : \A j \in hits : k <= j) = i
  BY <1>1, <1>2
<1> QED
  BY <1>1, <1>3 DEF PickRule

(***************************************************************************)
(* A rule of one domain never reaches the other: two customers whose       *)
(* transport rules are the same pay the same delivery, whatever their      *)
(* product rules (pricing-resolver.service.ts 80-82).                      *)
(***************************************************************************)
THEOREM DomainsApart ==
  ASSUME NEW r1, NEW r2, NEW pallets, NEW transport,
         \A l \in {<<"TRANSPORT", "ROUTE", transport.route>>, <<"TRANSPORT", "ALL">>} :
           (l \in DOMAIN r1 <=> l \in DOMAIN r2) /\ r1[l] = r2[l]
  PROVE  DeliveryTotal(pallets, transport, r1) = DeliveryTotal(pallets, transport, r2)
<1> DEFINE levels == TransportLevels(transport.route)
           hits(r) == {i \in DOMAIN levels : levels[i] \in DOMAIN r}
<1>1. DOMAIN levels = {1, 2} /\ levels[1] = <<"TRANSPORT", "ROUTE", transport.route>>
      /\ levels[2] = <<"TRANSPORT", "ALL">>
  BY DEF TransportLevels
<1> HIDE DEF levels
<1>2. hits(r1) = hits(r2)
  BY <1>1
<1>3. \A i \in hits(r1) : r1[levels[i]] = r2[levels[i]]
  BY <1>1
<1>4. hits(r1) # {} => (CHOOSE i \in hits(r1) : \A j \in hits(r1) : i <= j) \in hits(r1)
  BY <1>1
<1>5. PickRule(r1, levels) = PickRule(r2, levels)
  BY <1>2, <1>3, <1>4 DEF PickRule
<1> QED
  BY <1>5 DEF DeliveryTotal, Resolve, levels

(***************************************************************************)
(* The vehicles of a delivery hold its pallets, and one fewer would not    *)
(* (calculator.service.ts 203-205).                                        *)
(***************************************************************************)
THEOREM VehiclesSuffice ==
  ASSUME NEW pallets \in Nat \ {0}, NEW capacity \in Nat \ {0}
  PROVE  /\ VehicleCount(pallets, capacity) \in Nat \ {0}
         /\ VehicleCount(pallets, capacity) * capacity >= pallets
         /\ (VehicleCount(pallets, capacity) - 1) * capacity < pallets
<1> DEFINE m == pallets + capacity - 1
           q == m \div capacity
<1>1. m \in Nat /\ m >= capacity
  OBVIOUS
<1> HIDE DEF m
<1>2. q \in Int /\ q * capacity <= m /\ m < q * capacity + capacity
  BY <1>1
<1>3. q >= 1
  BY <1>1, <1>2
<1>4. (q - 1) * capacity = q * capacity - capacity
  BY <1>2
<1> HIDE DEF q
<1>5. q * capacity \in Int
  BY <1>2
<1>6. q * capacity >= pallets /\ (q - 1) * capacity < pallets
  BY <1>2, <1>4, <1>5 DEF m
<1> QED
  BY <1>2, <1>3, <1>6 DEF VehicleCount, m, q

-----------------------------------------------------------------------------
(* What an order comes to                                                  *)

\* Rules as a customer has them: a level either has a rule or has none.
AreRules(rules) == \A l \in DOMAIN rules : rules[l] # NoRule /\ IsRule(rules[l])
AreDiscounts(rules) ==
  \A l \in DOMAIN rules : rules[l].type = "PERCENT" /\ rules[l].value < 0

\* Items and tariffs as the tables keep them: pallets, square metres, capacities and prices
\* are positive (the CHECK constraints of the migrations).
AreItems(items) ==
  /\ IsFiniteSet(DOMAIN items)
  /\ \A p \in DOMAIN items :
       /\ items[p].pallets \in Nat \ {0} /\ items[p].sqmPerPallet \in Nat \ {0}
       /\ items[p].base \in Nat \ {0}
AreTransports(transports) ==
  /\ IsFiniteSet(transports)
  /\ \A t \in transports : t.capacity \in Nat \ {0} /\ t.base \in Nat \ {0}

LEMMA TimesKeepsOrder ==
  ASSUME NEW a \in Nat, NEW x \in Nat, NEW y \in Nat, x <= y
  PROVE  a * x \in Nat /\ a * y \in Nat /\ a * x <= a * y
BY SMT

LEMMA RoundingKeepsOrder ==
  ASSUME NEW m \in Nat, NEW n \in Nat, NEW d \in Nat \ {0}, m <= n
  PROVE  RoundHalfUp(m, d) <= RoundHalfUp(n, d)
<1>1. /\ RoundHalfUp(m, d) \in Nat /\ 2 * d * RoundHalfUp(m, d) <= 2 * m + d
      /\ RoundHalfUp(n, d) \in Nat /\ 2 * n < 2 * d * RoundHalfUp(n, d) + d
  BY RoundingIsNearest
<1> DEFINE a == RoundHalfUp(m, d)
           b == RoundHalfUp(n, d)
<1> HIDE DEF a, b
<1>2. a \in Nat /\ b \in Nat /\ 2 * d * a <= 2 * m + d /\ 2 * n < 2 * d * b + d
  BY <1>1 DEF a, b
<1>3. ASSUME a > b
      PROVE  FALSE
  <2>1. d * (b + 1) <= d * a
    BY <1>2, <1>3, TimesKeepsOrder
  <2>2. d * (b + 1) = d * b + d /\ d * a \in Nat /\ d * b \in Nat
    BY <1>2
  <2>3. 2 * d * a = 2 * (d * a) /\ 2 * d * b = 2 * (d * b)
    BY <1>2
  <2>4. QED
    BY <1>2, <2>1, <2>2, <2>3
<1>4. QED
  BY <1>2, <1>3 DEF a, b

\* The rule picked is one of the customer's.
LEMMA PickedIsARule ==
  ASSUME NEW rules, NEW levels, DOMAIN levels \subseteq 1..3
  PROVE  \/ PickRule(rules, levels) = NoRule
         \/ \E l \in DOMAIN rules : PickRule(rules, levels) = rules[l]
<1> DEFINE hits == {i \in DOMAIN levels : levels[i] \in DOMAIN rules}
<1>1. hits # {} => \E i \in hits : \A j \in hits : i <= j
  BY SMT
<1>2. hits # {} => (CHOOSE i \in hits : \A j \in hits : i <= j) \in hits
  BY <1>1
<1>3. QED
  BY <1>2 DEF PickRule

LEMMA ResolvedPrice ==
  ASSUME NEW rules, AreRules(rules), NEW levels, DOMAIN levels \subseteq 1..3,
         NEW base \in Nat \ {0}
  PROVE  /\ Resolve(rules, levels, base) \in Nat \ {0}
         /\ AreDiscounts(rules) => Resolve(rules, levels, base) <= base
<1>1. CASE PickRule(rules, levels) = NoRule
  BY <1>1 DEF Resolve
<1>2. ASSUME NEW l \in DOMAIN rules, PickRule(rules, levels) = rules[l]
      PROVE  /\ Resolve(rules, levels, base) \in Nat \ {0}
             /\ AreDiscounts(rules) => Resolve(rules, levels, base) <= base
  <2>1. rules[l] # NoRule /\ IsRule(rules[l])
    BY DEF AreRules
  <2>2. Resolve(rules, levels, base) = ApplyRule(rules[l], base)
    BY <1>2, <2>1 DEF Resolve
  <2>3. CASE rules[l].type = "FIXED"
    BY <2>1, <2>2, <2>3 DEF ApplyRule, IsRule, AreDiscounts
  <2>4. CASE rules[l].type = "PERCENT"
    <3>1. rules[l].value \in Int /\ rules[l].value > -10000
      BY <2>1, <2>4 DEF IsRule
    <3>2. /\ PercentPrice(rules[l].value, base) \in Nat \ {0}
          /\ rules[l].value <= 0 => PercentPrice(rules[l].value, base) <= base
      BY <3>1, PercentKeepsSign
    <3>3. ApplyRule(rules[l], base) = PercentPrice(rules[l].value, base)
      BY <2>4 DEF ApplyRule
    <3>4. AreDiscounts(rules) => rules[l].value <= 0
      BY <3>1 DEF AreDiscounts
    <3>5. QED
      BY <2>2, <3>2, <3>3, <3>4
  <2>5. QED
    BY <2>1, <2>3, <2>4 DEF IsRule
<1>3. QED
  BY <1>1, <1>2, PickedIsARule

LEMMA LevelsNumbered ==
  ASSUME NEW a, NEW b
  PROVE  DOMAIN ProductLevels(a, b) \subseteq 1..3 /\ DOMAIN TransportLevels(a) \subseteq 1..3
BY DEF ProductLevels, TransportLevels

\* A line comes to a natural number, and to no more where its price is no higher.
LEMMA LineIsNat ==
  ASSUME NEW rules, AreRules(rules), NEW items, AreItems(items), NEW p \in DOMAIN items
  PROVE  LineTotal(p, items[p], rules) \in Nat
<1> DEFINE sqm == items[p].pallets * items[p].sqmPerPallet
           price == Resolve(rules, ProductLevels(p, items[p].factory), items[p].base)
<1>1. sqm \in Nat
  BY SMT DEF AreItems
<1>2. price \in Nat
  BY LevelsNumbered, ResolvedPrice DEF AreItems
<1> HIDE DEF sqm, price
<1>3. sqm * price \in Nat
  BY <1>1, <1>2, TimesKeepsOrder
<1>4. RoundHalfUp(sqm * price, 10000) \in Nat
  BY <1>3, RoundingIsNearest
<1>5. QED
  BY <1>4 DEF LineTotal, sqm, price

LEMMA LineDiscounted ==
  ASSUME NEW rules, AreRules(rules), AreDiscounts(rules), NEW none, DOMAIN none = {},
         NEW items, AreItems(items), NEW p \in DOMAIN items
  PROVE  LineTotal(p, items[p], rules) <= LineTotal(p, items[p], none)
<1> DEFINE levels == ProductLevels(p, items[p].factory)
           sqm == items[p].pallets * items[p].sqmPerPallet
           price == Resolve(rules, levels, items[p].base)
<1>1. sqm \in Nat /\ items[p].base \in Nat
  BY SMT DEF AreItems
<1>2. price \in Nat /\ price <= items[p].base
  BY LevelsNumbered, ResolvedPrice DEF AreItems
<1>3. Resolve(none, levels, items[p].base) = items[p].base
  BY DEF Resolve, PickRule
<1> HIDE DEF sqm, price, levels
<1>4. /\ sqm * price \in Nat /\ sqm * items[p].base \in Nat
      /\ sqm * price <= sqm * items[p].base
  BY <1>1, <1>2, TimesKeepsOrder
<1>5. RoundHalfUp(sqm * price, 10000) <= RoundHalfUp(sqm * items[p].base, 10000)
  BY <1>4, RoundingKeepsOrder
<1>6. QED
  BY <1>3, <1>5 DEF LineTotal, sqm, price, levels

\* The same of a delivery.
LEMMA VehiclesAreNat ==
  ASSUME NEW pallets \in Nat, NEW capacity \in Nat \ {0}
  PROVE  VehicleCount(pallets, capacity) \in Nat
<1>1. CASE pallets = 0
  <2>1. (pallets + capacity - 1) \div capacity = 0
    BY <1>1
  <2>2. QED
    BY <2>1 DEF VehicleCount
<1>2. CASE pallets # 0
  BY <1>2, VehiclesSuffice
<1>3. QED
  BY <1>1, <1>2

LEMMA DeliveryIsNat ==
  ASSUME NEW rules, AreRules(rules), NEW pallets \in Nat,
         NEW t, t.capacity \in Nat \ {0}, t.base \in Nat \ {0}
  PROVE  DeliveryTotal(pallets, t, rules) \in Nat
<1> DEFINE vehicles == VehicleCount(pallets, t.capacity)
           price == Resolve(rules, TransportLevels(t.route), t.base)
<1>1. vehicles \in Nat
  BY VehiclesAreNat
<1>2. price \in Nat
  BY LevelsNumbered, ResolvedPrice
<1> HIDE DEF vehicles, price
<1>3. vehicles * price \in Nat
  BY <1>1, <1>2, TimesKeepsOrder
<1>4. QED
  BY <1>3 DEF DeliveryTotal, vehicles, price

LEMMA DeliveryDiscounted ==
  ASSUME NEW rules, AreRules(rules), AreDiscounts(rules), NEW none, DOMAIN none = {},
         NEW pallets \in Nat, NEW t, t.capacity \in Nat \ {0}, t.base \in Nat \ {0}
  PROVE  DeliveryTotal(pallets, t, rules) <= DeliveryTotal(pallets, t, none)
<1> DEFINE levels == TransportLevels(t.route)
           vehicles == VehicleCount(pallets, t.capacity)
           price == Resolve(rules, levels, t.base)
<1>1. vehicles \in Nat
  BY VehiclesAreNat
<1>2. price \in Nat /\ price <= t.base
  BY LevelsNumbered, ResolvedPrice
<1>3. Resolve(none, levels, t.base) = t.base
  BY DEF Resolve, PickRule
<1> HIDE DEF vehicles, price, levels
<1>4. vehicles * price <= vehicles * t.base
  BY <1>1, <1>2, TimesKeepsOrder
<1>5. QED
  BY <1>3, <1>4 DEF DeliveryTotal, vehicles, price, levels

LEMMA PalletsAreNat ==
  ASSUME NEW items, AreItems(items)
  PROVE  TotalPallets(items) \in Nat
<1> DEFINE f == [p \in DOMAIN items |-> items[p].pallets]
<1>1. IsFiniteSet(DOMAIN items) /\ \A p \in DOMAIN items : f[p] \in Nat
  BY DEF AreItems
<1> HIDE DEF f
<1>2. SumFunctionOnSet(f, DOMAIN items) \in Nat
  BY <1>1, SumIsNat
<1>3. QED
  BY <1>2 DEF TotalPallets, SumFunction, f

\* The terms of both sums, and the sums themselves.
LEMMA TotalsAreSums ==
  ASSUME NEW rules, AreRules(rules), NEW items, AreItems(items),
         NEW transports, AreTransports(transports)
  PROVE  \E f, g :
           /\ \A p \in DOMAIN items : f[p] = LineTotal(p, items[p], rules) /\ f[p] \in Nat
           /\ \A t \in transports :
                /\ g[t] = DeliveryTotal(TotalPallets(items), t, rules)
                /\ g[t] \in Nat
           /\ ItemsTotal(items, rules) = SumFunctionOnSet(f, DOMAIN items)
           /\ GrandTotal(items, transports, rules) =
                SumFunctionOnSet(f, DOMAIN items) + SumFunctionOnSet(g, transports)
           /\ SumFunctionOnSet(f, DOMAIN items) \in Nat
           /\ SumFunctionOnSet(g, transports) \in Nat
<1> DEFINE f == [p \in DOMAIN items |-> LineTotal(p, items[p], rules)]
           g == [t \in transports |-> DeliveryTotal(TotalPallets(items), t, rules)]
<1>1. \A p \in DOMAIN items : f[p] = LineTotal(p, items[p], rules) /\ f[p] \in Nat
  BY LineIsNat
<1>2. \A t \in transports :
        g[t] = DeliveryTotal(TotalPallets(items), t, rules) /\ g[t] \in Nat
  BY PalletsAreNat, DeliveryIsNat DEF AreTransports
<1>3. ItemsTotal(items, rules) = SumFunctionOnSet(f, DOMAIN items)
  BY DEF ItemsTotal, SumFunction
<1>4. GrandTotal(items, transports, rules) =
        SumFunctionOnSet(f, DOMAIN items) + SumFunctionOnSet(g, transports)
  BY <1>3 DEF GrandTotal, SumFunction
<1> HIDE DEF f, g
<1>5. SumFunctionOnSet(f, DOMAIN items) \in Nat /\ SumFunctionOnSet(g, transports) \in Nat
  BY <1>1, <1>2, SumIsNat DEF AreItems, AreTransports
<1>6. QED
  BY <1>1, <1>2, <1>3, <1>4, <1>5

(***************************************************************************)
(* "The total is greater than or equal to every line, so it is enough to   *)
(* check the total" (calculator.service.ts 78-79): the sum covers each of  *)
(* its lines and the delivery, whatever rules the customer has.            *)
(***************************************************************************)
THEOREM TotalCoversLines ==
  ASSUME NEW rules, AreRules(rules), NEW items, AreItems(items),
         NEW transports, AreTransports(transports)
  PROVE  /\ GrandTotal(items, transports, rules) \in Nat
         /\ \A p \in DOMAIN items :
              LineTotal(p, items[p], rules) <= GrandTotal(items, transports, rules)
         /\ \A t \in transports :
              DeliveryTotal(TotalPallets(items), t, rules)
                <= GrandTotal(items, transports, rules)
<1>1. PICK f, g :
        /\ \A p \in DOMAIN items : f[p] = LineTotal(p, items[p], rules) /\ f[p] \in Nat
        /\ \A t \in transports :
             g[t] = DeliveryTotal(TotalPallets(items), t, rules) /\ g[t] \in Nat
        /\ GrandTotal(items, transports, rules) =
             SumFunctionOnSet(f, DOMAIN items) + SumFunctionOnSet(g, transports)
        /\ SumFunctionOnSet(f, DOMAIN items) \in Nat
        /\ SumFunctionOnSet(g, transports) \in Nat
  BY TotalsAreSums
<1>2. ASSUME NEW p \in DOMAIN items
      PROVE  f[p] <= SumFunctionOnSet(f, DOMAIN items)
  BY <1>1, SumCoversTerms DEF AreItems
<1>3. ASSUME NEW t \in transports
      PROVE  g[t] <= SumFunctionOnSet(g, transports)
  BY <1>1, SumCoversTerms DEF AreTransports
<1>4. QED
  BY <1>1, <1>2, <1>3

(***************************************************************************)
(* A customer whose rules are all discounts never pays more than one who   *)
(* has none: neither the least price nor the rounding of every line, nor   *)
(* how many lines there are, turns a discount into a surcharge             *)
(* (pricing-resolver.service.ts 39-44, calculator.service.ts 178-181).     *)
(***************************************************************************)
THEOREM DiscountsNeverRaise ==
  ASSUME NEW rules, AreRules(rules), AreDiscounts(rules), NEW none, DOMAIN none = {},
         NEW items, AreItems(items), NEW transports, AreTransports(transports)
  PROVE  GrandTotal(items, transports, rules) <= GrandTotal(items, transports, none)
<1>1. AreRules(none)
  BY DEF AreRules
<1>2. PICK f, g :
        /\ \A p \in DOMAIN items : f[p] = LineTotal(p, items[p], rules) /\ f[p] \in Nat
        /\ \A t \in transports :
             g[t] = DeliveryTotal(TotalPallets(items), t, rules) /\ g[t] \in Nat
        /\ GrandTotal(items, transports, rules) =
             SumFunctionOnSet(f, DOMAIN items) + SumFunctionOnSet(g, transports)
        /\ SumFunctionOnSet(f, DOMAIN items) \in Nat
        /\ SumFunctionOnSet(g, transports) \in Nat
  BY TotalsAreSums
<1>3. PICK h, k :
        /\ \A p \in DOMAIN items : h[p] = LineTotal(p, items[p], none) /\ h[p] \in Nat
        /\ \A t \in transports :
             k[t] = DeliveryTotal(TotalPallets(items), t, none) /\ k[t] \in Nat
        /\ GrandTotal(items, transports, none) =
             SumFunctionOnSet(h, DOMAIN items) + SumFunctionOnSet(k, transports)
        /\ SumFunctionOnSet(h, DOMAIN items) \in Nat
        /\ SumFunctionOnSet(k, transports) \in Nat
  BY <1>1, TotalsAreSums
<1>4. SumFunctionOnSet(f, DOMAIN items) <= SumFunctionOnSet(h, DOMAIN items)
  <2>1. \A p \in DOMAIN items : f[p] \in Nat /\ h[p] \in Nat /\ f[p] <= h[p]
    BY <1>2, <1>3, LineDiscounted
  <2>2. QED
    BY <2>1, SumsCompare DEF AreItems
<1>5. SumFunctionOnSet(g, transports) <= SumFunctionOnSet(k, transports)
  <2>1. \A t \in transports : g[t] \in Nat /\ k[t] \in Nat /\ g[t] <= k[t]
    BY <1>2, <1>3, PalletsAreNat, DeliveryDiscounted DEF AreTransports
  <2>2. QED
    BY <2>1, SumsCompare DEF AreTransports
<1>6. QED
  BY <1>2, <1>3, <1>4, <1>5

=============================================================================
