--------------------------- MODULE RiskBookProofs ---------------------------
(***************************************************************************)
(* The risk book is well typed, its size is the smallest ceiling, and the  *)
(* two things a size may not exceed, the pooled ceiling and the buying     *)
(* power, are kept from one sitting to the next.                           *)
(***************************************************************************)
EXTENDS RiskBook, DataProofs

-----------------------------------------------------------------------------
(* Operators.                                                              *)

\* Nothing else is at once in the set and below all of it.
LEMMA MinIsOnly ==
  ASSUME NEW S \in SUBSET Nat, NEW m \in S, \A y \in S : m <= y
  PROVE  Min(S) = m
<1>1. Min(S) \in S /\ Min(S) <= m
  BY MinIsLeast
<1>2. m <= Min(S)
  BY <1>1
<1>3. m \in Nat /\ Min(S) \in Nat
  BY <1>1
<1>. QED
  BY <1>1, <1>2, <1>3

LEMMA RoundsDown ==
  ASSUME NEW n \in Nat
  PROVE  round_sz(n) \in Nat /\ round_sz(n) <= n
<1>1. Lot \in Nat \ {0}
  BY ConstantsAssumption
<1>2. n - (n % Lot) \in Nat /\ n % Lot \in 0 .. Lot - 1
  BY <1>1
<1>. QED
  BY <1>2 DEF round_sz

LEMMA CapsOnlyShrink ==
  ASSUME NEW wanted \in Nat, NEW ceilings \in SUBSET Nat
  PROVE  /\ apply_caps(wanted, ceilings) \in ceilings \cup {wanted}
         /\ apply_caps(wanted, ceilings) \in Nat
         /\ \A c \in ceilings \cup {wanted} : apply_caps(wanted, ceilings) <= c
<1>1. ceilings \cup {wanted} \in SUBSET Nat /\ ceilings \cup {wanted} # {}
  OBVIOUS
<1>. QED
  BY <1>1, MinIsLeast DEF apply_caps

\* What a room pays for costs no more than the room.
LEMMA Affordable ==
  ASSUME NEW n \in Nat
  PROVE  n \div Price \in Nat /\ Price * (n \div Price) <= n
<1>1. Price \in Nat \ {0}
  BY ConstantsAssumption
<1>. QED
  BY <1>1

LEMMA CostIsMonotone ==
  ASSUME NEW m \in Nat, NEW n \in Nat, m <= n
  PROVE  Price * m \in Nat /\ Price * m <= Price * n
<1>1. Price \in Nat \ {0}
  BY ConstantsAssumption
<1>. QED
  BY <1>1

LEMMA CeilingsAreNat ==
  ASSUME NEW inputs \in Inputs
  PROVE  /\ Ceilings(inputs) \in SUBSET Nat
         /\ inputs.wanted \in Nat
         /\ inputs.others \cup inputs.left \in SUBSET Nat
         /\ {n \div Price : n \in inputs.room} \in SUBSET Nat
<1>1. /\ inputs.wanted \in Nat /\ inputs.others \in SUBSET Caps
      /\ inputs.left \in SUBSET Nat /\ inputs.room \in SUBSET Nat
  BY DEF Inputs
<1>2. \A n \in inputs.room : n \div Price \in Nat
  BY <1>1, Affordable
<1>. QED
  BY <1>1, <1>2, ConstantsAssumption DEF Ceilings

\* Capping in two rounds, as build does, is capping by all of them at once.
LEMMA FitIsSmallest ==
  ASSUME NEW inputs \in Inputs
  PROVE  Fit(inputs, apply_caps(inputs.wanted, inputs.others \cup inputs.left))
           = round_sz(Min(Ceilings(inputs)))
<1> DEFINE first   == apply_caps(inputs.wanted, inputs.others \cup inputs.left)
           afford  == {n \div Price : n \in inputs.room}
           second  == apply_caps(first, afford)
<1>1. /\ first \in {inputs.wanted} \cup inputs.others \cup inputs.left
      /\ first \in Nat
      /\ \A c \in {inputs.wanted} \cup inputs.others \cup inputs.left : first <= c
  BY CeilingsAreNat, CapsOnlyShrink
<1>2. /\ second \in afford \cup {first} /\ second \in Nat
      /\ \A c \in afford \cup {first} : second <= c
  <2>1. afford \in SUBSET Nat /\ first \in Nat
    BY <1>1, CeilingsAreNat
  <2> HIDE DEF afford, first
  <2>. QED
    BY <2>1, CapsOnlyShrink
<1>3. Ceilings(inputs) \in SUBSET Nat
  BY CeilingsAreNat
<1>4. second \in Ceilings(inputs)
  BY <1>1, <1>2 DEF Ceilings
<1>5. \A c \in Ceilings(inputs) : second <= c
  <2>1. SUFFICES ASSUME NEW c \in Ceilings(inputs) PROVE second <= c
    OBVIOUS
  <2>2. c \in Nat
    BY <1>3
  <2>3. CASE c \in afford
    BY <2>3, <1>2
  <2>4. CASE c \in {inputs.wanted} \cup inputs.others \cup inputs.left
    <3>1. first <= c /\ second <= first
      BY <2>4, <1>1, <1>2
    <3>. QED
      BY <3>1, <2>2, <1>1, <1>2
  <2>. QED
    BY <2>3, <2>4 DEF Ceilings
<1>6. Min(Ceilings(inputs)) = second
  <2> HIDE DEF second
  <2>. QED
    BY <1>3, <1>4, <1>5, MinIsOnly
<1>. QED
  BY <1>6 DEF Fit

\* Whatever build sends is some size, and under every ceiling.
LEMMA BuildIsBounded ==
  ASSUME NEW inputs \in Inputs, NEW size \in build(inputs)
  PROVE  /\ size \in Nat /\ size > 0
         /\ size = round_sz(Min(Ceilings(inputs)))
         /\ \A left \in inputs.left : size <= left
         /\ \A n \in inputs.room : Price * size <= n
<1>1. size = Fit(inputs, apply_caps(inputs.wanted, inputs.others \cup inputs.left))
  BY DEF build
<1>2. size > 0
  BY DEF build, check_size
<1>3. size = round_sz(Min(Ceilings(inputs)))
  BY <1>1, FitIsSmallest
<1>4. Ceilings(inputs) \in SUBSET Nat /\ Ceilings(inputs) # {}
  BY CeilingsAreNat DEF Ceilings
<1>5. /\ Min(Ceilings(inputs)) \in Nat
      /\ \A c \in Ceilings(inputs) : Min(Ceilings(inputs)) <= c
  BY <1>4, MinIsLeast
<1>6. size \in Nat /\ size <= Min(Ceilings(inputs))
  BY <1>3, <1>5, RoundsDown
<1>7. \A c \in Ceilings(inputs) : size <= c
  BY <1>4, <1>5, <1>6
<1>8. \A left \in inputs.left : size <= left
  BY <1>7 DEF Ceilings
<1>9. ASSUME NEW room \in inputs.room PROVE Price * size <= room
  <2>1. room \in Nat
    BY DEF Inputs
  <2>2. size <= room \div Price
    BY <1>7 DEF Ceilings
  <2>3. Price * size <= Price * (room \div Price) /\ Price * size \in Nat
    BY <1>6, <2>1, <2>2, Affordable, CostIsMonotone
  <2>4. Price * (room \div Price) <= room /\ room \div Price \in Nat
    BY <2>1, Affordable
  <2>5. Price * (room \div Price) \in Nat
    BY <2>4, CostIsMonotone
  <2>. QED
    BY <2>1, <2>3, <2>4, <2>5
<1>. QED
  BY <1>2, <1>3, <1>6, <1>8, <1>9

LEMMA TotalIsNat ==
  ASSUME NEW f \in [Venues -> Nat], NEW S \in SUBSET Venues
  PROVE  Total(f, S) \in Nat /\ Total(f, S) <= Total(f, Venues)
BY DEF Total, Venues

LEMMA RoomIsNat ==
  ASSUME NEW n \in Int
  PROVE  Floored(n) \in Nat
BY DEF Floored

-----------------------------------------------------------------------------
(* Types.                                                                  *)

\* What a plan is made of.
LEMMA InputsAreTyped ==
  ASSUME TypeOK, NEW k \in Keys, NEW read \in EquityReads, NEW others \in SUBSET Caps,
         NEW room \in Rooms(Route[k])
  PROVE  prepare(k, read, others, room) \in Inputs
<1>1. Route[k] \in Venues /\ Budget[Route[k]] \in Nat
  BY ConstantsAssumption
<1>2. Left(read) \in SUBSET Nat
  <2>1. Funded(read) \in SUBSET Venues /\ desk \in SUBSET Venues
    BY DEF TypeOK, Funded
  <2>2. Total(Allowance, Funded(read)) \in Nat /\ Total(risk, desk) \in Nat
    BY <2>1, TotalIsNat, ConstantsAssumption DEF TypeOK
  <2>3. Total(Allowance, Funded(read)) - Total(risk, desk) \in Int
    BY <2>2
  <2>. QED
    BY <2>3, RoomIsNat DEF Left
<1>3. room \in SUBSET Nat
  <2>1. power - committed["alpaca"] \in Int
    BY DEF TypeOK, Venues
  <2>. QED
    BY <2>1, RoomIsNat DEF Rooms, headroom
<1>. QED
  BY <1>1, <1>2, <1>3 DEF Inputs, prepare

\* One key, one size, bounded by everything the plan was built from.
LEMMA PlannedIsBounded ==
  ASSUME TypeOK, NEW k \in Keys, Planned(k)
  PROVE  \E read \in EquityReads, plan \in Plan, room \in Rooms(Route[k]) :
           /\ prompt' = {plan} /\ plan.key = k /\ plan.size > 0
           /\ plan.size = round_sz(Min(Ceilings(plan.inputs)))
           /\ \A left \in Left(read) : plan.size <= left
           /\ \A n \in room : Price * plan.size <= n
           /\ equity' = [read EXCEPT ![Route[k]] = "funded"]
<1>1. PICK read \in EquityReads, others \in SUBSET Caps, room \in Rooms(Route[k]) :
        /\ equity' = [read EXCEPT ![Route[k]] = "funded"]
        /\ \E size \in build(prepare(k, read, others, room)) :
             prompt' = {[key |-> k, size |-> size, inputs |-> prepare(k, read, others, room)]}
  BY DEF Planned
<1> DEFINE inputs == prepare(k, read, others, room)
<1>2. PICK size \in build(inputs) :
        prompt' = {[key |-> k, size |-> size, inputs |-> inputs]}
  BY <1>1
<1>3. inputs \in Inputs /\ inputs.left = Left(read) /\ inputs.room = room
  BY InputsAreTyped DEF prepare
<1> HIDE DEF inputs
<1>4. /\ size \in Nat /\ size > 0
      /\ size = round_sz(Min(Ceilings(inputs)))
      /\ \A left \in inputs.left : size <= left
      /\ \A n \in inputs.room : Price * size <= n
  BY <1>3, BuildIsBounded
<1> DEFINE plan == [key |-> k, size |-> size, inputs |-> inputs]
<1>5. plan \in Plan /\ plan.key = k /\ plan.size = size /\ plan.inputs = inputs
  BY <1>3, <1>4 DEF Plan
<1> HIDE DEF plan
<1>6. prompt' = {plan}
  BY <1>2 DEF plan
<1>. QED
  <2>1. /\ plan.size = round_sz(Min(Ceilings(plan.inputs))) /\ plan.size > 0
        /\ \A left \in Left(read) : plan.size <= left
        /\ \A n \in room : Price * plan.size <= n
    BY <1>3, <1>4, <1>5
  <2>2. equity' = [read EXCEPT ![Route[k]] = "funded"]
    BY <1>1
  <2>. QED
    BY <1>5, <1>6, <2>1, <2>2, Zenon

LEMMA TypeInit == Init => TypeOK
BY ConstantsAssumption DEF Init, TypeOK, Nought, Unread, Venues

LEMMA TypeStep == TypeOK /\ [Next]_vars => TypeOK'
<1> SUFFICES ASSUME TypeOK, [Next]_vars PROVE TypeOK'
  OBVIOUS
<1> USE DEF TypeOK
<1>1. ASSUME NEW v \in Venues, Ended(v) PROVE TypeOK'
  BY <1>1 DEF Ended, deskVars
<1>2. CASE PowerCatchesUp
  <2>1. Power - Price * exposed["alpaca"] \in Int
    BY ConstantsAssumption DEF Venues
  <2>. QED
    BY <1>2, <2>1, RoomIsNat DEF PowerCatchesUp, deskVars
<1>3. CASE OpenDesk
  BY <1>3 DEF OpenDesk, venueVars, opening_risk, Nought, Unread
<1>4. CASE CloseDesk
  BY <1>4 DEF CloseDesk, Ending, venueVars, Nought, Unread
<1>5. ASSUME NEW k \in Keys, Unroutable(k) PROVE TypeOK'
  BY <1>5 DEF Unroutable, Approve, Record, venueVars, deskVars
<1>6. ASSUME NEW k \in Keys, Refused(k) PROVE TypeOK'
  BY <1>6 DEF Refused, Approve, Record, EquityReads, venueVars, deskVars
<1>7. ASSUME NEW k \in Keys, Raised(k) PROVE TypeOK'
  BY <1>7 DEF Raised, Approve, Ending, venueVars, Nought, Unread
<1>8. ASSUME NEW k \in Keys, Planned(k) PROVE TypeOK'
  <2>1. PICK read \in EquityReads, plan \in Plan :
          /\ prompt' = {plan} /\ plan.size > 0
          /\ equity' = [read EXCEPT ![Route[k]] = "funded"]
    BY <1>8, PlannedIsBounded
  <2>2. equity' \in [Venues -> {"unread", "zero", "funded"}]
    BY <2>1 DEF EquityReads
  <2>. QED
    BY <1>8, <2>1, <2>2 DEF Planned, Approve, venueVars, deskVars
<1>9. ASSUME NEW plan \in prompt, NotSent(plan) PROVE TypeOK'
  BY <1>9 DEF NotSent, Record, Plan, venueVars, deskVars
<1>10. ASSUME NEW plan \in prompt, Sent(plan) PROVE TypeOK'
  <2>1. plan.key \in Keys /\ plan.size \in Nat
    BY DEF Plan
  <2>2. Route[plan.key] \in Venues /\ plan.size * Price \in Nat
    BY <2>1, ConstantsAssumption
  <2>. QED
    BY <1>10, <2>1, <2>2 DEF Sent, Record
<1>11. CASE UNCHANGED vars
  BY <1>11 DEF vars
<1>. QED
  BY <1>1, <1>2, <1>3, <1>4, <1>5, <1>6, <1>7, <1>8, <1>9, <1>10, <1>11 DEF Next

(***************************************************************************)
(* TypeOK, for any candidates, routes, ceilings and faults.                *)
(***************************************************************************)
THEOREM RiskBookTypeCorrect == Spec => []TypeOK
BY TypeInit, TypeStep, PTL DEF Spec

-----------------------------------------------------------------------------
(* The size shown is the smallest ceiling.                                 *)

LEMMA SizeStep == TypeOK /\ SizeIsSmallestCeiling /\ [Next]_vars => SizeIsSmallestCeiling'
<1> SUFFICES ASSUME TypeOK, SizeIsSmallestCeiling, [Next]_vars PROVE SizeIsSmallestCeiling'
  OBVIOUS
<1>1. CASE prompt' \subseteq prompt
  BY <1>1 DEF SizeIsSmallestCeiling
<1>2. ASSUME NEW k \in Keys, Planned(k) PROVE SizeIsSmallestCeiling'
  BY <1>2, PlannedIsBounded DEF SizeIsSmallestCeiling
<1>3. prompt' \subseteq prompt \/ \E k \in Keys : Planned(k)
  BY DEF Next, vars, Ended, PowerCatchesUp, OpenDesk, CloseDesk, Unroutable, Refused,
         Raised, NotSent, Sent
<1>. QED
  BY <1>1, <1>2, <1>3

(***************************************************************************)
(* SizeIsSmallestCeiling, for any lot, price and ceilings: the two rounds  *)
(* of capping in plan.build lose nothing and let no ceiling escape.        *)
(***************************************************************************)
THEOREM SmallestCeilingWins == Spec => []SizeIsSmallestCeiling
<1>1. Init => SizeIsSmallestCeiling
  BY DEF Init, SizeIsSmallestCeiling
<1>. QED
  BY <1>1, RiskBookTypeCorrect, SizeStep, PTL DEF Spec

-----------------------------------------------------------------------------
(* The pooled ceiling.  A session's running total covers all that is live  *)
(* at its venue; a venue the desk did not reach holds nothing; and the     *)
(* plan on the screen still fits under what the running totals leave.      *)

RiskCounted ==
  desk # {} => \A v \in Venues : exposed[v] <= (IF v \in desk THEN risk[v] ELSE 0)

PromptFitsBook ==
  /\ prompt # {} => \E plan \in prompt : prompt = {plan}
  /\ \A plan \in prompt :
       Route[plan.key] \in desk /\ Total(risk, desk) + plan.size <= Total(Allowance, Venues)

BookInv == TypeOK /\ PooledCeiling /\ RiskCounted /\ PromptFitsBook

LEMMA PlannedFitsBook ==
  ASSUME Faults \cap {"mute", "unreachable"} = {}, BookInv, NEW k \in Keys, Planned(k)
  PROVE  BookInv'
<1>1. PICK read \in EquityReads, plan \in Plan :
        /\ prompt' = {plan} /\ plan.key = k /\ plan.size > 0
        /\ \A left \in Left(read) : plan.size <= left
  BY PlannedIsBounded DEF BookInv
<1>2. Left(read) = {Floored(Total(Allowance, Funded(read)) - Total(risk, desk))}
  <2>1. PICK v \in Venues : read[v] # "unread"
    BY DEF EquityReads
  <2>2. v \in desk
    BY <2>1 DEF EquityReads
  <2>. QED
    BY <2>1, <2>2 DEF Left
<1>3. /\ Total(Allowance, Funded(read)) \in Nat
      /\ Total(Allowance, Funded(read)) <= Total(Allowance, Venues)
      /\ Total(Allowance, Venues) \in Nat /\ Total(risk, desk) \in Nat
  <2>1. Funded(read) \in SUBSET Venues /\ desk \in SUBSET Venues
    BY DEF BookInv, TypeOK, Funded
  <2>. QED
    BY <2>1, TotalIsNat, ConstantsAssumption DEF BookInv, TypeOK
<1>4. plan.size \in Nat
  BY DEF Plan
<1>5. Total(risk, desk) + plan.size <= Total(Allowance, Venues)
  BY <1>1, <1>2, <1>3, <1>4 DEF Floored
<1>6. UNCHANGED <<exposed, desk, risk>> /\ Route[plan.key] \in desk
  BY <1>1 DEF Planned, venueVars, deskVars
<1>7. TypeOK'
  BY TypeStep DEF BookInv, Next
<1>8. PromptFitsBook'
  BY <1>1, <1>5, <1>6 DEF PromptFitsBook, Total
<1>9. PooledCeiling' /\ RiskCounted'
  BY <1>6 DEF BookInv, PooledCeiling, RiskCounted, Total
<1>. QED
  BY <1>7, <1>8, <1>9 DEF BookInv

LEMMA SentFitsBook ==
  ASSUME BookInv, NEW plan \in prompt, Sent(plan)
  PROVE  BookInv'
<1>1. TypeOK'
  BY TypeStep DEF BookInv, Next
<1>2. /\ Route[plan.key] \in desk /\ plan.size \in Nat
      /\ Total(risk, desk) + plan.size <= Total(Allowance, Venues)
  BY DEF BookInv, TypeOK, PromptFitsBook, Plan
<1>3. PICK v \in desk :
        /\ exposed' = [exposed EXCEPT ![v] = @ + plan.size]
        /\ risk' = [risk EXCEPT ![v] = @ + plan.size]
        /\ desk' = desk /\ prompt' = {}
  BY <1>2 DEF Sent
<1>4. v \in Venues /\ exposed \in [Venues -> Nat] /\ risk \in [Venues -> Nat]
  BY DEF BookInv, TypeOK
<1>5. RiskCounted'
  BY <1>2, <1>3, <1>4 DEF BookInv, RiskCounted
<1>6. Total(risk', desk') = Total(risk, desk) + plan.size
  BY <1>2, <1>3, <1>4 DEF Total, Venues
<1>7. Total(exposed', Venues) <= Total(risk', desk')
  BY <1>1, <1>3, <1>5 DEF TypeOK, RiskCounted, Total, Venues
<1>8. PooledCeiling'
  <2>1. Total(exposed', Venues) \in Nat /\ Total(risk', desk') \in Nat
    BY <1>1, TotalIsNat DEF TypeOK, Venues, Total
  <2>2. Total(Allowance, Venues) \in Nat
    BY TotalIsNat, ConstantsAssumption
  <2>. QED
    BY <1>2, <1>6, <1>7, <2>1, <2>2 DEF PooledCeiling
<1>9. PromptFitsBook'
  BY <1>3 DEF PromptFitsBook
<1>. QED
  BY <1>1, <1>5, <1>8, <1>9 DEF BookInv

LEMMA BookStep ==
  ASSUME Faults \cap {"mute", "unreachable"} = {}, BookInv, [Next]_vars
  PROVE  BookInv'
<1>1. TypeOK /\ TypeOK'
  BY TypeStep DEF BookInv
<1>2. ASSUME NEW v \in Venues, Ended(v) PROVE BookInv'
  <2>1. /\ \A u \in Venues : exposed'[u] <= exposed[u]
        /\ desk' = desk /\ risk' = risk /\ prompt' = prompt
    BY <1>2, <1>1 DEF Ended, deskVars, TypeOK
  <2>2. PooledCeiling'
    <3>1. Total(exposed', Venues) <= Total(exposed, Venues)
      BY <1>1, <2>1 DEF TypeOK, Total, Venues
    <3>2. Total(exposed', Venues) \in Nat /\ Total(exposed, Venues) \in Nat
          /\ Total(Allowance, Venues) \in Nat
      BY <1>1, TotalIsNat, ConstantsAssumption DEF TypeOK, Total, Venues
    <3>. QED
      BY <3>1, <3>2 DEF BookInv, PooledCeiling
  <2>3. RiskCounted'
    BY <1>1, <2>1 DEF BookInv, RiskCounted, TypeOK
  <2>4. PromptFitsBook'
    BY <2>1 DEF BookInv, PromptFitsBook, Total
  <2>. QED
    BY <1>1, <2>2, <2>3, <2>4 DEF BookInv
<1>3. CASE OpenDesk
  <2>1. /\ \A v \in Venues : exposed[v] <= (IF v \in desk' THEN risk'[v] ELSE 0)
        /\ exposed' = exposed
    BY <1>3, <1>1 DEF OpenDesk, opening_risk, venueVars, TypeOK
  <2>2. prompt' = {}
    BY <1>3 DEF OpenDesk, BookInv, PromptFitsBook
  <2>. QED
    BY <1>1, <2>1, <2>2 DEF BookInv, PooledCeiling, RiskCounted, PromptFitsBook, Total
<1>4. CASE CloseDesk
  BY <1>1, <1>4
     DEF CloseDesk, Ending, venueVars, BookInv, PooledCeiling, RiskCounted, PromptFitsBook, Total
<1>5. ASSUME NEW k \in Keys, Raised(k) PROVE BookInv'
  BY <1>1, <1>5
     DEF Raised, Approve, Ending, venueVars, BookInv, PooledCeiling, RiskCounted,
         PromptFitsBook, Total
<1>6. ASSUME NEW k \in Keys, Planned(k) PROVE BookInv'
  BY <1>6, PlannedFitsBook
<1>7. ASSUME NEW plan \in prompt, NotSent(plan) PROVE BookInv'
  BY <1>1, <1>7
     DEF NotSent, venueVars, deskVars, BookInv, PooledCeiling, RiskCounted, PromptFitsBook, Total
<1>8. ASSUME NEW plan \in prompt, Sent(plan) PROVE BookInv'
  BY <1>8, SentFitsBook
<1>9. CASE UNCHANGED <<exposed, desk, risk, prompt>>
  BY <1>1, <1>9 DEF BookInv, PooledCeiling, RiskCounted, PromptFitsBook, Total
<1>10. \/ \E v \in Venues : Ended(v)
       \/ OpenDesk \/ CloseDesk
       \/ \E k \in Keys : Raised(k) \/ Planned(k)
       \/ \E plan \in prompt : NotSent(plan) \/ Sent(plan)
       \/ UNCHANGED <<exposed, desk, risk, prompt>>
  BY DEF Next, vars, PowerCatchesUp, Unroutable, Refused, venueVars, deskVars
<1>. QED
  BY <1>2, <1>3, <1>4, <1>5, <1>6, <1>7, <1>8, <1>9, <1>10

(***************************************************************************)
(* PooledCeiling, for any equities and any candidates, whenever some venue *)
(* answers for its equity and no venue with live brackets stays closed.    *)
(***************************************************************************)
THEOREM PooledCeilingHolds ==
  ASSUME Faults \cap {"mute", "unreachable"} = {}
  PROVE  Spec => []PooledCeiling
<1>1. Init => BookInv
  <2>1. Total(Allowance, Venues) \in Nat
    BY TotalIsNat, ConstantsAssumption
  <2>. QED
    BY <2>1, TypeInit
       DEF Init, BookInv, PooledCeiling, RiskCounted, PromptFitsBook, Total, Nought, Venues
<1>2. BookInv /\ [Next]_vars => BookInv'
  BY BookStep
<1>3. BookInv => PooledCeiling
  BY DEF BookInv
<1>. QED
  BY <1>1, <1>2, <1>3, PTL DEF Spec

-----------------------------------------------------------------------------
(* Buying power.  The venue's figure may lag behind what was sent, but     *)
(* never by more than what this sitting has committed.                     *)

SpentAtAlpaca == Price * exposed["alpaca"]

FigureLagsByCommitted ==
  desk # {} => power - committed["alpaca"] <= Power - SpentAtAlpaca

PromptFitsPower ==
  /\ prompt # {} => desk # {} /\ \E plan \in prompt : prompt = {plan}
  /\ \A plan \in prompt :
       Route[plan.key] = "alpaca" => SpentAtAlpaca + Price * plan.size <= Power

PowerInv == TypeOK /\ PowerCoversOrders /\ FigureLagsByCommitted /\ PromptFitsPower

LEMMA SpentIsNat ==
  ASSUME TypeOK
  PROVE  SpentAtAlpaca \in Nat
BY ConstantsAssumption DEF TypeOK, SpentAtAlpaca, Venues

LEMMA CostsAdd ==
  ASSUME NEW m \in Nat, NEW n \in Nat
  PROVE  Price * (m + n) = Price * m + Price * n /\ n * Price = Price * n
<1>1. Price \in Nat \ {0}
  BY ConstantsAssumption
<1>. QED
  BY <1>1

LEMMA PlannedFitsPower ==
  ASSUME "unstated" \notin Faults, PowerInv, NEW k \in Keys, Planned(k)
  PROVE  PowerInv'
<1>1. PICK plan \in Plan, room \in Rooms(Route[k]) :
        /\ prompt' = {plan} /\ plan.key = k
        /\ \A n \in room : Price * plan.size <= n
        /\ plan.size > 0
  BY PlannedIsBounded DEF PowerInv
<1>2. UNCHANGED <<exposed, power, desk, committed>> /\ desk # {}
  BY DEF Planned, Approve, venueVars, deskVars
<1>3. TypeOK'
  BY TypeStep DEF PowerInv, Next
<1>4. ASSUME Route[k] = "alpaca"
      PROVE  SpentAtAlpaca + Price * plan.size <= Power
  <2>1. Price * plan.size <= headroom("alpaca")
    BY <1>1, <1>4 DEF Rooms
  <2>2. /\ plan.size \in Nat /\ power \in Nat /\ committed["alpaca"] \in Nat
        /\ SpentAtAlpaca \in Nat /\ Power \in Nat
    BY SpentIsNat, ConstantsAssumption DEF PowerInv, TypeOK, Plan, Venues
  <2>3. Price * plan.size \in Nat /\ Price * plan.size > 0
    <3>1. Price \in Nat \ {0}
      BY ConstantsAssumption
    <3>. QED
      BY <1>1, <2>2, <3>1
  <2>4. Price * plan.size <= power - committed["alpaca"]
    BY <2>1, <2>2, <2>3 DEF headroom, Floored
  <2>. QED
    BY <1>2, <2>2, <2>3, <2>4 DEF PowerInv, FigureLagsByCommitted
<1>5. PromptFitsPower'
  BY <1>1, <1>2, <1>4 DEF PromptFitsPower, SpentAtAlpaca
<1>6. PowerCoversOrders' /\ FigureLagsByCommitted'
  BY <1>2 DEF PowerInv, PowerCoversOrders, FigureLagsByCommitted, SpentAtAlpaca
<1>. QED
  BY <1>3, <1>5, <1>6 DEF PowerInv

LEMMA SentFitsPower ==
  ASSUME PowerInv, NEW plan \in prompt, Sent(plan)
  PROVE  PowerInv'
<1>1. TypeOK /\ TypeOK'
  BY TypeStep DEF PowerInv, Next
<1>2. plan.size \in Nat /\ prompt' = {} /\ UNCHANGED <<power, desk>>
  BY <1>1 DEF TypeOK, Plan, Sent
<1>3. CASE Route[plan.key] = "alpaca"
  <2>1. /\ exposed'["alpaca"] = exposed["alpaca"] + plan.size
        /\ committed'["alpaca"] = committed["alpaca"] + plan.size * Price
    BY <1>1, <1>3 DEF Sent, TypeOK, Venues
  <2>2. /\ exposed["alpaca"] \in Nat /\ committed["alpaca"] \in Nat /\ power \in Nat
        /\ Power \in Nat /\ Price * plan.size \in Nat /\ SpentAtAlpaca \in Nat
    BY <1>1, <1>2, SpentIsNat, CostIsMonotone, ConstantsAssumption DEF TypeOK, Venues
  <2>3. SpentAtAlpaca' = SpentAtAlpaca + Price * plan.size
    BY <1>2, <2>1, <2>2, CostsAdd DEF SpentAtAlpaca
  <2>4. committed'["alpaca"] = committed["alpaca"] + Price * plan.size
    BY <1>2, <2>1, CostsAdd
  <2>5. SpentAtAlpaca + Price * plan.size <= Power
    BY <1>3 DEF PowerInv, PromptFitsPower
  <2>6. PowerCoversOrders'
    BY <2>3, <2>5 DEF PowerCoversOrders, SpentAtAlpaca
  <2>7. FigureLagsByCommitted'
    BY <1>2, <2>2, <2>3, <2>4 DEF PowerInv, FigureLagsByCommitted
  <2>. QED
    BY <1>1, <1>2, <2>6, <2>7 DEF PowerInv, PromptFitsPower
<1>4. CASE Route[plan.key] # "alpaca"
  <2>1. exposed'["alpaca"] = exposed["alpaca"] /\ committed'["alpaca"] = committed["alpaca"]
    BY <1>1, <1>4 DEF Sent, TypeOK, Venues
  <2>. QED
    BY <1>1, <1>2, <2>1
       DEF PowerInv, PowerCoversOrders, FigureLagsByCommitted, PromptFitsPower, SpentAtAlpaca
<1>. QED
  BY <1>3, <1>4

LEMMA PowerStep ==
  ASSUME Faults \cap {"samenight", "unstated"} = {}, PowerInv, [Next]_vars
  PROVE  PowerInv'
<1>1. TypeOK /\ TypeOK'
  BY TypeStep DEF PowerInv
<1> USE DEF PowerInv
<1>2. ASSUME NEW v \in Venues, Ended(v) PROVE PowerInv'
  <2>1. /\ exposed'["alpaca"] <= exposed["alpaca"]
        /\ exposed["alpaca"] \in Nat /\ exposed'["alpaca"] \in Nat
        /\ UNCHANGED <<power, desk, committed, prompt>>
    BY <1>1, <1>2 DEF Ended, deskVars, TypeOK, Venues
  <2>2. SpentAtAlpaca' <= SpentAtAlpaca /\ SpentAtAlpaca \in Nat /\ SpentAtAlpaca' \in Nat
    BY <2>1, CostIsMonotone, <1>1, SpentIsNat DEF SpentAtAlpaca
  <2>3. /\ Power \in Nat /\ power \in Nat /\ committed["alpaca"] \in Nat
        /\ \A plan \in prompt : plan.size \in Nat
    BY <1>1, ConstantsAssumption DEF TypeOK, Plan, Venues
  <2>4. PowerCoversOrders'
    BY <2>2, <2>3 DEF PowerCoversOrders, SpentAtAlpaca
  <2>5. FigureLagsByCommitted'
    BY <2>1, <2>2, <2>3 DEF FigureLagsByCommitted
  <2>6. PromptFitsPower'
    <3>1. \A plan \in prompt : Price * plan.size \in Nat
      BY <2>3, CostIsMonotone
    <3>2. SUFFICES ASSUME NEW plan \in prompt, Route[plan.key] = "alpaca"
                   PROVE  SpentAtAlpaca' + Price * plan.size <= Power
      BY <2>1 DEF PromptFitsPower
    <3>. QED
      BY <2>2, <2>3, <3>1, <3>2 DEF PromptFitsPower
  <2>. QED
    BY <1>1, <2>4, <2>5, <2>6
<1>3. CASE PowerCatchesUp
  <2>1. SpentAtAlpaca \in Nat /\ Power \in Nat /\ committed["alpaca"] \in Nat
    BY <1>1, SpentIsNat, ConstantsAssumption DEF TypeOK, Venues
  <2>2. power' = Power - SpentAtAlpaca
    BY <1>3, <2>1 DEF PowerCatchesUp, Floored, PowerCoversOrders, SpentAtAlpaca
  <2>3. UNCHANGED <<exposed, desk, committed, prompt>>
    BY <1>3 DEF PowerCatchesUp, deskVars
  <2>. QED
    BY <1>1, <2>1, <2>2, <2>3
       DEF PowerCoversOrders, FigureLagsByCommitted, PromptFitsPower, SpentAtAlpaca
<1>4. CASE OpenDesk
  <2>1. /\ power <= Power - SpentAtAlpaca /\ committed'["alpaca"] = 0
        /\ UNCHANGED <<exposed, power, prompt>> /\ power \in Nat
        /\ prompt = {}
    BY <1>1, <1>4 DEF OpenDesk, Nought, Venues, venueVars, SpentAtAlpaca, TypeOK, PromptFitsPower
  <2>2. SpentAtAlpaca' = SpentAtAlpaca /\ power' - committed'["alpaca"] = power
    BY <2>1 DEF SpentAtAlpaca
  <2>. QED
    BY <1>1, <2>1, <2>2 DEF PowerCoversOrders, FigureLagsByCommitted, PromptFitsPower
<1>5. ASSUME NEW k \in Keys, Planned(k) PROVE PowerInv'
  BY <1>5, PlannedFitsPower
<1>6. ASSUME NEW plan \in prompt, Sent(plan) PROVE PowerInv'
  BY <1>6, SentFitsPower
<1>7. CASE exposed' = exposed /\ prompt' = {} /\ desk' = {}
  BY <1>1, <1>7
     DEF PowerCoversOrders, FigureLagsByCommitted, PromptFitsPower, SpentAtAlpaca
<1>8. CASE UNCHANGED <<exposed, power, desk, committed>> /\ prompt' \in {{}, prompt}
  BY <1>1, <1>8
     DEF PowerCoversOrders, FigureLagsByCommitted, PromptFitsPower, SpentAtAlpaca
<1>9. \/ \E v \in Venues : Ended(v)
      \/ PowerCatchesUp \/ OpenDesk
      \/ \E k \in Keys : Planned(k)
      \/ \E plan \in prompt : Sent(plan)
      \/ exposed' = exposed /\ prompt' = {} /\ desk' = {}
      \/ UNCHANGED <<exposed, power, desk, committed>> /\ prompt' \in {{}, prompt}
  BY DEF Next, vars, CloseDesk, Raised, Approve, Ending, Unroutable, Refused, NotSent,
         venueVars, deskVars
<1>. QED
  BY <1>2, <1>3, <1>4, <1>5, <1>6, <1>7, <1>8, <1>9

(***************************************************************************)
(* PowerCoversOrders, for any prices, lots and buying power, whenever the  *)
(* account states its buying power and its figure has caught up with one   *)
(* sitting's orders before the next begins.                                *)
(***************************************************************************)
THEOREM PowerIsNeverPromisedTwice ==
  ASSUME Faults \cap {"samenight", "unstated"} = {}
  PROVE  Spec => []PowerCoversOrders
<1>1. Init => PowerInv
  <2>1. ASSUME Init PROVE PowerCoversOrders
    BY <2>1, ConstantsAssumption DEF Init, PowerCoversOrders, Nought, Venues
  <2>. QED
    BY <2>1, TypeInit DEF Init, PowerInv, FigureLagsByCommitted, PromptFitsPower
<1>2. PowerInv /\ [Next]_vars => PowerInv'
  BY PowerStep
<1>3. PowerInv => PowerCoversOrders
  BY DEF PowerInv
<1>. QED
  BY <1>1, <1>2, <1>3, PTL DEF Spec
=============================================================================
