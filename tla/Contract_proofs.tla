-------------------------- MODULE Contract_proofs ---------------------------
(* Proofs about the two forms that are written for the one net: Contract,   *)
(* for every set of drivers and every interleaving of their calls with      *)
(* those of other callers, and Lambda, for every list.                      *)
EXTENDS Contract, Lambda, PetriNet_proofs

\* Which entry points have fired decides what is marked.
MarkingTells ==
    /\ marked \subseteq CoffeePlaces
    /\ "Water" \in marked <=> ~Happened(BoilWater)
    /\ "BoiledWater" \in marked <=> Happened(BoilWater) /\ ~Happened(BrewCoffee)
    /\ "CoffeeBeans" \in marked <=> ~Happened(GrindBeans)
    /\ "GroundCoffee" \in marked <=> Happened(GrindBeans) /\ ~Happened(BrewCoffee)
    /\ "Filter" \in marked <=> ~Happened(BrewCoffee)
    /\ "CoffeeInPot" \in marked <=> Happened(BrewCoffee) /\ ~Happened(PourCoffee)
    /\ "Cup" \in marked <=> ~Happened(PourCoffee)
    /\ "Pending" \in marked <=> ~Happened(Send)
    /\ "Sent" \in marked <=> Happened(Send) /\ ~Happened(Credit)
    /\ "Payment" \in marked <=> Happened(Credit)

\* An entry point has fired only after those it waits for.
Causes ==
    /\ Happened(BrewCoffee) => Happened(BoilWater) /\ Happened(GrindBeans)
    /\ Happened(Credit) => Happened(Send)
    /\ Happened(PourCoffee) => Happened(BrewCoffee) /\ Happened(Credit)

IInv == /\ TypeOK
        /\ MarkingTells
        /\ Causes
        /\ FiresOnce
        /\ LogReplays
        /\ PaidBeforePoured
        /\ DriverAdvanced

-----------------------------------------------------------------------------
(* One transaction.                                                         *)

\* The six entry points are six.
LEMMA Distinct ==
    /\ Trans(Net) = {BoilWater, BrewCoffee, Credit, GrindBeans, PourCoffee, Send}
    /\ BoilWater # BrewCoffee /\ BoilWater # Credit /\ BoilWater # GrindBeans
    /\ BoilWater # PourCoffee /\ BoilWater # Send /\ BrewCoffee # Credit
    /\ BrewCoffee # GrindBeans /\ BrewCoffee # PourCoffee /\ BrewCoffee # Send
    /\ Credit # GrindBeans /\ Credit # PourCoffee /\ Credit # Send
    /\ GrindBeans # PourCoffee /\ GrindBeans # Send /\ PourCoffee # Send
BY CoffeeTable DEF Net, BoilWater, BrewCoffee, Credit, GrindBeans, PourCoffee, Send

\* A transaction that fires adds its event and nothing else to the log.
LEMMA LogGrows ==
    ASSUME IInv, NEW t \in Trans(Net), Perform(t)
    PROVE  /\ Len(events) \in Nat
           /\ Len(events') = Len(events) + 1
           /\ \A k \in 1..Len(events) : events'[k] = events[k]
           /\ events'[Len(events) + 1] = [transition |-> t, state |-> marked']
BY DEF IInv, TypeOK, Perform

LEMMA HappenedGrows ==
    ASSUME IInv, NEW t \in Trans(Net), Perform(t), NEW u
    PROVE  Happened(u)' <=> Happened(u) \/ u = t
<1>0. /\ Len(events) \in Nat
      /\ Len(events') = Len(events) + 1
      /\ \A k \in 1..Len(events) : events'[k] = events[k]
      /\ events'[Len(events) + 1] = [transition |-> t, state |-> marked']
  BY LogGrows
<1>1. \A k \in 1..Len(events') : k \in 1..Len(events) \/ k = Len(events) + 1
  BY <1>0
<1>2. \A k \in 1..Len(events) : k \in 1..Len(events') /\ events'[k] = events[k]
  BY <1>0
<1>3. Len(events) + 1 \in 1..Len(events') /\ events'[Len(events) + 1].transition = t
  BY <1>0
<1>4. ASSUME NEW k \in 1..Len(events'), events'[k].transition = u
      PROVE  Happened(u) \/ u = t
  BY <1>1, <1>2, <1>3, <1>4 DEF Happened
<1>5. ASSUME Happened(u) \/ u = t
      PROVE  \E k \in 1..Len(events') : events'[k].transition = u
  BY <1>2, <1>3, <1>5 DEF Happened
<1> QED
  BY <1>4, <1>5 DEF Happened

\* What an enabled entry point needs has happened, itself not yet.
LEMMA EnabledIsNew ==
    ASSUME IInv, NEW t \in Trans(Net), Require(t)
    PROVE  /\ ~Happened(t)
           /\ t = BrewCoffee => Happened(BoilWater) /\ Happened(GrindBeans)
           /\ t = Credit => Happened(Send)
           /\ t = PourCoffee => Happened(BrewCoffee) /\ Happened(Credit)
BY CoffeeTable DEF IInv, MarkingTells, Causes, Require, Enabled, Net, Arcs

LEMMA FiringTellsMarking ==
    ASSUME IInv, NEW t \in Trans(Net), Require(t), Perform(t)
    PROVE  MarkingTells' /\ Causes'
<1>1. \A u : Happened(u)' <=> Happened(u) \/ u = t
  BY HappenedGrows
<1>2. Causes'
  BY <1>1, EnabledIsNew DEF Causes, IInv
<1>3. MarkingTells'
  <2>1. CASE t = BoilWater
    <3>1. marked' = (marked \ {"Water"}) \cup {"BoiledWater"}
      BY <2>1, CoffeeTable DEF Perform, Fire, Net, Arcs
    <3>2. \A u \in Trans(Net) \ {BoilWater} : Happened(u)' <=> Happened(u)
      BY <1>1, <2>1
    <3>3. ~Happened(BoilWater) /\ Happened(BoilWater)'
      BY <1>1, <2>1, EnabledIsNew
    <3> QED
      BY <3>1, <3>2, <3>3, <1>2, Distinct DEF MarkingTells, Causes, IInv, CoffeePlaces
  <2>2. CASE t = BrewCoffee
    <3>1. marked' = (marked \ {"BoiledWater", "GroundCoffee", "Filter"}) \cup {"CoffeeInPot"}
      BY <2>2, CoffeeTable DEF Perform, Fire, Net, Arcs
    <3>2. \A u \in Trans(Net) \ {BrewCoffee} : Happened(u)' <=> Happened(u)
      BY <1>1, <2>2
    <3>3. ~Happened(BrewCoffee) /\ Happened(BrewCoffee)'
      BY <1>1, <2>2, EnabledIsNew
    <3> QED
      BY <3>1, <3>2, <3>3, <1>2, Distinct DEF MarkingTells, Causes, IInv, CoffeePlaces
  <2>3. CASE t = Credit
    <3>1. marked' = (marked \ {"Sent"}) \cup {"Payment"}
      BY <2>3, CoffeeTable DEF Perform, Fire, Net, Arcs
    <3>2. \A u \in Trans(Net) \ {Credit} : Happened(u)' <=> Happened(u)
      BY <1>1, <2>3
    <3>3. ~Happened(Credit) /\ Happened(Credit)'
      BY <1>1, <2>3, EnabledIsNew
    <3> QED
      BY <3>1, <3>2, <3>3, <1>2, Distinct DEF MarkingTells, Causes, IInv, CoffeePlaces
  <2>4. CASE t = GrindBeans
    <3>1. marked' = (marked \ {"CoffeeBeans"}) \cup {"GroundCoffee"}
      BY <2>4, CoffeeTable DEF Perform, Fire, Net, Arcs
    <3>2. \A u \in Trans(Net) \ {GrindBeans} : Happened(u)' <=> Happened(u)
      BY <1>1, <2>4
    <3>3. ~Happened(GrindBeans) /\ Happened(GrindBeans)'
      BY <1>1, <2>4, EnabledIsNew
    <3> QED
      BY <3>1, <3>2, <3>3, <1>2, Distinct DEF MarkingTells, Causes, IInv, CoffeePlaces
  <2>5. CASE t = PourCoffee
    <3>1. marked' = (marked \ {"CoffeeInPot", "Cup"}) \cup {}
      BY <2>5, CoffeeTable DEF Perform, Fire, Net, Arcs
    <3>2. \A u \in Trans(Net) \ {PourCoffee} : Happened(u)' <=> Happened(u)
      BY <1>1, <2>5
    <3>3. ~Happened(PourCoffee) /\ Happened(PourCoffee)'
      BY <1>1, <2>5, EnabledIsNew
    <3> QED
      BY <3>1, <3>2, <3>3, <1>2, Distinct DEF MarkingTells, Causes, IInv, CoffeePlaces
  <2>6. CASE t = Send
    <3>1. marked' = (marked \ {"Pending"}) \cup {"Sent"}
      BY <2>6, CoffeeTable DEF Perform, Fire, Net, Arcs
    <3>2. \A u \in Trans(Net) \ {Send} : Happened(u)' <=> Happened(u)
      BY <1>1, <2>6
    <3>3. ~Happened(Send) /\ Happened(Send)'
      BY <1>1, <2>6, EnabledIsNew
    <3> QED
      BY <3>1, <3>2, <3>3, <1>2, Distinct DEF MarkingTells, Causes, IInv, CoffeePlaces
  <2> QED
    BY <2>1, <2>2, <2>3, <2>4, <2>5, <2>6, CoffeeTable DEF Net
<1> QED
  BY <1>2, <1>3

\* The log replays: the events logged, and the markings before them, stay.
LEMMA FiringKeepsLog ==
    ASSUME IInv, NEW t \in Trans(Net), Require(t), Perform(t)
    PROVE  LogReplays'
<1> DEFINE n == Len(events)
<1>1. n \in Nat /\ Len(events') = n + 1
  BY LogGrows
<1>2. \A k \in 1..n : events'[k] = events[k]
  BY LogGrows
<1>3. events'[n + 1] = [transition |-> t, state |-> marked']
  BY LogGrows
<1>4. \A k \in 1..n + 1 : Before(events', k) = Before(events, k)
  <2>1. ASSUME NEW k \in 1..n + 1, k # 1
        PROVE  k - 1 \in 1..n
    BY <1>1, <2>1
  <2> QED
    BY <1>2, <2>1 DEF Before
<1>5. Before(events', Len(events') + 1) = marked'
  <2>1. Len(events') + 1 # 1 /\ (Len(events') + 1) - 1 = n + 1
    BY <1>1
  <2> QED
    BY <1>3, <2>1 DEF Before
<1>6. ASSUME NEW k \in 1..n
      PROVE  /\ Enabled(Net, Before(events', k), events'[k].transition)
             /\ events'[k].state = Fire(Net, Before(events', k), events'[k].transition)
  BY <1>1, <1>2, <1>4 DEF IInv, LogReplays
<1>7. /\ Enabled(Net, Before(events', n + 1), events'[n + 1].transition)
      /\ events'[n + 1].state = Fire(Net, Before(events', n + 1), events'[n + 1].transition)
  <2>1. Before(events', n + 1) = marked
    BY <1>1, <1>4 DEF IInv, LogReplays
  <2> QED
    BY <1>3, <2>1 DEF Require, Perform
<1>8. \A k \in 1..Len(events') : k \in 1..n \/ k = n + 1
  BY <1>1
<1> QED
  BY <1>5, <1>6, <1>7, <1>8 DEF LogReplays

\* The event that is added is of a transition not logged before.
LEMMA FiringStaysUnique ==
    ASSUME IInv, NEW t \in Trans(Net), Require(t), Perform(t)
    PROVE  FiresOnce' /\ PaidBeforePoured'
<1> DEFINE n == Len(events)
<1>1. n \in Nat /\ Len(events') = n + 1
  BY LogGrows
<1>2. \A k \in 1..n : events'[k] = events[k]
  BY LogGrows
<1>3. events'[n + 1].transition = t
  <2>1. events'[n + 1] = [transition |-> t, state |-> marked']
    BY LogGrows
  <2> QED
    BY <2>1
<1>4. \A k \in 1..Len(events') : k \in 1..n \/ k = n + 1
  BY <1>1
<1>5. \A k \in 1..n : events[k].transition # t
  BY EnabledIsNew DEF Happened
<1>6. FiresOnce'
  BY <1>2, <1>3, <1>4, <1>5 DEF FiresOnce, IInv
<1>7. PaidBeforePoured'
  <2> SUFFICES ASSUME NEW k \in 1..Len(events'), events'[k].transition = PourCoffee
               PROVE  \E j \in 1..k - 1 : events'[j].transition = Credit
    BY DEF PaidBeforePoured
  <2>1. CASE k \in 1..n
    <3>1. PICK j \in 1..k - 1 : events[j].transition = Credit
      BY <1>2, <2>1 DEF IInv, PaidBeforePoured
    <3>2. j \in 1..n
      BY <1>1, <2>1
    <3> QED
      BY <1>2, <3>1, <3>2
  <2>2. CASE k = n + 1
    <3>1. PICK j \in 1..n : events[j].transition = Credit
      BY <1>3, <2>2, EnabledIsNew DEF Happened
    <3>2. j \in 1..k - 1
      BY <1>1, <2>2
    <3> QED
      BY <1>2, <3>1, <3>2
  <2> QED
    BY <1>4, <2>1, <2>2
<1> QED
  BY <1>6, <1>7

LEMMA FiringType ==
    ASSUME IInv, NEW t \in Trans(Net), Require(t), Perform(t)
    PROVE  marked' \subseteq CoffeePlaces /\ events' \in Seq(Event)
<1>1. marked' \subseteq CoffeePlaces
  BY FiringTellsMarking DEF MarkingTells
<1>2. t \in 1..6
  BY Distinct DEF BoilWater, BrewCoffee, Credit, GrindBeans, PourCoffee, Send
<1> QED
  BY <1>1, <1>2 DEF IInv, TypeOK, Perform, Event

\* The part of the invariant that does not speak of the drivers, and what has
\* happened, survive every transaction.
TransactionInv == /\ marked \subseteq CoffeePlaces
                  /\ events \in Seq(Event)
                  /\ MarkingTells
                  /\ Causes
                  /\ FiresOnce
                  /\ LogReplays
                  /\ PaidBeforePoured

LEMMA Transaction ==
    ASSUME IInv, NEW t \in Trans(Net), Transact(t)
    PROVE  /\ TransactionInv'
           /\ \A u : Happened(u) => Happened(u)'
           /\ Require(t) => Happened(t)'
<1>1. CASE Require(t) /\ Perform(t)
  BY <1>1, FiringTellsMarking, FiringKeepsLog, FiringStaysUnique, FiringType,
     HappenedGrows DEF TransactionInv
<1>2. CASE ~Require(t) /\ UNCHANGED <<marked, events>>
  BY <1>2 DEF TransactionInv, IInv, TypeOK, MarkingTells, Causes, FiresOnce,
     LogReplays, PaidBeforePoured, Happened
<1> QED
  BY <1>1, <1>2 DEF Transact

-----------------------------------------------------------------------------
(* The drivers.                                                             *)

LEMMA CallTable ==
    /\ Len(Calls) = 6
    /\ Calls[1] = BoilWater /\ Calls[2] = GrindBeans /\ Calls[3] = BrewCoffee
    /\ Calls[4] = Send /\ Calls[5] = Credit /\ Calls[6] = PourCoffee
BY DEF Calls

LEMMA CallIsEntryPoint == \A k \in 1..Len(Calls) : Calls[k] \in Trans(Net)
BY CallTable, Distinct

\* A call of the list that is refused, after those before it have happened, is
\* refused because it has happened too.
LEMMA RefusedHasHappened ==
    ASSUME IInv, NEW c \in 1..Len(Calls),
           \A k \in 1..c - 1 : Happened(Calls[k]),
           ~Require(Calls[c])
    PROVE  Happened(Calls[c])
<1>1. CASE c = 1
  BY <1>1, CallTable, CoffeeTable DEF IInv, MarkingTells, Require, Enabled, Net, Arcs
<1>2. CASE c = 2
  BY <1>2, CallTable, CoffeeTable DEF IInv, MarkingTells, Require, Enabled, Net, Arcs
<1>3. CASE c = 3
  <2>1. Happened(BoilWater) /\ Happened(GrindBeans)
    BY <1>3, CallTable
  <2> QED
    BY <1>3, <2>1, CallTable, CoffeeTable
    DEF IInv, MarkingTells, Require, Enabled, Net, Arcs
<1>4. CASE c = 4
  BY <1>4, CallTable, CoffeeTable DEF IInv, MarkingTells, Causes, Require, Enabled, Net, Arcs
<1>5. CASE c = 5
  <2>1. Happened(Send)
    BY <1>5, CallTable
  <2> QED
    BY <1>5, <2>1, CallTable, CoffeeTable
    DEF IInv, MarkingTells, Require, Enabled, Net, Arcs
<1>6. CASE c = 6
  <2>1. Happened(BrewCoffee) /\ Happened(Credit)
    BY <1>6, CallTable
  <2> QED
    BY <1>6, <2>1, CallTable, CoffeeTable
    DEF IInv, MarkingTells, Require, Enabled, Net, Arcs
<1> QED
  BY <1>1, <1>2, <1>3, <1>4, <1>5, <1>6, CallTable

LEMMA StepDriver ==
    ASSUME IInv, NEW d \in Drivers, DriverCall(d)
    PROVE  IInv'
<1>0. call[d] \in 1..Len(Calls)
  BY CallTable DEF IInv, TypeOK, DriverCall
<1>1. PICK c \in 1..Len(Calls) : call[d] = c
  BY <1>0
<1>2. PICK t \in Trans(Net) : t = Calls[c]
  BY CallIsEntryPoint
<1>a. call' = [call EXCEPT ![d] = c + 1] /\ Transact(t)
  BY <1>1, <1>2 DEF DriverCall
<1>3. /\ TransactionInv'
      /\ \A u : Happened(u) => Happened(u)'
      /\ Require(t) => Happened(t)'
  BY <1>a, Transaction
<1>4. call' \in [Drivers -> 1..7]
  BY <1>a, CallTable DEF IInv, TypeOK
<1>5. \A k \in 1..c - 1 : Happened(Calls[k])
  BY <1>1 DEF IInv, DriverAdvanced
<1>6. Happened(t)'
  <2>1. CASE Require(t)
    BY <1>3, <2>1
  <2>2. CASE ~Require(t)
    <3>1. Happened(t)
      BY <1>2, <1>5, <2>2, RefusedHasHappened
    <3> QED
      BY <1>3, <3>1
  <2> QED
    BY <2>1, <2>2
<1>7. DriverAdvanced'
  <2> SUFFICES ASSUME NEW e \in Drivers, NEW k \in 1..call'[e] - 1
               PROVE  Happened(Calls[k])'
    BY DEF DriverAdvanced
  <2>1. CASE e = d
    <3>1. k \in 1..c - 1 \/ k = c
      BY <1>a, <2>1, CallTable DEF IInv, TypeOK
    <3>2. CASE k \in 1..c - 1
      <4>1. PICK u : u = Calls[k]
        OBVIOUS
      <4>2. Happened(u)'
        BY <1>3, <1>5, <3>2, <4>1
      <4>3. Happened(Calls[k])' <=> Happened(u)'
        BY <4>1 DEF Happened, Calls
      <4> QED
        BY <4>2, <4>3
    <3>3. CASE k = c
      <4>1. Happened(Calls[k])' <=> Happened(t)'
        BY <1>2, <3>3 DEF Happened, Calls
      <4> QED
        BY <1>6, <4>1
    <3> QED
      BY <3>1, <3>2, <3>3
  <2>2. CASE e # d
    <3>1. k \in 1..call[e] - 1
      BY <1>a, <2>2 DEF IInv, TypeOK
    <3>2. PICK u : u = Calls[k]
      OBVIOUS
    <3>3. Happened(u)'
      BY <1>3, <3>1, <3>2 DEF IInv, DriverAdvanced
    <3>4. Happened(Calls[k])' <=> Happened(u)'
      BY <3>2 DEF Happened, Calls
    <3> QED
      BY <3>3, <3>4
  <2> QED
    BY <2>1, <2>2
<1> QED
  BY <1>3, <1>4, <1>7 DEF IInv, TypeOK, TransactionInv

LEMMA StepOther ==
    ASSUME IInv, NEW t \in Trans(Net), OtherCall(t)
    PROVE  IInv'
<1>1. /\ TransactionInv'
      /\ \A u : Happened(u) => Happened(u)'
      /\ call' = call
  BY Transaction DEF OtherCall
<1> QED
  BY <1>1 DEF IInv, TypeOK, TransactionInv, DriverAdvanced

LEMMA Inductive == IInv /\ [Next]_vars => IInv'
<1> SUFFICES ASSUME IInv, [Next]_vars
             PROVE  IInv'
  OBVIOUS
<1>1. CASE UNCHANGED vars
  BY <1>1 DEF vars, IInv, TypeOK, MarkingTells, Causes, FiresOnce, LogReplays,
     PaidBeforePoured, DriverAdvanced, Happened
<1>2. CASE Next
  BY <1>2, StepDriver, StepOther DEF Next
<1> QED
  BY <1>1, <1>2

LEMMA Initially == Init => IInv
<1> SUFFICES ASSUME Init
             PROVE  IInv
  OBVIOUS
<1>1. Len(events) = 0 /\ events \in Seq(Event)
  BY DEF Init
<1>2. \A u : ~Happened(u)
  BY <1>1 DEF Happened
<1>3. MarkingTells /\ Causes
  BY <1>2 DEF Init, MarkingTells, Causes, CoffeeInitial, CoffeePlaces
<1>4. TypeOK
  BY <1>1 DEF Init, TypeOK, CoffeeInitial, CoffeePlaces
<1>5. FiresOnce /\ LogReplays /\ PaidBeforePoured
  BY <1>1 DEF FiresOnce, LogReplays, PaidBeforePoured, Before, Init
<1>6. DriverAdvanced
  BY DEF DriverAdvanced, Init
<1> QED
  BY <1>3, <1>4, <1>5, <1>6 DEF IInv

-----------------------------------------------------------------------------
(* The theorems.                                                            *)

\* The types are right.
THEOREM TypeCorrect == Spec => []TypeOK
BY Initially, Inductive, PTL DEF Spec, IInv

\* The event log replays from the constructor's marking to the current one.
THEOREM LogIsTrace == Spec => []LogReplays
BY Initially, Inductive, PTL DEF Spec, IInv

\* However many callers race for an entry point, it succeeds at most once.
THEOREM SucceedsOnce == Spec => []FiresOnce
BY Initially, Inductive, PTL DEF Spec, IInv

\* No coffee is poured before the payment is credited.
THEOREM NeverPouredUnpaid == Spec => []PaidBeforePoured
BY Initially, Inductive, PTL DEF Spec, IInv

\* A driver's refusals mean that somebody else was faster.
THEOREM RefusalsAreLate == Spec => []DriverAdvanced
BY Initially, Inductive, PTL DEF Spec, IInv

\* A driver at the end of its list leaves a served coffee behind.
LEMMA AdvancedServes == IInv => DriverServes
<1> SUFFICES ASSUME IInv, NEW d \in Drivers, call[d] > Len(Calls)
             PROVE  marked = Served
  BY DEF DriverServes
<1>1. call[d] = 7
  BY CallTable DEF IInv, TypeOK
<1>2. \A k \in 1..6 : Happened(Calls[k])
  BY <1>1 DEF IInv, DriverAdvanced
<1>3. /\ Happened(BoilWater) /\ Happened(GrindBeans) /\ Happened(BrewCoffee)
      /\ Happened(Send) /\ Happened(Credit) /\ Happened(PourCoffee)
  BY <1>2, CallTable
<1> QED
  BY <1>3 DEF IInv, MarkingTells, CoffeePlaces, Served

THEOREM EveryDriverServes == Spec => []DriverServes
BY Initially, Inductive, AdvancedServes, PTL DEF Spec

\* The contract implements the canonical machine.
THEOREM ImplementsMachine == Spec => MachineSpec
<1>1. Init => Machine!Init
  BY DEF Init, Machine!Init, CoffeeNet
<1>2. IInv /\ [Next]_vars => [Machine!Next]_(Machine!vars)
  <2> SUFFICES ASSUME IInv, [Next]_vars
               PROVE  [Machine!Next]_(Machine!vars)
    OBVIOUS
  <2>1. ASSUME NEW t \in Trans(Net), Transact(t)
        PROVE  [Machine!Next]_(Machine!vars)
    BY <2>1 DEF Transact, Require, Perform, Net, Machine!vars, Machine!Next,
       Machine!FireTransition, Enabled, Machine!Enabled, Fire, Machine!Fire,
       Trans, Machine!Trans
  <2>2. CASE \E d \in Drivers : DriverCall(d)
    <3>1. PICK d \in Drivers : DriverCall(d)
      BY <2>2
    <3>2. call[d] \in 1..Len(Calls)
      BY <3>1, CallTable DEF IInv, TypeOK, DriverCall
    <3>3. PICK t \in Trans(Net) : t = Calls[call[d]]
      BY <3>2, CallIsEntryPoint
    <3> QED
      BY <2>1, <3>1, <3>3 DEF DriverCall
  <2>3. CASE \E t \in Trans(Net) : OtherCall(t)
    BY <2>1, <2>3 DEF OtherCall
  <2>4. CASE UNCHANGED vars
    BY <2>4 DEF vars, Machine!vars
  <2> QED
    BY <2>2, <2>3, <2>4 DEF Next
<1> QED
  BY <1>1, <1>2, Initially, Inductive, PTL DEF Spec, MachineSpec, Machine!Spec
-----------------------------------------------------------------------------
(* The lambda form: one pass over a list, for every list.                   *)

\* The pass has come to t.
Tried(t) == At(t) < next

\* What the list must order for an entry to fire when the pass comes to it.
BrewFollows == At(BoilWater) < At(BrewCoffee) /\ At(GrindBeans) < At(BrewCoffee)
CreditFollows == At(Send) < At(Credit)
PourFollows == /\ BrewFollows /\ At(BrewCoffee) < At(PourCoffee)
               /\ CreditFollows /\ At(Credit) < At(PourCoffee)

Brewed == Tried(BrewCoffee) /\ BrewFollows
Credited == Tried(Credit) /\ CreditFollows
Poured == Tried(PourCoffee) /\ PourFollows

\* How far the pass has come and how the list is ordered decide what is marked.
PassTells ==
    /\ marking \subseteq CoffeePlaces
    /\ "Water" \in marking <=> ~Tried(BoilWater)
    /\ "BoiledWater" \in marking <=> Tried(BoilWater) /\ ~Brewed
    /\ "CoffeeBeans" \in marking <=> ~Tried(GrindBeans)
    /\ "GroundCoffee" \in marking <=> Tried(GrindBeans) /\ ~Brewed
    /\ "Filter" \in marking <=> ~Brewed
    /\ "CoffeeInPot" \in marking <=> Brewed /\ ~Poured
    /\ "Cup" \in marking <=> ~Poured
    /\ "Pending" \in marking <=> ~Tried(Send)
    /\ "Sent" \in marking <=> Tried(Send) /\ ~Credited
    /\ "Payment" \in marking <=> Credited

PassInv == /\ schedule \in Schedules
           /\ next \in 1..7
           /\ PassTells

\* A list of the six transitions, none of them twice.
LEMMA SixEntries ==
    ASSUME schedule \in Schedules
    PROVE  /\ schedule \in [1..6 -> 1..6] /\ Len(schedule) = 6
           /\ \A j, k \in 1..6 : schedule[j] = schedule[k] => j = k
<1>1. IsSchedule(schedule)
  BY SchedulesAssumption
<1>2. Len(CoffeeTransitions) = 6 /\ Trans(CoffeeNet) = 1..6
  BY DEF CoffeeTransitions, CoffeeNet, Trans
<1>3. /\ schedule \in [1..6 -> 1..6]
      /\ \A j, k \in 1..6 : schedule[j] = schedule[k] => j = k
  BY <1>1, <1>2 DEF IsSchedule
<1>4. Len(schedule) = 6
  BY <1>3
<1>5. QED
  BY <1>3, <1>4

\* In a list that holds six transitions, each once, each has its place.
LEMMA EachHasItsPlace ==
    ASSUME schedule \in Schedules, NEW t \in 1..6
    PROVE  /\ At(t) \in 1..6 /\ schedule[At(t)] = t
           /\ \A k \in 1..6 : schedule[k] = t => k = At(t)
<1>1. /\ schedule \in [1..6 -> 1..6]
      /\ \A j, k \in 1..6 : schedule[j] = schedule[k] => j = k
  BY SixEntries
<1>2. \E k \in 1..6 : schedule[k] = t
  <2> SUFFICES ASSUME \A k \in 1..6 : schedule[k] # t
               PROVE  FALSE
    OBVIOUS
  <2> DEFINE P == 1..6
             T == P \ {t}
  <2>1. IsFiniteSet(P) /\ Cardinality(P) = 6
    <3>1. 1 \in Int /\ 6 \in Int
      OBVIOUS
    <3>2. IsFiniteSet(1..6) /\ Cardinality(1..6) = IF 1 > 6 THEN 0 ELSE 6 - 1 + 1
      BY <3>1, FS_Interval, Zenon
    <3>3. QED
      BY <3>2
  <2>2. IsFiniteSet(T) /\ Cardinality(T) = 5
    BY <2>1, FS_RemoveElement
  <2>3. schedule \in [P -> T]
    BY <1>1
  <2> HIDE DEF P, T
  <2>4. \E j, k \in P : j # k /\ schedule[j] = schedule[k]
    BY <2>1, <2>2, <2>3, FS_PigeonHole
  <2>5. QED
    BY <1>1, <2>4 DEF P
<1>3. At(t) \in 1..6 /\ schedule[At(t)] = t
  BY <1>1, <1>2 DEF At
<1>4. QED
  BY <1>1, <1>3

\* The six places, and that no two of them are one.
LEMMA Places ==
    ASSUME schedule \in Schedules
    PROVE  /\ \A t \in 1..6 : At(t) \in 1..6
           /\ \A t, u \in 1..6 : At(t) = At(u) => t = u
BY EachHasItsPlace

\* Before the pass nothing has been tried.
LEMMA PassBegins == LambdaInit => PassInv
<1> SUFFICES ASSUME LambdaInit
             PROVE  PassInv
  OBVIOUS
<1>1. schedule \in Schedules /\ next = 1 /\ marking = CoffeeInitial
  BY DEF LambdaInit
<1>2. \A t \in 1..6 : ~Tried(t)
  BY <1>1, Places DEF Tried
<1>3. /\ ~Tried(BoilWater) /\ ~Tried(BrewCoffee) /\ ~Tried(Credit)
      /\ ~Tried(GrindBeans) /\ ~Tried(PourCoffee) /\ ~Tried(Send)
  BY <1>2 DEF BoilWater, BrewCoffee, Credit, GrindBeans, PourCoffee, Send
<1>4. QED
  BY <1>1, <1>3 DEF PassInv, PassTells, Brewed, Credited, Poured, CoffeeInitial, CoffeePlaces

\* An entry of the list is tried, and no other; what has been tried stays so.
LEMMA OneIsTried ==
    ASSUME PassInv, next <= Len(schedule), next' = next + 1, UNCHANGED schedule
    PROVE  /\ schedule[next] \in 1..6 /\ next' \in 1..7 /\ schedule' \in Schedules
           /\ ~Tried(schedule[next])
           /\ \A t \in 1..6 : /\ At(t) = At(schedule[next]) <=> t = schedule[next]
                              /\ Tried(t) <=> At(t) < At(schedule[next])
                              /\ Tried(t)' <=> Tried(t) \/ t = schedule[next]
           /\ BrewFollows' <=> BrewFollows
           /\ CreditFollows' <=> CreditFollows
           /\ PourFollows' <=> PourFollows
<1>1. schedule \in [1..6 -> 1..6] /\ Len(schedule) = 6
  BY SixEntries DEF PassInv
<1>2. next \in 1..6
  BY <1>1 DEF PassInv
<1>3. schedule[next] \in 1..6 /\ At(schedule[next]) = next
  BY <1>1, <1>2, EachHasItsPlace DEF PassInv
<1>4. \A t : At(t)' = At(t)
  BY DEF At
<1>5. \A t \in 1..6 : At(t) \in 1..6 /\ (At(t) = next => t = schedule[next])
  BY EachHasItsPlace DEF PassInv
<1>6. /\ BrewFollows' <=> BrewFollows
      /\ CreditFollows' <=> CreditFollows
      /\ PourFollows' <=> PourFollows
  BY <1>4 DEF BrewFollows, CreditFollows, PourFollows
<1>7. \A t \in 1..6 : Tried(t)' <=> At(t) < next + 1
  BY <1>4 DEF Tried
<1>8. \A t \in 1..6 : /\ At(t) = At(schedule[next]) <=> t = schedule[next]
                      /\ Tried(t) <=> At(t) < At(schedule[next])
                      /\ Tried(t)' <=> Tried(t) \/ t = schedule[next]
  BY <1>2, <1>3, <1>5, <1>7 DEF Tried
<1>9. ~Tried(schedule[next])
  BY <1>2, <1>3 DEF Tried
<1>10. next' \in 1..7 /\ schedule' \in Schedules
  BY <1>2 DEF PassInv
<1>11. QED
  BY <1>3, <1>6, <1>8, <1>9, <1>10

\* What fires has been preceded by what it waits for.
LEMMA PassCauses ==
    ASSUME PassInv
    PROVE  /\ Brewed => Tried(BoilWater) /\ Tried(GrindBeans)
           /\ Credited => Tried(Send)
           /\ Poured => Brewed /\ Credited
<1>1. next \in Nat /\ \A t \in 1..6 : At(t) \in Nat
  BY Places DEF PassInv
<1>2. /\ At(BoilWater) \in Nat /\ At(BrewCoffee) \in Nat /\ At(Credit) \in Nat
      /\ At(GrindBeans) \in Nat /\ At(PourCoffee) \in Nat /\ At(Send) \in Nat
  BY <1>1 DEF BoilWater, BrewCoffee, Credit, GrindBeans, PourCoffee, Send
<1>3. QED
  BY <1>1, <1>2 DEF Brewed, Credited, Poured, Tried, BrewFollows, CreditFollows, PourFollows

\* The entry that is tried fires exactly if the list has it behind what it waits for.
LEMMA FiresIfFollows ==
    ASSUME PassInv, next <= Len(schedule), next' = next + 1, UNCHANGED schedule
    PROVE  Applies(marking, schedule[next]) <=>
              /\ schedule[next] = BrewCoffee => BrewFollows
              /\ schedule[next] = Credit => CreditFollows
              /\ schedule[next] = PourCoffee => PourFollows
<1> DEFINE t == schedule[next]
<1>1. /\ t \in 1..6 /\ ~Tried(t)
      /\ \A u \in 1..6 : Tried(u) <=> At(u) < At(t)
  BY OneIsTried
<1>2. PassTells
  BY DEF PassInv
<1>3. Brewed => Tried(BoilWater) /\ Tried(GrindBeans)
  BY PassCauses
<1>4. Credited => Tried(Send)
  BY PassCauses
<1>5. Poured => Brewed /\ Credited
  BY PassCauses
<1> HIDE DEF t
<1>6. /\ Tried(BoilWater) <=> At(BoilWater) < At(t)
      /\ Tried(BrewCoffee) <=> At(BrewCoffee) < At(t)
      /\ Tried(Credit) <=> At(Credit) < At(t)
      /\ Tried(GrindBeans) <=> At(GrindBeans) < At(t)
      /\ Tried(PourCoffee) <=> At(PourCoffee) < At(t)
      /\ Tried(Send) <=> At(Send) < At(t)
  BY <1>1 DEF BoilWater, BrewCoffee, Credit, GrindBeans, PourCoffee, Send
<1>7. t \in {BoilWater, BrewCoffee, Credit, GrindBeans, PourCoffee, Send}
  BY <1>1 DEF BoilWater, BrewCoffee, Credit, GrindBeans, PourCoffee, Send
<1>8. Applies(marking, t) <=>
         /\ t = BrewCoffee => BrewFollows
         /\ t = Credit => CreditFollows
         /\ t = PourCoffee => PourFollows
  <2>1. CASE t = BoilWater
    <3>1. Applies(marking, t) <=> "Water" \in marking /\ "BoiledWater" \notin marking
      BY <2>1, CoffeeTable DEF Applies, Enabled, Arcs
    <3>2. t # BrewCoffee /\ t # Credit /\ t # PourCoffee
      BY <2>1, Distinct
    <3>3. QED
      BY <1>1, <1>2, <2>1, <3>1, <3>2 DEF PassTells
  <2>2. CASE t = GrindBeans
    <3>1. Applies(marking, t) <=> "CoffeeBeans" \in marking /\ "GroundCoffee" \notin marking
      BY <2>2, CoffeeTable DEF Applies, Enabled, Arcs
    <3>2. t # BrewCoffee /\ t # Credit /\ t # PourCoffee
      BY <2>2, Distinct
    <3>3. QED
      BY <1>1, <1>2, <2>2, <3>1, <3>2 DEF PassTells
  <2>3. CASE t = Send
    <3>1. Applies(marking, t) <=> "Pending" \in marking /\ "Sent" \notin marking
      BY <2>3, CoffeeTable DEF Applies, Enabled, Arcs
    <3>2. t # BrewCoffee /\ t # Credit /\ t # PourCoffee
      BY <2>3, Distinct
    <3>3. QED
      BY <1>1, <1>2, <2>3, <3>1, <3>2 DEF PassTells
  <2>4. CASE t = BrewCoffee
    <3>1. Applies(marking, t) <=> /\ {"BoiledWater", "GroundCoffee", "Filter"} \subseteq marking
                                  /\ "CoffeeInPot" \notin marking
      BY <2>4, CoffeeTable DEF Applies, Enabled, Arcs
    <3>2. t # Credit /\ t # PourCoffee
      BY <2>4, Distinct
    <3>3. ~Brewed
      BY <1>1, <2>4 DEF Brewed
    <3>4. Applies(marking, t) <=> Tried(BoilWater) /\ Tried(GrindBeans)
      BY <1>2, <3>1, <3>3 DEF PassTells
    <3>5. QED
      BY <1>6, <2>4, <3>2, <3>4 DEF BrewFollows
  <2>5. CASE t = Credit
    <3>1. Applies(marking, t) <=> "Sent" \in marking /\ "Payment" \notin marking
      BY <2>5, CoffeeTable DEF Applies, Enabled, Arcs
    <3>2. t # BrewCoffee /\ t # PourCoffee
      BY <2>5, Distinct
    <3>3. ~Credited
      BY <1>1, <2>5 DEF Credited
    <3>4. Applies(marking, t) <=> Tried(Send)
      BY <1>2, <3>1, <3>3 DEF PassTells
    <3>5. QED
      BY <1>6, <2>5, <3>2, <3>4 DEF CreditFollows
  <2>6. CASE t = PourCoffee
    <3>1. Applies(marking, t) <=> {"CoffeeInPot", "Cup", "Payment"} \subseteq marking
      BY <2>6, CoffeeTable DEF Applies, Enabled, Arcs
    <3>2. t # BrewCoffee /\ t # Credit
      BY <2>6, Distinct
    <3>3. ~Poured
      BY <1>1, <2>6 DEF Poured
    <3>4. Applies(marking, t) <=> Brewed /\ Credited
      BY <1>2, <3>1, <3>3 DEF PassTells
    <3>5. QED
      BY <1>6, <2>6, <3>2, <3>4 DEF Brewed, Credited, PourFollows
  <2>7. QED
    BY <1>7, <2>1, <2>2, <2>3, <2>4, <2>5, <2>6
<1>9. QED
  BY <1>8 DEF t

\* What is tried at one entry of the list, and what fires there.
LEMMA EntryKeeps ==
    ASSUME PassInv, next <= Len(schedule), next' = next + 1, UNCHANGED schedule,
           marking' = IF Applies(marking, schedule[next])
                      THEN Applied(marking, schedule[next]) ELSE marking
    PROVE  PassInv'
<1> DEFINE t == schedule[next]
<1>1. /\ t \in 1..6 /\ next' \in 1..7 /\ schedule' \in Schedules /\ ~Tried(t)
      /\ \A u \in 1..6 : Tried(u)' <=> Tried(u) \/ u = t
  BY OneIsTried
<1>2. /\ BrewFollows' <=> BrewFollows
      /\ CreditFollows' <=> CreditFollows
      /\ PourFollows' <=> PourFollows
  BY OneIsTried
<1>3. PassTells
  BY DEF PassInv
<1>4. /\ Brewed => Tried(BoilWater) /\ Tried(GrindBeans)
      /\ Credited => Tried(Send)
      /\ Poured => Brewed /\ Credited
  BY PassCauses
<1>5. Applies(marking, t) <=> /\ t = BrewCoffee => BrewFollows
                              /\ t = Credit => CreditFollows
                              /\ t = PourCoffee => PourFollows
  BY FiresIfFollows
<1>6. marking' = IF Applies(marking, t) THEN Applied(marking, t) ELSE marking
  OBVIOUS
<1> HIDE DEF t
<1>7. /\ Tried(BoilWater)' <=> Tried(BoilWater) \/ t = BoilWater
      /\ Tried(BrewCoffee)' <=> Tried(BrewCoffee) \/ t = BrewCoffee
      /\ Tried(Credit)' <=> Tried(Credit) \/ t = Credit
      /\ Tried(GrindBeans)' <=> Tried(GrindBeans) \/ t = GrindBeans
      /\ Tried(PourCoffee)' <=> Tried(PourCoffee) \/ t = PourCoffee
      /\ Tried(Send)' <=> Tried(Send) \/ t = Send
  BY <1>1 DEF BoilWater, BrewCoffee, Credit, GrindBeans, PourCoffee, Send
<1>8. /\ Brewed' <=> Brewed \/ (t = BrewCoffee /\ BrewFollows)
      /\ Credited' <=> Credited \/ (t = Credit /\ CreditFollows)
      /\ Poured' <=> Poured \/ (t = PourCoffee /\ PourFollows)
  BY <1>2, <1>7 DEF Brewed, Credited, Poured
<1>9. t \in {BoilWater, BrewCoffee, Credit, GrindBeans, PourCoffee, Send}
  BY <1>1 DEF BoilWater, BrewCoffee, Credit, GrindBeans, PourCoffee, Send
<1>10. PassTells'
  <2>1. CASE t = BoilWater
    <3>1. marking' = (marking \ {"Water"}) \cup {"BoiledWater"}
      BY <1>5, <1>6, <2>1, CoffeeTable, Distinct DEF Applied, Fire, Arcs
    <3>2. ~Tried(BoilWater) /\ ~Brewed
      BY <1>1, <1>4, <2>1
    <3>3. QED
      BY <1>3, <1>7, <1>8, <2>1, <3>1, <3>2, Distinct DEF PassTells, CoffeePlaces
  <2>2. CASE t = GrindBeans
    <3>1. marking' = (marking \ {"CoffeeBeans"}) \cup {"GroundCoffee"}
      BY <1>5, <1>6, <2>2, CoffeeTable, Distinct DEF Applied, Fire, Arcs
    <3>2. ~Tried(GrindBeans) /\ ~Brewed
      BY <1>1, <1>4, <2>2
    <3>3. QED
      BY <1>3, <1>7, <1>8, <2>2, <3>1, <3>2, Distinct DEF PassTells, CoffeePlaces
  <2>3. CASE t = Send
    <3>1. marking' = (marking \ {"Pending"}) \cup {"Sent"}
      BY <1>5, <1>6, <2>3, CoffeeTable, Distinct DEF Applied, Fire, Arcs
    <3>2. ~Tried(Send) /\ ~Credited
      BY <1>1, <1>4, <2>3
    <3>3. QED
      BY <1>3, <1>7, <1>8, <2>3, <3>1, <3>2, Distinct DEF PassTells, CoffeePlaces
  <2>4. CASE t = BrewCoffee
    <3>1. ~Brewed /\ ~Poured
      BY <1>1, <1>4, <2>4 DEF Brewed
    <3>2. Applies(marking, t) <=> BrewFollows
      BY <1>5, <2>4, Distinct
    <3>3. CASE BrewFollows
      <4>1. marking' = (marking \ {"BoiledWater", "GroundCoffee", "Filter"})
                          \cup {"CoffeeInPot"}
        BY <1>6, <2>4, <3>2, <3>3, CoffeeTable DEF Applied, Fire, Arcs
      <4>2. QED
        BY <1>3, <1>7, <1>8, <2>4, <3>1, <3>3, <4>1, Distinct DEF PassTells, CoffeePlaces
    <3>4. CASE ~BrewFollows
      BY <1>3, <1>6, <1>7, <1>8, <2>4, <3>1, <3>2, <3>4, Distinct DEF PassTells
    <3>5. QED
      BY <3>3, <3>4
  <2>5. CASE t = Credit
    <3>1. ~Credited /\ ~Poured
      BY <1>1, <1>4, <2>5 DEF Credited
    <3>2. Applies(marking, t) <=> CreditFollows
      BY <1>5, <2>5, Distinct
    <3>3. CASE CreditFollows
      <4>1. marking' = (marking \ {"Sent"}) \cup {"Payment"}
        BY <1>6, <2>5, <3>2, <3>3, CoffeeTable DEF Applied, Fire, Arcs
      <4>2. QED
        BY <1>3, <1>7, <1>8, <2>5, <3>1, <3>3, <4>1, Distinct DEF PassTells, CoffeePlaces
    <3>4. CASE ~CreditFollows
      BY <1>3, <1>6, <1>7, <1>8, <2>5, <3>1, <3>2, <3>4, Distinct DEF PassTells
    <3>5. QED
      BY <3>3, <3>4
  <2>6. CASE t = PourCoffee
    <3>1. ~Poured
      BY <1>1, <2>6 DEF Poured
    <3>2. Applies(marking, t) <=> PourFollows
      BY <1>5, <2>6, Distinct
    <3>3. CASE PourFollows
      <4>1. marking' = marking \ {"CoffeeInPot", "Cup"}
        BY <1>6, <2>6, <3>2, <3>3, CoffeeTable DEF Applied, Fire, Arcs
      <4>2. QED
        BY <1>3, <1>7, <1>8, <2>6, <3>1, <3>3, <4>1, Distinct DEF PassTells, CoffeePlaces
    <3>4. CASE ~PourFollows
      BY <1>3, <1>6, <1>7, <1>8, <2>6, <3>1, <3>2, <3>4, Distinct DEF PassTells
    <3>5. QED
      BY <3>3, <3>4
  <2>7. QED
    BY <1>9, <2>1, <2>2, <2>3, <2>4, <2>5, <2>6
<1>11. QED
  BY <1>1, <1>10 DEF PassInv

\* The invariant of the pass.
LEMMA PassInvariance == LambdaSpec => []PassInv
<1>1. PassInv /\ [LambdaNext]_lambdaVars => PassInv'
  <2> SUFFICES ASSUME PassInv, [LambdaNext]_lambdaVars
               PROVE  PassInv'
    OBVIOUS
  <2>1. CASE Apply
    BY <2>1, EntryKeeps DEF Apply
  <2>2. CASE PassOver
    BY <2>2, EntryKeeps DEF PassOver
  <2>3. CASE UNCHANGED lambdaVars
    BY <2>3 DEF lambdaVars, PassInv, PassTells, Tried, At, Brewed, Credited, Poured,
                BrewFollows, CreditFollows, PourFollows
  <2>4. QED
    BY <2>1, <2>2, <2>3 DEF LambdaNext
<1>2. QED
  BY <1>1, PassBegins, PTL DEF LambdaSpec

\* A pass over a list that its author ordered by cause and effect leaves the served
\* coffee; a pass over any other leaves a transition that could fire.
THEOREM ServesExactlyHolds == LambdaSpec => []ServesExactly
<1>1. PassInv => ServesExactly
  <2> SUFFICES ASSUME PassInv, Finished
               PROVE  /\ marking = Served <=> IsCausal
                      /\ IsCausal <=> Terminal(CoffeeNet, marking)
    BY DEF ServesExactly
  <2>1. \A t \in 1..6 : Tried(t)
    <3>1. next = 7
      <4>1. Len(schedule) = 6
        BY SixEntries DEF PassInv
      <4>2. QED
        BY <4>1 DEF PassInv, Finished
    <3>2. QED
      BY <3>1, Places DEF PassInv, Tried
  <2>2. /\ Tried(BoilWater) /\ Tried(BrewCoffee) /\ Tried(Credit)
        /\ Tried(GrindBeans) /\ Tried(PourCoffee) /\ Tried(Send)
    BY <2>1 DEF BoilWater, BrewCoffee, Credit, GrindBeans, PourCoffee, Send
  <2>3. IsCausal <=> PourFollows
    BY DEF IsCausal, PourFollows, BrewFollows, CreditFollows
  <2>4. PourFollows => marking = Served
    BY <2>2 DEF PassInv, PassTells, Brewed, Credited, Poured, PourFollows, CoffeePlaces, Served
  <2>5. \A t \in 1..6 : ~Enabled(CoffeeNet, Served, t)
    BY GoldenEnd DEF GoldenMarkings, Served
  <2>6. Trans(CoffeeNet) = 1..6
    BY DEF CoffeeTransitions, CoffeeNet, Trans
  <2>7. PourFollows => Terminal(CoffeeNet, marking)
    BY <2>4, <2>5, <2>6 DEF Terminal, EnabledIn
  <2>8. ~PourFollows => marking # Served
    BY <2>2 DEF PassInv, PassTells, Poured, Served
  <2>9. ~PourFollows => \E t \in Trans(CoffeeNet) : Enabled(CoffeeNet, marking, t)
    <3>1. PassTells
      BY DEF PassInv
    <3>2. CASE ~CreditFollows
      <4>1. "Sent" \in marking /\ "Payment" \notin marking
        BY <2>2, <3>1, <3>2 DEF PassTells, Credited
      <4>2. QED
        BY <4>1, CoffeeTable DEF Enabled, Arcs
    <3>3. CASE ~BrewFollows
      <4>1. /\ {"BoiledWater", "GroundCoffee", "Filter"} \subseteq marking
            /\ "CoffeeInPot" \notin marking
        BY <2>2, <3>1, <3>3 DEF PassTells, Brewed
      <4>2. QED
        BY <4>1, CoffeeTable DEF Enabled, Arcs
    <3>4. CASE BrewFollows /\ CreditFollows /\ ~PourFollows
      <4>1. {"CoffeeInPot", "Cup", "Payment"} \subseteq marking
        BY <2>2, <3>1, <3>4 DEF PassTells, Brewed, Credited, Poured
      <4>2. QED
        BY <4>1, CoffeeTable DEF Enabled, Arcs
    <3>5. QED
      BY <3>2, <3>3, <3>4
  <2>10. QED
    BY <2>3, <2>4, <2>7, <2>8, <2>9 DEF Terminal, EnabledIn
<1>2. QED
  BY <1>1, PassInvariance, PTL
=============================================================================
