------------------------------ MODULE Contract ------------------------------
(* The contract form, solidity/contract.sol: one deployed coffee machine,   *)
(* its six entry points, and the callers that share it.  A call is a        *)
(* transaction: it is atomic, and a require that fails reverts it.          *)
(*                                                                          *)
(* A driver makes the six calls in the golden order and goes on when one is *)
(* refused (main of golang/contract/main.go); anyone else may call any      *)
(* entry point at any time.  The driver knows nothing of the other callers, *)
(* and the machine knows nothing of the drivers.                            *)
EXTENDS PetriNet

CONSTANT Drivers        \* the callers that run the driver's list

VARIABLES marked,       \* the marked places
          events,       \* the Fired events, oldest first
          call          \* for each driver, the next call of its list

vars == <<marked, events, call>>

Net == CoffeeNet

\* Mutant: the payment is credited before it is sent.
Calls_CreditFirst == <<BoilWater, GrindBeans, BrewCoffee, Credit, Send, PourCoffee>>

\* The driver's list of calls.
Calls == <<BoilWater, GrindBeans, BrewCoffee, Send, Credit, PourCoffee>>

\* Fired(transition, state): the entry point and the marking it rendered.
Event == [transition : 1..6, state : SUBSET CoffeePlaces]

TypeOK == /\ marked \subseteq CoffeePlaces
          /\ events \in Seq(Event)
          /\ call \in [Drivers -> 1..7]

\* constructor
Init == /\ marked = CoffeeInitial
        /\ events = <<>>
        /\ call = [d \in Drivers |-> 1]

\* The modifiers of entry point t: consumes, produces, requires.
Require(t) == Enabled(Net, marked, t)

\* Mutant: the inputs stay marked.
Perform_InputsKept(t) ==
    /\ marked' = marked \cup Net.transitions[t].outputs
    /\ events' = Append(events, [transition |-> t, state |-> marked'])

\* Mutant: the event is emitted before the marking is written.
Perform_EmitsFirst(t) ==
    /\ marked' = Fire(Net, marked, t)
    /\ events' = Append(events, [transition |-> t, state |-> marked])

\* The body of entry point t, behind its modifiers.
Perform(t) ==
    /\ marked' = Fire(Net, marked, t)
    /\ events' = Append(events, [transition |-> t, state |-> marked'])

\* A transaction that calls entry point t: it fires, or it reverts.
Transact(t) == \/ Require(t) /\ Perform(t)
               \/ ~Require(t) /\ UNCHANGED <<marked, events>>

\* Mutant: the driver stops at a call that is refused.
DriverCall_StopsWhenRefused(d) ==
    /\ call[d] <= Len(Calls)
    /\ Require(Calls[call[d]])
    /\ Transact(Calls[call[d]])
    /\ call' = [call EXCEPT ![d] = @ + 1]

\* The driver makes its next call and goes on, fired or refused.
DriverCall(d) ==
    /\ call[d] <= Len(Calls)
    /\ Transact(Calls[call[d]])
    /\ call' = [call EXCEPT ![d] = @ + 1]

\* A call from outside the drivers.
OtherCall(t) ==
    /\ Transact(t)
    /\ UNCHANGED call

Next == \/ \E d \in Drivers : DriverCall(d)
        \/ \E t \in Trans(Net) : OtherCall(t)

\* A driver is a loop over its list: it does not stop half-way.
Spec == /\ Init /\ [][Next]_vars
        /\ \A d \in Drivers : WF_vars(DriverCall(d))
-----------------------------------------------------------------------------
Happened(t) == \E k \in 1..Len(events) : events[k].transition = t

\* The event log is the trace: it replays from the constructor's marking to the
\* current one, and every event carries the marking it led to.
Before(log, k) == IF k = 1 THEN CoffeeInitial ELSE log[k - 1].state

LogReplays ==
    /\ \A k \in 1..Len(events) :
          /\ Enabled(Net, Before(events, k), events[k].transition)
          /\ events[k].state = Fire(Net, Before(events, k), events[k].transition)
    /\ marked = Before(events, Len(events) + 1)

\* However many callers race for an entry point, it succeeds once.
FiresOnce ==
    \A j, k \in 1..Len(events) :
        events[j].transition = events[k].transition => j = k

\* A driver that has passed a call of its list knows that it has taken effect,
\* by this driver or by somebody else: its refusals are never premature.
DriverAdvanced ==
    \A d \in Drivers : \A k \in 1..call[d] - 1 : Happened(Calls[k])

\* So a driver that reached the end of its list leaves a served coffee behind,
\* whoever else called what in the meantime.
DriverServes ==
    \A d \in Drivers : call[d] > Len(Calls) => marked = Served

\* The machine pours only after a payment, whatever the callers try.
PaidBeforePoured ==
    \A k \in 1..Len(events) :
        events[k].transition = PourCoffee =>
            \E j \in 1..k - 1 : events[j].transition = Credit

\* With a driver at work the coffee is served in the end, for good.
EventuallyServed == <>[](marked = Served)

\* The contract implements the machine: a call fires a transition or changes
\* nothing.
Machine == INSTANCE Machine WITH Nets <- {CoffeeNet}, Weightings <- {},
                                 net <- CoffeeNet, marking <- marked

MachineSpec == Machine!Spec
=============================================================================
