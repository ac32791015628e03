---------------------------- MODULE OrderNotices ----------------------------
(***************************************************************************)
(* From a change of an order to the messages about it: the service commits *)
(* its transaction, then emits an event in memory (orders.service.ts,      *)
(* orders-admin.service.ts, payments), and notification.service.ts reads   *)
(* the order and sends first to the buyer, then to the staff.  Nothing is  *)
(* stored between the commit and the sends.                                *)
(***************************************************************************)
EXTENDS Naturals

CONSTANTS OrderChanges  \* createOrder, a status change, a payment, of any orders

VARIABLES
  tx,      \* tx[n]: the transaction of change n
  event,   \* event[n]: not emitted, emitted, or which part of the handler is done
  told,    \* told[n]: who has been sent a message about n
  dropped  \* ghost: changes whose event or send is lost, each where it happens

noticeVars == <<tx, event, told, dropped>>

NoticeInit ==
  /\ tx = [n \in OrderChanges |-> "none"]
  /\ event = [n \in OrderChanges |-> "none"]
  /\ told = [n \in OrderChanges |-> {}]
  /\ dropped = {}

BeginChange(n) ==
  /\ tx[n] = "none"
  /\ tx' = [tx EXCEPT ![n] = "open"]
  /\ UNCHANGED <<event, told, dropped>>

\* Mutant of CommitChange: the event leaves from inside the transaction.
CommitChangeEmitting(n) ==
  /\ tx[n] = "open"
  /\ event[n] = "none"
  /\ event' = [event EXCEPT ![n] = "emitted"]
  /\ UNCHANGED <<tx, told, dropped>>

CommitChange(n) ==
  /\ tx[n] = "open"
  /\ tx' = [tx EXCEPT ![n] = "committed"]
  /\ UNCHANGED <<event, told, dropped>>

\* It commits and the answer is lost: the service throws, nothing is emitted.
CommitUnheard(n) ==
  /\ tx[n] = "open"
  /\ tx' = [tx EXCEPT ![n] = "unheard"]
  /\ dropped' = dropped \cup {n}
  /\ UNCHANGED <<event, told>>

RollBack(n) ==
  /\ tx[n] = "open"
  /\ tx' = [tx EXCEPT ![n] = "rolled back"]
  /\ UNCHANGED <<event, told, dropped>>

\* events.emit, after the transaction.
EmitChange(n) ==
  /\ tx[n] = "committed"
  /\ event[n] = "none"
  /\ event' = [event EXCEPT ![n] = "emitted"]
  /\ UNCHANGED <<tx, told, dropped>>

\* Mutant of TellBuyer: a failed send ends the handler.
TellBuyerOrStop(n) ==
  /\ event[n] = "emitted"
  /\ \/ event' = [event EXCEPT ![n] = "buyer"] /\ told' = [told EXCEPT ![n] = {"buyer"}]
     \/ event' = [event EXCEPT ![n] = "done"] /\ UNCHANGED told
  /\ UNCHANGED <<tx, dropped>>

\* findOrder and the dispatch to the buyer; a send that fails is logged, and the
\* handler goes on.
TellBuyer(n) ==
  /\ event[n] = "emitted"
  /\ event' = [event EXCEPT ![n] = "buyer"]
  /\ \/ told' = [told EXCEPT ![n] = {"buyer"}] /\ UNCHANGED dropped
     \/ dropped' = dropped \cup {n} /\ UNCHANGED told
  /\ UNCHANGED tx

TellStaff(n) ==
  /\ event[n] = "buyer"
  /\ event' = [event EXCEPT ![n] = "done"]
  /\ \/ told' = [told EXCEPT ![n] = told[n] \cup {"staff"}] /\ UNCHANGED dropped
     \/ dropped' = dropped \cup {n} /\ UNCHANGED told
  /\ UNCHANGED tx

\* A query of the handler throws: safely logs it and the rest is not sent.
HandlerThrows(n) ==
  /\ event[n] \in {"emitted", "buyer"}
  /\ event' = [event EXCEPT ![n] = "done"]
  /\ dropped' = dropped \cup {n}
  /\ UNCHANGED <<tx, told>>

\* The process stops: open transactions roll back, events and handlers are gone.
NoticeCrash ==
  /\ tx' = [n \in OrderChanges |-> IF tx[n] = "open" THEN "rolled back" ELSE tx[n]]
  /\ dropped' = dropped \cup {n \in OrderChanges : tx[n] = "committed" /\ event[n] # "done"}
  /\ event' = [n \in OrderChanges |->
       IF event[n] # "none" \/ tx[n] = "committed" THEN "done" ELSE event[n]]
  /\ UNCHANGED told

NoticeNext ==
  \/ \E n \in OrderChanges :
       \/ BeginChange(n) \/ CommitChange(n) \/ CommitUnheard(n) \/ RollBack(n)
       \/ EmitChange(n) \/ TellBuyer(n) \/ TellStaff(n) \/ HandlerThrows(n)
  \/ NoticeCrash

NoticeFairness ==
  \A n \in OrderChanges :
    WF_noticeVars(EmitChange(n) \/ TellBuyer(n) \/ TellStaff(n) \/ HandlerThrows(n))

NoticeSpec == NoticeInit /\ [][NoticeNext]_noticeVars /\ NoticeFairness

-----------------------------------------------------------------------------
NoticeTypeOK ==
  /\ tx \in [OrderChanges -> {"none", "open", "committed", "unheard", "rolled back"}]
  /\ event \in [OrderChanges -> {"none", "emitted", "buyer", "done"}]
  /\ told \in [OrderChanges -> SUBSET {"buyer", "staff"}]
  /\ dropped \subseteq OrderChanges

\* No message about what did not happen: whoever is told of a change is told after it
\* committed, and a change that rolls back is never told.
NoticeOfCommitted == \A n \in OrderChanges : told[n] # {} => tx[n] = "committed"

\* A committed change is told to buyer and staff in the end, unless a crash or a lost
\* answer came between its commit and the sends, or a query or a send failed: there
\* is no retry, but one failed send does not take the others with it.
NoticedOrDropped ==
  \A n \in OrderChanges :
    (tx[n] = "committed") ~> (told[n] = {"buyer", "staff"} \/ n \in dropped)

=============================================================================
