------------------------------ MODULE LeadDesk ------------------------------
(***************************************************************************)
(* A message left on the site (LeadsService.create): the form may be sent  *)
(* again, and the second is answered with the first when that is found     *)
(* within the window.  The forms here carry one phone and one message.     *)
(***************************************************************************)
EXTENDS Naturals, FiniteSets

CONSTANTS Forms  \* submissions of the form

VARIABLES
  form,    \* form[f]: not sent, searched, its lead made, or answered with another's
  recent,  \* the leads the window still holds
  passed   \* ghost: forms that another's insert passed between search and insert

leadVars == <<form, recent, passed>>

LeadInit ==
  /\ form = [f \in Forms |-> "new"]
  /\ recent = {}
  /\ passed = {}

\* Mutant of FindDuplicate: the search is for a lead of the same form only.
FindDuplicateSame(f) ==
  /\ form[f] = "new"
  /\ form' = [form EXCEPT ![f] = IF f \in recent THEN "duplicate" ELSE "searched"]
  /\ UNCHANGED <<recent, passed>>

\* findFirst: any lead with this phone and message in the window.
FindDuplicate(f) ==
  /\ form[f] = "new"
  /\ form' = [form EXCEPT ![f] = IF recent = {} THEN "searched" ELSE "duplicate"]
  /\ UNCHANGED <<recent, passed>>

\* Mutant of InsertLead: the form that made the lead is answered as a duplicate.
InsertLeadQuietly(f) ==
  /\ form[f] = "searched"
  /\ form' = [form EXCEPT ![f] = "duplicate"]
  /\ recent' = recent \cup {f}
  /\ passed' = passed \cup {g \in Forms \ {f} : form[g] = "searched"}

\* The row is made whatever was inserted since the search.
InsertLead(f) ==
  /\ form[f] = "searched"
  /\ form' = [form EXCEPT ![f] = "created"]
  /\ recent' = recent \cup {f}
  /\ passed' = passed \cup {g \in Forms \ {f} : form[g] = "searched"}

\* DUPLICATE_WINDOW_MS has passed since f.
LeaveWindow(f) ==
  /\ f \in recent
  /\ recent' = recent \ {f}
  /\ UNCHANGED <<form, passed>>

LeadNext == \E f \in Forms : FindDuplicate(f) \/ InsertLead(f) \/ LeaveWindow(f)

LeadSpec == LeadInit /\ [][LeadNext]_leadVars

-----------------------------------------------------------------------------
LeadTypeOK ==
  /\ form \in [Forms -> {"new", "searched", "created", "duplicate"}]
  /\ recent \subseteq {f \in Forms : form[f] = "created"}
  /\ passed \subseteq Forms

\* A message sent several times within the window makes one lead
\* (leads.service.ts 110-119), except that each form searched before another's
\* insert makes its own.
LeadOnce == Cardinality(recent \ passed) <= 1

=============================================================================
