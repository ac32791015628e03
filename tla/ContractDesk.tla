---------------------------- MODULE ContractDesk ----------------------------
(***************************************************************************)
(* A customer asks for a contract (ContractsService.create): a draft row,  *)
(* the PDF, its file, the row again, the delivery to Telegram, the event.  *)
(* There is no transaction around the steps, and nothing takes up what a   *)
(* failure or a crash left; the customer asks again and gets another row.  *)
(***************************************************************************)
EXTENDS Naturals

CONSTANTS Agreements  \* rows that requests may make

VARIABLES
  agreement,  \* agreement[a]: status, and whether pdfUrl names a file
  pdf,        \* pdf[a]: its file is on disk
  step,       \* step[a]: where its request is
  delivered,  \* agreements sent to the customer
  announced   \* agreements whose CONTRACT_READY event was emitted

deskVars == <<agreement, pdf, step, delivered, announced>>

DeskInit ==
  /\ agreement = [a \in Agreements |-> [status |-> "none", url |-> FALSE]]
  /\ pdf = [a \in Agreements |-> FALSE]
  /\ step = [a \in Agreements |-> "new"]
  /\ delivered = {}
  /\ announced = {}

Next1(a, to) == step' = [step EXCEPT ![a] = to]

\* The company is looked up first: without it, or without the order, no row.
MakeDraft(a) ==
  /\ step[a] = "new"
  /\ agreement' = [agreement EXCEPT ![a] = [status |-> "DRAFT", url |-> FALSE]]
  /\ Next1(a, "drafted")
  /\ UNCHANGED <<pdf, delivered, announced>>

\* generate and storage.save.
SavePdf(a) ==
  /\ step[a] = "drafted"
  /\ pdf' = [pdf EXCEPT ![a] = TRUE]
  /\ Next1(a, "saved")
  /\ UNCHANGED <<agreement, delivered, announced>>

\* Mutant of MarkSent: the row is marked before there is a file.
MarkSentEarly(a) ==
  /\ step[a] \in {"drafted", "saved"}
  /\ agreement' = [agreement EXCEPT ![a] = [status |-> "SENT", url |-> TRUE]]
  /\ Next1(a, "marked")
  /\ UNCHANGED <<pdf, delivered, announced>>

MarkSent(a) ==
  /\ step[a] = "saved"
  /\ agreement' = [agreement EXCEPT ![a] = [status |-> "SENT", url |-> TRUE]]
  /\ Next1(a, "marked")
  /\ UNCHANGED <<pdf, delivered, announced>>

\* delivery.send; when it throws the request fails with the row already SENT.
Deliver(a) ==
  /\ step[a] = "marked"
  /\ delivered' = delivered \cup {a}
  /\ Next1(a, "delivered")
  /\ UNCHANGED <<agreement, pdf, announced>>

Announced(a) ==
  /\ step[a] = "delivered"
  /\ announced' = announced \cup {a}
  /\ Next1(a, "done")
  /\ UNCHANGED <<agreement, pdf, delivered>>

\* A step throws, having taken effect or not, or the process stops before the next.
AbandonDraft(a) ==
  /\ step[a] \in {"drafted", "saved", "marked", "delivered"}
  /\ \/ UNCHANGED <<agreement, pdf, delivered>>
     \/ step[a] = "drafted" /\ pdf' = [pdf EXCEPT ![a] = TRUE]
        /\ UNCHANGED <<agreement, delivered>>
     \/ step[a] = "saved" /\ agreement' = [agreement EXCEPT ![a] = [status |-> "SENT", url |-> TRUE]]
        /\ UNCHANGED <<pdf, delivered>>
     \/ step[a] = "marked" /\ delivered' = delivered \cup {a}
        /\ UNCHANGED <<agreement, pdf>>
  /\ Next1(a, "failed")
  /\ UNCHANGED announced

DeskNext ==
  \E a \in Agreements :
    \/ MakeDraft(a) \/ SavePdf(a) \/ MarkSent(a) \/ Deliver(a) \/ Announced(a)
    \/ AbandonDraft(a)

DeskSpec == DeskInit /\ [][DeskNext]_deskVars

-----------------------------------------------------------------------------
DeskTypeOK ==
  /\ agreement \in [Agreements -> [status : {"none", "DRAFT", "SENT"}, url : BOOLEAN]]
  /\ pdf \in [Agreements -> BOOLEAN]
  /\ step \in [Agreements -> {"new", "drafted", "saved", "marked", "delivered", "done", "failed"}]
  /\ delivered \subseteq Agreements
  /\ announced \subseteq Agreements

\* Wherever a request stops, a row never names a file that is not there, so download
\* answers every SENT contract, and "your contract is ready and was sent by Telegram"
\* is said only of one that is SENT, stored and delivered
\* (notification.service.ts 192).
ContractsDownloadable ==
  \A a \in Agreements :
    /\ agreement[a].status = "SENT" <=> agreement[a].url
    /\ agreement[a].url \/ a \in delivered \/ a \in announced => pdf[a]
    /\ a \in announced => a \in delivered /\ agreement[a].status = "SENT"

=============================================================================
