---------------------------------- MODULE Pages ----------------------------------
(***************************************************************************)
(* The pages of the browser that show rows of the server: a load answers   *)
(* the question on the screen (a filter, an id, a range of days), and the  *)
(* buttons of a page act on its rows.  Loads and actions overlap, and      *)
(* answers come back in any order.                                         *)
(*                                                                         *)
(* Pages differ in what they do about it.  Some number their loads or set  *)
(* a flag when an effect is cleaned up, and drop what is not the newest;   *)
(* some also abort the older request; some do nothing.  After an action a  *)
(* page loads again or patches the rows it shows.  One page, kept open.    *)
(***************************************************************************)
EXTENDS Integers

CONSTANTS
  Questions,    \* what a page may be asked to show
  Acts,         \* actions the user takes, each once
  MaxLoads      \* bound: loads started

VARIABLES
  page,         \* the page, as what it does about overlaps
  question,     \* what the screen asks for
  newest,       \* requestIdRef: the number of the newest load
  flight,       \* the loads under way
  act,          \* where each action is, and the question it was taken under
  committed,    \* the actions the server has carried out
  shown,        \* the question answered on the screen, and the actions it shows
  failed,       \* the screen says that the last load or action failed
  finished,     \* history: the actions reported to the user as done
  crossed       \* history: loads or actions overlapped

vars == <<page, question, newest, flight, act, committed, shown, failed,
          finished, crossed>>

(***************************************************************************)
(* The pages.  asks: the question can be changed; again: there is a button *)
(* or a poll that loads; acts: what follows an action; modal: the dialog   *)
(* of an action covers the rest; drops, aborts: see above.                 *)
(***************************************************************************)
Plain == [asks |-> FALSE, again |-> FALSE, acts |-> "none", modal |-> FALSE,
          drops |-> FALSE, aborts |-> FALSE]
Flagged  == [Plain EXCEPT !.drops = TRUE]
Numbered == [Plain EXCEPT !.again = TRUE, !.drops = TRUE, !.aborts = TRUE]

\* Staff.
AdminOrders == [Numbered EXCEPT !.asks = TRUE, !.again = FALSE,
                                !.acts = "reload", !.modal = TRUE]
AdminDeadLetter    == [Numbered EXCEPT !.acts = "reload"]
VendorApplications == [Numbered EXCEPT !.acts = "reload"]
AdminVendors       == [Numbered EXCEPT !.acts = "patch"]
AdminCategories    == [Numbered EXCEPT !.acts = "patch"]
AuditLogs          == [Numbered EXCEPT !.asks = TRUE]
AuditLogModal      == [Flagged EXCEPT !.asks = TRUE]
AdminDisputes      == [Flagged EXCEPT !.asks = TRUE]
AdminRefunds       == [Flagged EXCEPT !.asks = TRUE]
AdminPayments      == Flagged
LinkedUsers        == [Plain EXCEPT !.asks = TRUE, !.acts = "reload"]
AdminOrderDetail   == [Plain EXCEPT !.asks = TRUE]
AdminTelemetry     == [Plain EXCEPT !.asks = TRUE, !.again = TRUE]
AdminAnalytics     == [Plain EXCEPT !.again = TRUE]
Overview           == [Plain EXCEPT !.asks = TRUE, !.again = TRUE]

\* Vendors.
VendorOrders     == [Plain EXCEPT !.again = TRUE, !.acts = "reload"]
VendorPromotions == [Plain EXCEPT !.again = TRUE, !.acts = "reload"]
VendorProducts   == [Plain EXCEPT !.again = TRUE, !.acts = "reload"]
VendorInventory  == [Plain EXCEPT !.again = TRUE, !.acts = "patch"]
VendorDashboard  == [Plain EXCEPT !.again = TRUE]
VendorDeadLetter == [Plain EXCEPT !.again = TRUE]
VendorPayouts    == [Plain EXCEPT !.again = TRUE]

\* Buyers.
ProductsPage     == [Plain EXCEPT !.asks = TRUE]
ProductPage      == [Plain EXCEPT !.asks = TRUE]
VendorStorefront == [Plain EXCEPT !.asks = TRUE]
AccountAddresses == [Plain EXCEPT !.again = TRUE, !.acts = "reload"]
VendorsDirectory == Flagged
BuyerOrders      == Flagged
DealsPage        == Flagged
HomePage         == Flagged
ForYouPage       == Flagged

AllPages ==
  {AdminOrders, AdminDeadLetter, VendorApplications, AdminVendors, AdminCategories,
   AuditLogs, AuditLogModal, AdminDisputes, AdminRefunds, AdminPayments,
   LinkedUsers, AdminOrderDetail, AdminTelemetry, AdminAnalytics, Overview,
   VendorOrders, VendorPromotions, VendorProducts, VendorInventory,
   VendorDashboard, VendorDeadLetter, VendorPayouts, ProductsPage, ProductPage,
   VendorStorefront, AccountAddresses, VendorsDirectory, BuyerOrders, DealsPage,
   HomePage, ForYouPage}

(***************************************************************************)
(* Loads.                                                                  *)
(***************************************************************************)
NewLoad(id, q) == [id |-> id, question |-> q, read |-> FALSE, sees |-> {}]
NoAct == [stage |-> "new", question |-> ""]

Init ==
  /\ page \in AllPages
  /\ question \in Questions
  /\ newest = 1
  /\ flight = {NewLoad(1, question)}
  /\ act = [a \in Acts |-> NoAct]
  /\ committed = {}
  /\ shown = [question |-> "", sees |-> {}]
  /\ failed = FALSE
  /\ finished = {}
  /\ crossed = FALSE

\* A load starts: the error goes, and the page may abort the load before.
Load(q) ==
  /\ newest < MaxLoads
  /\ newest' = newest + 1
  /\ failed' = FALSE
  /\ flight' = (IF page.aborts THEN {} ELSE flight) \cup {NewLoad(newest + 1, q)}

Stage(a, s) == act' = [act EXCEPT ![a].stage = s]
Acting == \E a \in Acts : act[a].stage \in {"sent", "done"}

\* The user changes the filter, picks another row, goes to another id.
Ask(q) ==
  /\ page.asks
  /\ page.modal => ~Acting
  /\ q # question
  /\ question' = q
  /\ Load(q)
  /\ crossed' = (crossed \/ flight # {} \/ Acting)
  /\ UNCHANGED <<page, act, committed, shown, finished>>

\* Refresh, Retry or a poll.
Again ==
  /\ page.again
  /\ Load(question)
  /\ crossed' = (crossed \/ flight # {} \/ Acting)
  /\ UNCHANGED <<page, question, act, committed, shown, finished>>

\* The server reads.
Read(l) ==
  /\ l \in flight
  /\ ~l.read
  /\ flight' = (flight \ {l}) \cup {[l EXCEPT !.read = TRUE, !.sees = committed]}
  /\ UNCHANGED <<page, question, newest, act, committed, shown, failed, finished,
                 crossed>>

\* Fault: no answer is ever stale.
NeverStale(l) == FALSE

\* requestId # requestIdRef.current, or cancelled.
Stale(l) == page.drops /\ l.id # newest

\* The answer of the server is shown, unless it is stale.
Answer(l) ==
  /\ l \in flight
  /\ l.read
  /\ flight' = flight \ {l}
  /\ shown' = IF Stale(l) THEN shown ELSE [question |-> l.question, sees |-> l.sees]
  /\ UNCHANGED <<page, question, newest, act, committed, failed, finished, crossed>>

LoadFails(l) ==
  /\ l \in flight
  /\ flight' = flight \ {l}
  /\ failed' = (failed \/ ~Stale(l))
  /\ UNCHANGED <<page, question, newest, act, committed, shown, finished, crossed>>

(***************************************************************************)
(* Actions.                                                                *)
(***************************************************************************)
\* A button is pressed, under the question of that moment.
Press(a) ==
  /\ page.acts # "none"
  /\ act[a] = NoAct
  /\ act' = [act EXCEPT ![a] = [stage |-> "sent", question |-> question]]
  /\ crossed' = (crossed \/ flight # {} \/ Acting)
  /\ UNCHANGED <<page, question, newest, flight, committed, shown, failed, finished>>

Commit(a) ==
  /\ act[a].stage = "sent"
  /\ Stage(a, "done")
  /\ committed' = committed \cup {a}
  /\ UNCHANGED <<page, question, newest, flight, shown, failed, finished, crossed>>

\* The page learns that its action is done, and loads again with the question
\* it was taken under, or patches the rows on the screen.
ActAnswers(a) ==
  /\ act[a].stage = "done"
  /\ Stage(a, "over")
  /\ finished' = finished \cup {a}
  /\ IF page.acts = "reload"
       THEN Load(act[a].question) /\ UNCHANGED shown
       ELSE shown' = [shown EXCEPT !.sees = @ \cup {a}] /\ UNCHANGED <<newest, flight, failed>>
  /\ crossed' = (crossed \/ flight # {})
  /\ UNCHANGED <<page, question, committed>>

\* It was refused, or its answer is lost.
ActFails(a) ==
  /\ act[a].stage \in {"sent", "done"}
  /\ Stage(a, "over")
  /\ failed' = TRUE
  /\ UNCHANGED <<page, question, newest, flight, committed, shown, finished, crossed>>

Next ==
  \/ \E q \in Questions : Ask(q)
  \/ Again
  \/ \E l \in flight : Read(l) \/ Answer(l) \/ LoadFails(l)
  \/ \E a \in Acts : Press(a) \/ Commit(a) \/ ActAnswers(a) \/ ActFails(a)

Spec == Init /\ [][Next]_vars

(***************************************************************************)
(* Properties.                                                             *)
(***************************************************************************)
Settled == ~failed /\ \A l \in flight : l.id # newest

\* Once the newest load is answered, a page shows the answer to the question on
\* the screen, with every action it reported as done, whatever overtook what.
\* That is promised by the pages that drop stale answers and, where they patch
\* their rows or drop nothing, as long as nothing overlapped.
ScreenAnswers ==
  Settled /\ ((page.drops /\ page.acts # "patch") \/ ~crossed) =>
    shown.question = question /\ finished \subseteq shown.sees

(***************************************************************************)
(* Why it holds: the inductive invariant of the proofs.                    *)
(***************************************************************************)
BoundAssumption == MaxLoads \in Nat

Flight == [id : Nat, question : Questions, read : BOOLEAN, sees : SUBSET Acts]

TypeOK ==
  /\ page \in AllPages
  /\ question \in Questions
  /\ newest \in Nat
  /\ flight \subseteq Flight
  /\ act \in [Acts -> [stage : {"new", "sent", "done", "over"}, question : Questions \cup {""}]]
  /\ committed \subseteq Acts
  /\ finished \subseteq committed
  /\ shown \in [question : Questions \cup {""}, sees : SUBSET Acts]
  /\ failed \in BOOLEAN
  /\ crossed \in BOOLEAN

Underway(a) == act[a].stage \in {"sent", "done"}

\* A page with actions took them, and what is done was carried out.
ActsCommitted ==
  \A a \in Acts :
    /\ act[a].stage # "new" => page.acts # "none"
    /\ act[a].stage = "done" => a \in committed
    /\ Underway(a) => act[a].question \in Questions

\* The newest load asks what the screen asks, and sees what is reported.
NewestIsCurrent ==
  \A l \in flight :
    /\ l.id =< newest
    /\ l.id = newest => /\ l.question = question
                        /\ l.read => finished \subseteq l.sees

\* An action under way was taken under the question on the screen.
ActsAreCurrent ==
  \A a \in Acts : Underway(a) => act[a].question = question

Current ==
  /\ NewestIsCurrent
  /\ ActsAreCurrent
  /\ Settled => shown.question = question /\ finished \subseteq shown.sees

\* The pages that drop stale answers, and what happens if nothing overlaps.
Dropping == page.drops /\ page.acts # "patch"
OneAtATime ==
  /\ \A l \in flight : l.id = newest /\ \A m \in flight : m = l
  /\ flight # {} => ~Acting
  /\ \A a, b \in Acts : Underway(a) /\ Underway(b) => a = b

IInv ==
  /\ TypeOK
  /\ ActsCommitted
  /\ Dropping \/ ~crossed => Current
  /\ ~crossed => OneAtATime
==================================================================================
