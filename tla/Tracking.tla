-------------------------------- MODULE Tracking --------------------------------
(***************************************************************************)
(* A buyer watches an order.  The page asks for it at an interval, when    *)
(* its tab comes back to the front and when the network is back, until it  *)
(* sees an end of the order; requests are lost, refused once the access    *)
(* token has expired, and tried again.  What it shows of an order are      *)
(* badges from one table of statuses, and alerts.                          *)
(***************************************************************************)
EXTENDS Integers, TLC

CONSTANTS
  MaxRetries,     \* 5 in the code
  MaxMoves,       \* bound: changes of the order
  MaxLosses,      \* bound: requests lost and pages loaded anew
  NoData

VARIABLES
  order,          \* the order as the server has it
  query,          \* the page's query: its data, error, fetch and failures
  reply,          \* what the server answered to the request in flight
  visible,        \* the tab is in front
  online,
  signedIn,       \* the access token is still accepted
  moves, losses   \* changes of the order; lost requests and reloads

vars == <<order, query, reply, visible, online, signedIn, moves, losses>>

(***************************************************************************)
(* Statuses: the server's, and the page's table.                           *)
(***************************************************************************)
OrderStatus == {"placed", "confirmed", "fulfilling", "fulfilled", "cancelled"}
FulfillmentStatus == {"pending", "syncing", "confirmed", "failed", "dead_letter", "ambiguous"}
Order == [status : OrderStatus, item : FulfillmentStatus]

OrderTokens ==
  [PLACED |-> "Placed", CONFIRMED |-> "Confirmed", FULFILLING |-> "Fulfilling",
   FULFILLED |-> "Fulfilled", CANCELLED |-> "Cancelled", FAILED |-> "Failed"]
LineItemTokens ==
  [PENDING |-> "Pending", IN_PROGRESS |-> "In progress", SHIPPED |-> "Shipped",
   AMBIGUOUS |-> "Pending reconciliation",
   MANUAL_INTERVENTION_REQUIRED |-> "Manual intervention"]
SyncJobTokens ==
  [pending |-> "Queued", in_progress |-> "Running", completed |-> "Completed",
   failed |-> "Failed", ambiguous |-> "Ambiguous", dead_letter |-> "Dead letter",
   retry |-> "Retrying"]
StatusTokens == OrderTokens @@ LineItemTokens @@ SyncJobTokens

\* A status that the table lacks is shown as it is.
Badge(status) == IF status \in DOMAIN StatusTokens THEN StatusTokens[status] ELSE status

Alerts(o) ==
  (IF o.item \in {"dead_letter", "DEAD_LETTER", "FAILED"} THEN {"issue detected"} ELSE {})
    \cup (IF o.item \in {"AMBIGUOUS", "ambiguous"} THEN {"pending confirmation"} ELSE {})
View(o) ==
  [page |-> "order", badge |-> Badge(o.status), item |-> Badge(o.item), alerts |-> Alerts(o)]

\* An error hides an order that was loaded before.
Screen ==
  IF query.data = NoData /\ query.fetch \notin {"idle", "paused"} THEN [page |-> "loading"]
  ELSE IF query.error \/ query.data = NoData THEN [page |-> "Order not found"]
  ELSE View(query.data)

(***************************************************************************)
(* The query.  Its fetch is "idle", "paused" until the network is back,    *)
(* "asked", "answered", or "delayed" before the next attempt.              *)
(***************************************************************************)
Fetches(q) ==
  [q EXCEPT !.fetch = IF online' THEN "asked" ELSE "paused", !.failures = 0,
            !.error = @ /\ q.data # NoData]

Init ==
  /\ order = [status |-> "placed", item |-> "pending"]
  /\ query = [data |-> NoData, error |-> FALSE, fetch |-> "asked", failures |-> 0]
  /\ reply = NoData
  /\ visible = TRUE /\ online = TRUE /\ signedIn = TRUE
  /\ moves = 0 /\ losses = 0

World == <<visible, online, signedIn>>
Server == <<order, moves>>

\* Fault: the server's spelling, and one status too many.
TerminalAlsoConfirmed == {"fulfilled", "cancelled", "failed", "confirmed"}

TerminalStatuses == {"FULFILLED", "CANCELLED", "FAILED"}

Polls == IF query.data = NoData THEN TRUE ELSE query.data.status \notin TerminalStatuses

RefetchInterval ==
  /\ Polls /\ visible
  /\ query.fetch = "idle"
  /\ UNCHANGED <<Server, World, reply, losses>>
  /\ query' = Fetches(query)

ServerAnswers ==
  /\ query.fetch = "asked"
  /\ reply' = IF signedIn THEN order ELSE NoData
  /\ query' = [query EXCEPT !.fetch = "answered"]
  /\ UNCHANGED <<Server, World, losses>>

Arrives ==
  /\ query.fetch = "answered"
  /\ reply # NoData
  /\ query' = [data |-> reply, error |-> FALSE, fetch |-> "idle", failures |-> 0]
  /\ reply' = NoData
  /\ UNCHANGED <<Server, World, losses>>

\* A refusal is final, although a new access token could be had.
Refused ==
  /\ query.fetch = "answered"
  /\ reply = NoData
  /\ query' = [query EXCEPT !.error = TRUE, !.fetch = "idle", !.failures = 0]
  /\ UNCHANGED <<Server, World, reply, losses>>

Lost ==
  /\ query.fetch \in {"asked", "answered"}
  /\ losses < MaxLosses
  /\ losses' = losses + 1
  /\ query' = IF query.failures < MaxRetries
              THEN [query EXCEPT !.fetch = "delayed", !.failures = @ + 1]
              ELSE [query EXCEPT !.error = TRUE, !.fetch = "idle", !.failures = 0]
  /\ reply' = NoData
  /\ UNCHANGED <<Server, World>>

\* Another attempt waits for the tab and for the network.
Retry ==
  /\ query.fetch = "delayed"
  /\ visible /\ online
  /\ query' = [query EXCEPT !.fetch = "asked"]
  /\ UNCHANGED <<Server, World, reply, losses>>

(***************************************************************************)
(* The tab, the network, the session and the order.                        *)
(***************************************************************************)
Refetched == IF query.fetch = "idle" THEN Fetches(query) ELSE query

Hide ==
  /\ visible /\ visible' = FALSE
  /\ UNCHANGED <<Server, query, reply, online, signedIn, losses>>
Focus ==
  /\ ~visible /\ visible' = TRUE
  /\ UNCHANGED <<Server, reply, online, signedIn, losses>>
  /\ query' = Refetched

GoOffline ==
  /\ online /\ online' = FALSE
  /\ UNCHANGED <<Server, query, reply, visible, signedIn, losses>>
Reconnect ==
  /\ ~online /\ online' = TRUE
  /\ query' = IF query.fetch = "paused" THEN [query EXCEPT !.fetch = "asked"] ELSE Refetched
  /\ UNCHANGED <<Server, reply, visible, signedIn, losses>>

Expire ==
  /\ signedIn /\ signedIn' = FALSE
  /\ UNCHANGED <<Server, query, reply, visible, online, losses>>

\* Loading the page anew restores the session, and asks with a new client.
Reload ==
  /\ online
  /\ losses < MaxLosses /\ losses' = losses + 1
  /\ signedIn' = TRUE /\ visible' = TRUE
  /\ query' = [data |-> NoData, error |-> FALSE, fetch |-> "asked", failures |-> 0]
  /\ reply' = NoData
  /\ UNCHANGED <<Server, online>>

\* Workers and staff write a status decided on one they read before, whatever it
\* is by now; only a cancellation holds the row.
Moves ==
  /\ moves < MaxMoves /\ moves' = moves + 1
  /\ \/ \E s \in {"confirmed", "fulfilling", "fulfilled"} : order' = [order EXCEPT !.status = s]
     \/ /\ order.status \notin {"fulfilled", "cancelled"}
        /\ order' = [order EXCEPT !.status = "cancelled"]
     \/ \E i \in FulfillmentStatus \ {order.item} : order' = [order EXCEPT !.item = i]
  /\ UNCHANGED <<World, query, reply, losses>>

PageStep == RefetchInterval \/ ServerAnswers \/ Arrives \/ Refused \/ Retry

Next ==
  \/ PageStep \/ Lost \/ Moves
  \/ Hide \/ Focus \/ GoOffline \/ Reconnect \/ Expire \/ Reload

Spec == Init /\ [][Next]_vars /\ WF_vars(PageStep)

(***************************************************************************)
(* Properties.                                                             *)
(***************************************************************************)
TypeOK ==
  /\ order \in Order
  /\ query \in [data : Order \cup {NoData}, error : BOOLEAN, failures : 0 .. MaxRetries,
                fetch : {"idle", "paused", "asked", "answered", "delayed"}]
  /\ reply \in Order \cup {NoData}

Watched == visible /\ online /\ signedIn

\* A page that stays in front of a buyer who is online and signed in comes to
\* show the order as it is and stays so, however the order moved and whatever
\* requests were lost, hidden or refused before: polling does not end early.
ScreenCatchesUp == <>[]Watched => <>[](Screen = View(order))
================================================================================
