------------------------------- MODULE InsertOnce -------------------------------
(***************************************************************************)
(* One row under a unique key, written by whoever comes first: the vendor  *)
(* allocation of an order, a transfer instruction, the promotion snapshot  *)
(* of a line item.  Each service looks for the row, inserts it when it     *)
(* finds none, and decides whether the row it finds, before or after       *)
(* losing the race for the key, is the one it would have written.          *)
(*                                                                         *)
(* The services differ in what they compare and in their transactions.     *)
(* Money columns are bigint or decimal: whether the driver reads them back *)
(* as numbers or, as pg does unless told otherwise, as strings, which are  *)
(* never === to a number, is left open.                                    *)
(***************************************************************************)
CONSTANTS
  Sessions,    \* concurrent callers
  Amounts,     \* results of the calculation
  Instants,    \* times a snapshot may carry
  NoRow        \* no row under the key

VARIABLES
  table,       \* the table the key belongs to
  numbers,     \* the driver reads money back as numbers
  row,         \* the committed row
  pc,          \* where each call stands
  mine,        \* the row it would write
  answered     \* history: the amounts callers were told are stored

vars == <<table, numbers, row, pc, mine, answered>>

\* The services that write a table.
Services(t) == CASE t = "allocations" -> {"allocation", "durable"}
                 [] t = "transfers"   -> {"transfer"}
                 [] t = "snapshots"   -> {"snapshot"}
Tables == {"allocations", "transfers", "snapshots"}
Candidate == [service : {"allocation", "durable", "transfer", "snapshot"},
              amount : Amounts, at : Instants]

Init ==
  /\ table \in Tables
  /\ numbers \in BOOLEAN
  /\ row = NoRow
  /\ pc = [s \in Sessions |-> "idle"]
  /\ mine = [s \in Sessions |-> NoRow]
  /\ answered = {}

Goto(s, step) ==
  /\ pc' = [pc EXCEPT ![s] = step]
  /\ UNCHANGED <<table, numbers, mine>>

\* The call returns or throws, and its transaction, if any, is over.
End(s) ==
  /\ pc' = [pc EXCEPT ![s] = "idle"]
  /\ mine' = [mine EXCEPT ![s] = NoRow]
  /\ UNCHANGED <<table, numbers>>

Accept(s, amount) == answered' = answered \cup {amount} /\ End(s)
Refuse(s) == UNCHANGED answered /\ End(s)

\* Fault: any row under the key is taken for the caller's own.
MatchesAnything(found, c) == TRUE

\* Whether the row found is the caller's.  The durable allocation also
\* compares the snapshot, which carries the time it was taken, and columns the
\* plain allocation leaves empty; a transfer compares nothing.
Matches(found, c) ==
  \/ c.service = "transfer"
  \/ /\ numbers
     /\ found.amount = c.amount
     /\ c.service = "durable" => found.service = "durable" /\ found.at = c.at

\* A transfer answers with the row, the others with what they calculated.
Told(found, c) == IF c.service = "transfer" THEN found.amount ELSE c.amount

Judge(s, found) ==
  IF Matches(found, mine[s]) THEN Accept(s, Told(found, mine[s])) ELSE Refuse(s)

Call(s, c) ==
  /\ pc[s] = "idle"
  /\ c.service \in Services(table)
  /\ pc' = [pc EXCEPT ![s] = "find"]
  /\ mine' = [mine EXCEPT ![s] = c]
  /\ UNCHANGED <<table, numbers, row, answered>>

\* The first look sees committed rows only, locked or not.
Find(s) ==
  /\ pc[s] = "find"
  /\ IF row = NoRow THEN Goto(s, "insert") /\ UNCHANGED answered
                    ELSE Judge(s, row)
  /\ UNCHANGED row

\* A transaction that inserted the row and has not ended.
Inserted(s) == pc[s] \in {"own", "commit"}

\* The insert waits for a transaction that inserted the key.  When there is a
\* row, the plain allocation reads it and so does the snapshot (ON CONFLICT DO
\* NOTHING); a transfer fails; the durable allocation reads it in a transaction
\* the database has aborted, and fails.
Insert(s) ==
  /\ pc[s] = "insert"
  /\ \A t \in Sessions : ~Inserted(t)
  /\ \/ /\ row = NoRow
        /\ IF mine[s].service = "allocation"
             THEN Goto(s, "answer") /\ row' = mine[s]    \* its own transaction
             ELSE /\ Goto(s, IF mine[s].service = "snapshot" THEN "own" ELSE "commit")
                  /\ UNCHANGED row
        /\ UNCHANGED answered
     \/ /\ row # NoRow
        /\ IF mine[s].service \in {"allocation", "snapshot"}
             THEN Goto(s, "reread") /\ UNCHANGED answered
             ELSE Refuse(s)
        /\ UNCHANGED row

\* Someone else's row, found after losing the race.
Reread(s) ==
  /\ pc[s] = "reread"
  /\ Judge(s, row)
  /\ UNCHANGED row

\* The snapshot reads back the row it has just inserted.
ReadOwn(s) ==
  /\ pc[s] = "own"
  /\ IF Matches(mine[s], mine[s]) THEN Goto(s, "commit") /\ UNCHANGED answered
                                  ELSE Refuse(s)
  /\ UNCHANGED row

Commit(s) ==
  /\ pc[s] = "commit"
  /\ row' = mine[s]
  /\ Goto(s, "answer")
  /\ UNCHANGED answered

Answer(s) ==
  /\ pc[s] = "answer"
  /\ Accept(s, mine[s].amount)
  /\ UNCHANGED row

\* A crash, or a rollback of the transaction around the insertion.
Abort(s) ==
  /\ pc[s] # "idle"
  /\ Refuse(s)
  /\ UNCHANGED row

Next == \E s \in Sessions :
  \/ \E c \in Candidate : Call(s, c)
  \/ Find(s) \/ Insert(s) \/ Reread(s) \/ ReadOwn(s)
  \/ Commit(s) \/ Answer(s) \/ Abort(s)

Spec == Init /\ [][Next]_vars

TypeOK ==
  /\ table \in Tables
  /\ numbers \in BOOLEAN
  /\ row \in Candidate \cup {NoRow}
  /\ pc \in [Sessions -> {"idle", "find", "insert", "reread", "own", "commit", "answer"}]
  /\ mine \in [Sessions -> Candidate \cup {NoRow}]
  /\ answered \subseteq Amounts

\* Whoever is told that an amount is stored is told the amount that is stored:
\* callers that race for the key, and retries long after, agree on one row.
OneAnswer == answered # {} => row # NoRow /\ answered = {row.amount}

(***************************************************************************)
(* Why it holds: the inductive invariant of the proofs.                    *)
(***************************************************************************)
NoRowAssumption == NoRow \notin Candidate

\* A call under way would write a row of a service of this table.
WritesThisTable(s) ==
  pc[s] # "idle" => mine[s] \in Candidate /\ mine[s].service \in Services(table)

\* An insertion that is not committed is the only one, and the first.
InsertsFirst(s) ==
  Inserted(s) => row = NoRow /\ \A t \in Sessions : Inserted(t) => t = s

\* Whoever lost the race finds a row, whoever won it answers with that row.
SeesTheRow(s) ==
  /\ pc[s] = "reread" => row # NoRow
  /\ pc[s] = "answer" => row = mine[s]

IInv ==
  /\ TypeOK
  /\ \A s \in Sessions : WritesThisTable(s) /\ InsertsFirst(s) /\ SeesTheRow(s)
  /\ OneAnswer
================================================================================
