-------------------------------- MODULE Addresses --------------------------------
(***************************************************************************)
(* The saved addresses of one customer, one of which may be the default.   *)
(* A request is a sequence of statements, each its own transaction: a      *)
(* label is looked up, the old default is unset, the address is saved.     *)
(* Saving an address that was read earlier writes the columns that differ  *)
(* from the row of that moment (TypeORM's save).                           *)
(***************************************************************************)
EXTENDS Integers, FiniteSets

CONSTANTS
  Sessions,    \* requests served at the same time
  Addrs,       \* ids of addresses
  Labels,
  NoLabel,     \* a request that does not mention the label
  NoRow        \* no address, or no request

VARIABLES
  table,       \* the rows: label and is_default
  pc,          \* where each request stands
  req,         \* the request: kind, address, body
  addr,        \* the address an update read, then what it saves
  overlapped   \* history: two requests were under way at once

vars == <<table, pc, req, addr, overlapped>>

Row == [label : Labels, isDefault : BOOLEAN]
Columns == {"label", "isDefault"}

\* A body need not mention the default, nor an update the label.
Mention == [label : Labels \cup {NoLabel}, isDefault : {"true", "false", "absent"}]
Request == [kind : {"create", "update", "delete"}, id : Addrs, body : Mention]
Sensible(r) == r.kind = "create" => r.body.label # NoLabel

Init ==
  /\ table = [a \in Addrs |-> NoRow]
  /\ pc = [s \in Sessions |-> "idle"]
  /\ req = [s \in Sessions |-> NoRow]
  /\ addr = [s \in Sessions |-> NoRow]
  /\ overlapped = FALSE

Goto(s, step) == pc' = [pc EXCEPT ![s] = step] /\ UNCHANGED <<req, overlapped>>
End(s) ==
  /\ pc' = [pc EXCEPT ![s] = "idle"]
  /\ req' = [req EXCEPT ![s] = NoRow]
  /\ addr' = [addr EXCEPT ![s] = NoRow]
  /\ UNCHANGED overlapped

Begin(s, r) ==
  /\ pc[s] = "idle"
  /\ Sensible(r)
  /\ pc' = [pc EXCEPT ![s] = IF r.kind = "create" THEN "label" ELSE "load"]
  /\ req' = [req EXCEPT ![s] = r]
  /\ overlapped' = (overlapped \/ \E t \in Sessions : pc[t] # "idle")
  /\ UNCHANGED <<table, addr>>

\* A crash between two statements: those before it stay.
Abort(s) == pc[s] # "idle" /\ End(s) /\ UNCHANGED table

Body(s) == req[s].body
Creating(s) == req[s].kind = "create"
Taken(label) == \E a \in Addrs : table[a] # NoRow /\ table[a].label = label

\* findOne of an update or a deletion.
Load(s) ==
  /\ pc[s] = "load"
  /\ IF table[req[s].id] = NoRow
       THEN End(s)
       ELSE /\ addr' = [addr EXCEPT ![s] = table[req[s].id]]
            /\ Goto(s, IF req[s].kind = "delete" THEN "remove" ELSE "label")
  /\ UNCHANGED table

Remove(s) ==
  /\ pc[s] = "remove"
  /\ table' = [table EXCEPT ![req[s].id] = NoRow]
  /\ End(s)

\* A new label must not be taken.
NewLabel(s) ==
  Body(s).label # NoLabel /\ (Creating(s) \/ Body(s).label # addr[s].label)
BecomesDefault(s) ==
  Body(s).isDefault = "true" /\ (Creating(s) \/ ~addr[s].isDefault)

CheckLabel(s) ==
  /\ pc[s] = "label"
  /\ IF NewLabel(s) /\ Taken(Body(s).label)
       THEN End(s)
       ELSE /\ Goto(s, IF BecomesDefault(s) THEN "unset"
                       ELSE IF Creating(s) THEN "insert" ELSE "compare")
            /\ UNCHANGED addr
  /\ UNCHANGED table

\* Fault: the address that was the default so far keeps the flag.
KeepDefaults(s) ==
  /\ pc[s] = "unset"
  /\ Goto(s, IF Creating(s) THEN "insert" ELSE "compare")
  /\ UNCHANGED <<table, addr>>

UnsetDefaults(s) ==
  /\ pc[s] = "unset"
  /\ table' = [a \in Addrs |->
                 IF table[a] = NoRow THEN NoRow ELSE [table[a] EXCEPT !.isDefault = FALSE]]
  /\ Goto(s, IF Creating(s) THEN "insert" ELSE "compare")
  /\ UNCHANGED addr

Insert(s) ==
  /\ pc[s] = "insert"
  /\ \E a \in Addrs :
       /\ table[a] = NoRow
       /\ table' = [table EXCEPT ![a] =
            [label |-> Body(s).label, isDefault |-> Body(s).isDefault = "true"]]
  /\ End(s)

\* Object.assign(addr, body): columns not mentioned are as they were read.
Assigned(s) ==
  [label |-> IF Body(s).label = NoLabel THEN addr[s].label ELSE Body(s).label,
   isDefault |-> IF Body(s).isDefault = "absent" THEN addr[s].isDefault
                                                ELSE Body(s).isDefault = "true"]

\* save: the row is read again, and the columns that differ will be written; a
\* row that is gone will be inserted.
Compare(s) ==
  /\ pc[s] = "compare"
  /\ LET row == table[req[s].id] IN
       addr' = [addr EXCEPT ![s] =
         [row |-> Assigned(s),
          write |-> IF row = NoRow THEN Columns
                    ELSE {c \in Columns : row[c] # Assigned(s)[c]}]]
  /\ Goto(s, "save")
  /\ UNCHANGED table

Save(s) ==
  /\ pc[s] = "save"
  /\ LET old == table[req[s].id]
         a == addr[s] IN
       table' =
         IF old = NoRow /\ a.write # Columns THEN table   \* an UPDATE of no row
         ELSE [table EXCEPT ![req[s].id] =
                [c \in Columns |-> IF c \in a.write THEN a.row[c] ELSE old[c]]]
  /\ End(s)

Next == \E s \in Sessions :
  \/ \E r \in Request : Begin(s, r)
  \/ Load(s) \/ Remove(s) \/ CheckLabel(s) \/ UnsetDefaults(s) \/ Insert(s)
  \/ Compare(s) \/ Save(s) \/ Abort(s)

Spec == Init /\ [][Next]_vars

\* As long as a customer's requests do not overlap, at most one address is the
\* default and no label is used twice, wherever a request is cut off.  (Two that
\* overlap can leave two defaults: each unsets the old one before either saves,
\* or one saves the flag it read before the other unset it.)
OneDefaultUnlessRaced ==
  ~overlapped =>
    \A a, b \in Addrs : a # b /\ table[a] # NoRow /\ table[b] # NoRow =>
      /\ ~(table[a].isDefault /\ table[b].isDefault)
      /\ table[a].label # table[b].label

(***************************************************************************)
(* Why it holds: the inductive invariant of the proofs.                    *)
(***************************************************************************)
NamesAssumption == NoRow \notin Row /\ NoLabel \notin Labels

Stages == {"idle", "load", "remove", "label", "unset", "insert", "compare", "save"}
Written == [row : Row, write : SUBSET Columns]

TypeOK ==
  /\ table \in [Addrs -> Row \cup {NoRow}]
  /\ pc \in [Sessions -> Stages]
  /\ req \in [Sessions -> Request \cup {NoRow}]
  /\ addr \in [Sessions -> Row \cup Written \cup {NoRow}]
  /\ overlapped \in BOOLEAN

\* A request holds what its statement needs.
Holds(s) ==
  /\ pc[s] # "idle" => req[s] \in Request /\ Sensible(req[s])
  /\ pc[s] \in {"label", "unset"} => Creating(s) \/ addr[s] \in Row
  /\ pc[s] = "unset" => BecomesDefault(s)
  /\ pc[s] = "insert" => Creating(s)
  /\ pc[s] = "compare" => addr[s] \in Row
  /\ pc[s] = "save" => addr[s] \in Written

\* The rows but one: neither the default, if that is to be it, nor of its label.
Free(id, row) ==
  \A b \in Addrs : b # id /\ table[b] # NoRow =>
    /\ row.isDefault => ~table[b].isDefault
    /\ table[b].label # row.label

\* What a request that runs alone knows of the table it will write.
Knows(s) ==
  /\ pc[s] \in {"label", "unset"} /\ ~Creating(s) => table[req[s].id] = addr[s]
  /\ pc[s] \in {"unset", "insert", "compare"} /\ NewLabel(s) => ~Taken(Body(s).label)
  /\ pc[s] \in {"insert", "compare"} /\ BecomesDefault(s) =>
       \A a \in Addrs : table[a] # NoRow => ~table[a].isDefault
  /\ pc[s] = "compare" =>
       /\ table[req[s].id] # NoRow
       /\ table[req[s].id].label = addr[s].label
       /\ ~BecomesDefault(s) => table[req[s].id] = addr[s]
  /\ pc[s] = "save" =>
       /\ Free(req[s].id, addr[s].row)
       /\ table[req[s].id] # NoRow
       /\ addr[s].write = {c \in Columns : table[req[s].id][c] # addr[s].row[c]}

Alone ==
  /\ \A s, t \in Sessions : pc[s] # "idle" /\ pc[t] # "idle" => s = t
  /\ \A s \in Sessions : Knows(s)

IInv ==
  /\ TypeOK
  /\ \A s \in Sessions : Holds(s)
  /\ ~overlapped => Alone
  /\ OneDefaultUnlessRaced
================================================================================
