---------------------------- MODULE AddressesProofs ----------------------------
(***************************************************************************)
(* What is proved about Addresses for all sets of requests, addresses and  *)
(* labels: the inductive invariant IInv, and with it that a customer whose *)
(* requests do not overlap has one default address and no label twice.     *)
(***************************************************************************)
EXTENDS Addresses, TLAPS

\* No two rows are the default, or of one label.
Unique ==
  \A a, b \in Addrs : a # b /\ table[a] # NoRow /\ table[b] # NoRow =>
    /\ ~(table[a].isDefault /\ table[b].isDefault)
    /\ table[a].label # table[b].label

\* What the property says of the rows.
LEMMA Meaning == /\ OneDefaultUnlessRaced <=> (~overlapped => Unique)
                 /\ OneDefaultUnlessRaced' <=> (~overlapped' => Unique')
BY DEF OneDefaultUnlessRaced, Unique

\* What a request carries.
LEMMA BodyFacts ==
  ASSUME NEW s \in Sessions, req[s] \in Request
  PROVE  /\ Body(s).label \in Labels \cup {NoLabel}
         /\ Body(s).isDefault \in {"true", "false", "absent"}
         /\ req[s].id \in Addrs
         /\ req[s].kind \in {"create", "update", "delete"}
BY DEF Request, Mention, Body

\* What a row holds.
LEMMA RowFacts ==
  ASSUME NEW row \in Row
  PROVE  row.label \in Labels /\ row.isDefault \in BOOLEAN
BY DEF Row

\* There are no rows and no requests.
LEMMA InitHolds == ASSUME NamesAssumption, Init PROVE IInv
<1>1. TypeOK
  BY DEF Init, TypeOK, Stages
<1>2. Alone /\ \A s \in Sessions : Holds(s)
  BY DEF Init, Alone, Knows, Holds
<1>3. Unique
  BY DEF Init, Unique
<1> QED  BY <1>1, <1>2, <1>3, Meaning DEF IInv

(***************************************************************************)
(* One request moves.                                                      *)
(***************************************************************************)
Others(s) ==
  \A t \in Sessions \ {s} : pc'[t] = pc[t] /\ req'[t] = req[t] /\ addr'[t] = addr[t]

\* A request that moves while the others stand still keeps the invariant if it
\* keeps its own facts, and the rows apart as long as it is alone.
LEMMA Moves ==
  ASSUME IInv, NEW s \in Sessions, pc[s] # "idle", Others(s), overlapped' = overlapped,
         TypeOK', Holds(s)', ~overlapped /\ Alone /\ Unique => Knows(s)' /\ Unique'
  PROVE  IInv'
<1>1. ~overlapped => Alone /\ Unique
  BY Meaning DEF IInv
<1>2. \A t \in Sessions : Holds(t)'
  BY DEF IInv, Others, Holds, Creating, BecomesDefault, Body, Sensible
<1>3. ASSUME ~overlapped PROVE Alone'
  <2>1. \A t \in Sessions \ {s} : pc'[t] = "idle"
    BY <1>1, <1>3 DEF Alone, Others
  <2>2. \A t \in Sessions : Knows(t)'
    BY <1>1, <1>3, <2>1 DEF Knows
  <2> QED  BY <2>1, <2>2 DEF Alone
<1> QED  BY <1>1, <1>2, <1>3, Meaning DEF IInv

\* It goes on to the next statement.
LEMMA GotoFacts ==
  ASSUME IInv, NEW s \in Sessions, NEW step \in Stages, Goto(s, step),
         addr' \in [Sessions -> Row \cup Written \cup {NoRow}],
         \A t \in Sessions \ {s} : addr'[t] = addr[t]
  PROVE  /\ Others(s) /\ pc'[s] = step /\ req'[s] = req[s] /\ overlapped' = overlapped
         /\ table' \in [Addrs -> Row \cup {NoRow}] => TypeOK'
BY DEF IInv, TypeOK, Goto, Others

\* It is answered, having written the rows or not.
LEMMA Ends ==
  ASSUME IInv, NEW s \in Sessions, pc[s] # "idle", End(s),
         table' \in [Addrs -> Row \cup {NoRow}],
         ~overlapped /\ Alone /\ Unique => Unique'
  PROVE  IInv'
<1>1. /\ Others(s) /\ pc'[s] = "idle" /\ overlapped' = overlapped /\ TypeOK'
  BY DEF IInv, TypeOK, End, Others, Stages
<1>2. Holds(s)' /\ Knows(s)'
  BY <1>1 DEF Holds, Knows
<1> QED  BY <1>1, <1>2, Moves

\* It is answered, and nothing is written.
LEMMA JustEnds ==
  ASSUME IInv, NEW s \in Sessions, pc[s] # "idle", End(s), UNCHANGED table
  PROVE  IInv'
<1>1. table' \in [Addrs -> Row \cup {NoRow}] /\ (Unique => Unique')
  BY DEF IInv, TypeOK, Unique
<1> QED  BY <1>1, Ends

(***************************************************************************)
(* The actions.                                                            *)
(***************************************************************************)
LEMMA BeginHolds ==
  ASSUME IInv, NEW s \in Sessions, NEW r \in Request, Begin(s, r)
  PROVE  IInv'
<1> DEFINE step == IF r.kind = "create" THEN "label" ELSE "load"
<1>1. /\ pc[s] = "idle" /\ Sensible(r)
      /\ pc' = [pc EXCEPT ![s] = step] /\ req' = [req EXCEPT ![s] = r]
      /\ overlapped' = (overlapped \/ \E t \in Sessions : pc[t] # "idle")
      /\ UNCHANGED <<table, addr>>
  BY DEF Begin
<1>2. TypeOK'
  BY <1>1 DEF IInv, TypeOK, Stages
<1>3. /\ pc'[s] = step /\ req'[s] = r
      /\ \A t \in Sessions \ {s} : pc'[t] = pc[t] /\ req'[t] = req[t] /\ addr'[t] = addr[t]
  BY <1>1 DEF IInv, TypeOK
<1>4. Creating(s)' <=> r.kind = "create"
  BY <1>3 DEF Creating
<1>5. Holds(s)'
  BY <1>1, <1>3, <1>4 DEF Holds
<1>6. \A t \in Sessions : Holds(t)'
  BY <1>3, <1>5 DEF IInv, Holds, Creating, BecomesDefault, Body, Sensible
<1>7. ASSUME ~overlapped' PROVE Alone' /\ Unique'
  <2>1. ~overlapped /\ \A t \in Sessions : pc[t] = "idle"
    BY <1>1, <1>7
  <2>2. Unique'
    BY <1>1, <2>1, Meaning DEF IInv, Unique
  <2>3. \A t \in Sessions \ {s} : Knows(t)'
    BY <1>3, <2>1 DEF Knows
  <2>4. Knows(s)'
    BY <1>3, <1>4 DEF Knows
  <2>5. \A t, u \in Sessions : pc'[t] # "idle" /\ pc'[u] # "idle" => t = u
    BY <1>3, <2>1
  <2> QED  BY <2>2, <2>3, <2>4, <2>5 DEF Alone
<1> QED  BY <1>2, <1>6, <1>7, Meaning DEF IInv

LEMMA LoadHolds ==
  ASSUME IInv, NEW s \in Sessions, Load(s)
  PROVE  IInv'
<1>1. pc[s] = "load" /\ UNCHANGED table
  BY DEF Load
<1>2. req[s] \in Request /\ Sensible(req[s]) /\ req[s].id \in Addrs
  BY <1>1, BodyFacts DEF IInv, Holds
<1>3. CASE table[req[s].id] = NoRow
  BY <1>1, <1>3, JustEnds DEF Load
<1>4. CASE table[req[s].id] # NoRow
  <2> DEFINE step == IF req[s].kind = "delete" THEN "remove" ELSE "label"
  <2>1. addr' = [addr EXCEPT ![s] = table[req[s].id]] /\ Goto(s, step)
    BY <1>4 DEF Load
  <2>2. table[req[s].id] \in Row
    BY <1>2, <1>4 DEF IInv, TypeOK
  <2>3. /\ addr' \in [Sessions -> Row \cup Written \cup {NoRow}]
        /\ addr'[s] = table[req[s].id] /\ \A t \in Sessions \ {s} : addr'[t] = addr[t]
    BY <2>1, <2>2 DEF IInv, TypeOK
  <2>4. step \in Stages /\ step \in {"remove", "label"}
    BY DEF Stages
  <2> HIDE DEF step
  <2>5. /\ Others(s) /\ pc'[s] = step /\ req'[s] = req[s] /\ overlapped' = overlapped
        /\ TypeOK'
    BY <1>1, <2>1, <2>3, <2>4, GotoFacts DEF IInv, TypeOK
  <2>6. Holds(s)'
    BY <1>2, <2>2, <2>3, <2>4, <2>5 DEF Holds
  <2>7. Knows(s)'
    BY <1>1, <2>3, <2>4, <2>5 DEF Knows
  <2>8. Unique => Unique'
    BY <1>1 DEF Unique
  <2> QED  BY <1>1, <2>5, <2>6, <2>7, <2>8, Moves
<1> QED  BY <1>3, <1>4

LEMMA RemoveHolds ==
  ASSUME IInv, NEW s \in Sessions, Remove(s)
  PROVE  IInv'
<1>1. pc[s] = "remove" /\ End(s) /\ table' = [table EXCEPT ![req[s].id] = NoRow]
  BY DEF Remove
<1>2. table' \in [Addrs -> Row \cup {NoRow}]
  BY <1>1 DEF IInv, TypeOK
<1>3. \A a \in Addrs : table'[a] # NoRow => table'[a] = table[a]
  BY <1>1 DEF IInv, TypeOK
<1>4. Unique => Unique'
  BY <1>3 DEF Unique
<1> QED  BY <1>1, <1>2, <1>4, Ends

LEMMA CheckLabelHolds ==
  ASSUME NamesAssumption, IInv, NEW s \in Sessions, CheckLabel(s)
  PROVE  IInv'
<1>1. pc[s] = "label" /\ UNCHANGED table
  BY DEF CheckLabel
<1>2. /\ req[s] \in Request /\ Sensible(req[s]) /\ (Creating(s) \/ addr[s] \in Row)
      /\ req[s].id \in Addrs
  BY <1>1, BodyFacts DEF IInv, Holds
<1>3. CASE NewLabel(s) /\ Taken(Body(s).label)
  BY <1>1, <1>3, JustEnds DEF CheckLabel
<1>4. CASE ~(NewLabel(s) /\ Taken(Body(s).label))
  <2> DEFINE step == IF BecomesDefault(s) THEN "unset"
                     ELSE IF Creating(s) THEN "insert" ELSE "compare"
  <2>1. Goto(s, step) /\ UNCHANGED addr
    BY <1>4 DEF CheckLabel
  <2>2. /\ step \in {"unset", "insert", "compare"}
        /\ step = "unset" <=> BecomesDefault(s)
        /\ step = "insert" => Creating(s)
        /\ step = "compare" => ~Creating(s)
    OBVIOUS
  <2> HIDE DEF step
  <2>3. step \in Stages
    BY <2>2 DEF Stages
  <2>4. /\ Others(s) /\ pc'[s] = step /\ req'[s] = req[s] /\ addr'[s] = addr[s]
        /\ overlapped' = overlapped /\ TypeOK'
    BY <1>1, <2>1, <2>3, GotoFacts DEF IInv, TypeOK
  <2>5. /\ (Creating(s)' <=> Creating(s)) /\ (NewLabel(s)' <=> NewLabel(s))
        /\ (BecomesDefault(s)' <=> BecomesDefault(s)) /\ Body(s)' = Body(s)
        /\ \A label : Taken(label)' <=> Taken(label)
    BY <1>1, <2>4 DEF Creating, NewLabel, BecomesDefault, Body, Taken
  <2>6. Holds(s)'
    BY <1>2, <2>2, <2>4, <2>5 DEF Holds
  <2>7. ASSUME Alone PROVE Knows(s)'
    <3>1. ~Creating(s) => table[req[s].id] = addr[s] /\ addr[s] # NoRow
      BY <1>1, <1>2, <2>7 DEF Alone, Knows, NamesAssumption
    <3> QED  BY <1>1, <1>4, <2>2, <2>4, <2>5, <3>1 DEF Knows
  <2>8. Unique => Unique'
    BY <1>1 DEF Unique
  <2> QED  BY <1>1, <2>4, <2>6, <2>7, <2>8, Moves
<1> QED  BY <1>3, <1>4

LEMMA UnsetHolds ==
  ASSUME NamesAssumption, IInv, NEW s \in Sessions, UnsetDefaults(s)
  PROVE  IInv'
<1> DEFINE step == IF Creating(s) THEN "insert" ELSE "compare"
<1>1. /\ pc[s] = "unset" /\ Goto(s, step) /\ UNCHANGED addr
      /\ table' = [a \in Addrs |->
           IF table[a] = NoRow THEN NoRow ELSE [table[a] EXCEPT !.isDefault = FALSE]]
  BY DEF UnsetDefaults
<1>2. /\ req[s] \in Request /\ Sensible(req[s]) /\ (Creating(s) \/ addr[s] \in Row)
      /\ BecomesDefault(s) /\ req[s].id \in Addrs
  BY <1>1, BodyFacts DEF IInv, Holds
<1>3. /\ step \in {"insert", "compare"} /\ step \in Stages
      /\ step = "insert" <=> Creating(s)
  BY DEF Stages
<1> HIDE DEF step
<1>4. ASSUME NEW a \in Addrs
      PROVE  /\ table'[a] \in Row \cup {NoRow}
             /\ table'[a] # NoRow <=> table[a] # NoRow
             /\ table[a] # NoRow =>
                  table'[a].label = table[a].label /\ ~table'[a].isDefault
  <2>1. CASE table[a] = NoRow
    BY <1>1, <2>1
  <2>2. CASE table[a] # NoRow
    <3>1. table[a] \in Row
      BY <2>2 DEF IInv, TypeOK
    <3>2. table'[a] = [table[a] EXCEPT !.isDefault = FALSE]
      BY <1>1, <2>2
    <3>3. /\ table'[a] \in Row
          /\ table'[a].label = table[a].label /\ table'[a].isDefault = FALSE
      BY <3>1, <3>2 DEF Row
    <3> QED  BY <2>2, <3>3 DEF NamesAssumption
  <2> QED  BY <2>1, <2>2
<1>5. table' \in [Addrs -> Row \cup {NoRow}]
  <2>1. table' = [a \in Addrs |-> table'[a]]
    BY <1>1
  <2> QED  BY <1>4, <2>1
<1>6. /\ Others(s) /\ pc'[s] = step /\ req'[s] = req[s] /\ addr'[s] = addr[s]
      /\ overlapped' = overlapped /\ TypeOK'
  BY <1>1, <1>3, <1>5, GotoFacts DEF IInv, TypeOK
<1>7. /\ (Creating(s)' <=> Creating(s)) /\ (NewLabel(s)' <=> NewLabel(s))
      /\ (BecomesDefault(s)' <=> BecomesDefault(s)) /\ Body(s)' = Body(s)
  BY <1>6 DEF Creating, NewLabel, BecomesDefault, Body
<1>8. \A label : Taken(label)' => Taken(label)
  BY <1>4 DEF Taken
<1>9. Holds(s)'
  BY <1>2, <1>3, <1>6, <1>7 DEF Holds
<1>10. ASSUME Alone PROVE Knows(s)'
  <2>1. /\ ~Creating(s) => table[req[s].id] = addr[s] /\ addr[s] # NoRow
        /\ NewLabel(s) => ~Taken(Body(s).label)
    BY <1>1, <1>2, <1>10 DEF Alone, Knows, NamesAssumption
  <2>2. NewLabel(s)' => ~Taken(Body(s).label)'
    BY <1>7, <1>8, <2>1
  <2>3. \A a \in Addrs : table'[a] # NoRow => ~table'[a].isDefault
    BY <1>4
  <2>4. pc'[s] = "compare" => table'[req[s].id] # NoRow /\ table'[req[s].id].label = addr[s].label
    BY <1>2, <1>3, <1>4, <1>6, <2>1
  <2> QED  BY <1>2, <1>3, <1>6, <1>7, <2>2, <2>3, <2>4 DEF Knows
<1>11. Unique => Unique'
  BY <1>4 DEF Unique
<1> QED  BY <1>1, <1>6, <1>9, <1>10, <1>11, Moves

LEMMA InsertHolds ==
  ASSUME NamesAssumption, IInv, NEW s \in Sessions, Insert(s)
  PROVE  IInv'
<1> DEFINE new == [label |-> Body(s).label, isDefault |-> Body(s).isDefault = "true"]
<1>1. pc[s] = "insert" /\ End(s)
  BY DEF Insert
<1>2. PICK a \in Addrs : table[a] = NoRow /\ table' = [table EXCEPT ![a] = new]
  BY DEF Insert
<1>3. req[s] \in Request /\ Sensible(req[s]) /\ Creating(s)
  BY <1>1 DEF IInv, Holds
<1>4. Body(s).label \in Labels /\ Body(s).label # NoLabel
  BY <1>3, BodyFacts DEF Sensible, Creating, Body, NamesAssumption
<1>5. /\ new \in Row /\ new.label = Body(s).label
      /\ new.isDefault <=> Body(s).isDefault = "true"
  BY <1>4 DEF Row
<1> HIDE DEF new
<1>6. /\ table' \in [Addrs -> Row \cup {NoRow}]
      /\ table'[a] = new /\ \A b \in Addrs \ {a} : table'[b] = table[b]
  BY <1>2, <1>5 DEF IInv, TypeOK
<1>7. ASSUME Alone, Unique PROVE Unique'
  <2>1. NewLabel(s) /\ (BecomesDefault(s) <=> new.isDefault)
    BY <1>3, <1>4, <1>5 DEF NewLabel, BecomesDefault
  <2>2. \A b \in Addrs : table[b] # NoRow =>
          table[b].label # new.label /\ ~(new.isDefault /\ table[b].isDefault)
    BY <1>1, <1>5, <1>7, <2>1 DEF Alone, Knows, Taken
  <2> QED  BY <1>6, <1>7, <2>2 DEF Unique
<1> QED  BY <1>1, <1>6, <1>7, Ends

\* What an update makes of the address it read.
LEMMA AssignedFacts ==
  ASSUME NEW s \in Sessions, req[s] \in Request, addr[s] \in Row
  PROVE  /\ Assigned(s) \in Row
         /\ Assigned(s).label = IF Body(s).label = NoLabel THEN addr[s].label
                                                          ELSE Body(s).label
         /\ Assigned(s).isDefault <=>
              \/ Body(s).isDefault = "absent" /\ addr[s].isDefault
              \/ Body(s).isDefault = "true"
<1>1. /\ Body(s).label \in Labels \cup {NoLabel}
      /\ Body(s).isDefault \in {"true", "false", "absent"}
  BY BodyFacts
<1>2. addr[s].label \in Labels /\ addr[s].isDefault \in BOOLEAN
  BY RowFacts
<1>3. CASE Body(s).isDefault = "absent"
  BY <1>1, <1>2, <1>3 DEF Assigned, Row
<1>4. CASE Body(s).isDefault # "absent"
  BY <1>1, <1>2, <1>4 DEF Assigned, Row
<1> QED  BY <1>3, <1>4

LEMMA CompareHolds ==
  ASSUME NamesAssumption, IInv, NEW s \in Sessions, Compare(s)
  PROVE  IInv'
<1> DEFINE id == req[s].id
           next == Assigned(s)
           write == IF table[id] = NoRow THEN Columns
                    ELSE {c \in Columns : table[id][c] # next[c]}
           written == [row |-> next, write |-> write]
<1>1. /\ pc[s] = "compare" /\ UNCHANGED table /\ Goto(s, "save")
      /\ addr' = [addr EXCEPT ![s] = written]
  BY DEF Compare
<1>2. req[s] \in Request /\ addr[s] \in Row /\ id \in Addrs
  BY <1>1, BodyFacts DEF IInv, Holds
<1>3. next \in Row
  BY <1>2, AssignedFacts
<1>4. written \in Written /\ written.row = next /\ written.write = write
  BY <1>3 DEF Written
<1> HIDE DEF written
<1>5. /\ addr' \in [Sessions -> Row \cup Written \cup {NoRow}]
      /\ addr'[s] = written /\ \A t \in Sessions \ {s} : addr'[t] = addr[t]
  BY <1>1, <1>4 DEF IInv, TypeOK
<1>6. /\ Others(s) /\ pc'[s] = "save" /\ req'[s] = req[s]
      /\ overlapped' = overlapped /\ TypeOK'
  BY <1>1, <1>5, GotoFacts DEF IInv, TypeOK, Stages
<1>7. Holds(s)'
  BY <1>1, <1>4, <1>5, <1>6 DEF IInv, Holds, Sensible
<1>8. ASSUME Alone, Unique PROVE Knows(s)'
  <2>1. /\ table[id] # NoRow /\ table[id].label = addr[s].label
        /\ ~BecomesDefault(s) => table[id] = addr[s]
        /\ BecomesDefault(s) => \A a \in Addrs : table[a] # NoRow => ~table[a].isDefault
        /\ NewLabel(s) => ~Taken(Body(s).label)
    BY <1>1, <1>8 DEF Alone, Knows
  <2>2. ASSUME NEW b \in Addrs, b # id, table[b] # NoRow
        PROVE  /\ next.isDefault => ~table[b].isDefault
               /\ table[b].label # next.label
    <3>1. table[b].label # table[id].label /\ ~(table[b].isDefault /\ table[id].isDefault)
      BY <1>2, <1>8, <2>1, <2>2 DEF Unique
    <3>2. table[b].label # next.label
      <4>1. CASE NewLabel(s)
        BY <1>2, <2>1, <2>2, <4>1, AssignedFacts DEF NewLabel, Taken
      <4>2. CASE ~NewLabel(s)
        <5>1. next.label = addr[s].label
          BY <1>2, <4>2, AssignedFacts DEF NewLabel
        <5> QED  BY <2>1, <3>1, <5>1
      <4> QED  BY <4>1, <4>2
    <3>3. next.isDefault => ~table[b].isDefault
      <4>1. CASE BecomesDefault(s)
        BY <2>1, <2>2, <4>1
      <4>2. CASE ~BecomesDefault(s)
        <5>1. next.isDefault => addr[s].isDefault
          BY <1>2, <4>2, AssignedFacts DEF BecomesDefault
        <5> QED  BY <2>1, <3>1, <4>2, <5>1
      <4> QED  BY <4>1, <4>2
    <3> QED  BY <3>2, <3>3
  <2>3. Free(req[s].id, addr[s].row)'
    BY <1>1, <1>4, <1>5, <1>6, <2>2 DEF Free
  <2>4. addr'[s].write = {c \in Columns : table[id][c] # next[c]}
    BY <1>4, <1>5, <2>1
  <2> QED  BY <1>1, <1>4, <1>5, <1>6, <2>1, <2>3, <2>4 DEF Knows
<1>9. Unique => Unique'
  BY <1>1 DEF Unique
<1> QED  BY <1>1, <1>6, <1>7, <1>8, <1>9, Moves

LEMMA SaveHolds ==
  ASSUME NamesAssumption, IInv, NEW s \in Sessions, Save(s)
  PROVE  IInv'
<1> DEFINE id == req[s].id
           old == table[id]
           a == addr[s]
           saved == [c \in Columns |-> IF c \in a.write THEN a.row[c] ELSE old[c]]
<1>1. /\ pc[s] = "save" /\ End(s)
      /\ table' = IF old = NoRow /\ a.write # Columns THEN table
                  ELSE [table EXCEPT ![id] = saved]
  BY DEF Save
<1>2. a \in Written /\ id \in Addrs
  BY <1>1, BodyFacts DEF IInv, Holds
<1>3. a.row \in Row /\ a.write \subseteq Columns
  BY <1>2 DEF Written
<1>4. ASSUME old # NoRow \/ a.write = Columns PROVE saved \in Row
  <2>1. CASE a.write = Columns
    BY <1>3, <2>1 DEF Row, Columns
  <2>2. CASE old # NoRow
    <3>1. old \in Row
      BY <1>2, <2>2 DEF IInv, TypeOK
    <3> QED  BY <1>3, <3>1 DEF Row, Columns
  <2> QED  BY <1>4, <2>1, <2>2
<1>5. table' \in [Addrs -> Row \cup {NoRow}]
  <2> HIDE DEF saved
  <2> QED  BY <1>1, <1>4 DEF IInv, TypeOK
<1>6. ASSUME Alone, Unique PROVE Unique'
  <2>1. /\ Free(id, a.row) /\ old # NoRow
        /\ a.write = {c \in Columns : old[c] # a.row[c]}
    BY <1>1, <1>6 DEF Alone, Knows
  <2>2. saved.label = a.row.label /\ saved.isDefault = a.row.isDefault
    BY <1>3, <2>1 DEF Columns
  <2> HIDE DEF saved
  <2>3. table'[id] = saved /\ \A b \in Addrs \ {id} : table'[b] = table[b]
    BY <1>1, <1>2, <2>1 DEF IInv, TypeOK
  <2>4. \A b \in Addrs \ {id} : table[b] # NoRow =>
          ~(saved.isDefault /\ table[b].isDefault) /\ table[b].label # saved.label
    BY <2>1, <2>2 DEF Free
  <2> QED  BY <1>6, <2>3, <2>4 DEF Unique
<1> QED  BY <1>1, <1>5, <1>6, Ends

\* Every statement of a request keeps the invariant.
LEMMA NextHolds ==
  ASSUME NamesAssumption, IInv, [Next]_vars
  PROVE  IInv'
<1>1. ASSUME NEW s \in Sessions, NEW r \in Request, Begin(s, r) PROVE IInv'
  BY <1>1, BeginHolds
<1>2. ASSUME NEW s \in Sessions,
             \/ Load(s) \/ Remove(s) \/ CheckLabel(s) \/ UnsetDefaults(s) \/ Insert(s)
             \/ Compare(s) \/ Save(s)
      PROVE  IInv'
  BY <1>2, LoadHolds, RemoveHolds, CheckLabelHolds, UnsetHolds, InsertHolds, CompareHolds,
     SaveHolds
<1>3. ASSUME NEW s \in Sessions, Abort(s) PROVE IInv'
  BY <1>3, JustEnds DEF Abort
<1>4. CASE UNCHANGED vars
  <2>1. UNCHANGED <<table, pc, req, addr, overlapped>>
    BY <1>4 DEF vars
  <2>2. TypeOK' /\ (Unique => Unique')
    BY <2>1 DEF IInv, TypeOK, Unique
  <2>3. \A s \in Sessions : Holds(s)'
    BY <2>1 DEF IInv, Holds, Creating, BecomesDefault, Body, Sensible
  <2>4. Alone => Alone'
    BY <2>1 DEF Alone, Knows, Free, NewLabel, Taken, Creating, BecomesDefault, Body
  <2> QED  BY <2>1, <2>2, <2>3, <2>4, Meaning DEF IInv
<1> QED  BY <1>1, <1>2, <1>3, <1>4 DEF Next

\* The address book keeps its invariant: requests of a customer that do not overlap
\* leave one default address and no label twice (create, update and remove, each
\* with its look for what is taken before the write).
THEOREM AddressesInvariance == NamesAssumption => (Spec => []IInv)
<1> SUFFICES ASSUME NamesAssumption PROVE Spec => []IInv
  OBVIOUS
<1>1. Init => IInv
  BY InitHolds
<1>2. IInv /\ [Next]_vars => IInv'
  BY NextHolds
<1> QED  BY <1>1, <1>2, PTL DEF Spec
=================================================================================
