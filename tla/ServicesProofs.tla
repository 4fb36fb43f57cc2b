---------------------------- MODULE ServicesProofs ----------------------------
(***************************************************************************)
(* Why the services of MCServices.tla that share nothing keep what their   *)
(* run checks, for any numbers of callers, customers, vendors and jobs.    *)
(*                                                                         *)
(* All but Contract.tla, a comparison of tables, which TLC makes.          *)
(*                                                                         *)
(* Each service has an inductive invariant, the IInv of its module.  Those *)
(* of most services are shown to be kept here, over the variables x1, x2,  *)
(* ... that the service is given; the four of MembershipProofs.tla,        *)
(* AddressesProofs.tla, StorefrontProofs.tla and PagesProofs.tla are taken *)
(* from there.  A last section puts them together.                         *)
(***************************************************************************)
EXTENDS MCServices, FiniteSetTheorems, WellFoundedInduction, TLAPS

---------------------------------------
\* InsertOnce.tla: x1 is the table, x2 whether money is read as numbers, x3
\* the row, x4 and x5 where each caller stands and the row it would write, x6
\* the amounts they were told.

\* Nobody has called.
LEMMA RowsInit ==
  ASSUME Rows!NoRowAssumption, Rows!Init
  PROVE  Rows!IInv
BY DEF Rows!NoRowAssumption, Rows!Init, Rows!IInv, Rows!TypeOK, Rows!WritesThisTable, Rows!Inserted,
       Rows!InsertsFirst, Rows!SeesTheRow, Rows!OneAnswer

\* A candidate row records an amount, for one of the services of its table.
LEMMA RowsAccount ==
  ASSUME Rows!TypeOK, NEW s \in Sessions,
         NEW c \in Rows!Candidate, c.service \in Rows!Services(x1)
  PROVE  /\ c.amount \in Amounts
         /\ c.service \in {"allocation", "durable", "transfer", "snapshot"}
BY DEF Rows!Candidate

\* A caller that is through leaves the row, and its own facts behind.
LEMMA RowsEnd ==
  ASSUME Rows!IInv, NEW s \in Sessions, Rows!End(s), UNCHANGED x3
  PROVE  /\ UNCHANGED <<x1, x2>>
         /\ x4' \in [Sessions -> {"idle", "find", "insert", "reread", "own", "commit", "answer"}]
         /\ x5' \in [Sessions -> Rows!Candidate \cup {NoRow}]
         /\ \A t \in Sessions : Rows!WritesThisTable(t)' /\ Rows!InsertsFirst(t)' /\ Rows!SeesTheRow(t)'
BY DEF Rows!IInv, Rows!TypeOK, Rows!End, Rows!WritesThisTable, Rows!InsertsFirst,
       Rows!Inserted, Rows!SeesTheRow

\* Refusing a caller tells nobody an amount.
LEMMA RowsRefuse ==
  ASSUME Rows!IInv, NEW s \in Sessions, Rows!Refuse(s), UNCHANGED x3
  PROVE  Rows!IInv'
<1>1. Rows!End(s) /\ UNCHANGED x6
  BY DEF Rows!Refuse
<1> QED BY <1>1, RowsEnd DEF Rows!IInv, Rows!TypeOK, Rows!OneAnswer

\* Telling a caller the amount of the row keeps to one answer.
LEMMA RowsAccept ==
  ASSUME Rows!IInv, NEW s \in Sessions, x3 \in Rows!Candidate, x3 # NoRow,
         Rows!Accept(s, x3.amount), UNCHANGED x3
  PROVE  Rows!IInv'
<1>1. Rows!End(s) /\ x6' = x6 \cup {x3.amount}
  BY DEF Rows!Accept
<1>2. x3.amount \in Amounts
  BY DEF Rows!Candidate
<1> QED BY <1>1, <1>2, RowsEnd DEF Rows!IInv, Rows!TypeOK, Rows!OneAnswer

\* A caller that finds the row is told its amount, or refused.
LEMMA RowsJudge ==
  ASSUME Rows!IInv, NEW s \in Sessions, x4[s] # "idle", x3 # NoRow,
         Rows!Judge(s, x3), UNCHANGED x3
  PROVE  Rows!IInv'
<1>1. x3 \in Rows!Candidate
  BY DEF Rows!IInv, Rows!TypeOK
<1>2. CASE Rows!Matches(x3, x5[s])
  <2>1. Rows!Told(x3, x5[s]) = x3.amount
    BY <1>2 DEF Rows!Matches, Rows!Told
  <2> QED BY <1>1, <1>2, <2>1, RowsAccept DEF Rows!Judge
<1>3. CASE ~Rows!Matches(x3, x5[s])
  BY <1>3, RowsRefuse DEF Rows!Judge
<1> QED BY <1>2, <1>3

\* Every statement of a caller keeps it.
LEMMA RowsNext ==
  ASSUME Rows!NoRowAssumption, Rows!IInv, [Rows!Next]_(Rows!vars)
  PROVE  Rows!IInv'
<1> USE DEF Rows!IInv, Rows!TypeOK, Rows!WritesThisTable, Rows!InsertsFirst, Rows!Inserted,
            Rows!SeesTheRow, Rows!OneAnswer, Rows!NoRowAssumption
<1>1. ASSUME NEW s \in Sessions, NEW c \in Rows!Candidate, Rows!Call(s, c)
      PROVE  Rows!IInv'
  BY <1>1 DEF Rows!Call
<1>2. ASSUME NEW s \in Sessions, Rows!Find(s)
      PROVE  Rows!IInv'
  <2>1. CASE x3 = NoRow
    BY <1>2, <2>1 DEF Rows!Find, Rows!Goto
  <2>2. CASE x3 # NoRow
    BY <1>2, <2>2, RowsJudge DEF Rows!Find
  <2> QED BY <2>1, <2>2
<1>3. ASSUME NEW s \in Sessions, Rows!Insert(s)
      PROVE  Rows!IInv'
  <2>1. CASE x3 = NoRow /\ x5[s].service = "allocation"
    BY <1>3, <2>1 DEF Rows!Insert, Rows!Goto
  <2>2. CASE x3 = NoRow /\ x5[s].service # "allocation"
    BY <1>3, <2>2 DEF Rows!Insert, Rows!Goto
  <2>3. CASE x3 # NoRow
    <3>1. CASE x5[s].service \in {"allocation", "snapshot"}
      BY <1>3, <2>3, <3>1 DEF Rows!Insert, Rows!Goto
    <3>2. CASE x5[s].service \notin {"allocation", "snapshot"}
      BY <1>3, <2>3, <3>2, RowsRefuse DEF Rows!Insert
    <3> QED BY <3>1, <3>2
  <2> QED BY <2>1, <2>2, <2>3
<1>4. ASSUME NEW s \in Sessions, Rows!Reread(s)
      PROVE  Rows!IInv'
  BY <1>4, RowsJudge DEF Rows!Reread
<1>5. ASSUME NEW s \in Sessions, Rows!ReadOwn(s)
      PROVE  Rows!IInv'
  <2>1. CASE Rows!Matches(x5[s], x5[s])
    BY <1>5, <2>1 DEF Rows!ReadOwn, Rows!Goto
  <2>2. CASE ~Rows!Matches(x5[s], x5[s])
    BY <1>5, <2>2, RowsRefuse DEF Rows!ReadOwn
  <2> QED BY <2>1, <2>2
<1>6. ASSUME NEW s \in Sessions, Rows!Commit(s)
      PROVE  Rows!IInv'
  BY <1>6 DEF Rows!Commit, Rows!Goto
<1>7. ASSUME NEW s \in Sessions, Rows!Answer(s)
      PROVE  Rows!IInv'
  BY <1>7, RowsAccept DEF Rows!Answer
<1>8. ASSUME NEW s \in Sessions, Rows!Abort(s)
      PROVE  Rows!IInv'
  BY <1>8, RowsRefuse DEF Rows!Abort
<1>9. CASE UNCHANGED Rows!vars
  BY <1>9 DEF Rows!vars
<1> QED BY <1>1, <1>2, <1>3, <1>4, <1>5, <1>6, <1>7, <1>8, <1>9 DEF Rows!Next

---------------------------------------
\* Payouts.tla: x1 is the row, x2 and x3 where each request stands and the
\* entity it holds, x4 whether a transfer was instructed, x5 the ids used, x6
\* the accounts activated, x7 the ids unlinked, x8 whether requests raced.

\* No account is linked.
LEMMA PayoutsInit ==
  ASSUME Payees!NoRowAssumption, Payees!Init
  PROVE  Payees!IInv
BY DEF Payees!NoRowAssumption, Payees!Init, Payees!IInv, Payees!TypeOK, Payees!Copies,
       Payees!CopiesAgree, Payees!HoldsARow

\* What the table or a request holds is a row.
LEMMA PayoutsCopies ==
  ASSUME Payees!TypeOK, NEW x \in Payees!Copies, x # NoRow
  PROVE  x \in Payees!Row
BY DEF Payees!TypeOK, Payees!Copies

\* A request that goes on holds the entity it was given.
LEMMA PayoutsGoto ==
  ASSUME Payees!IInv, NEW s \in Sessions, NEW entity \in Payees!Row \cup {NoRow},
         NEW step \in {"idle", "save", "update", "insert", "create"},
         Payees!Goto(s, step, entity),
         step # "idle" => entity # NoRow,
         step = "create" => x6 # {},
         x6 \subseteq x6'
  PROVE  /\ x2' \in [Sessions -> {"idle", "save", "update", "insert", "create"}]
         /\ x3' \in [Sessions -> Payees!Row \cup {NoRow}]
         /\ \A t \in Sessions : Payees!HoldsARow(t)'
         /\ Payees!Copies' \subseteq {x1'} \cup Payees!Copies \cup {entity}
BY DEF Payees!IInv, Payees!TypeOK, Payees!Goto, Payees!HoldsARow, Payees!Copies

\* Fewer copies agree all the more.
LEMMA PayoutsFewer ==
  ASSUME Payees!IInv, Payees!Copies' \subseteq Payees!Copies \cup {NoRow},
         x5 \subseteq x5', x6 \subseteq x6', UNCHANGED <<x7, x8>>
  PROVE  Payees!CopiesAgree'
BY DEF Payees!IInv, Payees!CopiesAgree

\* A copy with the id and the account of one there is.
LEMMA PayoutsAnother ==
  ASSUME Payees!IInv, NEW x \in Payees!Copies \ {NoRow}, NEW y \in Payees!Row,
         y.id = x.id, y.account = x.account,
         y.state = "ACTIVE" => <<y.id, y.account>> \in x6',
         Payees!Copies' \subseteq Payees!Copies \cup {NoRow, y},
         x5 \subseteq x5', x6 \subseteq x6', UNCHANGED <<x7, x8>>
  PROVE  Payees!CopiesAgree'
BY DEF Payees!IInv, Payees!CopiesAgree

\* Every statement of a request keeps it.
LEMMA PayoutsNext ==
  ASSUME Payees!NoRowAssumption, Payees!IInv, [Payees!Next]_(Payees!vars)
  PROVE  Payees!IInv'
<1> USE DEF Payees!NoRowAssumption, Payees!history
<1>a. Payees!TypeOK /\ Payees!CopiesAgree /\ (\A s \in Sessions : Payees!HoldsARow(s))
      /\ (x4 => x6 # {})
  BY DEF Payees!IInv
<1>b. x1 \in Payees!Copies /\ \A s \in Sessions : x3[s] \in Payees!Copies
  BY DEF Payees!Copies
<1>1. ASSUME NEW s \in Sessions, NEW id \in Ids, NEW account \in Accounts,
             Payees!Link(s, id, account)
      PROVE  Payees!IInv'
  <2> DEFINE new == [id |-> id, account |-> account, state |-> "PENDING"]
  <2>1. /\ x1' = new /\ new \in Payees!Row
        /\ x5' = x5 \cup {id} /\ UNCHANGED <<x2, x3, x4, x6, x7, x8>>
        /\ id \notin x5
    BY <1>1 DEF Payees!Link, Payees!Row
  <2>2. Payees!TypeOK'
    BY <1>a, <2>1 DEF Payees!TypeOK
  <2>3. Payees!Copies' \subseteq Payees!Copies \cup {new}
    BY <2>1 DEF Payees!Copies
  <2>4. id \notin x7
    BY <1>a, <2>1 DEF Payees!TypeOK
  <2>5. new.id = id /\ new.state # "ACTIVE"
    OBVIOUS
  <2>6. Payees!CopiesAgree'
    <3> HIDE DEF new
    <3>1. ASSUME NEW x \in Payees!Copies' \ {NoRow}
          PROVE  /\ x.id \in x5'
                 /\ x.state = "ACTIVE" => <<x.id, x.account>> \in x6'
                 /\ x.id \in x7' => x8'
      <4>1. CASE x = new
        BY <2>1, <2>4, <2>5, <4>1
      <4>2. CASE x # new
        BY <1>a, <2>1, <2>3, <4>2 DEF Payees!CopiesAgree
      <4> QED BY <4>1, <4>2
    <3>2. ASSUME NEW x \in Payees!Copies' \ {NoRow}, NEW y \in Payees!Copies' \ {NoRow},
                 x.id = y.id
          PROVE  x.account = y.account
      <4>1. \A z \in Payees!Copies \ {NoRow} : z.id # new.id
        BY <1>a, <2>1, <2>5 DEF Payees!CopiesAgree
      <4> QED BY <1>a, <2>3, <3>2, <4>1 DEF Payees!CopiesAgree
    <3> QED BY <3>1, <3>2 DEF Payees!CopiesAgree
  <2> QED BY <1>a, <2>1, <2>2, <2>6 DEF Payees!IInv, Payees!HoldsARow
<1>2. ASSUME NEW s \in Sessions, NEW id \in Ids, NEW state \in {"ACTIVE", "SUSPENDED"},
             Payees!FindFor(s, id, state)
      PROVE  Payees!IInv'
  <2> DEFINE entity == [x1 EXCEPT !.state = state]
  <2>1. /\ x1 \in Payees!Row /\ x1 # NoRow /\ x1.id = id
        /\ Payees!Goto(s, "save", entity)
        /\ x6' = IF state = "ACTIVE" THEN x6 \cup {<<id, x1.account>>} ELSE x6
        /\ UNCHANGED <<x1, x4, x5, x7, x8>>
    BY <1>a, <1>2 DEF Payees!FindFor, Payees!TypeOK
  <2>2. /\ entity \in Payees!Row /\ entity # NoRow
        /\ entity.id = x1.id /\ entity.account = x1.account /\ entity.state = state
    BY <2>1 DEF Payees!Row
  <2>3. x6 \subseteq x6' /\ x6' \subseteq Ids \X Accounts
    BY <1>a, <2>1 DEF Payees!TypeOK, Payees!Row
  <2>4. /\ x2' \in [Sessions -> {"idle", "save", "update", "insert", "create"}]
        /\ x3' \in [Sessions -> Payees!Row \cup {NoRow}]
        /\ \A t \in Sessions : Payees!HoldsARow(t)'
        /\ Payees!Copies' \subseteq {x1'} \cup Payees!Copies \cup {entity}
    BY <2>1, <2>2, <2>3, PayoutsGoto
  <2>5. entity.state = "ACTIVE" => <<entity.id, entity.account>> \in x6'
    BY <2>1, <2>2
  <2>6. Payees!CopiesAgree'
    <3> HIDE DEF entity
    <3> QED BY <1>b, <2>1, <2>2, <2>3, <2>4, <2>5, PayoutsAnother
  <2>7. Payees!TypeOK'
    BY <1>a, <2>1, <2>3, <2>4 DEF Payees!TypeOK
  <2> QED BY <1>a, <2>1, <2>3, <2>4, <2>6, <2>7 DEF Payees!IInv
<1>3. ASSUME NEW s \in Sessions, Payees!Look(s)
      PROVE  Payees!IInv'
  <2> DEFINE step == IF Payees!Present(s) THEN "update" ELSE "insert"
  <2>1. Payees!Goto(s, step, x3[s]) /\ UNCHANGED <<x1, x4, x5, x6, x7, x8>>
    BY <1>3 DEF Payees!Look
  <2>2. x3[s] \in Payees!Row /\ x3[s] # NoRow
    BY <1>3, <1>a DEF Payees!Look, Payees!HoldsARow, Payees!TypeOK
  <2>3. /\ x2' \in [Sessions -> {"idle", "save", "update", "insert", "create"}]
        /\ x3' \in [Sessions -> Payees!Row \cup {NoRow}]
        /\ \A t \in Sessions : Payees!HoldsARow(t)'
        /\ Payees!Copies' \subseteq {x1'} \cup Payees!Copies \cup {x3[s]}
    BY <2>1, <2>2, PayoutsGoto
  <2>4. Payees!CopiesAgree'
    BY <1>b, <2>1, <2>3, PayoutsFewer
  <2> QED BY <1>a, <2>1, <2>3, <2>4 DEF Payees!IInv, Payees!TypeOK
<1>4. ASSUME NEW s \in Sessions, Payees!End(s), UNCHANGED <<x5, x6, x7, x8>>
      PROVE  /\ x2' \in [Sessions -> {"idle", "save", "update", "insert", "create"}]
             /\ x3' \in [Sessions -> Payees!Row \cup {NoRow}]
             /\ \A t \in Sessions : Payees!HoldsARow(t)'
             /\ Payees!Copies' \subseteq {x1'} \cup Payees!Copies \cup {NoRow}
  BY <1>4, PayoutsGoto DEF Payees!End
<1>5. ASSUME NEW s \in Sessions, Payees!SaveUpdate(s)
      PROVE  Payees!IInv'
  <2>1. Payees!End(s) /\ UNCHANGED <<x4, x5, x6, x7, x8>>
    BY <1>5 DEF Payees!SaveUpdate
  <2>2. CASE Payees!Present(s)
    <3> DEFINE saved == [x1 EXCEPT !.state = x3[s].state]
    <3>1. /\ x1' = saved
          /\ x1 \in Payees!Row /\ x1 # NoRow
          /\ x3[s] \in Payees!Row /\ x3[s] # NoRow /\ x3[s].id = x1.id
      BY <1>5, <1>a, <2>2 DEF Payees!SaveUpdate, Payees!Present, Payees!HoldsARow,
         Payees!TypeOK
    <3>2. /\ saved \in Payees!Row
          /\ saved.id = x1.id /\ saved.account = x1.account /\ saved.state = x3[s].state
      BY <3>1 DEF Payees!Row
    <3>3. x1.account = x3[s].account
      BY <1>a, <1>b, <3>1 DEF Payees!CopiesAgree
    <3>4. saved.state = "ACTIVE" => <<saved.id, saved.account>> \in x6'
      BY <1>a, <1>b, <2>1, <3>1, <3>2, <3>3 DEF Payees!CopiesAgree
    <3>5. Payees!CopiesAgree'
      BY <1>b, <1>4, <2>1, <3>1, <3>2, <3>4, PayoutsAnother
    <3> QED BY <1>a, <1>4, <2>1, <3>1, <3>2, <3>5 DEF Payees!IInv, Payees!TypeOK
  <2>3. CASE ~Payees!Present(s)
    <3>1. UNCHANGED x1
      BY <1>5, <2>3 DEF Payees!SaveUpdate
    <3>2. Payees!CopiesAgree'
      BY <1>b, <1>4, <2>1, <3>1, PayoutsFewer
    <3> QED BY <1>a, <1>4, <2>1, <3>1, <3>2 DEF Payees!IInv, Payees!TypeOK
  <2> QED BY <2>2, <2>3
<1>6. ASSUME NEW s \in Sessions, Payees!SaveInsert(s)
      PROVE  Payees!IInv'
  <2>1. Payees!End(s) /\ UNCHANGED <<x4, x5, x6, x7, x8>> /\ x1' \in {x1, x3[s]}
    BY <1>6 DEF Payees!SaveInsert
  <2>2. Payees!CopiesAgree'
    BY <1>b, <1>4, <2>1, PayoutsFewer
  <2> QED BY <1>a, <1>4, <2>1, <2>2 DEF Payees!IInv, Payees!TypeOK
<1>7. ASSUME NEW s \in Sessions, Payees!Unlink(s)
      PROVE  Payees!IInv'
  <2>1. /\ x1 \in Payees!Row /\ x1 # NoRow /\ x1' = NoRow
        /\ x7' = x7 \cup {x1.id}
        /\ x8' = (x8 \/ \E t \in Sessions : x3[t] # NoRow)
        /\ UNCHANGED <<x2, x3, x4, x5, x6>>
    BY <1>7, <1>a DEF Payees!Unlink, Payees!TypeOK
  <2>2. x1.id \in x5
    BY <1>a, <1>b, <2>1 DEF Payees!CopiesAgree
  <2>3. Payees!TypeOK'
    BY <1>a, <2>1, <2>2 DEF Payees!TypeOK
  <2>4. \A x \in Payees!Copies' \ {NoRow} : x \in Payees!Copies \ {NoRow} /\ x8'
    BY <2>1 DEF Payees!Copies
  <2>5. Payees!CopiesAgree'
    BY <1>a, <2>1, <2>4 DEF Payees!CopiesAgree
  <2> QED BY <1>a, <2>1, <2>3, <2>5 DEF Payees!IInv, Payees!HoldsARow
<1>8. ASSUME NEW s \in Sessions, Payees!CheckEligible(s)
      PROVE  Payees!IInv'
  <2>1. /\ x1 \in Payees!Row /\ x1 # NoRow /\ x1.state = "ACTIVE"
        /\ Payees!Goto(s, "create", x1)
        /\ UNCHANGED <<x1, x4, x5, x6, x7, x8>>
    BY <1>8, <1>a DEF Payees!CheckEligible, Payees!TypeOK
  <2>2. x6 # {}
    BY <1>a, <1>b, <2>1 DEF Payees!CopiesAgree
  <2>3. /\ x2' \in [Sessions -> {"idle", "save", "update", "insert", "create"}]
        /\ x3' \in [Sessions -> Payees!Row \cup {NoRow}]
        /\ \A t \in Sessions : Payees!HoldsARow(t)'
        /\ Payees!Copies' \subseteq {x1'} \cup Payees!Copies \cup {x1}
    BY <2>1, <2>2, PayoutsGoto
  <2>4. Payees!CopiesAgree'
    BY <1>b, <2>1, <2>3, PayoutsFewer
  <2> QED BY <1>a, <2>1, <2>3, <2>4 DEF Payees!IInv, Payees!TypeOK
<1>9. ASSUME NEW s \in Sessions, Payees!CreateInstruction(s) \/ Payees!Abort(s)
      PROVE  Payees!IInv'
  <2>1. Payees!End(s) /\ UNCHANGED <<x1, x5, x6, x7, x8>>
    BY <1>9 DEF Payees!CreateInstruction, Payees!Abort
  <2>2. x4' \in BOOLEAN /\ (x4' => x6' # {})
    <3>1. CASE Payees!CreateInstruction(s)
      BY <1>a, <3>1 DEF Payees!CreateInstruction, Payees!HoldsARow
    <3>2. CASE Payees!Abort(s)
      BY <1>a, <3>2 DEF Payees!Abort, Payees!TypeOK
    <3> QED BY <1>9, <3>1, <3>2
  <2>3. Payees!CopiesAgree'
    BY <1>b, <1>4, <2>1, PayoutsFewer
  <2> QED BY <1>a, <1>4, <2>1, <2>2, <2>3 DEF Payees!IInv, Payees!TypeOK
<1>10. CASE UNCHANGED Payees!vars
  BY <1>10, <1>a DEF Payees!vars, Payees!IInv, Payees!TypeOK, Payees!Copies,
     Payees!CopiesAgree, Payees!HoldsARow
<1> QED
  BY <1>1, <1>2, <1>3, <1>5, <1>6, <1>7, <1>8, <1>9, <1>10 DEF Payees!Next

\* So an account in use was activated.
LEMMA PayoutsSafe ==
  ASSUME Payees!IInv
  PROVE  Payees!PaidWhereApproved
BY DEF Payees!IInv, Payees!CopiesAgree, Payees!Copies, Payees!PaidWhereApproved

---------------------------------------
\* Queues.tla: x1 is the queues, x2 the workers, x3 the vendor of each job, x4
\* where it is, x5 the vendors whose worker a restart took.

\* Both instances of a standard definition are the same.
LEMMA SameCount ==
  ASSUME NEW S
  PROVE  /\ Workers!IsFiniteSet(S) <=> IsFiniteSet(S)
         /\ Workers!Cardinality(S) = Cardinality(S)
BY DEF Workers!IsFiniteSet, IsFiniteSet, Workers!Cardinality, Cardinality

\* What is said of a vendor's running jobs, and of starting one.
LEMMA ShareFacts ==
  ASSUME NEW v \in Vendors
  PROVE  Workers!WithinShare(v) <=>
           /\ IsFiniteSet(Workers!At(v, "active"))
           /\ Cardinality(Workers!At(v, "active")) =< MaxConcurrency
BY SameCount DEF Workers!WithinShare

\* The same after a step.
LEMMA ShareFactsNext ==
  ASSUME NEW v \in Vendors
  PROVE  Workers!WithinShare(v)' <=>
           /\ IsFiniteSet(Workers!At(v, "active")')
           /\ Cardinality(Workers!At(v, "active")') =< MaxConcurrency
BY SameCount DEF Workers!WithinShare

\* There is nothing to run.
LEMMA QueuesInit ==
  ASSUME Workers!ConcurrencyAssumption, Workers!Init
  PROVE  Workers!IInv
<1>1. \A v \in Vendors : Workers!At(v, "active") = {}
  BY DEF Workers!Init, Workers!At
<1>2. \A v \in Vendors : Workers!WithinShare(v)
  BY <1>1, FS_EmptySet, ShareFacts DEF Workers!ConcurrencyAssumption
<1> QED
  BY <1>2 DEF Workers!ConcurrencyAssumption, Workers!Init, Workers!IInv, Workers!TypeOK,
     Workers!Stages, Workers!QueuesHaveWorkers, Workers!Served

\* A requested concurrency is capped.
LEMMA CappedFacts ==
  ASSUME Workers!ConcurrencyAssumption, NEW n \in Nat \ {0}
  PROVE  Workers!Capped(n) \in 1..MaxConcurrency
BY DEF Workers!ConcurrencyAssumption, Workers!Capped

\* A vendor's share of running jobs is kept by a step that starts none of them.
LEMMA ShareKept ==
  ASSUME NEW v \in Vendors, Workers!WithinShare(v), Workers!ConcurrencyAssumption,
         Workers!At(v, "active")' \subseteq Workers!At(v, "active")
  PROVE  Workers!WithinShare(v)'
<1> DEFINE A == Workers!At(v, "active")
<1>1. IsFiniteSet(A) /\ Cardinality(A) =< MaxConcurrency /\ A' \subseteq A
  BY ShareFacts
<1>2. IsFiniteSet(A') /\ Cardinality(A') =< Cardinality(A)
  <2> HIDE DEF A
  <2> QED BY <1>1, FS_Subset
<1>3. Cardinality(A) \in Nat /\ Cardinality(A') \in Nat
  <2> HIDE DEF A
  <2> QED BY <1>1, <1>2, FS_CardinalityType
<1>4. Cardinality(A') =< MaxConcurrency
  BY <1>1, <1>2, <1>3 DEF Workers!ConcurrencyAssumption
<1> QED BY <1>2, <1>4, ShareFactsNext

\* Every call of the queue service, every job started or finished, and a restart
\* keep it.
LEMMA QueuesNext ==
  ASSUME Workers!ConcurrencyAssumption, Workers!IInv, [Workers!Next]_(Workers!vars)
  PROVE  Workers!IInv'
<1> USE DEF Workers!TypeOK, Workers!Stages, Workers!QueuesHaveWorkers, Workers!Served
<1>a. /\ Workers!TypeOK /\ Workers!QueuesHaveWorkers
      /\ \A j \in Jobs : Workers!Served(j)
      /\ \A v \in Vendors : Workers!WithinShare(v)
  BY DEF Workers!IInv
<1>b. MaxConcurrency \in Nat \ {0} /\ DefaultConcurrency \in Nat \ {0} /\ Requested \subseteq Int
  BY DEF Workers!ConcurrencyAssumption
<1>1. ASSUME NEW j \in Jobs, NEW v \in Vendors, Workers!Enqueue(j, v)
      PROVE  Workers!IInv'
  <2> DEFINE capped == Workers!Capped(DefaultConcurrency)
  <2>1. capped \in 1..MaxConcurrency
    BY <1>b, CappedFacts
  <2>2. /\ x4[j] = "new" /\ x1' = x1 \cup {v}
        /\ x2' = IF v \in x1 THEN x2 ELSE [x2 EXCEPT ![v] = capped]
        /\ x5' = IF v \in x1 THEN x5 ELSE x5 \ {v}
        /\ x3' = [x3 EXCEPT ![j] = v] /\ x4' = [x4 EXCEPT ![j] = "adding"]
    BY <1>1 DEF Workers!Enqueue, Workers!GetOrCreateVendorQueue
  <2> HIDE DEF capped
  <2>3. Workers!TypeOK' /\ Workers!QueuesHaveWorkers'
    BY <1>a, <1>b, <2>1, <2>2
  <2>4. ASSUME NEW i \in Jobs PROVE Workers!Served(i)'
    BY <1>a, <1>b, <2>1, <2>2
  <2>5. ASSUME NEW w \in Vendors PROVE Workers!WithinShare(w)'
    <3>1. Workers!At(w, "active")' \subseteq Workers!At(w, "active")
      BY <1>a, <2>2 DEF Workers!At
    <3> QED BY <1>a, <3>1, ShareKept
  <2> QED BY <2>3, <2>4, <2>5 DEF Workers!IInv
<1>2. ASSUME NEW j \in Jobs, Workers!Add(j) \/ Workers!Finish(j)
      PROVE  Workers!IInv'
  <2>1. \/ x4[j] = "adding" /\ x4' = [x4 EXCEPT ![j] = "waiting"]
        \/ x4[j] = "active" /\ x4' = [x4 EXCEPT ![j] = "done"]
    BY <1>2 DEF Workers!Add, Workers!Finish
  <2>2. UNCHANGED <<x1, x2, x3, x5>>
    BY <1>2 DEF Workers!Add, Workers!Finish
  <2>3. Workers!TypeOK' /\ Workers!QueuesHaveWorkers'
    BY <1>a, <2>1, <2>2
  <2>4. ASSUME NEW i \in Jobs PROVE Workers!Served(i)'
    BY <1>a, <2>1, <2>2
  <2>5. ASSUME NEW w \in Vendors PROVE Workers!WithinShare(w)'
    <3>1. Workers!At(w, "active")' \subseteq Workers!At(w, "active")
      BY <1>a, <2>1, <2>2 DEF Workers!At
    <3> QED BY <1>a, <3>1, ShareKept
  <2> QED BY <2>3, <2>4, <2>5 DEF Workers!IInv
<1>3. ASSUME NEW j \in Jobs, Workers!Start(j)
      PROVE  Workers!IInv'
  <2>1. /\ x4[j] = "waiting" /\ x4' = [x4 EXCEPT ![j] = "active"]
        /\ Cardinality(Workers!At(x3[j], "active")) < x2[x3[j]]
        /\ UNCHANGED <<x1, x2, x3, x5>>
    BY <1>3, SameCount DEF Workers!Start
  <2>2. x3[j] \in Vendors
    BY <1>a, <2>1
  <2>3. Workers!TypeOK' /\ Workers!QueuesHaveWorkers'
    BY <1>a, <2>1
  <2>4. ASSUME NEW i \in Jobs PROVE Workers!Served(i)'
    BY <1>a, <2>1
  <2>5. ASSUME NEW w \in Vendors PROVE Workers!WithinShare(w)'
    <3>1. CASE w = x3[j]
      <4> DEFINE A == Workers!At(w, "active")
      <4>1. A' = A \cup {j} /\ j \notin A
        BY <1>a, <2>1, <3>1 DEF Workers!At
      <4>2. IsFiniteSet(A) /\ Cardinality(A) < x2[w] /\ x2[w] \in 0..MaxConcurrency
        BY <1>a, <2>1, <2>2, <3>1, ShareFacts
      <4>3. IsFiniteSet(A') /\ Cardinality(A') = Cardinality(A) + 1 /\ Cardinality(A) \in Nat
        <5> HIDE DEF A
        <5> QED BY <4>1, <4>2, FS_AddElement, FS_CardinalityType
      <4>4. Cardinality(A') =< MaxConcurrency
        <5> HIDE DEF A
        <5> QED BY <1>b, <4>2, <4>3
      <4> QED BY <4>3, <4>4, ShareFactsNext
    <3>2. CASE w # x3[j]
      <4>1. Workers!At(w, "active")' \subseteq Workers!At(w, "active")
        BY <1>a, <2>1, <3>2 DEF Workers!At
      <4> QED BY <1>a, <4>1, ShareKept
    <3> QED BY <3>1, <3>2
  <2> QED BY <2>3, <2>4, <2>5 DEF Workers!IInv
<1>4. ASSUME NEW v \in Vendors, NEW n \in Requested, Workers!Configure(v, n)
      PROVE  Workers!IInv'
  <2> DEFINE effective == Workers!Capped(IF n < 1 THEN 1 ELSE n)
  <2>1. effective \in 1..MaxConcurrency
    <3>1. (IF n < 1 THEN 1 ELSE n) \in Nat \ {0}
      BY <1>b
    <3> QED BY <3>1, CappedFacts
  <2>2. /\ x1' = x1 \cup {v} /\ x2' = [x2 EXCEPT ![v] = effective]
        /\ x5' = x5 \ {v} /\ UNCHANGED <<x3, x4>>
    BY <1>4 DEF Workers!Configure
  <2> HIDE DEF effective
  <2>3. Workers!TypeOK' /\ Workers!QueuesHaveWorkers'
    BY <1>a, <1>b, <2>1, <2>2
  <2>4. ASSUME NEW i \in Jobs PROVE Workers!Served(i)'
    BY <1>a, <1>b, <2>1, <2>2
  <2>5. ASSUME NEW w \in Vendors PROVE Workers!WithinShare(w)'
    <3>1. Workers!At(w, "active")' \subseteq Workers!At(w, "active")
      BY <2>2 DEF Workers!At
    <3> QED BY <1>a, <3>1, ShareKept
  <2> QED BY <2>3, <2>4, <2>5 DEF Workers!IInv
<1>5. ASSUME Workers!Restart
      PROVE  Workers!IInv'
  <2>1. /\ x1' = {} /\ x2' = [v \in Vendors |-> 0]
        /\ x5' = x5 \cup {v \in Vendors : x2[v] > 0}
        /\ x3' = [j \in Jobs |-> IF x4[j] = "adding" THEN NoVendor ELSE x3[j]]
        /\ x4' = [j \in Jobs |-> CASE x4[j] = "adding" -> "new"
                                   [] x4[j] = "active" -> "waiting"
                                   [] OTHER -> x4[j]]
    BY <1>5 DEF Workers!Restart
  <2>2. ASSUME NEW j \in Jobs
        PROVE  /\ x4'[j] \in {"new", "waiting", "done"}
               /\ x4'[j] = "new" <=> x4[j] \in {"new", "adding"}
               /\ x4'[j] = "waiting" <=> x4[j] \in {"waiting", "active"}
               /\ x4[j] # "adding" => x3'[j] = x3[j]
    BY <1>a, <2>1
  <2>3. Workers!TypeOK' /\ Workers!QueuesHaveWorkers'
    BY <1>a, <1>b, <2>1, <2>2
  <2>4. ASSUME NEW i \in Jobs PROVE Workers!Served(i)'
    BY <1>a, <2>1, <2>2
  <2>5. ASSUME NEW w \in Vendors PROVE Workers!WithinShare(w)'
    <3>1. Workers!At(w, "active")' \subseteq Workers!At(w, "active")
      BY <2>2 DEF Workers!At
    <3> QED BY <1>a, <3>1, ShareKept
  <2> QED BY <2>3, <2>4, <2>5 DEF Workers!IInv
<1>6. CASE UNCHANGED Workers!vars
  BY <1>6, <1>a DEF Workers!vars, Workers!IInv, Workers!At, Workers!WithinShare
<1> QED
  BY <1>1, <1>2, <1>3, <1>4, <1>5, <1>6 DEF Workers!Next

\* A waiting job has a worker, and no vendor runs more jobs than the maximum.
LEMMA QueuesSafe ==
  ASSUME Workers!IInv
  PROVE  Workers!JobsHaveWorkers
BY DEF Workers!IInv, Workers!Served, Workers!WithinShare, Workers!At, Workers!JobsHaveWorkers

---------------------------------------
\* Seeding.tla: x1 is the categories, x2 how often each vendor and its
\* products were inserted, x3 whether there are others, x4 and x5 where the
\* seeders stand, x6 what they were told, x7 whether they were disturbed.

\* Nothing is seeded.
LEMMA SeedingInit ==
  ASSUME Seeder!SeedsAssumption, Seeder!Init
  PROVE  Seeder!IInv
<1>1. Seeder!TypeOK
  <2>1. 1 \in Seeder!Seeds /\ x1 \subseteq Seeder!Seeds
    BY DEF Seeder!SeedsAssumption, Seeder!Init, Seeder!Seeds
  <2>2. [vendor |-> 0, products |-> 0] \in [vendor : Nat, products : Nat]
    OBVIOUS
  <2>3. x2 \in [Seeder!Seeds -> [vendor : Nat, products : Nat]]
    BY <2>2 DEF Seeder!Init
  <2> QED BY <2>1, <2>3 DEF Seeder!Init, Seeder!TypeOK
<1>2. Seeder!Fresh
  BY DEF Seeder!SeedsAssumption, Seeder!Init, Seeder!Fresh, Seeder!SeededUpTo, Seeder!Seeds
<1>3. Seeder!InTurn
  BY <1>2 DEF Seeder!Init, Seeder!InTurn, Seeder!Progress
<1> QED BY <1>1, <1>3 DEF Seeder!IInv

\* Only a seeder at its vendors changes what is seeded.
LEMMA SeededStays ==
  ASSUME UNCHANGED x2
  PROVE  /\ \A n, nth : Seeder!SeededUpTo(n, nth)' <=> Seeder!SeededUpTo(n, nth)
         /\ Seeder!Fresh' <=> Seeder!Fresh
         /\ Seeder!Whole' <=> Seeder!Whole
BY DEF Seeder!SeededUpTo, Seeder!Fresh, Seeder!Whole

\* A step between two statements that insert no vendor.
LEMMA BetweenStatements ==
  ASSUME Seeder!SeedsAssumption, Seeder!TypeOK, Seeder!InTurn,
         NEW s \in Sessions, NEW n \in Seeder!Seeds,
         NEW step \in {"idle", "find", "insert", "count", "vendor"},
         Seeder!Goto(s, step, n), UNCHANGED <<x2, x3>>,
         x1 \subseteq x1', x1' \subseteq Seeder!Seeds,
         x6' \subseteq {"already", "seeded"}, "seeded" \in x6' <=> "seeded" \in x6,
         \A t \in Sessions : x4[t] # "idle" => t = s,
         x4[s] \notin {"vendor", "products"},
         step \in {"find", "insert"} => 1 .. n - 1 \subseteq x1',
         step \in {"count", "vendor"} => x1' = Seeder!Seeds,
         step = "vendor" => n = 1 /\ Seeder!Fresh /\ "seeded" \notin x6
  PROVE  Seeder!InTurn'
<1>1. x4' = [x4 EXCEPT ![s] = step] /\ x5' = [x5 EXCEPT ![s] = n]
  BY DEF Seeder!Goto
<1>2. /\ x4'[s] = step /\ x5'[s] = n
      /\ \A t \in Sessions \ {s} : x4'[t] = "idle"
  BY <1>1 DEF Seeder!TypeOK
<1>3. \A t \in Sessions : x4[t] \notin {"vendor", "products"}
  OBVIOUS
<1>4. Seeder!Fresh' \/ Seeder!Whole'
  BY <1>3, SeededStays DEF Seeder!InTurn
<1>5. ASSUME NEW t \in Sessions PROVE Seeder!Progress(t)'
  <2>1. CASE t = s
    BY <1>2, <2>1, SeededStays DEF Seeder!Progress, Seeder!Fresh, Seeder!Seeds
  <2>2. CASE t # s
    BY <1>2, <2>2 DEF Seeder!Progress
  <2> QED BY <2>1, <2>2
<1>6. "seeded" \in x6' => Seeder!Whole' /\ x1' = Seeder!Seeds
  BY SeededStays DEF Seeder!InTurn
<1> QED BY <1>2, <1>4, <1>5, <1>6 DEF Seeder!InTurn, Seeder!Seeds

\* Every statement of a seeder, and what staff and vendors create, keep it.
LEMMA SeedingNext ==
  ASSUME Seeder!SeedsAssumption, Seeder!IInv, [Seeder!Next]_(Seeder!vars)
  PROVE  Seeder!IInv'
<1>a. Seeder!TypeOK /\ (~x7 => Seeder!InTurn) /\ MaxSeeds \in Nat \ {0}
  BY DEF Seeder!IInv, Seeder!SeedsAssumption
<1>b. /\ x1 \subseteq Seeder!Seeds /\ x2 \in [Seeder!Seeds -> [vendor : Nat, products : Nat]]
      /\ x4 \in [Sessions -> {"idle", "find", "insert", "count", "vendor", "products"}]
      /\ x5 \in [Sessions -> Seeder!Seeds] /\ x6 \subseteq {"already", "seeded"}
      /\ x3 \in BOOLEAN /\ x7 \in BOOLEAN
      /\ 1 \in Seeder!Seeds
  BY <1>a DEF Seeder!TypeOK, Seeder!Seeds
<1>c. ASSUME NEW s \in Sessions, ~x7, x4[s] # "idle"
      PROVE  /\ \A t \in Sessions : x4[t] # "idle" => t = s
             /\ Seeder!Progress(s)
             /\ x4[s] \notin {"vendor", "products"} => Seeder!Fresh \/ Seeder!Whole
  BY <1>a, <1>c DEF Seeder!InTurn
<1>1. ASSUME NEW s \in Sessions, Seeder!Seed(s)
      PROVE  Seeder!IInv'
  <2>1. /\ x4[s] = "idle" /\ Seeder!Goto(s, "find", 1)
        /\ x7' = (x7 \/ Seeder!Busy(s)) /\ UNCHANGED <<x1, x2, x3, x6>>
    BY <1>1 DEF Seeder!Seed
  <2>2. Seeder!TypeOK'
    BY <1>b, <2>1 DEF Seeder!TypeOK, Seeder!Goto, Seeder!Busy, Seeder!Seeds
  <2>3. ASSUME ~x7' PROVE Seeder!InTurn'
    <3>1. ~x7 /\ \A t \in Sessions : x4[t] # "idle" => t = s
      BY <2>1, <2>3 DEF Seeder!Busy
    <3>2. 1 .. 1 - 1 \subseteq x1'
      OBVIOUS
    <3> QED BY <1>a, <1>b, <2>1, <3>1, <3>2, BetweenStatements
  <2> QED BY <2>2, <2>3 DEF Seeder!IInv
<1>2. ASSUME NEW s \in Sessions, Seeder!FindCategory(s)
      PROVE  Seeder!IInv'
  <2>1. x4[s] = "find" /\ UNCHANGED <<x2, x3, x6, x7>> /\ x1' = x1
    BY <1>2 DEF Seeder!FindCategory
  <2>2. PICK n \in Seeder!Seeds, step \in {"find", "insert", "count"} :
          /\ Seeder!Goto(s, step, n)
          /\ \/ step = "find" /\ n = x5[s] + 1 /\ x5[s] \in x1
             \/ step = "count" /\ n = 1 /\ x5[s] = MaxSeeds /\ x5[s] \in x1
             \/ step = "insert" /\ n = x5[s]
    <3>1. x5[s] \in 1..MaxSeeds
      BY <1>b DEF Seeder!Seeds
    <3>2. CASE x5[s] \in x1 /\ x5[s] < MaxSeeds
      BY <1>2, <1>a, <3>1, <3>2 DEF Seeder!FindCategory, Seeder!PastCategory, Seeder!Seeds
    <3>3. CASE x5[s] \in x1 /\ ~(x5[s] < MaxSeeds)
      BY <1>2, <1>a, <3>1, <3>3 DEF Seeder!FindCategory, Seeder!PastCategory, Seeder!Seeds
    <3>4. CASE x5[s] \notin x1
      BY <1>2, <1>b, <3>4 DEF Seeder!FindCategory
    <3> QED BY <3>2, <3>3, <3>4
  <2>3. Seeder!TypeOK'
    BY <1>b, <2>1, <2>2 DEF Seeder!TypeOK, Seeder!Goto, Seeder!Seeds
  <2>4. ASSUME ~x7' PROVE Seeder!InTurn'
    <3>1. ~x7 /\ (\A t \in Sessions : x4[t] # "idle" => t = s) /\ 1 .. x5[s] - 1 \subseteq x1
      BY <1>c, <2>1, <2>4 DEF Seeder!Progress
    <3>2. x5[s] \in 1 .. MaxSeeds /\ (x5[s] \in x1 => 1 .. x5[s] \subseteq x1)
      <4>1. x5[s] \in 1 .. MaxSeeds
        BY <1>b DEF Seeder!Seeds
      <4>2. ASSUME x5[s] \in x1, NEW k \in 1 .. x5[s] PROVE k \in x1
        <5>1. k = x5[s] \/ k \in 1 .. x5[s] - 1
          BY <1>a, <4>1
        <5> QED BY <3>1, <4>2, <5>1
      <4> QED BY <4>1, <4>2
    <3>3. step \in {"find", "insert"} => 1 .. n - 1 \subseteq x1'
      <4>1. step = "find" => n - 1 = x5[s]
        BY <1>a, <2>2, <3>2
      <4> QED BY <2>1, <2>2, <3>1, <3>2, <4>1
    <3>4. step = "count" => x1' = Seeder!Seeds
      BY <1>b, <1>a, <2>1, <2>2, <3>2 DEF Seeder!Seeds
    <3>5. /\ n \in Seeder!Seeds /\ step \in {"idle", "find", "insert", "count", "vendor"}
          /\ Seeder!Goto(s, step, n) /\ step # "vendor"
          /\ x4[s] \notin {"vendor", "products"}
      BY <2>1, <2>2
    <3>6. x1 \subseteq x1' /\ x1' \subseteq Seeder!Seeds /\ x6' = x6 /\ x6 \subseteq {"already", "seeded"}
      BY <1>b, <2>1
    <3>7. Seeder!InTurn
      BY <1>a, <3>1
    <3> QED BY <1>a, <2>1, <3>1, <3>3, <3>4, <3>5, <3>6, <3>7, BetweenStatements
  <2> QED BY <2>3, <2>4 DEF Seeder!IInv
<1>3. ASSUME NEW s \in Sessions, Seeder!InsertCategory(s)
      PROVE  Seeder!IInv'
  <2>1. CASE x5[s] \in x1
    <3>1. /\ x4[s] = "insert" /\ Seeder!Goto(s, "idle", 1) /\ x7' = TRUE
          /\ UNCHANGED <<x1, x2, x3, x6>>
      BY <1>3, <2>1 DEF Seeder!InsertCategory
    <3> QED
      BY <1>b, <3>1 DEF Seeder!IInv, Seeder!TypeOK, Seeder!Goto, Seeder!Seeds
  <2>2. CASE x5[s] \notin x1
    <3>1. /\ x4[s] = "insert" /\ x1' = x1 \cup {x5[s]} /\ UNCHANGED <<x2, x3, x6, x7>>
          /\ Seeder!PastCategory(s)
      BY <1>3, <2>2 DEF Seeder!InsertCategory
    <3>2. PICK n \in Seeder!Seeds, step \in {"find", "count"} :
            /\ Seeder!Goto(s, step, n)
            /\ \/ step = "find" /\ n = x5[s] + 1
               \/ step = "count" /\ n = 1 /\ x5[s] = MaxSeeds
      <4>1. x5[s] \in 1..MaxSeeds
        BY <1>b DEF Seeder!Seeds
      <4>2. CASE x5[s] < MaxSeeds
        BY <1>a, <3>1, <4>1, <4>2 DEF Seeder!PastCategory, Seeder!Seeds
      <4>3. CASE ~(x5[s] < MaxSeeds)
        BY <1>a, <3>1, <4>1, <4>3 DEF Seeder!PastCategory, Seeder!Seeds
      <4> QED BY <4>2, <4>3
    <3>3. Seeder!TypeOK'
      BY <1>b, <3>1, <3>2 DEF Seeder!TypeOK, Seeder!Goto, Seeder!Seeds
    <3>4. ASSUME ~x7' PROVE Seeder!InTurn'
      <4>1. ~x7 /\ (\A t \in Sessions : x4[t] # "idle" => t = s) /\ 1 .. x5[s] - 1 \subseteq x1
        BY <1>c, <3>1, <3>4 DEF Seeder!Progress
      <4>2. 1 .. x5[s] \subseteq x1'
        BY <1>b, <3>1, <4>1 DEF Seeder!Seeds
      <4>3. step = "find" => 1 .. n - 1 \subseteq x1'
        <5>1. ASSUME step = "find" PROVE n - 1 = x5[s]
          <6>1. n = x5[s] + 1
            BY <3>2, <5>1
          <6>2. x5[s] \in Int
            BY <1>b DEF Seeder!Seeds
          <6> QED BY <6>1, <6>2
        <5> QED BY <4>2, <5>1
      <4>4. x1' \subseteq Seeder!Seeds /\ (step = "count" => x1' = Seeder!Seeds)
        BY <1>b, <3>1, <3>2, <4>2 DEF Seeder!Seeds
      <4>5. /\ n \in Seeder!Seeds /\ step \in {"idle", "find", "insert", "count", "vendor"}
            /\ Seeder!Goto(s, step, n) /\ step \notin {"vendor", "insert"}
            /\ x4[s] \notin {"vendor", "products"}
        BY <3>1, <3>2
      <4>6. x1 \subseteq x1' /\ x6' = x6 /\ x6 \subseteq {"already", "seeded"}
        BY <1>b, <3>1
      <4>7. Seeder!InTurn
        BY <1>a, <4>1
      <4> QED BY <1>a, <3>1, <4>1, <4>3, <4>4, <4>5, <4>6, <4>7, BetweenStatements
    <3> QED BY <3>3, <3>4 DEF Seeder!IInv
  <2> QED BY <2>1, <2>2
<1>4. ASSUME NEW s \in Sessions, Seeder!CountProducts(s)
      PROVE  Seeder!IInv'
  <2>1. /\ x4[s] = "count" /\ UNCHANGED <<x1, x2, x3, x7>>
        /\ IF Seeder!HasProducts
             THEN Seeder!Goto(s, "idle", 1) /\ x6' = x6 \cup {"already"}
             ELSE Seeder!Goto(s, "vendor", 1) /\ UNCHANGED x6
    BY <1>4 DEF Seeder!CountProducts
  <2>2. Seeder!TypeOK'
    BY <1>b, <2>1 DEF Seeder!TypeOK, Seeder!Goto, Seeder!Seeds
  <2>3. ASSUME ~x7' PROVE Seeder!InTurn'
    <3>1. /\ ~x7 /\ (\A t \in Sessions : x4[t] # "idle" => t = s)
          /\ x1 = Seeder!Seeds /\ (Seeder!Fresh \/ Seeder!Whole)
      BY <1>c, <2>1, <2>3 DEF Seeder!Progress
    <3>2. CASE Seeder!HasProducts
      <4>1. "seeded" \in x6' <=> "seeded" \in x6
        BY <2>1, <3>2
      <4>2. x6' \subseteq {"already", "seeded"}
        BY <1>b, <2>1, <3>2
      <4> QED BY <1>a, <1>b, <2>1, <3>1, <3>2, <4>1, <4>2, BetweenStatements
    <3>3. CASE ~Seeder!HasProducts
      <4>1. ~Seeder!Whole
        <5>1. x2[1].products # 1
          BY <1>b, <3>3 DEF Seeder!HasProducts
        <5> QED BY <1>a, <1>b, <5>1 DEF Seeder!Whole, Seeder!SeededUpTo
      <4>2. Seeder!Fresh /\ "seeded" \notin x6
        BY <1>a, <3>1, <4>1 DEF Seeder!InTurn
      <4> QED BY <1>a, <1>b, <2>1, <3>1, <3>3, <4>2, BetweenStatements
    <3> QED BY <3>2, <3>3
  <2> QED BY <2>2, <2>3 DEF Seeder!IInv
<1>5. ASSUME NEW s \in Sessions, Seeder!InsertVendor(s)
      PROVE  Seeder!IInv'
  <2>1. /\ x4[s] = "vendor" /\ Seeder!Goto(s, "products", x5[s])
        /\ x2' = [x2 EXCEPT ![x5[s]].vendor = @ + 1]
        /\ UNCHANGED <<x1, x3, x6, x7>>
    BY <1>5 DEF Seeder!InsertVendor
  <2>2. x5[s] \in Seeder!Seeds /\ x2[x5[s]] \in [vendor : Nat, products : Nat]
    BY <1>b
  <2>3. x2' = [x2 EXCEPT ![x5[s]] = [vendor |-> x2[x5[s]].vendor + 1,
                                     products |-> x2[x5[s]].products]]
    <3> DEFINE r == x2[x5[s]]
    <3>1. [r EXCEPT !.vendor = @ + 1] = [vendor |-> r.vendor + 1, products |-> r.products]
      BY <2>2
    <3> QED BY <2>1, <3>1
  <2>4. /\ x4' = [x4 EXCEPT ![s] = "products"] /\ x5' = x5
    BY <1>b, <2>1 DEF Seeder!Goto
  <2>5. Seeder!TypeOK'
    <3>1. [vendor |-> x2[x5[s]].vendor + 1, products |-> x2[x5[s]].products]
            \in [vendor : Nat, products : Nat]
      BY <2>2
    <3>2. x2' \in [Seeder!Seeds -> [vendor : Nat, products : Nat]]
      BY <1>b, <2>3, <3>1
    <3> QED BY <1>b, <2>1, <2>4, <3>2 DEF Seeder!TypeOK, Seeder!Seeds
  <2>6. ASSUME ~x7' PROVE Seeder!InTurn'
    <3>1. /\ ~x7 /\ (\A t \in Sessions : x4[t] # "idle" => t = s)
          /\ x1 = Seeder!Seeds /\ "seeded" \notin x6 /\ Seeder!SeededUpTo(x5[s], 0)
      BY <1>c, <2>1, <2>6 DEF Seeder!Progress
    <3>2. Seeder!SeededUpTo(x5[s], 1)'
      BY <1>b, <2>2, <2>3, <2>4, <3>1 DEF Seeder!SeededUpTo, Seeder!Seeds
    <3>3. x4'[s] = "products" /\ \A t \in Sessions \ {s} : x4'[t] = "idle"
      BY <1>b, <2>4, <3>1
    <3>4. ASSUME NEW t \in Sessions PROVE Seeder!Progress(t)'
      BY <2>1, <3>1, <3>2, <3>3 DEF Seeder!Progress, Seeder!Seeds
    <3> QED BY <2>1, <3>1, <3>3, <3>4 DEF Seeder!InTurn
  <2> QED BY <2>5, <2>6 DEF Seeder!IInv
<1>6. ASSUME NEW s \in Sessions, Seeder!InsertProducts(s)
      PROVE  Seeder!IInv'
  <2>1. /\ x4[s] = "products"
        /\ x2' = [x2 EXCEPT ![x5[s]].products = @ + 1]
        /\ IF x5[s] < MaxSeeds
             THEN Seeder!Goto(s, "vendor", x5[s] + 1) /\ UNCHANGED x6
             ELSE Seeder!Goto(s, "idle", 1) /\ x6' = x6 \cup {"seeded"}
        /\ UNCHANGED <<x1, x3, x7>>
    BY <1>6 DEF Seeder!InsertProducts
  <2>2. x5[s] \in 1..MaxSeeds /\ x2[x5[s]] \in [vendor : Nat, products : Nat]
    BY <1>b DEF Seeder!Seeds
  <2>3. x2' = [x2 EXCEPT ![x5[s]] = [vendor |-> x2[x5[s]].vendor,
                                     products |-> x2[x5[s]].products + 1]]
    <3> DEFINE r == x2[x5[s]]
    <3>1. [r EXCEPT !.products = @ + 1] = [vendor |-> r.vendor, products |-> r.products + 1]
      BY <2>2
    <3> QED BY <2>1, <3>1
  <2>4. Seeder!TypeOK'
    <3>1. [vendor |-> x2[x5[s]].vendor, products |-> x2[x5[s]].products + 1]
            \in [vendor : Nat, products : Nat]
      BY <2>2
    <3>2. x2' \in [Seeder!Seeds -> [vendor : Nat, products : Nat]]
      BY <1>b, <2>3, <3>1
    <3>3. x5[s] < MaxSeeds => x5[s] + 1 \in Seeder!Seeds
      BY <1>a, <2>2 DEF Seeder!Seeds
    <3>4. Seeder!Seeds' = Seeder!Seeds
      BY DEF Seeder!Seeds
    <3> QED BY <1>b, <2>1, <3>2, <3>3, <3>4 DEF Seeder!TypeOK, Seeder!Goto
  <2>5. ASSUME ~x7' PROVE Seeder!InTurn'
    <3>1. /\ ~x7 /\ (\A t \in Sessions : x4[t] # "idle" => t = s)
          /\ x1 = Seeder!Seeds /\ "seeded" \notin x6 /\ Seeder!SeededUpTo(x5[s], 1)
      BY <1>c, <2>1, <2>5 DEF Seeder!Progress
    <3>2. \A n : n = x5[s] + 1 => Seeder!SeededUpTo(n, 0)'
      BY <1>a, <1>b, <2>2, <2>3, <3>1 DEF Seeder!SeededUpTo, Seeder!Seeds
    <3>3. CASE x5[s] < MaxSeeds
      <4>1. /\ x4'[s] = "vendor" /\ x5'[s] = x5[s] + 1 /\ x6' = x6
            /\ \A t \in Sessions \ {s} : x4'[t] = "idle"
        BY <1>b, <2>1, <3>1, <3>3 DEF Seeder!Goto
      <4>2. ASSUME NEW t \in Sessions PROVE Seeder!Progress(t)'
        BY <2>1, <3>1, <3>2, <4>1 DEF Seeder!Progress, Seeder!Seeds
      <4> QED BY <2>1, <3>1, <4>1, <4>2 DEF Seeder!InTurn
    <3>4. CASE ~(x5[s] < MaxSeeds)
      <4>1. \A t \in Sessions : x4'[t] = "idle"
        BY <1>b, <2>1, <3>1, <3>4 DEF Seeder!Goto
      <4>2. Seeder!Whole'
        BY <1>a, <2>2, <3>2, <3>4 DEF Seeder!Whole
      <4> QED BY <2>1, <3>1, <4>1, <4>2 DEF Seeder!InTurn, Seeder!Progress, Seeder!Seeds
    <3> QED BY <3>3, <3>4
  <2> QED BY <2>4, <2>5 DEF Seeder!IInv
<1>7. ASSUME NEW c \in Seeder!Seeds, Seeder!CreateCategory(c)
      PROVE  Seeder!IInv'
  <2>1. x1' = x1 \cup {c} /\ UNCHANGED <<x2, x3, x4, x5, x6, x7>>
    BY <1>7 DEF Seeder!CreateCategory
  <2>2. Seeder!TypeOK'
    BY <1>b, <2>1 DEF Seeder!TypeOK, Seeder!Seeds
  <2>3. ASSUME ~x7' PROVE Seeder!InTurn'
    <3>1. Seeder!InTurn /\ x1 \subseteq x1' /\ (x1 = Seeder!Seeds => x1' = Seeder!Seeds)
      BY <1>a, <1>b, <2>1, <2>3
    <3>2. ASSUME NEW t \in Sessions PROVE Seeder!Progress(t)'
      BY <2>1, <3>1, SeededStays DEF Seeder!InTurn, Seeder!Progress, Seeder!Seeds
    <3> QED BY <2>1, <3>1, <3>2, SeededStays DEF Seeder!InTurn, Seeder!Seeds
  <2> QED BY <2>2, <2>3 DEF Seeder!IInv
<1>8. ASSUME Seeder!CreateProduct
      PROVE  Seeder!IInv'
  <2>1. x3' = TRUE /\ UNCHANGED <<x1, x2, x4, x5, x6, x7>>
    BY <1>8 DEF Seeder!CreateProduct
  <2>2. Seeder!TypeOK'
    BY <1>b, <2>1 DEF Seeder!TypeOK, Seeder!Seeds
  <2> QED BY <1>a, <2>1, <2>2, SeededStays DEF Seeder!IInv, Seeder!InTurn, Seeder!Progress, Seeder!Seeds
<1>9. ASSUME NEW s \in Sessions, Seeder!Abort(s)
      PROVE  Seeder!IInv'
  BY <1>9, <1>b DEF Seeder!Abort, Seeder!Goto, Seeder!IInv, Seeder!TypeOK, Seeder!Seeds
<1>10. CASE UNCHANGED Seeder!vars
  <2>1. UNCHANGED <<x1, x2, x3, x4, x5, x6, x7>>
    BY <1>10 DEF Seeder!vars
  <2> QED BY <1>a, <1>b, <2>1, SeededStays DEF Seeder!IInv, Seeder!TypeOK, Seeder!InTurn, Seeder!Progress, Seeder!Seeds
<1> QED
  BY <1>1, <1>2, <1>3, <1>4, <1>5, <1>6, <1>7, <1>8, <1>9, <1>10 DEF Seeder!Next

\* A vendor seeded in its turn is seeded once.
LEMMA SeedingSafe ==
  ASSUME Seeder!SeedsAssumption, Seeder!IInv
  PROVE  Seeder!SeededOnce
<1> SUFFICES ASSUME ~x7 PROVE Seeder!SeededOnce
  BY DEF Seeder!SeededOnce
<1>1. Seeder!InTurn /\ Seeder!TypeOK
  BY DEF Seeder!IInv
<1>2. \E n, nth : nth \in {0, 1} /\ Seeder!SeededUpTo(n, nth)
  <2>1. CASE \E s \in Sessions : x4[s] \in {"vendor", "products"}
    BY <1>1, <2>1 DEF Seeder!InTurn, Seeder!Progress
  <2>2. CASE ~\E s \in Sessions : x4[s] \in {"vendor", "products"}
    BY <1>1, <2>2 DEF Seeder!InTurn, Seeder!Fresh, Seeder!Whole
  <2> QED BY <2>1, <2>2
<1>3. \A v \in Seeder!Seeds : x2[v].products =< x2[v].vendor /\ x2[v].vendor =< 1
  <2>1. PICK n, nth : nth \in {0, 1} /\ Seeder!SeededUpTo(n, nth)
    BY <1>2
  <2>2. ASSUME NEW v \in Seeder!Seeds
        PROVE  x2[v].products =< x2[v].vendor /\ x2[v].vendor =< 1
    <3>1. CASE v < n
      <4>1. x2[v] = [vendor |-> 1, products |-> 1]
        BY <2>1, <3>1 DEF Seeder!SeededUpTo
      <4> QED BY <4>1
    <3>2. CASE ~(v < n)
      <4>1. x2[v] = [vendor |-> IF v = n THEN nth ELSE 0, products |-> 0]
        BY <2>1, <3>2 DEF Seeder!SeededUpTo
      <4> QED BY <2>1, <4>1
    <3> QED BY <3>1, <3>2
  <2> QED BY <2>2
<1>4. "seeded" \in x6 => x1 = Seeder!Seeds /\ \A v \in Seeder!Seeds : x2[v].products = 1
  BY <1>1 DEF Seeder!SeedsAssumption, Seeder!InTurn, Seeder!Whole, Seeder!SeededUpTo, Seeder!Seeds
<1> QED BY <1>3, <1>4 DEF Seeder!SeededOnce

---------------------------------------
\* AuditTrail.tla: x1 is the stock, x2 the trail, x3 the transactions, x4 the
\* requests that committed, x5 how many began, x6 the products patched.

\* The instance counts as the standard module does.
LEMMA SameCountOfLines ==
  ASSUME NEW S
  PROVE  /\ Auditor!IsFiniteSet(S) <=> IsFiniteSet(S)
         /\ Auditor!Cardinality(S) = Cardinality(S)
BY DEF Auditor!IsFiniteSet, IsFiniteSet, Auditor!Cardinality, Cardinality

\* What is kept of all but the request c.
AuditRest(c) ==
  /\ Auditor!TypeOK
  /\ \A d \in Auditor!InFlight \ {c} : Auditor!Sound(d)
  /\ \A i \in DOMAIN x2 : x2[i].id <= x5
  /\ Auditor!TrailExplainsStock

\* What an entry of the trail is.
LEMMA EntryFacts ==
  ASSUME Auditor!TypeOK, NEW i \in DOMAIN x2
  PROVE  /\ x2[i] \in Auditor!Entry
         /\ x2[i].id \in Nat /\ x2[i].product \in Shelves
         /\ i \in Nat
<1>1. x2[i] \in Auditor!Entry /\ i \in Nat
  BY DEF Auditor!TypeOK
<1> QED BY <1>1 DEF Auditor!Entry

\* Nothing was changed.
LEMMA AuditInit ==
  ASSUME Auditor!TrailAssumption, Auditor!Init
  PROVE  Auditor!IInv
<1> USE DEF Auditor!TrailAssumption, Auditor!Init
<1>1. Auditor!TypeOK
  BY DEF Auditor!TypeOK
<1>2. Auditor!InFlight = {}
  BY DEF Auditor!InFlight
<1>3. Auditor!TrailExplainsStock
  BY DEF Auditor!TrailExplainsStock, Auditor!ExplainsStock, Auditor!Told
<1> QED BY <1>1, <1>2, <1>3 DEF Auditor!IInv, Auditor!RowsExclusive

\* What the lines of a request are.
LEMMA LinesFacts ==
  ASSUME NEW r \in Auditor!Request
  PROVE  /\ DOMAIN r.lines = 1 .. Len(r.lines) /\ Len(r.lines) \in Nat
         /\ \A i \in DOMAIN r.lines : r.lines[i] \in Shelves
         /\ Auditor!ToSet(r.lines) \subseteq Shelves
BY DEF Auditor!Request, Auditor!ToSet

\* A request has one next line.
LEMMA OneNext ==
  ASSUME Auditor!TypeOK, NEW c \in Auditor!InFlight, NEW done, NEW p, NEW q,
         Auditor!IsNext(c, done, p), Auditor!IsNext(c, done, q)
  PROVE  p = q
<1>1. x3[c] \in Auditor!Request
  BY DEF Auditor!TypeOK, Auditor!InFlight
<1>2. DOMAIN x3[c].lines = 1 .. Len(x3[c].lines) /\ Len(x3[c].lines) \in Nat
  BY <1>1, LinesFacts
<1>3. PICK i \in DOMAIN x3[c].lines :
        /\ x3[c].lines[i] = p /\ p \notin done
        /\ \A j \in 1 .. i - 1 : x3[c].lines[j] \in done
  BY DEF Auditor!IsNext
<1>4. PICK k \in DOMAIN x3[c].lines :
        /\ x3[c].lines[k] = q /\ q \notin done
        /\ \A j \in 1 .. k - 1 : x3[c].lines[j] \in done
  BY DEF Auditor!IsNext
<1>5. ~(i < k) /\ ~(k < i)
  BY <1>2, <1>3, <1>4
<1> QED BY <1>2, <1>3, <1>4, <1>5

\* A step of one request leaves what is said of the others.
LEMMA OthersAsBefore ==
  ASSUME Auditor!IInv, NEW c \in Sessions, NEW r \in Auditor!Request \cup {NoChange},
         x3' = [x3 EXCEPT ![c] = r],
         UNCHANGED <<x1, x2, x4, x6>>,
         x5' \in Nat, x5 <= x5'
  PROVE  /\ AuditRest(c)'
         /\ \A d \in Auditor!InFlight' \ {c} : d \in Auditor!InFlight /\ x3'[d] = x3[d]
<1>0. Auditor!TypeOK
  BY DEF Auditor!IInv
<1>1. Auditor!TypeOK'
  BY <1>0 DEF Auditor!TypeOK
<1>2. ASSUME NEW d \in Auditor!InFlight' \ {c}
      PROVE  d \in Auditor!InFlight /\ x3'[d] = x3[d] /\ Auditor!Sound(d)'
  <2>1. d \in Sessions /\ d # c /\ x3'[d] = x3[d] /\ d \in Auditor!InFlight
    BY <1>0, <1>2 DEF Auditor!InFlight, Auditor!TypeOK
  <2>2. Auditor!Sound(d) /\ x3[d] \in Auditor!Request
    BY <2>1, <1>0 DEF Auditor!IInv, Auditor!Sound, Auditor!InFlight, Auditor!TypeOK
  <2>3. Auditor!InOrder(d)'
    BY <2>1, <2>2
       DEF Auditor!Sound, Auditor!InOrder, Auditor!IsNext, Auditor!Lines,
           Auditor!Locked, Auditor!Written
  <2>4. Auditor!ReadIsCurrent(d)'
    BY <2>1, <2>2
       DEF Auditor!Sound, Auditor!ReadIsCurrent, Auditor!After, Auditor!Locked,
           Auditor!Written
  <2>5. Auditor!EntriesAgree(d)'
    BY <1>0, <2>1, <2>2
       DEF Auditor!Sound, Auditor!EntriesAgree, Auditor!Request, Auditor!TypeOK
  <2> QED BY <2>1, <2>3, <2>4, <2>5 DEF Auditor!Sound
<1>3. \A i \in DOMAIN x2' : x2'[i].id <= x5'
  BY <1>0, EntryFacts DEF Auditor!IInv, Auditor!TypeOK
<1>4. Auditor!TrailExplainsStock'
  BY DEF Auditor!IInv, Auditor!TrailExplainsStock, Auditor!ExplainsStock, Auditor!Told
<1> QED BY <1>1, <1>2, <1>3, <1>4 DEF AuditRest

\* A request begins with nothing read, written or told.
LEMMA AuditBegin ==
  ASSUME Auditor!TrailAssumption, Auditor!IInv, NEW c \in Sessions,
         NEW kind \in {"purchase", "cancel", "adjust"}, NEW lines \in Seq(Shelves),
         NEW delta \in {-1, 0, 1}, kind = "adjust" => Len(lines) = 1,
         Auditor!Begin(c, kind, lines, delta)
  PROVE  Auditor!IInv'
<1> DEFINE r == [id |-> x5', kind |-> kind, lines |-> lines, delta |-> delta,
                 read |-> Auditor!Nothing, written |-> Auditor!Nothing, told |-> {}]
<1>0. Auditor!TypeOK
  BY DEF Auditor!IInv
<1>1. r \in Auditor!Request
  BY <1>0
     DEF Auditor!Begin, Auditor!Request, Auditor!Stocks, Auditor!Nothing,
         Auditor!TypeOK
<1>2. /\ x3' = [x3 EXCEPT ![c] = r]
      /\ UNCHANGED <<x1, x2, x4, x6>>
      /\ x5' = x5 + 1 /\ x5 \in Nat
  BY <1>0 DEF Auditor!Begin, Auditor!TypeOK
<1>3. x3'[c] = r /\ r # NoChange
  BY <1>0, <1>1, <1>2 DEF Auditor!TypeOK, Auditor!TrailAssumption
<1>4. /\ r.id = x5 + 1 /\ r.kind = kind /\ r.lines = lines /\ r.told = {}
      /\ r.read = Auditor!Nothing /\ r.written = Auditor!Nothing
  BY <1>2
<1> HIDE DEF r
<1>5. /\ AuditRest(c)'
      /\ \A d \in Auditor!InFlight' \ {c} : d \in Auditor!InFlight /\ x3'[d] = x3[d]
  <2>1. r \in Auditor!Request \cup {NoChange} /\ x5' \in Nat /\ x5 <= x5'
    BY <1>1, <1>2
  <2> QED BY <1>2, <2>1, OthersAsBefore
<1>6. Auditor!Locked(c)' = {} /\ Auditor!Written(c)' = {}
  BY <1>3, <1>4 DEF Auditor!Locked, Auditor!Written, Auditor!Nothing
<1>7. Auditor!InOrder(c)'
  <2>1. Auditor!Lines(c)' \subseteq Shelves
    BY <1>1, <1>3, LinesFacts DEF Auditor!Lines
  <2>2. kind = "adjust" => \A p, q \in Auditor!Lines(c)' : p = q
    BY <1>3, <1>4 DEF Auditor!Lines, Auditor!ToSet
  <2> QED BY <1>3, <1>4, <1>6, <2>1, <2>2 DEF Auditor!InOrder
<1>8. Auditor!ReadIsCurrent(c)'
  BY <1>6 DEF Auditor!ReadIsCurrent
<1>9. Auditor!EntriesAgree(c)'
  <2>1. \A i \in DOMAIN x2 : x2[i].id <= x5 /\ x2[i].id \in Nat
    BY <1>0, EntryFacts DEF Auditor!IInv
  <2> QED BY <1>0, <1>2, <1>3, <1>4, <2>1 DEF Auditor!EntriesAgree, Auditor!TypeOK
<1>10. Auditor!RowsExclusive'
  <2>1. \A d \in Auditor!InFlight' \ {c} : x3'[d].id # x3'[c].id
    <3>1. \A d \in Auditor!InFlight : x3[d].id <= x5 /\ x3[d].id \in Nat
      BY <1>0
         DEF Auditor!IInv, Auditor!Sound, Auditor!EntriesAgree, Auditor!TypeOK,
             Auditor!InFlight, Auditor!Request
    <3> QED BY <1>2, <1>3, <1>4, <1>5, <3>1
  <2>2. \A d \in Auditor!InFlight' \ {c} : Auditor!Locked(d)' = Auditor!Locked(d)
    BY <1>5 DEF Auditor!Locked
  <2>3. Auditor!RowsExclusive
    BY DEF Auditor!IInv
  <2> QED BY <1>5, <1>6, <2>1, <2>2, <2>3 DEF Auditor!RowsExclusive
<1> QED BY <1>5, <1>7, <1>8, <1>9, <1>10 DEF Auditor!IInv, Auditor!Sound, AuditRest

\* It locks a row that nobody holds, and reads it.
LEMMA AuditLock ==
  ASSUME Auditor!TrailAssumption, Auditor!IInv, NEW c \in Sessions, Auditor!LockRow(c)
  PROVE  Auditor!IInv'
<1>0. /\ Auditor!TypeOK
      /\ c \in Auditor!InFlight
      /\ Auditor!Sound(c)
      /\ x3[c] \in Auditor!Request
  BY DEF Auditor!IInv, Auditor!LockRow, Auditor!Active, Auditor!InFlight,
         Auditor!TypeOK, Auditor!Sound
<1>1. PICK p \in Shelves :
        Auditor!Wants(c, p) /\ Auditor!Unlocked(p) /\ Auditor!Read(c, p)
  BY DEF Auditor!LockRow
<1> DEFINE rows == [x3[c].read EXCEPT ![p] = x1[p]]
<1>a. rows \in Auditor!Stocks /\ x3[c].read \in Auditor!Stocks /\ x1[p] \in Nat
  BY <1>0 DEF Auditor!Request, Auditor!Stocks, Auditor!TypeOK
<1> HIDE DEF rows
<1> DEFINE r == [x3[c] EXCEPT !.read = rows]
<1>2. /\ r \in Auditor!Request /\ r # NoChange
      /\ r.id = x3[c].id /\ r.kind = x3[c].kind /\ r.lines = x3[c].lines
      /\ r.delta = x3[c].delta /\ r.told = x3[c].told /\ r.written = x3[c].written
      /\ r.read = [x3[c].read EXCEPT ![p] = x1[p]]
      /\ r.read \in Auditor!Stocks /\ x3[c].read \in Auditor!Stocks
      /\ x1[p] \in Nat
  <2>1. r \in Auditor!Request /\ r.read = rows
        /\ r.id = x3[c].id /\ r.kind = x3[c].kind /\ r.lines = x3[c].lines
        /\ r.delta = x3[c].delta /\ r.told = x3[c].told /\ r.written = x3[c].written
    BY <1>0, <1>a DEF Auditor!Request
  <2> QED BY <1>a, <2>1 DEF rows, Auditor!TrailAssumption
<1>3. /\ x3' = [x3 EXCEPT ![c] = r] /\ x3'[c] = r
      /\ UNCHANGED <<x1, x2, x4, x5, x6>>
      /\ x5 \in Nat
  BY <1>0, <1>1 DEF Auditor!LockRow, Auditor!Read, Auditor!TypeOK, rows
<1> HIDE DEF r
<1>4. /\ AuditRest(c)'
      /\ \A d \in Auditor!InFlight' \ {c} : d \in Auditor!InFlight /\ x3'[d] = x3[d]
  <2>1. r \in Auditor!Request \cup {NoChange} /\ x5' \in Nat /\ x5 <= x5'
    BY <1>2, <1>3
  <2> QED BY <1>3, <2>1, OthersAsBefore
<1>5. Auditor!Written(c)' = Auditor!Written(c) /\ Auditor!Lines(c)' = Auditor!Lines(c)
  BY <1>2, <1>3 DEF Auditor!Written, Auditor!Lines
<1>6. Auditor!Locked(c)' = Auditor!Locked(c) \cup {p}
  BY <1>2, <1>3 DEF Auditor!Locked, Auditor!Stocks, Auditor!TrailAssumption
<1>7. p \in Auditor!Lines(c) \ Auditor!Locked(c)
  BY <1>1 DEF Auditor!Wants, Auditor!IsNext, Auditor!Lines, Auditor!ToSet
<1>8. Auditor!InOrder(c)'
  <2>1. x3[c].kind # "purchase" =>
          /\ Auditor!Written(c) = Auditor!Locked(c)
          /\ x3[c].told = Auditor!Written(c)
          /\ Auditor!IsNext(c, Auditor!Written(c), p)
    BY <1>1 DEF Auditor!LockRow, Auditor!MayLock, Auditor!Wants
  <2>2. \A done, q : Auditor!IsNext(c, done, q)' <=> Auditor!IsNext(c, done', q')
    BY <1>2, <1>3 DEF Auditor!IsNext
  <2>3. \A q \in Auditor!Written(c)' \ x3'[c].told : Auditor!IsNext(c, x3[c].told, q)'
    BY <1>0, <1>2, <1>3, <1>5 DEF Auditor!IsNext, Auditor!Sound, Auditor!InOrder
  <2>4. x3'[c].kind # "purchase" =>
          \A q \in Auditor!Locked(c)' \ Auditor!Written(c)' :
            Auditor!IsNext(c, Auditor!Written(c), q)'
    BY <1>2, <1>3, <1>5, <1>6, <2>1 DEF Auditor!IsNext
  <2> QED BY <1>0, <1>2, <1>3, <1>5, <1>6, <1>7, <2>3, <2>4
              DEF Auditor!InOrder, Auditor!Sound, Auditor!IsNext
<1>9. Auditor!ReadIsCurrent(c)'
  <2>1. \A q \in Shelves : q # p => x3'[c].read[q] = x3[c].read[q]
    BY <1>2, <1>3 DEF Auditor!Stocks
  <2>2. x3'[c].read[p] = x1[p]
    BY <1>2, <1>3 DEF Auditor!Stocks
  <2>3. p \notin Auditor!Written(c)
    BY <1>0, <1>7 DEF Auditor!Sound, Auditor!InOrder
  <2> QED BY <1>0, <1>2, <1>3, <1>5, <1>6, <2>1, <2>2, <2>3
           DEF Auditor!ReadIsCurrent, Auditor!Sound, Auditor!After, Auditor!Locked,
               Auditor!Written
<1>10. Auditor!EntriesAgree(c)'
  <2>1. p \notin x3[c].told
    BY <1>0, <1>7 DEF Auditor!Sound, Auditor!InOrder
  <2>2. \A q \in Shelves : q # p => x3'[c].read[q] = x3[c].read[q]
    BY <1>2, <1>3 DEF Auditor!Stocks
  <2>3. x3[c].told \subseteq Shelves
    BY <1>0 DEF Auditor!Request
  <2> QED BY <1>0, <1>2, <1>3, <2>1, <2>2, <2>3 DEF Auditor!EntriesAgree, Auditor!Sound
<1>11. Auditor!RowsExclusive'
  <2>1. \A d \in Auditor!InFlight' \ {c} :
          /\ Auditor!Locked(d)' = Auditor!Locked(d)
          /\ p \notin Auditor!Locked(d)
    BY <1>1, <1>4 DEF Auditor!Locked, Auditor!Unlocked
  <2>2. Auditor!RowsExclusive
    BY DEF Auditor!IInv
  <2> QED BY <1>0, <1>2, <1>3, <1>4, <1>6, <2>1, <2>2 DEF Auditor!RowsExclusive
<1> QED BY <1>4, <1>8, <1>9, <1>10, <1>11 DEF Auditor!IInv, Auditor!Sound, AuditRest

\* It writes what follows from what it read.
LEMMA AuditWrite ==
  ASSUME Auditor!TrailAssumption, Auditor!IInv, NEW c \in Sessions, Auditor!WriteRow(c)
  PROVE  Auditor!IInv'
<1>0. /\ Auditor!TypeOK
      /\ c \in Auditor!InFlight
      /\ Auditor!Sound(c)
      /\ x3[c] \in Auditor!Request
  BY DEF Auditor!IInv, Auditor!WriteRow, Auditor!Active, Auditor!InFlight,
         Auditor!TypeOK, Auditor!Sound
<1> DEFINE told(p) == IF x3[c].delta = 0 THEN x3[c].told \cup {p} ELSE x3[c].told
<1>1. PICK p \in Auditor!Lines(c) :
        /\ Auditor!IsNext(c, Auditor!Written(c), p)
        /\ x3' = [x3 EXCEPT ![c].written[p] = Auditor!After(c, p),
              ![c].told = IF x3[c].delta = 0 THEN @ \cup {p} ELSE @]
  BY DEF Auditor!WriteRow
<1>2. p \in Shelves /\ p \in Auditor!Locked(c) /\ p \notin Auditor!Written(c)
  <2>1. x3[c].kind = "purchase" => Auditor!Locked(c) = Auditor!Lines(c)
    BY DEF Auditor!WriteRow, Auditor!ReadyToWrite
  <2>2. ASSUME x3[c].kind # "purchase"  PROVE p \in Auditor!Locked(c)
    <3>1. PICK q \in Auditor!Locked(c) \ Auditor!Written(c) : TRUE
      BY <1>0 DEF Auditor!WriteRow, Auditor!Sound, Auditor!InOrder
    <3>2. Auditor!IsNext(c, Auditor!Written(c), q)
      BY <1>0, <2>2, <3>1 DEF Auditor!Sound, Auditor!InOrder
    <3> QED BY <1>0, <1>1, <3>1, <3>2, OneNext
  <2>3. p \notin Auditor!Written(c)
    BY <1>1 DEF Auditor!IsNext
  <2> QED BY <1>0, <1>1, <2>1, <2>2, <2>3 DEF Auditor!Locked
<1>3. Auditor!After(c, p) \in Nat
  <2>1. x3[c].read[p] = x1[p] /\ x1[p] \in Nat
    BY <1>0, <1>2 DEF Auditor!Sound, Auditor!ReadIsCurrent, Auditor!TypeOK
  <2> QED BY <1>0, <1>2, <2>1
              DEF Auditor!WriteRow, Auditor!Enough, Auditor!After, Auditor!Request
<1> DEFINE rows == [x3[c].written EXCEPT ![p] = Auditor!After(c, p)]
           all == told(p)
<1>a. /\ rows \in Auditor!Stocks
      /\ x3[c].written \in Auditor!Stocks
      /\ all \in SUBSET Shelves
  BY <1>0, <1>2, <1>3 DEF Auditor!Request, Auditor!Stocks
<1> HIDE DEF rows, all
<1> DEFINE r == [x3[c] EXCEPT !.written = rows, !.told = all]
<1>4. /\ r \in Auditor!Request /\ r # NoChange
      /\ r.id = x3[c].id /\ r.kind = x3[c].kind /\ r.lines = x3[c].lines
      /\ r.delta = x3[c].delta /\ r.read = x3[c].read
      /\ r.told = told(p)
      /\ r.written = [x3[c].written EXCEPT ![p] = Auditor!After(c, p)]
      /\ x3[c].written \in Auditor!Stocks
  <2>1. r \in Auditor!Request /\ r.written = rows /\ r.told = all
        /\ r.id = x3[c].id /\ r.kind = x3[c].kind /\ r.lines = x3[c].lines
        /\ r.delta = x3[c].delta /\ r.read = x3[c].read
    BY <1>0, <1>a DEF Auditor!Request
  <2> QED BY <1>a, <2>1 DEF rows, all, Auditor!TrailAssumption
<1>5. /\ x3' = [x3 EXCEPT ![c] = r] /\ x3'[c] = r
      /\ UNCHANGED <<x1, x2, x4, x5, x6>>
      /\ x5 \in Nat
  BY <1>0, <1>1 DEF Auditor!WriteRow, Auditor!TypeOK, rows, all
<1> HIDE DEF r
<1>6. /\ AuditRest(c)'
      /\ \A d \in Auditor!InFlight' \ {c} : d \in Auditor!InFlight /\ x3'[d] = x3[d]
  <2>1. r \in Auditor!Request \cup {NoChange} /\ x5' \in Nat /\ x5 <= x5'
    BY <1>4, <1>5
  <2> QED BY <1>5, <2>1, OthersAsBefore
<1>7. Auditor!Locked(c)' = Auditor!Locked(c) /\ Auditor!Lines(c)' = Auditor!Lines(c)
  BY <1>4, <1>5 DEF Auditor!Locked, Auditor!Lines
<1>8. Auditor!Written(c)' = Auditor!Written(c) \cup {p}
  BY <1>2, <1>3, <1>4, <1>5 DEF Auditor!Written, Auditor!Stocks, Auditor!TrailAssumption
<1>9. x3[c].told = Auditor!Written(c)
  BY DEF Auditor!WriteRow
<1>10. Auditor!InOrder(c)'
  <2>1. ASSUME NEW q \in Auditor!Written(c)' \ x3'[c].told
        PROVE  Auditor!IsNext(c, x3[c].told, q)'
    <3>1. q = p /\ x3'[c].told = x3[c].told
      BY <1>4, <1>5, <1>8, <1>9, <2>1
    <3>2. x3'[c].lines = x3[c].lines
      BY <1>4, <1>5
    <3> QED BY <1>1, <1>9, <3>1, <3>2 DEF Auditor!IsNext
  <2>3. ASSUME x3'[c].kind # "purchase"
        PROVE  Auditor!Locked(c)' \ Auditor!Written(c)' = {}
    <3>1. \A q \in Auditor!Locked(c) \ Auditor!Written(c) :
            Auditor!IsNext(c, Auditor!Written(c), q)
      BY <1>0, <1>4, <1>5, <2>3 DEF Auditor!Sound, Auditor!InOrder
    <3>2. \A q \in Auditor!Locked(c) \ Auditor!Written(c) : q = p
      BY <1>0, <1>1, <3>1, OneNext
    <3> QED BY <1>7, <1>8, <3>2
  <2>6. x3'[c].told \subseteq Auditor!Written(c)'
    BY <1>4, <1>5, <1>8, <1>9
  <2> QED BY <1>0, <1>2, <1>4, <1>5, <1>7, <1>8, <2>1, <2>3, <2>6
              DEF Auditor!InOrder, Auditor!Sound
<1>11. Auditor!ReadIsCurrent(c)'
  <2>1. \A q \in Shelves : q # p => x3'[c].written[q] = x3[c].written[q]
    BY <1>4, <1>5 DEF Auditor!Stocks
  <2>2. x3'[c].written[p] = Auditor!After(c, p)
    BY <1>2, <1>4, <1>5 DEF Auditor!Stocks
  <2> QED BY <1>0, <1>4, <1>5, <1>7, <1>8, <2>1, <2>2
           DEF Auditor!ReadIsCurrent, Auditor!Sound, Auditor!After, Auditor!Locked,
               Auditor!Written
<1>12. Auditor!EntriesAgree(c)'
  <2>1. p \notin x3[c].told
    BY <1>2, <1>9
  <2>2. \A q \in Shelves : q # p => x3'[c].written[q] = x3[c].written[q]
    BY <1>4, <1>5 DEF Auditor!Stocks
  <2>3. x3[c].told \subseteq Shelves
    BY <1>0 DEF Auditor!Request
  <2>4. x3'[c].told = x3[c].told \/ x3[c].delta = 0
    BY <1>4, <1>5
  <2>5. x3[c].told \subseteq x3'[c].told
    BY <1>4, <1>5
  <2> QED BY <1>0, <1>4, <1>5, <2>1, <2>2, <2>3, <2>4, <2>5
              DEF Auditor!EntriesAgree, Auditor!Sound
<1>13. Auditor!RowsExclusive'
  <2>1. \A d \in Auditor!InFlight' \ {c} : Auditor!Locked(d)' = Auditor!Locked(d)
    BY <1>6 DEF Auditor!Locked
  <2>2. Auditor!RowsExclusive
    BY DEF Auditor!IInv
  <2> QED BY <1>0, <1>4, <1>5, <1>6, <1>7, <2>1, <2>2 DEF Auditor!RowsExclusive
<1> QED BY <1>6, <1>10, <1>11, <1>12, <1>13 DEF Auditor!IInv, Auditor!Sound, AuditRest

\* Its entry comes after all those of the same product, by a lock that it holds.
LEMMA AuditTell ==
  ASSUME Auditor!TrailAssumption, Auditor!IInv, NEW c \in Sessions, Auditor!Tell(c)
  PROVE  Auditor!IInv'
<1>0. /\ Auditor!TypeOK
      /\ c \in Auditor!InFlight
      /\ Auditor!Sound(c)
      /\ x3[c] \in Auditor!Request
  BY DEF Auditor!IInv, Auditor!Tell, Auditor!Active, Auditor!InFlight, Auditor!TypeOK,
         Auditor!Sound
<1> DEFINE entry(p) == [id |-> x3[c].id, product |-> p,
                        before |-> x3[c].read[p], after |-> x3[c].written[p]]
<1>1. PICK p \in Auditor!Lines(c) :
        /\ Auditor!IsNext(c, x3[c].told, p)
        /\ x2' = Append(x2, entry(p))
        /\ x3' = [x3 EXCEPT ![c].told = @ \cup {p}]
  BY DEF Auditor!Tell
<1>2. /\ p \in Auditor!Written(c)
      /\ p \in Auditor!Locked(c)
      /\ p \notin x3[c].told
      /\ p \in Shelves
  <2>1. PICK q \in Auditor!Written(c) \ x3[c].told : TRUE
    BY <1>0 DEF Auditor!Tell, Auditor!Sound, Auditor!InOrder
  <2>2. Auditor!IsNext(c, x3[c].told, q)
    BY <1>0, <2>1 DEF Auditor!Sound, Auditor!InOrder
  <2>3. p = q
    BY <1>0, <1>1, <2>2, OneNext
  <2> QED BY <1>0, <2>1, <2>3 DEF Auditor!Sound, Auditor!InOrder, Auditor!Written
<1> DEFINE r == [x3[c] EXCEPT !.told = @ \cup {p}]
           e == entry(p)
<1>3. /\ r \in Auditor!Request /\ r # NoChange
      /\ r.id = x3[c].id /\ r.kind = x3[c].kind /\ r.lines = x3[c].lines
      /\ r.delta = x3[c].delta /\ r.told = x3[c].told \cup {p}
      /\ r.written = x3[c].written /\ r.read = x3[c].read
  BY <1>0, <1>2 DEF Auditor!Request, Auditor!TrailAssumption
<1>4. /\ e \in Auditor!Entry /\ e.id = x3[c].id /\ e.product = p
      /\ e.before = x3[c].read[p] /\ e.after = x3[c].written[p]
  BY <1>0, <1>2
     DEF Auditor!Entry, Auditor!Request, Auditor!Stocks, Auditor!Locked,
         Auditor!Written
<1>5. /\ x3' = [x3 EXCEPT ![c] = r] /\ x3'[c] = r
      /\ x2' = Append(x2, e)
      /\ UNCHANGED <<x1, x4, x5, x6>>
  BY <1>0, <1>1 DEF Auditor!Tell, Auditor!TypeOK
<1> HIDE DEF r, e, entry
<1>6. /\ DOMAIN x2' = DOMAIN x2 \cup {Len(x2) + 1}
      /\ \A i \in DOMAIN x2 : x2'[i] = x2[i] /\ i \in Nat /\ i <= Len(x2)
      /\ x2'[Len(x2) + 1] = e
      /\ Len(x2) \in Nat
      /\ x2' \in Seq(Auditor!Entry)
  BY <1>0, <1>4, <1>5 DEF Auditor!TypeOK
<1>7. Auditor!TypeOK'
  BY <1>0, <1>3, <1>5, <1>6 DEF Auditor!TypeOK
<1>8. \A d \in Auditor!InFlight' \ {c} :
        /\ d \in Auditor!InFlight
        /\ x3'[d] = x3[d]
        /\ Auditor!Locked(d)' = Auditor!Locked(d)
  BY <1>0, <1>5 DEF Auditor!InFlight, Auditor!TypeOK, Auditor!Locked
<1>9. Auditor!RowsExclusive'
  <2>1. Auditor!Locked(c)' = Auditor!Locked(c)
    BY <1>3, <1>5 DEF Auditor!Locked
  <2>2. Auditor!RowsExclusive
    BY DEF Auditor!IInv
  <2> QED BY <1>0, <1>3, <1>5, <1>8, <2>1, <2>2 DEF Auditor!RowsExclusive
<1>10. ASSUME NEW d \in Auditor!InFlight' \ {c}
       PROVE  Auditor!Sound(d)'
  <2>1. /\ d \in Auditor!InFlight
        /\ x3'[d] = x3[d]
        /\ Auditor!Sound(d)
        /\ x3[d] \in Auditor!Request
    BY <1>0, <1>8 DEF Auditor!IInv, Auditor!Sound, Auditor!InFlight, Auditor!TypeOK
  <2>2. Auditor!InOrder(d)' /\ Auditor!ReadIsCurrent(d)'
    BY <1>5, <2>1
       DEF Auditor!Sound, Auditor!InOrder, Auditor!IsNext, Auditor!Lines,
           Auditor!Locked, Auditor!Written, Auditor!ReadIsCurrent, Auditor!After
  <2>3. e.id # x3[d].id /\ p \notin x3[d].told
    BY <1>0, <1>2, <1>4, <1>10, <2>1
       DEF Auditor!IInv, Auditor!RowsExclusive, Auditor!Sound, Auditor!InOrder
  <2>4. \A i \in DOMAIN x2 : x2[i].id = x3[d].id => x2[i].product # p
    BY <2>1, <2>3 DEF Auditor!Sound, Auditor!EntriesAgree
  <2>5. Auditor!EntriesAgree(d)'
    <3>1. x3'[d].id <= x5' /\ x3'[d].id \notin x4'
      BY <1>5, <2>1 DEF Auditor!Sound, Auditor!EntriesAgree
    <3>2. ASSUME NEW i \in DOMAIN x2', x2'[i].id = x3'[d].id
          PROVE  /\ x2'[i].product \in x3'[d].told
                 /\ x2'[i].before = x3'[d].read[x2'[i].product]
                 /\ x2'[i].after = x3'[d].written[x2'[i].product]
                 /\ \A j \in DOMAIN x2' : x2'[j].product = x2'[i].product => j <= i
      <4>1. i \in DOMAIN x2 /\ x2'[i] = x2[i]
        BY <1>6, <2>1, <2>3, <3>2
      <4> QED BY <1>4, <1>6, <2>1, <2>4, <3>2, <4>1
                  DEF Auditor!Sound, Auditor!EntriesAgree
    <3>3. \A q \in x3'[d].told :
            x3'[d].delta # 0 =>
              \E i \in DOMAIN x2' : x2'[i].id = x3'[d].id /\ x2'[i].product = q
      BY <1>6, <2>1 DEF Auditor!Sound, Auditor!EntriesAgree
    <3> QED BY <3>1, <3>2, <3>3 DEF Auditor!EntriesAgree
  <2> QED BY <2>2, <2>5 DEF Auditor!Sound
<1>11. Auditor!Sound(c)'
  <2>1. /\ Auditor!Locked(c)' = Auditor!Locked(c)
        /\ Auditor!Written(c)' = Auditor!Written(c)
        /\ Auditor!Lines(c)' = Auditor!Lines(c)
    BY <1>3, <1>5 DEF Auditor!Locked, Auditor!Written, Auditor!Lines
  <2>2. Auditor!Written(c) = x3[c].told \cup {p}
    \* only one row is written and not told of
    <3>1. \A q \in Auditor!Written(c) \ x3[c].told : Auditor!IsNext(c, x3[c].told, q)
      BY <1>0 DEF Auditor!Sound, Auditor!InOrder
    <3>2. \A q \in Auditor!Written(c) \ x3[c].told : q = p
      BY <1>0, <1>1, <3>1, OneNext
    <3> QED BY <1>0, <1>2, <3>2 DEF Auditor!Sound, Auditor!InOrder
  <2>3. x3'[c].kind # "purchase" =>
          \A q \in Auditor!Locked(c)' \ Auditor!Written(c)' :
            Auditor!IsNext(c, Auditor!Written(c), q)'
    BY <1>0, <1>3, <1>5, <2>1 DEF Auditor!Sound, Auditor!InOrder, Auditor!IsNext
  <2>4. Auditor!InOrder(c)'
    BY <1>0, <1>3, <1>5, <2>1, <2>2, <2>3 DEF Auditor!Sound, Auditor!InOrder
  <2>5. Auditor!ReadIsCurrent(c)'
    BY <1>0, <1>3, <1>5, <2>1 DEF Auditor!Sound, Auditor!ReadIsCurrent, Auditor!After
  <2>6. Auditor!EntriesAgree(c)'
    <3>1. x3'[c].id <= x5' /\ x3'[c].id \notin x4'
      BY <1>0, <1>3, <1>5 DEF Auditor!Sound, Auditor!EntriesAgree
    <3>2. ASSUME NEW i \in DOMAIN x2', x2'[i].id = x3'[c].id
          PROVE  /\ x2'[i].product \in x3'[c].told
                 /\ x2'[i].before = x3'[c].read[x2'[i].product]
                 /\ x2'[i].after = x3'[c].written[x2'[i].product]
                 /\ \A j \in DOMAIN x2' : x2'[j].product = x2'[i].product => j <= i
      <4>1. CASE i = Len(x2) + 1
        BY <1>3, <1>4, <1>5, <1>6, <4>1
      <4>2. CASE i \in DOMAIN x2
        <5>1. x2[i].product \in x3[c].told
          BY <1>0, <1>3, <1>5, <1>6, <3>2, <4>2 DEF Auditor!Sound, Auditor!EntriesAgree
        <5> QED BY <1>0, <1>2, <1>3, <1>4, <1>5, <1>6, <3>2, <4>2, <5>1
                    DEF Auditor!Sound, Auditor!EntriesAgree
      <4> QED BY <1>6, <4>1, <4>2
    <3>3. ASSUME NEW q \in x3'[c].told, x3'[c].delta # 0
          PROVE  \E i \in DOMAIN x2' : x2'[i].id = x3'[c].id /\ x2'[i].product = q
      <4>1. CASE q = p
        BY <1>3, <1>4, <1>5, <1>6, <4>1
      <4>2. CASE q \in x3[c].told
        BY <1>0, <1>3, <1>5, <1>6, <3>3, <4>2 DEF Auditor!Sound, Auditor!EntriesAgree
      <4> QED BY <1>3, <1>5, <4>1, <4>2
    <3> QED BY <3>1, <3>2, <3>3 DEF Auditor!EntriesAgree
  <2> QED BY <2>4, <2>5, <2>6 DEF Auditor!Sound
<1>12. \A i \in DOMAIN x2' : x2'[i].id <= x5'
  BY <1>0, <1>4, <1>5, <1>6 DEF Auditor!IInv, Auditor!Sound, Auditor!EntriesAgree
<1>13. Auditor!TrailExplainsStock'
  <2>1. \A q \in Shelves : Auditor!Told(q)' = Auditor!Told(q)
    BY <1>0, <1>4, <1>5, <1>6 DEF Auditor!Told, Auditor!Sound, Auditor!EntriesAgree
  <2>2. \A q \in Shelves : Auditor!ExplainsStock(q) => Auditor!ExplainsStock(q)'
    <3> SUFFICES ASSUME NEW q \in Shelves, Auditor!ExplainsStock(q)
                 PROVE  Auditor!ExplainsStock(q)'
      OBVIOUS
    <3>1. \A i \in Auditor!Told(q) : x2'[i] = x2[i]
      BY <1>6 DEF Auditor!Told
    <3>2. Auditor!Told(q) = {} => x1'[q] = Initial
      BY <1>5 DEF Auditor!ExplainsStock
    <3>3. ASSUME NEW i \in Auditor!Told(q)
          PROVE  /\ (\A j \in Auditor!Told(q) : i <= j) => x2'[i].before = Initial
                 /\ (\A j \in Auditor!Told(q) : j <= i) => x2'[i].after = x1'[q]
                 /\ \A j \in Auditor!Told(q) :
                      (j < i /\ ~ \E k \in Auditor!Told(q) : j < k /\ k < i)
                        => x2'[i].before = x2'[j].after
      BY <1>5, <3>1 DEF Auditor!ExplainsStock
    <3> QED BY <2>1, <3>2, <3>3 DEF Auditor!ExplainsStock
  <2> QED BY <1>5, <2>2 DEF Auditor!IInv, Auditor!TrailExplainsStock
<1> QED BY <1>7, <1>9, <1>10, <1>11, <1>12, <1>13 DEF Auditor!IInv, Auditor!Sound

\* When it commits, the entry of each product it changed is the last that counts, and
\* begins where the one before ended.
LEMMA AuditCommit ==
  ASSUME Auditor!TrailAssumption, Auditor!IInv, NEW c \in Sessions, Auditor!Commit(c)
  PROVE  Auditor!IInv'
<1>0. /\ Auditor!TypeOK
      /\ c \in Auditor!InFlight
      /\ Auditor!Sound(c)
      /\ x3[c] \in Auditor!Request
  BY DEF Auditor!IInv, Auditor!Commit, Auditor!Active, Auditor!InFlight,
         Auditor!TypeOK, Auditor!Sound
<1>1. /\ x1' = [p \in Shelves |->
                  IF p \in Auditor!Written(c) THEN x3[c].written[p] ELSE x1[p]]
      /\ x4' = x4 \cup {x3[c].id}
      /\ x3' = [x3 EXCEPT ![c] = NoChange] /\ x3'[c] = NoChange
      /\ UNCHANGED <<x2, x5, x6>>
  BY <1>0 DEF Auditor!Commit, Auditor!TypeOK
<1>2. Auditor!Written(c) = x3[c].told
  <2>1. CASE x3[c].told = Auditor!Lines(c)
    BY <1>0, <2>1 DEF Auditor!Sound, Auditor!InOrder
  <2>2. CASE x3[c].kind = "adjust" /\ ~Auditor!Enough(c)
    <3>1. PICK p \in Auditor!Locked(c) : ~(Auditor!After(c, p) >= 0)
      BY <2>2 DEF Auditor!Enough
    <3>2. Auditor!Locked(c) \subseteq {p}
      BY <1>0, <2>2, <3>1 DEF Auditor!Sound, Auditor!InOrder
    <3>3. p \notin Auditor!Written(c)
      <4> SUFFICES ASSUME p \in Auditor!Written(c)  PROVE FALSE
        OBVIOUS
      <4>1. x3[c].written[p] = Auditor!After(c, p)
        BY <1>0 DEF Auditor!Sound, Auditor!ReadIsCurrent
      <4>2. x3[c].written[p] \in Nat
        BY <1>0 DEF Auditor!Written, Auditor!Request, Auditor!Stocks
      <4> QED BY <3>1, <4>1, <4>2
    <3> QED BY <1>0, <3>2, <3>3 DEF Auditor!Sound, Auditor!InOrder
  <2> QED BY <2>1, <2>2 DEF Auditor!Commit, Auditor!Finished
<1>3. \A p \in Auditor!Written(c) :
        /\ p \in Auditor!Locked(c)
        /\ x3[c].written[p] \in Nat
        /\ p \in Shelves
  BY <1>0
     DEF Auditor!Written, Auditor!Request, Auditor!Stocks, Auditor!Sound,
         Auditor!InOrder
<1>4. Auditor!TypeOK'
  <2>1. x1' \in [Shelves -> Nat]
    BY <1>0, <1>1, <1>3 DEF Auditor!TypeOK
  <2>2. x4' \subseteq 1 .. x5
    <3>1. x3[c].id \in Nat \ {0} /\ x5 \in Nat
      BY <1>0 DEF Auditor!TypeOK, Auditor!Request
    <3>2. x3[c].id <= x5
      BY <1>0 DEF Auditor!Sound, Auditor!EntriesAgree
    <3>3. x3[c].id \in 1 .. x5
      BY <3>1, <3>2
    <3>4. x4 \subseteq 1 .. x5
      BY <1>0 DEF Auditor!TypeOK
    <3> QED BY <1>1, <3>3, <3>4
  <2> QED BY <1>0, <1>1, <2>1, <2>2 DEF Auditor!TypeOK
<1>5. \A d \in Auditor!InFlight' :
        /\ d \in Auditor!InFlight
        /\ d # c
        /\ x3'[d] = x3[d]
        /\ Auditor!Locked(d)' = Auditor!Locked(d)
  BY <1>0, <1>1 DEF Auditor!InFlight, Auditor!TypeOK, Auditor!Locked
<1>6. Auditor!RowsExclusive'
  BY <1>5 DEF Auditor!IInv, Auditor!RowsExclusive
<1>7. ASSUME NEW d \in Auditor!InFlight'
      PROVE  Auditor!Sound(d)'
  <2>1. /\ d \in Auditor!InFlight
        /\ x3'[d] = x3[d]
        /\ Auditor!Sound(d)
        /\ x3[d] \in Auditor!Request
    BY <1>0, <1>5 DEF Auditor!IInv, Auditor!Sound, Auditor!InFlight, Auditor!TypeOK
  <2>2. x3[d].id # x3[c].id /\ Auditor!Locked(d) \cap Auditor!Written(c) = {}
    BY <1>0, <1>3, <1>5, <2>1 DEF Auditor!IInv, Auditor!RowsExclusive
  <2>3. \A p \in Auditor!Locked(d) : x1'[p] = x1[p]
    BY <1>1, <2>2 DEF Auditor!Locked
  <2>4. /\ Auditor!Locked(d)' = Auditor!Locked(d)
        /\ Auditor!Written(d)' = Auditor!Written(d)
    BY <2>1 DEF Auditor!Locked, Auditor!Written
  <2>5. Auditor!InOrder(d)'
    BY <2>1
       DEF Auditor!Sound, Auditor!InOrder, Auditor!IsNext, Auditor!Lines,
           Auditor!Locked, Auditor!Written
  <2>6. Auditor!ReadIsCurrent(d)'
    BY <2>1, <2>3, <2>4 DEF Auditor!Sound, Auditor!ReadIsCurrent, Auditor!After
  <2>7. Auditor!EntriesAgree(d)'
    BY <1>1, <2>1, <2>2 DEF Auditor!Sound, Auditor!EntriesAgree
  <2> QED BY <2>5, <2>6, <2>7 DEF Auditor!Sound
<1>8. ASSUME NEW p \in Shelves \ x6
      PROVE  Auditor!ExplainsStock(p)'
  <2>1. Auditor!ExplainsStock(p)
    BY DEF Auditor!IInv, Auditor!TrailExplainsStock
  <2>2. CASE \A i \in DOMAIN x2 : ~(x2[i].id = x3[c].id /\ x2[i].product = p)
    <3>1. Auditor!Told(p)' = Auditor!Told(p)
      BY <1>1, <2>2 DEF Auditor!Told
    <3>2. x1'[p] = x1[p]
      <4>1. CASE p \notin Auditor!Written(c)
        BY <1>1, <4>1
      <4>2. CASE p \in Auditor!Written(c)
        <5>1. x3[c].delta = 0
          BY <1>0, <1>2, <2>2, <4>2 DEF Auditor!Sound, Auditor!EntriesAgree
        <5>2. x3[c].written[p] = x3[c].read[p] + 0 /\ x3[c].read[p] = x1[p]
          BY <1>0, <1>3, <4>2, <5>1
             DEF Auditor!Sound, Auditor!ReadIsCurrent, Auditor!After
        <5>3. x1[p] \in Nat
          BY <1>0 DEF Auditor!TypeOK
        <5> QED BY <1>1, <4>2, <5>2, <5>3
      <4> QED BY <4>1, <4>2
    <3> QED BY <1>1, <2>1, <3>1, <3>2 DEF Auditor!ExplainsStock
  <2>3. CASE \E i \in DOMAIN x2 : x2[i].id = x3[c].id /\ x2[i].product = p
    <3>1. PICK k \in DOMAIN x2 : x2[k].id = x3[c].id /\ x2[k].product = p
      BY <2>3
    <3>2. /\ p \in Auditor!Written(c)
          /\ x2[k].before = x1[p] /\ x2[k].after = x1'[p]
          /\ \A j \in DOMAIN x2 : x2[j].product = p => j <= k
      BY <1>0, <1>1, <1>2, <1>3, <3>1
         DEF Auditor!Sound, Auditor!EntriesAgree, Auditor!ReadIsCurrent
    <3>3. \A i \in DOMAIN x2 : i \in Nat
      BY <1>0, EntryFacts
    <3>4. Auditor!Told(p)' = Auditor!Told(p) \cup {k} /\ k \notin Auditor!Told(p)
      <4>1. \A i \in DOMAIN x2 : x2[i].id = x3[c].id /\ x2[i].product = p => i = k
        BY <1>0, <3>1, <3>2, <3>3 DEF Auditor!Sound, Auditor!EntriesAgree
      <4>2. x3[c].id \notin x4
        BY <1>0 DEF Auditor!Sound, Auditor!EntriesAgree
      <4> QED BY <1>1, <3>1, <4>1, <4>2 DEF Auditor!Told
    <3>5. \A i \in Auditor!Told(p) : i \in Nat /\ i < k
      BY <3>1, <3>2, <3>3, <3>4 DEF Auditor!Told
    <3>6. k \in Nat
      BY <3>3
    <3>7. ASSUME NEW i \in Auditor!Told(p)'
          PROVE  /\ (\A j \in Auditor!Told(p)' : i <= j) => x2[i].before = Initial
                 /\ (\A j \in Auditor!Told(p)' : j <= i) => x2[i].after = x1'[p]
      <4>1. CASE i = k
        <5>1. (\A j \in Auditor!Told(p)' : i <= j) => Auditor!Told(p) = {}
          BY <3>4, <3>5, <3>6, <4>1
        <5> QED BY <2>1, <3>2, <4>1, <5>1 DEF Auditor!ExplainsStock
      <4>2. CASE i \in Auditor!Told(p)
        <5>1. ~(k <= i)
          BY <3>5, <3>6, <4>2
        <5> QED BY <2>1, <3>4, <4>2, <5>1 DEF Auditor!ExplainsStock
      <4> QED BY <3>4, <4>1, <4>2
    <3>8. ASSUME NEW i \in Auditor!Told(p)', NEW j \in Auditor!Told(p)',
                 j < i, ~ \E m \in Auditor!Told(p)' : j < m /\ m < i
          PROVE  x2[i].before = x2[j].after
      <4>1. j \in Auditor!Told(p)
        BY <3>4, <3>5, <3>6, <3>8
      <4>2. CASE i = k
        <5>1. \A m \in Auditor!Told(p) : m <= j
          BY <3>4, <3>5, <3>8, <4>1, <4>2
        <5> QED BY <2>1, <3>2, <4>1, <4>2, <5>1 DEF Auditor!ExplainsStock
      <4>3. CASE i \in Auditor!Told(p)
        BY <2>1, <3>4, <3>8, <4>1, <4>3 DEF Auditor!ExplainsStock
      <4> QED BY <3>4, <4>2, <4>3
    <3> QED BY <1>1, <3>4, <3>7, <3>8 DEF Auditor!ExplainsStock
  <2> QED BY <2>2, <2>3
<1>9. \A i \in DOMAIN x2' : x2'[i].id <= x5'
  BY <1>1 DEF Auditor!IInv
<1> QED BY <1>1, <1>4, <1>6, <1>7, <1>8, <1>9
            DEF Auditor!IInv, Auditor!Sound, Auditor!TrailExplainsStock

\* When it rolls back, its entries never count.
LEMMA AuditRollback ==
  ASSUME Auditor!TrailAssumption, Auditor!IInv, NEW c \in Sessions, Auditor!Rollback(c)
  PROVE  Auditor!IInv'
<1>0. Auditor!TypeOK /\ x5 \in Nat
  BY DEF Auditor!IInv, Auditor!TypeOK
<1>1. /\ x3' = [x3 EXCEPT ![c] = NoChange] /\ c \notin Auditor!InFlight'
      /\ UNCHANGED <<x1, x2, x4, x5, x6>>
  BY <1>0 DEF Auditor!Rollback, Auditor!TypeOK, Auditor!InFlight
<1>2. NoChange \in Auditor!Request \cup {NoChange} /\ x5' \in Nat /\ x5 <= x5'
  BY <1>0, <1>1
<1>3. /\ AuditRest(c)'
      /\ \A d \in Auditor!InFlight' \ {c} : d \in Auditor!InFlight /\ x3'[d] = x3[d]
  BY <1>1, <1>2, OthersAsBefore
<1>4. \A d \in Auditor!InFlight' :
        /\ d \in Auditor!InFlight
        /\ x3'[d] = x3[d]
        /\ Auditor!Locked(d)' = Auditor!Locked(d)
  BY <1>1, <1>3 DEF Auditor!Locked
<1>5. Auditor!RowsExclusive'
  BY <1>4 DEF Auditor!IInv, Auditor!RowsExclusive
<1> QED BY <1>1, <1>3, <1>5 DEF AuditRest, Auditor!IInv, Auditor!Sound

\* A PATCH changes a row that nobody holds.
LEMMA AuditPatch ==
  ASSUME Auditor!TrailAssumption, Auditor!IInv, NEW p \in Shelves, Auditor!PatchStock(p)
  PROVE  Auditor!IInv'
<1>0. Auditor!TypeOK
  BY DEF Auditor!IInv
<1>1. PICK n \in {0, Initial} : x1' = [x1 EXCEPT ![p] = n]
  BY DEF Auditor!PatchStock
<1>2. x6' = x6 \cup {p} /\ UNCHANGED <<x2, x3, x4, x5>>
  BY DEF Auditor!PatchStock
<1>3. Auditor!TypeOK'
  BY <1>0, <1>1, <1>2 DEF Auditor!TypeOK, Auditor!TrailAssumption
<1>4. \A d \in Sessions :
        /\ Auditor!Locked(d)' = Auditor!Locked(d)
        /\ Auditor!Written(d)' = Auditor!Written(d)
        /\ (d \in Auditor!InFlight' <=> d \in Auditor!InFlight)
  BY <1>2 DEF Auditor!Locked, Auditor!Written, Auditor!InFlight
<1>5. Auditor!RowsExclusive'
  BY <1>2, <1>4 DEF Auditor!IInv, Auditor!RowsExclusive, Auditor!InFlight
<1>6. ASSUME NEW d \in Auditor!InFlight'
      PROVE  Auditor!Sound(d)'
  <2>1. /\ d \in Auditor!InFlight
        /\ Auditor!Sound(d)
        /\ p \notin Auditor!Locked(d)
        /\ d \in Sessions
    BY <1>4, <1>6
       DEF Auditor!PatchStock, Auditor!Unlocked, Auditor!IInv, Auditor!Sound,
           Auditor!InFlight
  <2>2. \A q \in Auditor!Locked(d) : x1'[q] = x1[q]
    BY <1>0, <1>1, <2>1 DEF Auditor!TypeOK, Auditor!Locked
  <2>3. Auditor!InOrder(d)'
    BY <1>2, <1>4, <2>1
       DEF Auditor!Sound, Auditor!InOrder, Auditor!IsNext, Auditor!Lines
  <2>4. Auditor!ReadIsCurrent(d)'
    BY <1>2, <1>4, <2>1, <2>2 DEF Auditor!Sound, Auditor!ReadIsCurrent, Auditor!After
  <2>5. Auditor!EntriesAgree(d)'
    BY <1>2, <2>1 DEF Auditor!Sound, Auditor!EntriesAgree
  <2> QED BY <2>3, <2>4, <2>5 DEF Auditor!Sound
<1>7. Auditor!TrailExplainsStock'
  <2>1. \A q \in Shelves \ x6' : q \in Shelves \ x6 /\ x1'[q] = x1[q]
    BY <1>0, <1>1, <1>2 DEF Auditor!TypeOK
  <2>2. \A q \in Shelves : Auditor!Told(q)' = Auditor!Told(q)
    BY <1>2 DEF Auditor!Told
  <2> QED BY <1>2, <2>1, <2>2
              DEF Auditor!IInv, Auditor!TrailExplainsStock, Auditor!ExplainsStock
<1> QED BY <1>2, <1>3, <1>5, <1>6, <1>7 DEF Auditor!IInv, Auditor!Sound

\* The orders in which products are changed are sequences of products.
LEMMA OrdersAreLines ==
  ASSUME Auditor!TrailAssumption, NEW products \in SUBSET Shelves,
         NEW lines \in Auditor!Orders(products)
  PROVE  lines \in Seq(Shelves)
<1>1. IsFiniteSet(products)
  BY FS_Subset, SameCountOfLines DEF Auditor!TrailAssumption
<1>2. Auditor!Cardinality(products) \in Nat
  BY <1>1, FS_CardinalityType, SameCountOfLines
<1>3. lines \in [1 .. Auditor!Cardinality(products) -> products]
  BY DEF Auditor!Orders, Auditor!SetToSeqs
<1> QED BY <1>2, <1>3

\* Every statement of a request keeps it.
LEMMA AuditNext ==
  ASSUME Auditor!TrailAssumption, Auditor!IInv, [Auditor!Next]_(Auditor!vars)
  PROVE  Auditor!IInv'
<1>1. ASSUME NEW c \in Sessions, Auditor!Purchase(c) \/ Auditor!Cancel(c)
      PROVE  Auditor!IInv'
  <2>1. PICK products \in SUBSET Shelves : \E lines \in Auditor!Orders(products) :
          \/ Auditor!Begin(c, "purchase", lines, -1)
          \/ Auditor!Begin(c, "cancel", lines, 1)
    BY <1>1 DEF Auditor!Purchase, Auditor!Cancel
  <2>2. PICK lines \in Auditor!Orders(products) :
          \/ Auditor!Begin(c, "purchase", lines, -1)
          \/ Auditor!Begin(c, "cancel", lines, 1)
    BY <2>1
  <2>3. lines \in Seq(Shelves)
    BY OrdersAreLines
  <2>4. CASE Auditor!Begin(c, "purchase", lines, -1)
    BY <2>3, <2>4, AuditBegin
  <2>5. CASE Auditor!Begin(c, "cancel", lines, 1)
    BY <2>3, <2>5, AuditBegin
  <2> QED BY <2>2, <2>4, <2>5
<1>2. ASSUME NEW c \in Sessions, Auditor!Adjust(c)
      PROVE  Auditor!IInv'
  <2>1. PICK p \in Shelves, delta \in {-1, 0, 1} :
          Auditor!Begin(c, "adjust", <<p>>, delta)
    BY <1>2 DEF Auditor!Adjust
  <2>2. <<p>> \in Seq(Shelves) /\ Len(<<p>>) = 1
    OBVIOUS
  <2> QED BY <2>1, <2>2, AuditBegin
<1>3. CASE UNCHANGED (Auditor!vars)
  <2>1. UNCHANGED <<x1, x2, x3, x4, x5, x6>>
    BY <1>3 DEF Auditor!vars
  <2>2. Auditor!TypeOK' /\ Auditor!RowsExclusive'
    BY <2>1
       DEF Auditor!IInv, Auditor!TypeOK, Auditor!RowsExclusive, Auditor!InFlight,
           Auditor!Locked
  <2>3. \A c \in Auditor!InFlight' : Auditor!Sound(c)'
    <3> SUFFICES ASSUME NEW c \in Auditor!InFlight  PROVE Auditor!Sound(c)'
      BY <2>1 DEF Auditor!InFlight
    <3>1. Auditor!InOrder(c)'
      BY <2>1
         DEF Auditor!IInv, Auditor!Sound, Auditor!InOrder, Auditor!IsNext,
             Auditor!Lines, Auditor!Locked, Auditor!Written
    <3>2. Auditor!ReadIsCurrent(c)' /\ Auditor!EntriesAgree(c)'
      BY <2>1
         DEF Auditor!IInv, Auditor!Sound, Auditor!ReadIsCurrent, Auditor!After,
             Auditor!EntriesAgree, Auditor!Locked, Auditor!Written
    <3> QED BY <3>1, <3>2 DEF Auditor!Sound
  <2>4. Auditor!TrailExplainsStock'
    BY <2>1
       DEF Auditor!IInv, Auditor!TrailExplainsStock, Auditor!ExplainsStock,
           Auditor!Told
  <2> QED BY <2>1, <2>2, <2>3, <2>4 DEF Auditor!IInv, Auditor!Sound
<1> QED
  BY <1>1, <1>2, <1>3, AuditLock, AuditWrite, AuditTell, AuditCommit, AuditRollback, AuditPatch
     DEF Auditor!Next

---------------------------------------
\* Promotions.tla: x1 is whether decimals are read as numbers, x2 the
\* promotions, x3 those approved, x4 to x7 of each checkout where it stands,
\* what it quoted, the line it recorded and how that was allocated.

\* What rounding half up gives, of hundredths of a percent.
LEMMA HalfUpFacts ==
  ASSUME NEW a \in Int
  PROVE  /\ Pricing!HalfUp(a, 10000) \in Int
         /\ Pricing!OffByHalf(10000 * Pricing!HalfUp(a, 10000) - a)
<1> DEFINE q == a \div 10000
           r == a % 10000
<1>1. q \in Int /\ r \in Int /\ 0 =< r /\ r < 10000 /\ a = 10000 * q + r
  OBVIOUS
<1>2. Pricing!HalfUp(a, 10000) = q + (IF 2 * r >= 10000 THEN 1 ELSE 0)
  BY DEF Pricing!HalfUp
<1> HIDE DEF q, r
<1> QED BY <1>1, <1>2 DEF Pricing!OffByHalf

\* What rounding in floating point may give.
LEMMA NearestFacts ==
  ASSUME NEW a \in Int, NEW k \in Pricing!Nearest(a, 10000)
  PROVE  k \in Int /\ Pricing!OffByHalf(10000 * k - a)
<1>1. a \div 10000 \in Int
  OBVIOUS
<1>2. k \in Int
  BY <1>1 DEF Pricing!Nearest
<1> QED BY <1>2 DEF Pricing!Nearest, Pricing!OffByHalf

\* A percentage of an amount, and what is left of it.
LEMMA PartOf ==
  ASSUME NEW c \in Nat, NEW n, Pricing!AtMost(n, 10000)
  PROVE  Pricing!AtMost(c * n, 10000 * c) /\ Pricing!AtMost(c * (10000 - n), 10000 * c)
<1>1. n \in Nat /\ 10000 - n \in Nat
  BY DEF Pricing!AtMost
<1>2. c * n \in Nat /\ c * (10000 - n) \in Nat
  BY <1>1
<1>3. c * (10000 - n) = 10000 * c - c * n
  BY <1>1
<1> QED BY <1>2, <1>3 DEF Pricing!AtMost

\* Prices and quantities are natural numbers.
LEMMA RequestFacts ==
  ASSUME Pricing!PricesAssumption, NEW r \in Pricing!Request
  PROVE  r.price \in Nat /\ r.quantity \in Nat
<1>1. r.price \in Prices /\ r.quantity \in Quantities
  BY DEF Pricing!Request
<1>2. Prices \subseteq Nat /\ Quantities \subseteq Nat
  BY DEF Pricing!PricesAssumption
<1> QED BY <1>1, <1>2

\* A unit price, whoever calculates it, is at most the price and off the exact
\* discount by at most half a cent.
LEMMA UnitsExact ==
  ASSUME Pricing!PricesAssumption, Pricing!TypeOK, NEW r \in Pricing!Request,
         NEW p \in Pricing!Promos \cup {Pricing!NoPromo},
         NEW unit \in Pricing!UnitPrices(r, p)
  PROVE  /\ Pricing!Exact(unit, r.price, Pricing!PercentOf(p))
         /\ Pricing!AtMost(Pricing!PercentOf(p), 10000)
         /\ Pricing!AtMost(Pricing!ShareOf(p), 10000)
         /\ unit \in Nat /\ r.price \in Nat /\ r.quantity \in Nat
<1>1. r.price \in Nat /\ r.quantity \in Nat
  BY RequestFacts
<1>2. /\ Pricing!AtMost(Pricing!PercentOf(p), 10000)
      /\ Pricing!AtMost(Pricing!ShareOf(p), 10000)
  <2>1. CASE p = Pricing!NoPromo
    BY <2>1 DEF Pricing!PercentOf, Pricing!ShareOf, Pricing!AtMost
  <2>2. CASE p # Pricing!NoPromo
    <3>1. x2[p].percent \in Percents \cup {0} /\ x2[p].share \in Shares \cup {0}
      BY <2>2 DEF Pricing!TypeOK, Pricing!Row
    <3> QED BY <2>2, <3>1
                DEF Pricing!PercentOf, Pricing!ShareOf, Pricing!PricesAssumption,
                    Pricing!AtMost
  <2> QED BY <2>1, <2>2
<1> DEFINE n == Pricing!PercentOf(p)
           a == r.price * (10000 - n)
<1>3. Pricing!AtMost(a, 10000 * r.price)
  BY <1>1, <1>2, PartOf
<1>4. unit \in Int /\ Pricing!OffByHalf(10000 * unit - a)
  <2>1. CASE p = Pricing!NoPromo
    <3>1. unit = r.price /\ n = 0
      BY <2>1 DEF Pricing!UnitPrices, Pricing!PercentOf
    <3> QED BY <1>1, <3>1 DEF Pricing!OffByHalf
  <2>2. CASE p # Pricing!NoPromo /\ r.kind = "plain"
    <3>1. unit = Pricing!HalfUp(a, 10000)
      BY <2>2 DEF Pricing!UnitPrices, Pricing!Discounted
    <3> HIDE DEF a
    <3> QED BY <1>3, <3>1, HalfUpFacts DEF Pricing!AtMost
  <2>3. CASE p # Pricing!NoPromo /\ r.kind # "plain"
    <3>1. unit \in Pricing!Nearest(a, 10000)
      BY <2>3 DEF Pricing!UnitPrices, Pricing!FloatDiscounted
    <3> HIDE DEF a
    <3> QED BY <1>3, <3>1, NearestFacts DEF Pricing!AtMost
  <2> QED BY <2>1, <2>2, <2>3
<1>5. Pricing!AtMost(unit, r.price)
  <2> HIDE DEF a
  <2> QED BY <1>1, <1>3, <1>4 DEF Pricing!AtMost, Pricing!OffByHalf
<1>6. Pricing!Exact(unit, r.price, n)
  BY <1>4, <1>5 DEF Pricing!Exact
<1> QED BY <1>1, <1>2, <1>5, <1>6 DEF Pricing!AtMost

\* The vendor's part of a discount is no more than the discount.
LEMMA Funded ==
  ASSUME NEW d \in Nat, NEW n, Pricing!AtMost(n, 10000),
         NEW v \in Pricing!VendorShares(d, n, 100)
  PROVE  Pricing!AtMost(v, d)
<1> DEFINE a == d * n
<1>1. Pricing!AtMost(a, 10000 * d)
  BY PartOf
<1>2. v \in Pricing!Nearest(a, 10000)
  BY DEF Pricing!VendorShares
<1> HIDE DEF a
<1>3. v \in Int /\ Pricing!OffByHalf(10000 * v - a)
  BY <1>1, <1>2, NearestFacts DEF Pricing!AtMost
<1> QED BY <1>1, <1>3 DEF Pricing!AtMost, Pricing!OffByHalf

\* A commission by percentage: taken of the ten-thousands and of the rest, it is no
\* more than the amount and off the exact percentage by at most half a cent.
LEMMA CommissionFacts ==
  ASSUME NEW g \in Nat, NEW bps, Pricing!AtMost(bps, 10000)
  PROVE  /\ Pricing!AtMost(Pricing!Commission(g, bps), g)
         /\ Pricing!OffByHalf(10000 * Pricing!Commission(g, bps) - g * bps)
<1> DEFINE q == g \div 10000
           r == g % 10000
           rest == r * bps
           most == q * bps
           h == Pricing!HalfUp(rest, 10000)
<1>1. q \in Nat /\ r \in Nat /\ g = 10000 * q + r
  OBVIOUS
<1>2. Pricing!Commission(g, bps) = most + h
  BY DEF Pricing!Commission
<1> HIDE DEF q, r
<1>3. Pricing!AtMost(rest, 10000 * r) /\ Pricing!AtMost(most, 10000 * q)
  BY <1>1, PartOf
<1>4. g * bps = 10000 * most + rest
  BY <1>1 DEF Pricing!AtMost
<1> HIDE DEF rest, most
<1>5. h \in Int /\ Pricing!OffByHalf(10000 * h - rest)
  BY <1>3, HalfUpFacts DEF Pricing!AtMost
<1> HIDE DEF h
<1>6. Pricing!AtMost(h, r)
  BY <1>1, <1>3, <1>5 DEF Pricing!AtMost, Pricing!OffByHalf
<1>7. Pricing!AtMost(most + h, g)
  BY <1>1, <1>3, <1>6 DEF Pricing!AtMost
<1>8. Pricing!OffByHalf(10000 * (most + h) - (10000 * most + rest))
  BY <1>3, <1>5, <1>6 DEF Pricing!AtMost, Pricing!OffByHalf
<1> QED BY <1>2, <1>4, <1>7, <1>8

\* How an allocation divides an amount.
LEMMA AllocationFacts ==
  ASSUME NEW g \in Nat, NEW p, Pricing!ValidPolicy(p)
  PROVE  /\ Pricing!AtMost(Pricing!CommissionOf(p, g), g)
         /\ Pricing!AtMost(Pricing!Payable(p, g), g)
         /\ p.model = "PERCENTAGE" =>
              Pricing!OffByHalf(10000 * Pricing!CommissionOf(p, g) - g * p.rate)
         /\ Pricing!Payable(p, g) > 0 => Pricing!PlatformNet(p, g) = Pricing!CommissionOf(p, g)
<1>1. p.rate \in Nat /\ p.fee \in Nat
  BY DEF Pricing!ValidPolicy, Pricing!Policy
<1>2. ASSUME p.model = "PERCENTAGE"
      PROVE  /\ Pricing!CommissionOf(p, g) = Pricing!Commission(g, p.rate)
             /\ Pricing!AtMost(Pricing!Commission(g, p.rate), g)
             /\ Pricing!OffByHalf(10000 * Pricing!Commission(g, p.rate) - g * p.rate)
  <2>1. Pricing!AtMost(p.rate, 10000)
    BY <1>1, <1>2 DEF Pricing!ValidPolicy, Pricing!AtMost
  <2>2. /\ Pricing!AtMost(Pricing!Commission(g, p.rate), g)
        /\ Pricing!OffByHalf(10000 * Pricing!Commission(g, p.rate) - g * p.rate)
    BY <2>1, CommissionFacts
  <2>3. Pricing!CommissionOf(p, g) = Pricing!Commission(g, p.rate)
    BY <1>2, <2>2 DEF Pricing!CommissionOf, Pricing!AtMost
  <2> QED BY <2>2, <2>3
<1>3. ASSUME p.model # "PERCENTAGE"
      PROVE  Pricing!AtMost(Pricing!CommissionOf(p, g), g)
  BY <1>1, <1>3 DEF Pricing!CommissionOf, Pricing!AtMost
<1>4. Pricing!AtMost(Pricing!CommissionOf(p, g), g)
  BY <1>2, <1>3
<1>5. /\ Pricing!AtMost(Pricing!Payable(p, g), g)
      /\ Pricing!Payable(p, g) > 0 => Pricing!PlatformNet(p, g) = Pricing!CommissionOf(p, g)
  BY <1>1, <1>4 DEF Pricing!Payable, Pricing!PlatformNet, Pricing!AtMost
<1> QED BY <1>2, <1>4, <1>5

\* Nothing is priced.
LEMMA PricingInit ==
  ASSUME Pricing!PricesAssumption, Pricing!Init
  PROVE  Pricing!IInv
<1> USE DEF Pricing!Init
<1>1. Pricing!TypeOK
  BY DEF Pricing!TypeOK, Pricing!Row, Pricing!NoPromotion
<1>2. Pricing!ApprovalsKept
  BY DEF Pricing!ApprovalsKept, Pricing!NoPromotion
<1> QED BY <1>1, <1>2 DEF Pricing!IInv

\* The promotions' own operations.
LEMMA PricingPromos ==
  ASSUME Pricing!PricesAssumption, Pricing!IInv, NEW p \in Pricing!Promos,
         NEW row \in Pricing!Row,
         x2' = [x2 EXCEPT ![p] = row],
         x3 \subseteq x3', x3' \subseteq Pricing!Promos,
         row.state = "APPROVED" => p \in x3',
         UNCHANGED <<x1, Pricing!checkouts>>
  PROVE  Pricing!IInv'
<1>0. Pricing!TypeOK /\ UNCHANGED <<x4, x5, x6, x7>>
  BY DEF Pricing!IInv, Pricing!checkouts
<1>1. Pricing!TypeOK'
  BY <1>0 DEF Pricing!TypeOK
<1>2. Pricing!ApprovalsKept'
  BY <1>0 DEF Pricing!IInv, Pricing!ApprovalsKept, Pricing!TypeOK
<1>3. ASSUME NEW c \in Checkouts
      PROVE  /\ x4'[c] \in {"priced", "placed"} => Pricing!Quoted(x5[c])'
             /\ x4'[c] = "placed" => Pricing!Recorded(x5[c], x6[c])'
             /\ x7'[c] # Pricing!NoAllocation => Pricing!Divided(x7[c])'
  <2>1. x4'[c] \in {"priced", "placed"} => Pricing!Quoted(x5[c])'
    BY <1>0 DEF Pricing!IInv, Pricing!Quoted, Pricing!Exact, Pricing!Request
  <2>2. x4'[c] = "placed" => Pricing!Recorded(x5[c], x6[c])'
    BY <1>0 DEF Pricing!IInv, Pricing!Recorded, Pricing!Discount
  <2>3. x7'[c] # Pricing!NoAllocation => Pricing!Divided(x7[c])'
    BY <1>0 DEF Pricing!IInv, Pricing!Divided
  <2> QED BY <2>1, <2>2, <2>3
<1> QED BY <1>1, <1>2, <1>3 DEF Pricing!IInv

\* A step of one checkout.
LEMMA PricingOne ==
  ASSUME Pricing!IInv, NEW c \in Checkouts, Pricing!TypeOK',
         UNCHANGED <<x2, x3>>,
         \A d \in Checkouts \ {c} :
           x4'[d] = x4[d] /\ x5'[d] = x5[d] /\ x6'[d] = x6[d]
             /\ x7'[d] = x7[d],
         x4'[c] \in {"priced", "placed"} => Pricing!Quoted(x5'[c]),
         x4'[c] = "placed" => Pricing!Recorded(x5'[c], x6'[c]),
         x7'[c] # Pricing!NoAllocation => Pricing!Divided(x7'[c])
  PROVE  Pricing!IInv'
<1>1. Pricing!ApprovalsKept'
  BY DEF Pricing!IInv, Pricing!ApprovalsKept
<1>2. ASSUME NEW d \in Checkouts
      PROVE  /\ x4'[d] \in {"priced", "placed"} => Pricing!Quoted(x5[d])'
             /\ x4'[d] = "placed" => Pricing!Recorded(x5[d], x6[d])'
             /\ x7'[d] # Pricing!NoAllocation => Pricing!Divided(x7[d])'
  <2>1. x4'[d] \in {"priced", "placed"} => Pricing!Quoted(x5[d])'
    BY DEF Pricing!IInv, Pricing!Quoted, Pricing!Exact, Pricing!Request
  <2>2. x4'[d] = "placed" => Pricing!Recorded(x5[d], x6[d])'
    BY DEF Pricing!IInv, Pricing!Recorded, Pricing!Discount
  <2>3. x7'[d] # Pricing!NoAllocation => Pricing!Divided(x7[d])'
    BY DEF Pricing!IInv, Pricing!Divided
  <2> QED BY <2>1, <2>2, <2>3
<1> QED BY <1>1, <1>2 DEF Pricing!IInv

\* A checkout that reads the promotions.
LEMMA PricingPrice ==
  ASSUME Pricing!PricesAssumption, Pricing!IInv, NEW c \in Checkouts,
         NEW r \in Pricing!Request, Pricing!Price(c, r)
  PROVE  Pricing!IInv'
<1>0. Pricing!TypeOK
  BY DEF Pricing!IInv
<1>1. PICK p \in Pricing!Promos \cup {Pricing!NoPromo} :
        /\ Pricing!Chosen(r.kind, p)
        /\ \E unit \in Pricing!UnitPrices(r, p) : x5' = [x5 EXCEPT ![c] =
             [promo |-> p, request |-> r, percent |-> Pricing!PercentOf(p),
              share |-> Pricing!ShareOf(p), unit |-> unit, amount |-> unit * r.quantity]]
  BY DEF Pricing!Price
<1>2. PICK unit \in Pricing!UnitPrices(r, p) : x5' = [x5 EXCEPT ![c] =
             [promo |-> p, request |-> r, percent |-> Pricing!PercentOf(p),
              share |-> Pricing!ShareOf(p), unit |-> unit, amount |-> unit * r.quantity]]
  BY <1>1
<1>3. /\ x4' = [x4 EXCEPT ![c] = "priced"]
      /\ UNCHANGED <<x2, x3, x6, x7>>
      /\ x4[c] = "new"
  BY DEF Pricing!Price
<1>4. Pricing!TypeOK'
  BY <1>0, <1>2, <1>3 DEF Pricing!TypeOK
<1> DEFINE q == [promo |-> p, request |-> r, percent |-> Pricing!PercentOf(p),
                 share |-> Pricing!ShareOf(p), unit |-> unit, amount |-> unit * r.quantity]
<1>5. x5'[c] = q /\ x4'[c] = "priced"
  BY <1>0, <1>2, <1>3 DEF Pricing!TypeOK
<1>6. /\ Pricing!Exact(unit, r.price, Pricing!PercentOf(p))
      /\ Pricing!AtMost(Pricing!PercentOf(p), 10000)
      /\ Pricing!AtMost(Pricing!ShareOf(p), 10000)
  BY <1>0, UnitsExact
<1>7. r.kind = "plain" /\ p # Pricing!NoPromo => p \in x3
  BY <1>1 DEF Pricing!IInv, Pricing!ApprovalsKept, Pricing!Chosen, Pricing!Applicable
<1>8. Pricing!Quoted(q)
  BY <1>6, <1>7 DEF Pricing!Quoted
<1> HIDE DEF q
<1>9. \A d \in Checkouts \ {c} : x4'[d] = x4[d] /\ x5'[d] = x5[d]
  BY <1>0, <1>2, <1>3 DEF Pricing!TypeOK
<1>10. x7[c] # Pricing!NoAllocation => Pricing!Divided(x7[c])
  BY DEF Pricing!IInv
<1> QED BY <1>3, <1>4, <1>5, <1>8, <1>9, <1>10, PricingOne

\* A quote and its discount add up to the price.
LEMMA QuotedFacts ==
  ASSUME Pricing!PricesAssumption, NEW q, Pricing!Quoted(q)
  PROVE  /\ q.request.price \in Nat /\ q.request.quantity \in Nat
         /\ q.unit \in Nat /\ q.unit =< q.request.price
         /\ q.amount \in Nat /\ Pricing!Discount(q) \in Nat
         /\ q.amount + Pricing!Discount(q) = q.request.price * q.request.quantity
         /\ Pricing!AtMost(q.share, 10000)
<1>1. /\ q.request.price \in Nat /\ q.request.quantity \in Nat
      /\ q.unit \in Nat /\ q.unit =< q.request.price
  BY RequestFacts DEF Pricing!Quoted, Pricing!Exact, Pricing!AtMost
<1> DEFINE a == q.request.price
           n == q.request.quantity
           u == q.unit
<1>2. /\ u * n \in Nat /\ (a - u) * n \in Nat
      /\ (a - u) * n = a * n - u * n /\ a * n \in Nat
  BY <1>1
<1>3. Pricing!Discount(q) = a * n - u * n
  BY DEF Pricing!Discount
<1>4. q.amount = u * n /\ Pricing!AtMost(q.share, 10000)
  BY DEF Pricing!Quoted
<1> QED BY <1>1, <1>2, <1>3, <1>4

\* A plain checkout that places its order.
LEMMA PricingPlain ==
  ASSUME Pricing!PricesAssumption, Pricing!IInv, NEW c \in Checkouts,
         Pricing!PlacePlain(c)
  PROVE  Pricing!IInv'
<1> DEFINE q == x5[c]
<1>0. Pricing!TypeOK /\ Pricing!Quoted(q) /\ q.request.kind = "plain"
  BY DEF Pricing!IInv, Pricing!PlacePlain
<1>1. PICK v \in Pricing!VendorShares(Pricing!Discount(q), q.share, 100) :
        x6' = [x6 EXCEPT ![c] =
           [promo |-> q.promo, unit |-> q.unit, total |-> q.amount,
            vendor |-> v, marketplace |-> Pricing!Discount(q) - v]]
  BY DEF Pricing!PlacePlain
<1>2. /\ x4' = [x4 EXCEPT ![c] = "placed"]
      /\ UNCHANGED <<x2, x3, x5, x7>>
  BY DEF Pricing!PlacePlain
<1>3. Pricing!TypeOK'
  BY <1>0, <1>1, <1>2 DEF Pricing!TypeOK
<1> DEFINE l == [promo |-> q.promo, unit |-> q.unit, total |-> q.amount,
                 vendor |-> v, marketplace |-> Pricing!Discount(q) - v]
<1>4. x6'[c] = l /\ x4'[c] = "placed"
  BY <1>0, <1>1, <1>2 DEF Pricing!TypeOK
<1>5. Pricing!AtMost(v, Pricing!Discount(q)) /\ q.amount \in Nat
  BY <1>0, QuotedFacts, Funded
<1>6. Pricing!Recorded(q, l)
  BY <1>5 DEF Pricing!Recorded
<1> HIDE DEF l
<1>7. \A d \in Checkouts \ {c} : x4'[d] = x4[d] /\ x6'[d] = x6[d]
  BY <1>0, <1>1, <1>2 DEF Pricing!TypeOK
<1>8. x7[c] # Pricing!NoAllocation => Pricing!Divided(x7[c])
  BY DEF Pricing!IInv
<1> QED BY <1>0, <1>2, <1>3, <1>4, <1>6, <1>7, <1>8, PricingOne

\* An initiation that places its order.
LEMMA PricingRazorpay ==
  ASSUME Pricing!PricesAssumption, Pricing!IInv, NEW c \in Checkouts,
         Pricing!PlaceRazorpay(c)
  PROVE  Pricing!IInv'
<1> DEFINE q == x5[c]
<1>0. /\ Pricing!TypeOK /\ Pricing!Quoted(q) /\ q.request.kind = "razorpay"
      /\ q.request \in Pricing!Request
  BY DEF Pricing!IInv, Pricing!PlaceRazorpay, Pricing!Quoted
<1>1. PICK p \in Pricing!Promos \cup {Pricing!NoPromo} :
        \E unit \in Pricing!UnitPrices(q.request, p) :
          x6' = [x6 EXCEPT ![c] =
            [promo |-> p, unit |-> unit, total |-> unit * q.request.quantity,
             vendor |-> 0, marketplace |-> 0]]
  BY DEF Pricing!PlaceRazorpay
<1>2. PICK unit \in Pricing!UnitPrices(q.request, p) :
        x6' = [x6 EXCEPT ![c] =
            [promo |-> p, unit |-> unit, total |-> unit * q.request.quantity,
             vendor |-> 0, marketplace |-> 0]]
  BY <1>1
<1>3. /\ x4' = [x4 EXCEPT ![c] = "placed"]
      /\ UNCHANGED <<x2, x3, x5, x7>>
  BY DEF Pricing!PlaceRazorpay
<1>4. Pricing!TypeOK'
  BY <1>0, <1>2, <1>3 DEF Pricing!TypeOK
<1> DEFINE l == [promo |-> p, unit |-> unit, total |-> unit * q.request.quantity,
                 vendor |-> 0, marketplace |-> 0]
<1>5. x6'[c] = l /\ x4'[c] = "placed"
  BY <1>0, <1>2, <1>3 DEF Pricing!TypeOK
<1>6. unit \in Nat /\ q.request.quantity \in Nat
  BY <1>0, UnitsExact
<1>7. unit * q.request.quantity \in Nat
  BY <1>6
<1>8. Pricing!Recorded(q, l)
  BY <1>0, <1>7 DEF Pricing!Recorded
<1> HIDE DEF l
<1>9. \A d \in Checkouts \ {c} : x4'[d] = x4[d] /\ x6'[d] = x6[d]
  BY <1>0, <1>2, <1>3 DEF Pricing!TypeOK
<1>10. x7[c] # Pricing!NoAllocation => Pricing!Divided(x7[c])
  BY DEF Pricing!IInv
<1> QED BY <1>0, <1>3, <1>4, <1>5, <1>8, <1>9, <1>10, PricingOne

\* The allocation of a line.
LEMMA PricingAllocate ==
  ASSUME Pricing!PricesAssumption, Pricing!IInv, NEW c \in Checkouts, NEW policy,
         Pricing!Allocate(c, policy)
  PROVE  Pricing!IInv'
<1> DEFINE gross == x6[c].total
           a == [policy |-> policy, gross |-> gross,
                 commission |-> Pricing!CommissionOf(policy, gross),
                 payable |-> Pricing!Payable(policy, gross),
                 net |-> Pricing!PlatformNet(policy, gross)]
<1>0. Pricing!TypeOK /\ x4[c] = "placed" /\ gross \in Nat /\ Pricing!ValidPolicy(policy)
  BY DEF Pricing!IInv, Pricing!Allocate, Pricing!Recorded
<1>1. /\ x7' = [x7 EXCEPT ![c] = a]
      /\ UNCHANGED <<x2, x3, x4, x5, x6>>
  BY DEF Pricing!Allocate
<1>2. Pricing!TypeOK' /\ x7'[c] = a
  BY <1>0, <1>1 DEF Pricing!TypeOK
<1>3. Pricing!Divided(a)
  BY <1>0, AllocationFacts DEF Pricing!Divided
<1> HIDE DEF a
<1>4. \A d \in Checkouts \ {c} : x7'[d] = x7[d]
  BY <1>0, <1>1 DEF Pricing!TypeOK
<1>5. Pricing!Quoted(x5[c]) /\ Pricing!Recorded(x5[c], x6[c])
  BY <1>0 DEF Pricing!IInv
<1> QED BY <1>1, <1>2, <1>3, <1>4, <1>5, PricingOne

\* A checkout that fails.
LEMMA PricingRefuse ==
  ASSUME Pricing!IInv, NEW c \in Checkouts, Pricing!Refuse(c)
  PROVE  Pricing!IInv'
<1>0. Pricing!TypeOK
  BY DEF Pricing!IInv
<1>1. /\ x4' = [x4 EXCEPT ![c] = "refused"]
      /\ UNCHANGED <<x2, x3, x5, x6, x7>>
  BY DEF Pricing!Refuse
<1>2. Pricing!TypeOK' /\ x4'[c] = "refused" /\ \A d \in Checkouts \ {c} : x4'[d] = x4[d]
  BY <1>0, <1>1 DEF Pricing!TypeOK
<1>3. x7[c] # Pricing!NoAllocation => Pricing!Divided(x7[c])
  BY DEF Pricing!IInv
<1> QED BY <1>1, <1>2, <1>3, PricingOne

\* Every operation on promotions and every statement of a checkout keep it.
LEMMA PricingNext ==
  ASSUME Pricing!PricesAssumption, Pricing!IInv, [Pricing!Next]_(Pricing!vars)
  PROVE  Pricing!IInv'
<1>0. Pricing!TypeOK /\ Pricing!ApprovalsKept
  BY DEF Pricing!IInv
<1>1. ASSUME NEW p \in Pricing!Promos, NEW percent \in Percents, NEW share \in Shares,
             Pricing!Create(p, percent, share)
      PROVE  Pricing!IInv'
  <2> DEFINE row == [percent |-> percent, share |-> share, live |-> TRUE,
                     state |-> "PENDING"]
  <2>1. row \in Pricing!Row /\ row.state # "APPROVED"
    BY DEF Pricing!Row
  <2>2. /\ x2' = [x2 EXCEPT ![p] = row]
        /\ x3' = x3 /\ UNCHANGED <<x1, Pricing!checkouts>>
    BY <1>1 DEF Pricing!Create
  <2> HIDE DEF row
  <2>3. x3 \subseteq Pricing!Promos
    BY <1>0 DEF Pricing!TypeOK
  <2> QED BY <2>1, <2>2, <2>3, PricingPromos
<1>2. ASSUME NEW p \in Pricing!Promos, NEW percent \in Percents, NEW live \in BOOLEAN,
             Pricing!Update(p, percent, live)
      PROVE  Pricing!IInv'
  <2> DEFINE row == [x2[p] EXCEPT !.percent = percent, !.live = live]
  <2>1. row \in Pricing!Row /\ row.state = x2[p].state /\ x2[p] \in Pricing!Row
    BY <1>0 DEF Pricing!TypeOK, Pricing!Row
  <2>2. /\ x2' = [x2 EXCEPT ![p] = row]
        /\ x3' = x3 /\ UNCHANGED <<x1, Pricing!checkouts>>
    BY <1>2 DEF Pricing!Update
  <2> HIDE DEF row
  <2>3. x3 \subseteq Pricing!Promos
    BY <1>0 DEF Pricing!TypeOK
  <2>4. row.state = "APPROVED" => p \in x3'
    BY <1>0, <2>1, <2>2 DEF Pricing!ApprovalsKept
  <2> QED BY <2>1, <2>2, <2>3, <2>4, PricingPromos
<1>3. ASSUME NEW p \in Pricing!Promos, Pricing!Remove(p)
      PROVE  Pricing!IInv'
  <2> DEFINE row == [Pricing!NoPromotion EXCEPT !.state = "DELETED"]
  <2>1. row \in Pricing!Row /\ row.state # "APPROVED"
    BY DEF Pricing!Row, Pricing!NoPromotion
  <2>2. /\ x2' = [x2 EXCEPT ![p] = row]
        /\ x3' = x3 /\ UNCHANGED <<x1, Pricing!checkouts>>
    BY <1>3 DEF Pricing!Remove
  <2> HIDE DEF row
  <2>3. x3 \subseteq Pricing!Promos
    BY <1>0 DEF Pricing!TypeOK
  <2> QED BY <2>1, <2>2, <2>3, PricingPromos
<1>4. ASSUME NEW p \in Pricing!Promos, NEW decision \in {"APPROVED", "REJECTED"},
             Pricing!Decide(p, decision)
      PROVE  Pricing!IInv'
  <2> DEFINE row == [x2[p] EXCEPT !.state = decision]
  <2>1. row \in Pricing!Row /\ row.state = decision
    BY <1>0 DEF Pricing!TypeOK, Pricing!Row
  <2>2. /\ x2' = [x2 EXCEPT ![p] = row]
        /\ x3' = IF decision = "APPROVED" THEN x3 \cup {p} ELSE x3
        /\ UNCHANGED <<x1, Pricing!checkouts>>
    BY <1>4 DEF Pricing!Decide
  <2> HIDE DEF row
  <2>3. x3' \subseteq Pricing!Promos /\ x3 \subseteq x3'
    BY <1>0, <2>2 DEF Pricing!TypeOK
  <2> QED BY <2>1, <2>2, <2>3, PricingPromos
<1>5. CASE UNCHANGED (Pricing!vars)
  <2>1. UNCHANGED <<x2, x3, x4, x5, x6, x7>>
    BY <1>5 DEF Pricing!vars
  <2>2. Pricing!TypeOK' /\ Pricing!ApprovalsKept'
    BY <1>0, <2>1 DEF Pricing!TypeOK, Pricing!ApprovalsKept
  <2>3. ASSUME NEW c \in Checkouts
        PROVE  /\ x4'[c] \in {"priced", "placed"} => Pricing!Quoted(x5[c])'
               /\ x4'[c] = "placed" => Pricing!Recorded(x5[c], x6[c])'
               /\ x7'[c] # Pricing!NoAllocation => Pricing!Divided(x7[c])'
    BY <2>1
       DEF Pricing!IInv, Pricing!Quoted, Pricing!Recorded, Pricing!Divided,
           Pricing!Exact, Pricing!Discount
  <2> QED BY <2>2, <2>3 DEF Pricing!IInv
<1>6. ASSUME NEW c \in Checkouts, Pricing!RefusePlain(c) \/ Pricing!Fail(c)
      PROVE  Pricing!IInv'
  BY <1>6, PricingRefuse DEF Pricing!RefusePlain, Pricing!Fail
<1> QED BY <1>1, <1>2, <1>3, <1>4, <1>5, <1>6,
            PricingPrice, PricingPlain, PricingRazorpay, PricingAllocate
               DEF Pricing!Next

\* So the amounts add up.
LEMMA PricingSafe ==
  ASSUME Pricing!PricesAssumption, Pricing!IInv
  PROVE  Pricing!PlainOrderAddsUp /\ Pricing!PricedToTheCent /\ Pricing!AllocationAddsUp
<1>1. Pricing!PlainOrderAddsUp
  <2> SUFFICES ASSUME NEW c \in Checkouts, Pricing!Placed(c, "plain")
               PROVE  /\ x6[c].promo # Pricing!NoPromo => x6[c].promo \in x3
                      /\ x6[c].total = x5[c].amount
                      /\ x6[c].vendor >= 0 /\ x6[c].marketplace >= 0
                      /\ x6[c].total + x6[c].vendor + x6[c].marketplace =
                           x5[c].request.price * x5[c].request.quantity
    BY DEF Pricing!PlainOrderAddsUp
  <2>1. /\ Pricing!Quoted(x5[c]) /\ Pricing!Recorded(x5[c], x6[c])
        /\ x5[c].request.kind = "plain"
    BY DEF Pricing!IInv, Pricing!Placed
  <2>2. x6[c].promo # Pricing!NoPromo => x6[c].promo \in x3
    BY <2>1 DEF Pricing!Quoted, Pricing!Recorded
  <2>3. /\ x6[c].total = x5[c].amount
        /\ Pricing!AtMost(x6[c].vendor, Pricing!Discount(x5[c]))
        /\ x6[c].marketplace = Pricing!Discount(x5[c]) - x6[c].vendor
    BY <2>1 DEF Pricing!Recorded
  <2>4. /\ x5[c].amount \in Nat /\ Pricing!Discount(x5[c]) \in Nat
        /\ x5[c].amount + Pricing!Discount(x5[c]) =
             x5[c].request.price * x5[c].request.quantity
    BY <2>1, QuotedFacts
  <2> QED BY <2>2, <2>3, <2>4 DEF Pricing!AtMost
<1>2. Pricing!PricedToTheCent
  <2> SUFFICES ASSUME NEW c \in Checkouts, x4[c] \in {"priced", "placed"}
               PROVE  Pricing!OffByHalf(10000 * x5[c].unit
                                - x5[c].request.price * (10000 - x5[c].percent))
    BY DEF Pricing!PricedToTheCent, Pricing!OffByHalf
  <2> QED BY DEF Pricing!IInv, Pricing!Quoted, Pricing!Exact
<1>3. Pricing!AllocationAddsUp
  <2> SUFFICES ASSUME NEW c \in Checkouts, x7[c] # Pricing!NoAllocation
               PROVE  LET a == x7[c]
                          p == a.policy IN
                      /\ 0 =< a.payable /\ a.payable =< a.gross
                      /\ 0 =< a.commission /\ a.commission =< a.gross
                      /\ p.model = "PERCENTAGE" =>
                           /\ 2 * (10000 * a.commission - a.gross * p.rate) =< 10000
                           /\ 2 * (10000 * a.commission - a.gross * p.rate) >= -10000
                      /\ a.payable > 0 => a.net = a.commission
    BY DEF Pricing!AllocationAddsUp
  <2>1. Pricing!Divided(x7[c])
    BY DEF Pricing!IInv
  <2> QED BY <2>1 DEF Pricing!Divided, Pricing!AtMost, Pricing!OffByHalf
<1> QED BY <1>1, <1>2, <1>3

---------------------------------------
\* Listing.tla: x1 is the rows of the products, x2 the URL, x3 the answer, x4
\* the pages collected, x5 how many edits there were meanwhile.

\* The instance counts as the standard module does.
LEMMA SameCountOfGoods ==
  ASSUME NEW S
  PROVE  /\ Reader!IsFiniteSet(S) <=> IsFiniteSet(S)
         /\ Reader!Cardinality(S) = Cardinality(S)
BY DEF Reader!IsFiniteSet, IsFiniteSet, Reader!Cardinality, Cardinality

\* The page that holds a place of the list, and how many pages there are.
LEMMA PageFacts ==
  ASSUME Reader!ListingAssumption, NEW n \in Nat, NEW p \in Nat \ {0}
  PROVE  /\ Reader!Pages(n) \in Nat
         /\ Reader!Skipped(p) \in Nat
         /\ p <= Reader!Pages(n) <=> Reader!Skipped(p) < n
         /\ \A q \in Nat \ {0} :
              p < q => Reader!Skipped(p) + PageSize <= Reader!Skipped(q)
<1> DEFINE s == PageSize
           d == (n + s - 1) \div s
<1>1. s \in Nat /\ s > 0
  BY DEF Reader!ListingAssumption
<1>2. Reader!Skipped(p) = (p - 1) * s /\ Reader!Pages(n) = d
  BY DEF Reader!Skipped, Reader!Pages
<1>3. d \in Nat /\ d * s <= n + s - 1 /\ n + s - 1 < d * s + s
  BY <1>1
<1> HIDE DEF d, s
<1>4. (p - 1) * s \in Nat /\ p * s = (p - 1) * s + s
  BY <1>1
<1>5. ASSUME p <= d  PROVE (p - 1) * s < n
  <2>1. p * s <= d * s
    BY <1>1, <1>3, <1>5
  <2>2. d * s \in Nat
    BY <1>1, <1>3
  <2> QED BY <1>1, <1>3, <1>4, <2>1, <2>2
<1>6. ASSUME ~(p <= d)  PROVE ~((p - 1) * s < n)
  <2>1. d <= p - 1
    BY <1>3, <1>6
  <2>2. d * s <= (p - 1) * s
    BY <1>1, <1>3, <2>1
  <2>3. d * s \in Nat
    BY <1>1, <1>3
  <2> QED BY <1>1, <1>3, <1>4, <2>2, <2>3
<1>7. ASSUME NEW q \in Nat \ {0}, p < q
      PROVE  (p - 1) * s + s <= (q - 1) * s
  <2>1. p <= q - 1
    BY <1>7
  <2>2. p * s <= (q - 1) * s
    BY <1>1, <2>1
  <2> QED BY <1>4, <2>2
<1>8. \A q \in Nat \ {0} : Reader!Skipped(q) = (q - 1) * s
  BY DEF Reader!Skipped, s
<1> QED BY <1>1, <1>2, <1>3, <1>4, <1>5, <1>6, <1>7, <1>8 DEF s

\* The places that a page shows.
On(p, place) == Reader!Skipped(p) <= place /\ place < Reader!Skipped(p) + PageSize

\* Each place is on a page.
LEMMA PlaceOnPage ==
  ASSUME Reader!ListingAssumption, NEW r \in Nat
  PROVE  \E p \in Nat \ {0} : On(p, r)
<1> DEFINE s == PageSize
           d == r \div s
<1>1. s \in Nat /\ s > 0
  BY DEF Reader!ListingAssumption
<1>2. d \in Nat /\ d * s <= r /\ r < d * s + s
  BY <1>1
<1> HIDE DEF d
<1>3. Reader!Skipped(d + 1) = d * s
  BY <1>1, <1>2 DEF Reader!Skipped
<1> HIDE DEF s
<1>4. d + 1 \in Nat \ {0}
  BY <1>2
<1> QED BY <1>2, <1>3, <1>4 DEF s, On

\* The order of a list is total.
LEMMA OrderFacts ==
  ASSUME Reader!ListingAssumption, Reader!TypeOK, NEW sort
  PROVE  /\ \A g \in Goods : ~Reader!Before(g, g, sort)
         /\ \A g, h, k \in Goods :
              Reader!Before(g, h, sort) /\ Reader!Before(h, k, sort) =>
                Reader!Before(g, k, sort)
         /\ \A g, h \in Goods :
              g # h => Reader!Before(g, h, sort) \/ Reader!Before(h, g, sort)
<1>1. \A g \in Goods : Reader!Key(g, sort) \in Int
  <2> TAKE g \in Goods
  <2>1. g \in Int /\ x1[g].price \in Int
    BY DEF Reader!ListingAssumption, Reader!TypeOK
  <2> QED BY <2>1 DEF Reader!Key
<1>2. Goods \subseteq Int
  BY DEF Reader!ListingAssumption
<1> QED BY <1>1, <1>2 DEF Reader!Before

\* The products of a list that come before another.
Ahead(M, g, sort) == {h \in M : Reader!Before(h, g, sort)}
Place(M, g, sort) == Reader!Cardinality(Ahead(M, g, sort))

\* The places of a list: as many as it has products, each taken once.
LEMMA RankFacts ==
  ASSUME Reader!ListingAssumption, Reader!TypeOK, NEW M \in SUBSET Goods, NEW sort
  PROVE  /\ Reader!IsFiniteSet(M) /\ Reader!Cardinality(M) \in Nat
         /\ \A g \in M : /\ Place(M, g, sort) \in Nat
                         /\ Place(M, g, sort) < Reader!Cardinality(M)
         /\ \A g, h \in M : Reader!Before(g, h, sort) =>
              Place(M, g, sort) < Place(M, h, sort)
         /\ \A r \in Nat : r < Reader!Cardinality(M) =>
              \E g \in M : Place(M, g, sort) = r
<1> DEFINE n == Reader!Cardinality(M)
           Rank(g) == Place(M, g, sort)
<1>1. Reader!IsFiniteSet(M) /\ n \in Nat
  <2>1. Reader!IsFiniteSet(Goods)
    BY DEF Reader!ListingAssumption
  <2>2. Reader!IsFiniteSet(M)
    BY <2>1, SameCountOfGoods, FS_Subset
  <2> QED BY <2>2, SameCountOfGoods, FS_CardinalityType
<1>2. ASSUME NEW S \in SUBSET M  PROVE Reader!IsFiniteSet(S) /\ Reader!Cardinality(S) \in Nat
  BY <1>1, SameCountOfGoods, FS_Subset, FS_CardinalityType
<1>3. ASSUME NEW g \in M  PROVE Rank(g) \in Nat /\ Rank(g) < n
  <2>1. Ahead(M, g, sort) \in SUBSET (M \ {g})
    BY OrderFacts, <1>3 DEF Ahead
  <2>2. Reader!IsFiniteSet(M \ {g}) /\ Reader!Cardinality(M \ {g}) = n - 1
    BY <1>1, SameCountOfGoods, FS_RemoveElement
  <2>3. Rank(g) <= Reader!Cardinality(M \ {g})
    BY <2>1, <2>2, SameCountOfGoods, FS_Subset DEF Place
  <2>4. Rank(g) \in Nat
    BY <1>2 DEF Ahead, Place
  <2> QED BY <1>1, <2>2, <2>3, <2>4
<1>4. ASSUME NEW g \in M, NEW h \in M, Reader!Before(g, h, sort)
      PROVE  Rank(g) < Rank(h)
  <2>1. g \notin Ahead(M, g, sort)
    BY OrderFacts DEF Ahead
  <2>2. Ahead(M, g, sort) \cup {g} \in SUBSET Ahead(M, h, sort)
    BY OrderFacts, <1>4 DEF Ahead
  <2>3. Reader!IsFiniteSet(Ahead(M, g, sort)) /\ Reader!IsFiniteSet(Ahead(M, h, sort))
    BY <1>2 DEF Ahead
  <2>4. Reader!Cardinality(Ahead(M, g, sort) \cup {g}) = Rank(g) + 1
    BY <2>1, <2>3, SameCountOfGoods, FS_AddElement DEF Place
  <2>5. Reader!Cardinality(Ahead(M, g, sort) \cup {g}) <= Rank(h)
    BY <2>2, <2>3, SameCountOfGoods, FS_Subset DEF Place
  <2>6. Rank(g) \in Nat /\ Rank(h) \in Nat
    BY <1>3
  <2> QED BY <2>4, <2>5, <2>6
<1> HIDE DEF Rank, n
<1>5. ASSUME NEW r \in Nat, r < n  PROVE \E g \in M : Rank(g) = r
  <2> DEFINE T == 0 .. (n - 1)
             f == [g \in M |-> Rank(g)]
  <2>1. f \in [M -> T]
    BY <1>1, <1>3
  <2>2. ASSUME NEW g \in M, NEW h \in M, f[g] = f[h]  PROVE g = h
    <3>1. Rank(g) = Rank(h)
      BY <2>2
    <3>2. SUFFICES ASSUME g # h  PROVE FALSE
      OBVIOUS
    <3>3. Reader!Before(g, h, sort) \/ Reader!Before(h, g, sort)
      BY OrderFacts, <3>2
    <3> QED BY <1>3, <1>4, <3>1, <3>3
  <2>3. f \in Injection(M, T)
    BY <2>1, <2>2 DEF Injection, IsInjective
  <2>4. Reader!IsFiniteSet(T) /\ Reader!Cardinality(T) = n
    BY <1>1, SameCountOfGoods, FS_Interval
  <2> HIDE DEF f, T
  <2>5. f \in Surjection(M, T)
    BY <2>3, <2>4, SameCountOfGoods, FS_Injection DEF n
  <2>6. r \in T
    BY <1>1, <1>5 DEF T
  <2>7. PICK g \in M : f[g] = r
    BY <2>5, <2>6 DEF Surjection
  <2> QED BY <2>7 DEF f
<1> QED BY <1>1, <1>3, <1>4, <1>5 DEF Rank, n

\* A product of a list, and its page.
LEMMA PageIdsFacts ==
  ASSUME NEW u, NEW g
  PROVE  g \in Reader!PageIds(u) <=>
           g \in Reader!Matching(u) /\ On(u.page, Place(Reader!Matching(u), g, u.sort))
BY DEF Reader!PageIds, Place, Ahead, On

\* Another page is one of the same list.
LEMMA OtherPage ==
  ASSUME Reader!TypeOK, NEW p
  PROVE  LET u == [x2 EXCEPT !.page = p]
         IN  /\ u.page = p /\ u.sort = x2.sort
             /\ Reader!Base(u) = Reader!Base(x2)
             /\ Reader!Matching(u) = Reader!Matching(x2)
<1> DEFINE u == [x2 EXCEPT !.page = p]
<1>1. /\ u.page = p /\ u.sort = x2.sort
      /\ u.category = x2.category /\ u.maxPrice = x2.maxPrice
  BY DEF Reader!TypeOK
<1> HIDE DEF u
<1>2. Reader!Base(u) = Reader!Base(x2)
  BY <1>1 DEF Reader!Base
<1>3. Reader!Matching(u) = Reader!Matching(x2)
  BY <1>1, <1>2 DEF Reader!Matching
<1> QED BY <1>1, <1>2, <1>3 DEF u

\* Another category is a list of the same products.
LEMMA OtherCategory ==
  ASSUME Reader!TypeOK, Reader!ListingAssumption, NEW c \in Categories
  PROVE  Reader!Matching([x2 EXCEPT !.category = c]) =
           {g \in Reader!Base(x2) : x1[g].category = c}
<1> DEFINE u == [x2 EXCEPT !.category = c]
<1>1. u.category = c /\ u.maxPrice = x2.maxPrice
  BY DEF Reader!TypeOK
<1> HIDE DEF u
<1>2. Reader!Base(u) = Reader!Base(x2)
  BY <1>1 DEF Reader!Base
<1>3. c # Unset
  BY DEF Reader!ListingAssumption
<1>4. Reader!Matching(u) = {g \in Reader!Base(x2) : x1[g].category = c}
  BY <1>1, <1>2, <1>3 DEF Reader!Matching
<1> QED BY <1>4 DEF u

\* What a collected page holds: the products of some places.
LEMMA CollectedFacts ==
  ASSUME Reader!ListingAssumption, Reader!TypeOK, Reader!CollectedAreCurrent,
         NEW p \in DOMAIN x4
  PROVE  /\ p \in Nat \ {0}
         /\ \A g : g \in x4[p] <=>
              g \in Reader!Matching(x2) /\ On(p, Place(Reader!Matching(x2), g, x2.sort))
<1>1. p \in Nat \ {0} /\ x4[p] = Reader!PageIds([x2 EXCEPT !.page = p])
  BY DEF Reader!CollectedAreCurrent
<1> DEFINE u == [x2 EXCEPT !.page = p]
<1>2. Reader!Matching(u) = Reader!Matching(x2) /\ u.page = p /\ u.sort = x2.sort
  BY OtherPage
<1> HIDE DEF u
<1>3. x4[p] = Reader!PageIds(u)
  BY <1>1 DEF u
<1> SUFFICES ASSUME NEW g
             PROVE  g \in x4[p] <=>
                      g \in Reader!Matching(x2) /\ On(p, Place(Reader!Matching(x2), g, x2.sort))
  BY <1>1
<1>4. g \in Reader!PageIds(u) <=>
        g \in Reader!Matching(u) /\ On(u.page, Place(Reader!Matching(u), g, u.sort))
  BY PageIdsFacts
<1> QED BY <1>2, <1>3, <1>4

\* All pages are the list, in its order.
LEMMA ListIsWhole ==
  ASSUME Reader!ListingAssumption, Reader!IInv, x5 = 0, Reader!Shown
  PROVE  Reader!PagesAreTheList
<1> DEFINE M == Reader!Matching(x2)
           Rank(g) == Place(M, g, x2.sort)
           n == Reader!Cardinality(M)
<1>1. Reader!TypeOK /\ Reader!CollectedAreCurrent /\ x3.total = n
  BY DEF Reader!IInv, Reader!AnswerIsCurrent, Reader!Since, Reader!Shown
<1>2. M \in SUBSET Goods
  BY DEF Reader!Matching, Reader!Base
<1>3. n \in Nat /\ \A g \in M : Rank(g) \in Nat /\ Rank(g) < n
  BY <1>1, <1>2, RankFacts
<1>4. \A p \in DOMAIN x4 :
        /\ p \in Nat \ {0}
        /\ \A g : g \in x4[p] <=>
             g \in M /\ On(p, Rank(g))
  BY <1>1, CollectedFacts
<1>5. \A g, h \in M : Rank(g) < Rank(h) => Reader!Before(g, h, x2.sort)
  <2> SUFFICES ASSUME NEW g \in M, NEW h \in M, Rank(g) < Rank(h)
               PROVE  Reader!Before(g, h, x2.sort)
    OBVIOUS
  <2>1. g # h
    BY <1>3
  <2>2. ~Reader!Before(h, g, x2.sort)
    <3>1. Reader!Before(h, g, x2.sort) => Rank(h) < Rank(g)
      BY <1>1, <1>2, RankFacts
    <3> QED BY <1>3, <3>1
  <2> QED BY <1>1, <1>2, <2>1, <2>2, OrderFacts
<1> HIDE DEF M, n, Rank
<1>6. SUFFICES ASSUME DOMAIN x4 = 1 .. Reader!Pages(n)
               PROVE  /\ UNION {x4[p] : p \in DOMAIN x4} = M
                      /\ \A p, q \in DOMAIN x4 : p < q =>
                           \A g \in x4[p], h \in x4[q] : Reader!Before(g, h, x2.sort)
  BY <1>1 DEF Reader!PagesAreTheList, Reader!TotalPages, M
<1>7. ASSUME NEW g \in M  PROVE \E p \in DOMAIN x4 : g \in x4[p]
  <2>1. PICK p \in Nat \ {0} : On(p, Rank(g))
    BY <1>3, PlaceOnPage
  <2>2. Reader!Skipped(p) \in Nat /\ Reader!Skipped(p) < n /\ Reader!Pages(n) \in Nat
    BY <1>3, <2>1, PageFacts DEF On
  <2>3. p <= Reader!Pages(n)
    BY <1>3, <2>2, PageFacts
  <2>4. p \in DOMAIN x4
    BY <1>6, <2>2, <2>3
  <2> QED BY <1>4, <2>1, <2>4
<1>8. UNION {x4[p] : p \in DOMAIN x4} = M
  BY <1>4, <1>7
<1>9. ASSUME NEW p \in DOMAIN x4, NEW q \in DOMAIN x4, p < q,
             NEW g \in x4[p], NEW h \in x4[q]
      PROVE  Reader!Before(g, h, x2.sort)
  <2>1. /\ g \in M /\ Rank(g) < Reader!Skipped(p) + PageSize
        /\ h \in M /\ Reader!Skipped(q) <= Rank(h)
    BY <1>4 DEF On
  <2>2. /\ Reader!Skipped(p) + PageSize <= Reader!Skipped(q)
        /\ Reader!Skipped(p) \in Nat
        /\ Reader!Skipped(q) \in Nat
    BY <1>3, <1>4, <1>9, PageFacts
  <2>3. PageSize \in Nat
    BY DEF Reader!ListingAssumption
  <2>4. Rank(g) < Rank(h)
    BY <1>3, <2>1, <2>2, <2>3
  <2> QED BY <1>5, <2>1, <2>4
<1> QED BY <1>8, <1>9

\* The page that is asked for holds a product, if the list does.
LEMMA PageIsFull ==
  ASSUME Reader!ListingAssumption, Reader!IInv, x5 = 0, Reader!Shown
  PROVE  Reader!NoEmptyPage
<1> DEFINE M == Reader!Matching(x2)
           n == Reader!Cardinality(M)
<1>1. /\ Reader!TypeOK /\ x3.items = Reader!PageIds(x2) /\ x3.total = n
      /\ x2.page = 1 \/ x2.page <= Reader!Pages(n)
  BY DEF Reader!IInv, Reader!AnswerIsCurrent, Reader!PageExists, Reader!Since,
         Reader!Shown
<1>2. M \in SUBSET Goods
  BY DEF Reader!Matching, Reader!Base
<1>3. n \in Nat /\ x2.page \in Nat \ {0}
  BY <1>1, <1>2, RankFacts DEF Reader!TypeOK
<1>4. SUFFICES ASSUME n # 0  PROVE Reader!PageIds(x2) # {}
  BY <1>1 DEF Reader!NoEmptyPage
<1>5. PageSize \in Nat /\ PageSize > 0
  BY DEF Reader!ListingAssumption
<1>6. Reader!Skipped(x2.page) \in Nat /\ Reader!Skipped(x2.page) < n
  <2>1. CASE x2.page = 1
    <3>1. Reader!Skipped(1) = 0
      BY <1>5 DEF Reader!Skipped
    <3> QED BY <1>3, <1>4, <2>1, <3>1
  <2>2. CASE x2.page <= Reader!Pages(n)
    BY <1>3, <2>2, PageFacts
  <2> QED BY <1>1, <2>1, <2>2
<1>7. PICK g \in M : Place(M, g, x2.sort) = Reader!Skipped(x2.page)
  BY <1>1, <1>2, <1>6, RankFacts
<1>8. g \in Reader!PageIds(x2)
  BY <1>5, <1>6, <1>7, PageIdsFacts DEF On
<1> QED BY <1>8

\* The counts are those of the lists they lead to.
LEMMA PillsTrue ==
  ASSUME Reader!ListingAssumption, Reader!IInv, x5 = 0, Reader!Shown
  PROVE  Reader!PillsAreTrue
<1>1. /\ Reader!TypeOK /\ x3.total = Reader!Cardinality(Reader!Matching(x2))
      /\ x3.all = Reader!Cardinality(Reader!Base(x2))
      /\ x3.pills =
           [c \in {d \in Categories : Reader!CountOf(x2, d) > 0} |-> Reader!CountOf(x2, c)]
  BY DEF Reader!IInv, Reader!AnswerIsCurrent, Reader!Since, Reader!Shown, Reader!Stages
<1>2. ASSUME NEW c \in DOMAIN x3.pills
      PROVE  /\ x3.pills[c] = Reader!Cardinality({g \in Reader!Base(x2) : x1[g].category = c})
             /\ c \in Categories
  BY <1>1, <1>2 DEF Reader!CountOf
<1>3. ASSUME NEW c \in DOMAIN x3.pills
      PROVE  x3.pills[c] = Reader!Cardinality(Reader!Matching([x2 EXCEPT !.category = c]))
  BY <1>1, <1>2, OtherCategory
<1>4. x2.category \in DOMAIN x3.pills => x3.pills[x2.category] = x3.total
  <2> SUFFICES ASSUME x2.category \in DOMAIN x3.pills
               PROVE  x3.pills[x2.category] = x3.total
    OBVIOUS
  <2>1. x2.category # Unset
    BY <1>2 DEF Reader!ListingAssumption
  <2>2. Reader!Matching(x2) = {g \in Reader!Base(x2) : x1[g].category = x2.category}
    BY <2>1 DEF Reader!Matching
  <2> QED BY <1>1, <1>2, <2>2
<1>5. x2.category = Unset => x3.all = x3.total
  <2>1. x2.category = Unset => Reader!Matching(x2) = Reader!Base(x2)
    BY DEF Reader!Matching
  <2> QED BY <1>1, <2>1
<1> QED BY <1>3, <1>4, <1>5 DEF Reader!PillsAreTrue

\* So the pages are the list, none is empty, and the counts are true.
LEMMA ListSafe ==
  ASSUME Reader!ListingAssumption, Reader!IInv
  PROVE  Reader!BrowsingIsComplete
BY ListIsWhole, PageIsFull, PillsTrue DEF Reader!BrowsingIsComplete

(***************************************************************************)
(* The same of given rows, so that it can be said of those after a step.   *)
(***************************************************************************)
BaseOf(rows, u) ==
  {g \in Goods : /\ rows[g].active
                 /\ u.maxPrice = Unset \/ rows[g].price <= u.maxPrice}
MatchingOf(rows, u) ==
  {g \in BaseOf(rows, u) : u.category = Unset \/ rows[g].category = u.category}
KeyOf(rows, g, sort) ==
  CASE sort = "price-asc"  -> rows[g].price
    [] sort = "price-desc" -> -rows[g].price
    [] OTHER               -> -g
PrecedesIn(rows, h, g, sort) ==
  \/ KeyOf(rows, h, sort) < KeyOf(rows, g, sort)
  \/ KeyOf(rows, h, sort) = KeyOf(rows, g, sort) /\ h < g
PageOf(rows, u) ==
  {g \in MatchingOf(rows, u) :
     LET rank == Reader!Cardinality({h \in MatchingOf(rows, u) : PrecedesIn(rows, h, g, u.sort)})
     IN Reader!Skipped(u.page) <= rank /\ rank < Reader!Skipped(u.page) + PageSize}
CountIn(rows, u, category) ==
  Reader!Cardinality({g \in BaseOf(rows, u) : rows[g].category = category})

Fresh(rows, u, a) ==
  /\ a.stage \in Reader!Stages \ {"asked"} => a.all = Reader!Cardinality(BaseOf(rows, u))
  /\ a.stage \in {"grouped", "selected", "read", "shown"} =>
       a.pills = [c \in {d \in Categories : CountIn(rows, u, d) > 0} |-> CountIn(rows, u, c)]
  /\ a.stage \in {"selected", "read", "shown"} => a.ids = PageOf(rows, u)
  /\ a.stage \in {"read", "shown"} => a.items = PageOf(rows, u)
  /\ a.stage \in {"shown"} => a.total = Reader!Cardinality(MatchingOf(rows, u))
Gathered(rows, u, c) ==
  \A p \in DOMAIN c : p \in Nat \ {0} /\ c[p] = PageOf(rows, [u EXCEPT !.page = p])
Exists(rows, u) == u.page = 1 \/ u.page <= Reader!Pages(Reader!Cardinality(MatchingOf(rows, u)))

\* The operators of the module say this of the rows as they are.
LEMMA Meant ==
  /\ \A u : /\ Reader!Base(u) = BaseOf(x1, u)
            /\ Reader!Matching(u) = MatchingOf(x1, u)
            /\ Reader!PageIds(u) = PageOf(x1, u)
  /\ \A u, c : Reader!CountOf(u, c) = CountIn(x1, u, c)
  /\ Reader!AnswerIsCurrent <=> Fresh(x1, x2, x3)
  /\ Reader!CollectedAreCurrent <=> Gathered(x1, x2, x4)
  /\ Reader!PageExists <=> Exists(x1, x2)
<1>1. Reader!AnswerIsCurrent <=> Fresh(x1, x2, x3)
  BY DEF Reader!AnswerIsCurrent, Reader!Since, Fresh, Reader!Base, BaseOf,
         Reader!Matching, MatchingOf, Reader!PageIds, PageOf,
         Reader!CountOf, CountIn, Reader!Before, PrecedesIn, Reader!Key, KeyOf
<1>2. Reader!CollectedAreCurrent <=> Gathered(x1, x2, x4)
  BY DEF Reader!CollectedAreCurrent, Gathered, Reader!Base, BaseOf, Reader!Matching,
         MatchingOf, Reader!PageIds, PageOf,
         Reader!Before, PrecedesIn, Reader!Key, KeyOf
<1>3. Reader!PageExists <=> Exists(x1, x2)
  BY DEF Reader!PageExists, Exists, Reader!Base, BaseOf, Reader!Matching, MatchingOf
<1>4. \A u : Reader!Base(u) = BaseOf(x1, u)
  BY DEF Reader!Base, BaseOf
<1>5. \A u : Reader!Matching(u) = MatchingOf(x1, u)
  BY DEF Reader!Base, BaseOf, Reader!Matching, MatchingOf
<1>6. \A u : Reader!PageIds(u) = PageOf(x1, u)
  BY DEF Reader!Base, BaseOf, Reader!Matching, MatchingOf, Reader!PageIds, PageOf,
         Reader!Before, PrecedesIn, Reader!Key, KeyOf
<1>7. \A u, c : Reader!CountOf(u, c) = CountIn(x1, u, c)
  BY DEF Reader!CountOf, CountIn, Reader!Base, BaseOf
<1> QED BY <1>1, <1>2, <1>3, <1>4, <1>5, <1>6, <1>7

\* And after a step, of those there are then.
LEMMA MeantNext ==
  /\ Reader!AnswerIsCurrent' <=> Fresh(x1', x2', x3')
  /\ Reader!CollectedAreCurrent' <=> Gathered(x1', x2', x4')
  /\ Reader!PageExists' <=> Exists(x1', x2')
<1>1. Reader!AnswerIsCurrent' <=> Fresh(x1', x2', x3')
  BY DEF Reader!AnswerIsCurrent, Reader!Since, Fresh, Reader!Base, BaseOf,
         Reader!Matching, MatchingOf, Reader!PageIds, PageOf,
         Reader!CountOf, CountIn, Reader!Before, PrecedesIn, Reader!Key, KeyOf
<1>2. Reader!CollectedAreCurrent' <=> Gathered(x1', x2', x4')
  BY DEF Reader!CollectedAreCurrent, Gathered, Reader!Base, BaseOf, Reader!Matching,
         MatchingOf, Reader!PageIds, PageOf,
         Reader!Before, PrecedesIn, Reader!Key, KeyOf
<1>3. Reader!PageExists' <=> Exists(x1', x2')
  BY DEF Reader!PageExists, Exists, Reader!Base, BaseOf, Reader!Matching, MatchingOf
<1> QED BY <1>1, <1>2, <1>3

\* The invariant in these terms.
Sound(rows, u, a, c) == Fresh(rows, u, a) /\ Gathered(rows, u, c) /\ Exists(rows, u)

\* Which is what it says before and after a step.
LEMMA SoundFacts ==
  /\ Reader!IInv <=> Reader!TypeOK /\ (x5 = 0 => Sound(x1, x2, x3, x4))
  /\ Reader!IInv' <=> Reader!TypeOK' /\ (x5' = 0 => Sound(x1', x2', x3', x4'))
BY Meant, MeantNext DEF Reader!IInv, Sound

\* Nothing is asked yet.
LEMMA NothingFacts ==
  /\ DOMAIN Reader!Nothing = {"stage", "all", "pills", "ids", "items", "total"}
  /\ Reader!Nothing.stage = "asked"
  /\ DOMAIN Reader!Nothing.pills = {}
  /\ Reader!Nothing.ids = {} /\ Reader!Nothing.items = {}
<1>1. DOMAIN (<<>>) = {}
  OBVIOUS
<1> QED BY <1>1 DEF Reader!Nothing

\* The counts are natural numbers.
LEMMA CountFacts ==
  ASSUME Reader!ListingAssumption
  PROVE  \A u : Reader!Cardinality(Reader!Base(u)) \in Nat
<1> SUFFICES ASSUME NEW u  PROVE Reader!Cardinality(Reader!Base(u)) \in Nat
  OBVIOUS
<1>1. Reader!Base(u) \in SUBSET Goods
  BY DEF Reader!Base
<1> QED BY <1>1, SameCountOfGoods, FS_Subset, FS_CardinalityType DEF Reader!ListingAssumption

\* A list is asked for.
LEMMA ListInit ==
  ASSUME Reader!ListingAssumption, Reader!Init
  PROVE  Reader!IInv
<1>1. /\ x2.page = 1
      /\ x2 \in [category : Categories \cup {Unset}, maxPrice : ListPrices \cup {Unset},
                               sort : Reader!Sorts, page : Nat \ {0}]
  BY DEF Reader!Init, Reader!FirstPage, Reader!Sorts
<1>2. x1 \in [Goods -> [category : Categories \cup {Reader!NoCategory},
                            price : ListPrices, active : BOOLEAN]]
  BY DEF Reader!Init
<1>3. Reader!TypeOK
  BY <1>1, <1>2, NothingFacts
     DEF Reader!Init, Reader!TypeOK, Reader!Stages, Reader!ListingAssumption
<1>4. Fresh(x1, x2, x3)
  BY NothingFacts DEF Reader!Init, Fresh
<1>5. Gathered(x1, x2, x4)
  BY DEF Reader!Init, Gathered
<1> QED BY <1>1, <1>3, <1>4, <1>5, SoundFacts DEF Sound, Exists

\* A statement of a query.
LEMMA ListStatement ==
  ASSUME Reader!ListingAssumption, Reader!IInv,
         Reader!CountProducts \/ Reader!GroupByCategory \/ Reader!SelectIds \/ Reader!SelectRows
  PROVE  Reader!IInv'
<1>1. /\ UNCHANGED <<x1, x2, x5, x4>> /\ Reader!TypeOK
      /\ x5 = 0 => Sound(x1, x2, x3, x4)
  BY SoundFacts
     DEF Reader!CountProducts, Reader!GroupByCategory, Reader!SelectIds,
         Reader!SelectRows, Reader!At
<1>d. DOMAIN x3 = {"stage", "all", "pills", "ids", "items", "total"}
  BY <1>1, NothingFacts DEF Reader!TypeOK
<1> SUFFICES /\ Reader!TypeOK'
             /\ x5 = 0 => Fresh(x1, x2, x3')
  BY <1>1, SoundFacts DEF Sound
<1>2. CASE Reader!CountProducts
  <2>1. /\ x3.stage = "asked"
        /\ x3' = [x3 EXCEPT !.stage = "counted", !.all = Reader!Cardinality(Reader!Base(x2))]
    BY <1>2 DEF Reader!CountProducts, Reader!At
  <2>2. Reader!TypeOK'
    <3>1. Reader!Cardinality(Reader!Base(x2)) \in Nat
      BY CountFacts
    <3> QED BY <1>1, <1>d, <2>1, <3>1, NothingFacts DEF Reader!TypeOK, Reader!Stages
  <2>3. Fresh(x1, x2, x3')
    BY <1>d, <2>1, Meant DEF Fresh
  <2> QED BY <2>2, <2>3
<1>3. CASE Reader!GroupByCategory
  <2> DEFINE counted == {d \in Categories : Reader!CountOf(x2, d) > 0}
             pills == [c \in counted |-> Reader!CountOf(x2, c)]
  <2>1. x3.stage = "counted" /\ x3' = [x3 EXCEPT !.stage = "grouped", !.pills = pills]
    BY <1>3 DEF Reader!GroupByCategory, Reader!At
  <2>2. /\ DOMAIN pills \subseteq Categories
        /\ pills = [c \in {d \in Categories : CountIn(x1, x2, d) > 0} |->
                      CountIn(x1, x2, c)]
    BY Meant
  <2> HIDE DEF pills
  <2>3. Reader!TypeOK'
    BY <1>1, <1>d, <2>1, <2>2, NothingFacts DEF Reader!TypeOK, Reader!Stages
  <2>4. x5 = 0 => Fresh(x1, x2, x3')
    BY <1>1, <1>d, <2>1, <2>2 DEF Fresh, Sound, Reader!Stages
  <2> QED BY <2>3, <2>4
<1>4. CASE Reader!SelectIds
  <2>1. /\ x3.stage = "grouped"
        /\ x3' = [x3 EXCEPT !.stage = "selected", !.ids = Reader!PageIds(x2)]
    BY <1>4 DEF Reader!SelectIds, Reader!At
  <2>2. Reader!PageIds(x2) \subseteq Goods /\ Reader!PageIds(x2) = PageOf(x1, x2)
    BY Meant DEF Reader!PageIds, Reader!Matching, Reader!Base
  <2>3. Reader!TypeOK'
    BY <1>1, <1>d, <2>1, <2>2, NothingFacts DEF Reader!TypeOK, Reader!Stages
  <2>4. x5 = 0 => Fresh(x1, x2, x3')
    BY <1>1, <1>d, <2>1, <2>2 DEF Fresh, Sound, Reader!Stages
  <2> QED BY <2>3, <2>4
<1>5. CASE Reader!SelectRows
  <2>1. /\ x3.stage = "selected"
        /\ x3' = [x3 EXCEPT !.stage = "read", !.items = x3.ids \cap Reader!Matching(x2)]
    BY <1>5 DEF Reader!SelectRows, Reader!At
  <2>3. Reader!TypeOK'
    BY <1>1, <1>d, <2>1, NothingFacts DEF Reader!TypeOK, Reader!Stages
  <2>4. x5 = 0 => Fresh(x1, x2, x3')
    <3> SUFFICES ASSUME x5 = 0  PROVE Fresh(x1, x2, x3')
      OBVIOUS
    <3>1. x3.ids = PageOf(x1, x2)
      BY <1>1, <2>1 DEF Fresh, Sound
    <3>2. x3.ids \cap Reader!Matching(x2) = PageOf(x1, x2)
      BY <3>1, Meant DEF Reader!PageIds
    <3> QED BY <1>1, <1>d, <2>1, <3>1, <3>2 DEF Fresh, Sound, Reader!Stages
  <2> QED BY <2>3, <2>4
<1> QED BY <1>2, <1>3, <1>4, <1>5

\* The last statement, with which the page is shown.
LEMMA ListShown ==
  ASSUME Reader!ListingAssumption, Reader!IInv, Reader!CountMatches
  PROVE  Reader!IInv'
<1>1. /\ UNCHANGED <<x1, x2, x5>> /\ Reader!TypeOK
      /\ x5 = 0 => Sound(x1, x2, x3, x4)
      /\ x3.stage = "read"
      /\ x3' = [x3 EXCEPT !.stage = "shown", !.total = Reader!Cardinality(Reader!Matching(x2))]
      /\ x4' = [p \in DOMAIN x4 \cup {x2.page} |->
                         IF p = x2.page THEN x3.items ELSE x4[p]]
  BY SoundFacts DEF Reader!CountMatches, Reader!At
<1>d. DOMAIN x3 = {"stage", "all", "pills", "ids", "items", "total"}
  BY <1>1, NothingFacts DEF Reader!TypeOK
<1>2. Reader!TypeOK'
  BY <1>1, <1>d, NothingFacts DEF Reader!TypeOK, Reader!Stages
<1>3. SUFFICES ASSUME x5 = 0
               PROVE  Fresh(x1, x2, x3') /\ Gathered(x1, x2, x4')
  BY <1>1, <1>2, SoundFacts DEF Sound
<1>4. Fresh(x1, x2, x3')
  BY <1>1, <1>3, <1>d, Meant DEF Fresh, Sound, Reader!Stages
<1>5. x3.items = PageOf(x1, x2) /\ x2.page \in Nat \ {0}
  BY <1>1, <1>3 DEF Fresh, Sound, Reader!TypeOK
<1>6. x2 = [x2 EXCEPT !.page = x2.page]
  BY <1>1 DEF Reader!TypeOK
<1>7. Gathered(x1, x2, x4')
  BY <1>1, <1>3, <1>5, <1>6 DEF Gathered, Sound
<1> QED BY <1>4, <1>7

\* A new list.
LEMMA ListPush ==
  ASSUME Reader!ListingAssumption, Reader!IInv,
         NEW u \in [category : Categories \cup {Unset},
                    maxPrice : ListPrices \cup {Unset},
                    sort : Reader!Sorts, page : {1}],
         Reader!Push(u)
  PROVE  Reader!IInv'
<1>1. /\ x2' = u /\ x3' = Reader!Nothing /\ x4' = <<>> /\ x5' = 0 /\ x1' = x1
  BY DEF Reader!Push
<1>2. Reader!TypeOK'
  BY <1>1, NothingFacts
     DEF Reader!TypeOK, Reader!IInv, Reader!Stages, Reader!ListingAssumption
<1>3. Fresh(x1', u, x3')
  BY <1>1, NothingFacts DEF Fresh
<1>4. Gathered(x1', u, x4')
  BY <1>1 DEF Gathered
<1> QED BY <1>1, <1>2, <1>3, <1>4, SoundFacts DEF Sound, Exists

\* A filter that is set or cleared.
LEMMA ListFilter ==
  ASSUME Reader!ListingAssumption, Reader!IInv,
         Reader!UpdateFilter \/ Reader!ClearFilters
  PROVE  Reader!IInv'
<1> DEFINE FirstPages == [category : Categories \cup {Unset}, maxPrice : ListPrices \cup {Unset},
                     sort : Reader!Sorts, page : {1}]
<1>1. Reader!TypeOK
  BY DEF Reader!IInv
<1>2. ASSUME NEW c \in DOMAIN x3.pills \cup {Unset}
      PROVE  [x2 EXCEPT !.category = c, !.page = 1] \in FirstPages
  BY <1>1 DEF Reader!TypeOK
<1>3. ASSUME NEW m \in ListPrices \cup {Unset}
      PROVE  [x2 EXCEPT !.maxPrice = m, !.page = 1] \in FirstPages
  BY <1>1 DEF Reader!TypeOK
<1>4. ASSUME NEW s \in Reader!Sorts
      PROVE  [x2 EXCEPT !.sort = s, !.page = 1] \in FirstPages
  BY <1>1 DEF Reader!TypeOK
<1>5. Reader!FirstPage \in FirstPages
  BY DEF Reader!FirstPage, Reader!Sorts
<1>6. \E u \in FirstPages : Reader!Push(u)
  BY <1>2, <1>3, <1>4, <1>5 DEF Reader!UpdateFilter, Reader!ClearFilters
<1> QED BY <1>6, ListPush

\* Another page of it.
LEMMA ListTurn ==
  ASSUME Reader!ListingAssumption, Reader!IInv, Reader!Previous \/ Reader!NextPage
  PROVE  Reader!IInv'
<1>1. /\ Reader!TypeOK
      /\ x3' = Reader!Nothing
      /\ UNCHANGED <<x1, x4, x5>>
      /\ Reader!Shown
      /\ x5 = 0 => Sound(x1, x2, x3, x4)
  BY SoundFacts DEF Reader!Previous, Reader!NextPage, Reader!TurnTo
<1>2. PICK p : /\ x2' = [x2 EXCEPT !.page = p]
               /\ \/ p = x2.page - 1 /\ x2.page > 1
                  \/ p = x2.page + 1 /\ x2.page < Reader!TotalPages
  BY DEF Reader!Previous, Reader!NextPage, Reader!TurnTo
<1>3. p \in Nat \ {0} /\ x2.page \in Nat \ {0}
  BY <1>1, <1>2 DEF Reader!TypeOK
<1>4. Reader!TypeOK'
  BY <1>1, <1>2, <1>3, NothingFacts DEF Reader!TypeOK, Reader!Stages
<1>5. SUFFICES ASSUME x5 = 0
               PROVE  Sound(x1, x2', Reader!Nothing, x4)
  BY <1>1, <1>4, SoundFacts
<1>6. Fresh(x1, x2', Reader!Nothing)
  BY NothingFacts DEF Fresh
<1>7. Gathered(x1, x2', x4)
  <2>1. \A q : [x2' EXCEPT !.page = q] = [x2 EXCEPT !.page = q]
    BY <1>1, <1>2 DEF Reader!TypeOK
  <2> QED BY <1>1, <1>5, <2>1 DEF Gathered, Sound
<1>8. Exists(x1, x2')
  <2> DEFINE n == Reader!Cardinality(Reader!Matching(x2))
  <2>1. Reader!Matching(x2') = Reader!Matching(x2) /\ x2'.page = p
    BY <1>1, <1>2, OtherPage
  <2>2. /\ MatchingOf(x1, x2') = Reader!Matching(x2)
        /\ MatchingOf(x1, x2) = Reader!Matching(x2)
    BY <2>1, Meant
  <2>3. x3.total = n
    BY <1>1, <1>5, Meant DEF Sound, Fresh, Reader!Shown
  <2>4. n \in Nat
    BY <1>1, RankFacts DEF Reader!Matching, Reader!Base
  <2>5. Reader!Pages(n) \in Nat
    BY <2>4, PageFacts, <1>3
  <2>6. x2.page = 1 \/ x2.page <= Reader!Pages(n)
    BY <1>1, <1>5, <2>2 DEF Sound, Exists
  <2>7. p = 1 \/ p <= Reader!Pages(n)
    BY <1>2, <1>3, <2>3, <2>5, <2>6 DEF Reader!TotalPages
  <2> QED BY <2>1, <2>2, <2>7 DEF Exists
<1> QED BY <1>6, <1>7, <1>8 DEF Sound

\* An edit, after which nothing is said until another list is asked for.
LEMMA ListEdit ==
  ASSUME Reader!ListingAssumption, Reader!IInv, NEW g \in Goods,
         Reader!UpdateProduct(g) \/ Reader!DeleteProduct(g)
  PROVE  Reader!IInv'
<1>1. Reader!TypeOK
  BY DEF Reader!IInv
<1> DEFINE Row == [category : Categories \cup {Reader!NoCategory},
                   price : ListPrices, active : BOOLEAN]
<1>2. x1[g] \in Row
  BY <1>1 DEF Reader!TypeOK
<1>3. PICK row \in Row : Reader!Edit(g, row)
  <2>1. \A c \in Categories : [x1[g] EXCEPT !.category = c] \in Row
    BY <1>2
  <2>2. \A p \in ListPrices : [x1[g] EXCEPT !.price = p] \in Row
    BY <1>2
  <2>3. \A b \in BOOLEAN : [x1[g] EXCEPT !.active = b] \in Row
    BY <1>2
  <2> HIDE DEF Row
  <2>4. CASE Reader!UpdateProduct(g)
    BY <2>1, <2>2, <2>3, <2>4 DEF Reader!UpdateProduct
  <2>5. CASE Reader!DeleteProduct(g)
    BY <2>3, <2>5 DEF Reader!DeleteProduct
  <2> QED BY <2>4, <2>5
<1>4. /\ x1' = [x1 EXCEPT ![g] = row] /\ x5' = x5 + 1
      /\ x5 < MaxEdits /\ UNCHANGED <<x2, x3, x4>>
  BY <1>3 DEF Reader!Edit
<1>5. x5 \in Nat /\ x5' \in 0 .. MaxEdits /\ x5' # 0
  BY <1>1, <1>4 DEF Reader!TypeOK, Reader!ListingAssumption
<1>6. x1' \in [Goods -> Row]
  BY <1>1, <1>4 DEF Reader!TypeOK
<1>7. Reader!TypeOK'
  BY <1>1, <1>4, <1>5, <1>6 DEF Reader!TypeOK
<1> QED BY <1>5, <1>7, SoundFacts

\* Every statement, every move of the reader and every edit keep it.
LEMMA ListNext ==
  ASSUME Reader!ListingAssumption, Reader!IInv, [Reader!Next]_(Reader!vars)
  PROVE  Reader!IInv'
<1>1. CASE UNCHANGED (Reader!vars)
  <2>1. UNCHANGED <<x1, x2, x3, x4, x5>>
    BY <1>1 DEF Reader!vars
  <2>2. Reader!TypeOK'
    BY <2>1 DEF Reader!IInv, Reader!TypeOK
  <2> QED BY <2>1, <2>2, SoundFacts
<1>2. CASE Reader!CountProducts \/ Reader!GroupByCategory \/ Reader!SelectIds \/ Reader!SelectRows
  BY <1>2, ListStatement
<1>3. CASE Reader!CountMatches
  BY <1>3, ListShown
<1>4. CASE Reader!UpdateFilter \/ Reader!ClearFilters
  BY <1>4, ListFilter
<1>5. CASE Reader!Previous \/ Reader!NextPage
  BY <1>5, ListTurn
<1>6. CASE \E g \in Goods : Reader!UpdateProduct(g) \/ Reader!DeleteProduct(g)
  BY <1>6, ListEdit
<1> QED BY <1>1, <1>2, <1>3, <1>4, <1>5, <1>6 DEF Reader!Next

---------------------------------------
\* Scripts.tla: x1 is the tables, x2 the seeders, x3 the one that truncated
\* last, x4 the assignment, x5 the load test, x6 what the shop did.

\* There are vendors to seed, and they are numbered.
LEMMA SeedFacts ==
  ASSUME Script!ScriptsAssumption
  PROVE  /\ Script!LastSeed \in Nat /\ Script!LastSeed >= 1
         /\ VendorSeeds = 1 .. Script!LastSeed
BY DEF Script!ScriptsAssumption, Script!LastSeed

\* What a statement of the seed script is.
LEMMA StatementFacts ==
  ASSUME Script!ScriptsAssumption, NEW st \in Script!Statements
  PROVE  /\ st = <<st[1], st[2]>>
         /\ \/ st[1] \in {"truncate", "completed", "failed"} /\ st[2] = 0
            \/ st[1] \in {"category", "vendor", "product"} /\ st[2] \in 1 .. Script!LastSeed
            \/ st[1] = "user" /\ st[2] \in 1 .. 3
         /\ st[2] \in Nat
         /\ Script!Rank(st[1], st[2]) \in Nat
<1>1. /\ st = <<st[1], st[2]>>
      /\ \/ st[1] \in {"truncate", "completed", "failed"} /\ st[2] = 0
         \/ st[1] \in {"category", "vendor", "product"} /\ st[2] \in 1 .. Script!LastSeed
         \/ st[1] = "user" /\ st[2] \in 1 .. 3
  BY SeedFacts DEF Script!Statements
<1>2. st[2] \in Nat /\ Script!LastSeed \in Nat /\ Script!LastSeed >= 1
  BY <1>1, SeedFacts
<1>3. Script!Rank(st[1], st[2]) \in Nat
  BY <1>1, <1>2 DEF Script!Rank
<1> QED BY <1>1, <1>2, <1>3

\* The statement that follows is the next in rank.
LEMMA FollowingFacts ==
  ASSUME Script!ScriptsAssumption, NEW what, NEW n, <<what, n>> \in Script!Statements,
         what \notin {"completed", "failed"}
  PROVE  /\ Script!Following(what, n) \in Script!Statements
         /\ Script!Following(what, n)[1] \notin {"truncate", "failed"}
         /\ Script!Rank(Script!Following(what, n)[1], Script!Following(what, n)[2])
              = Script!Rank(what, n) + 1
<1>1. /\ \/ what = "truncate" /\ n = 0
         \/ what \in {"category", "vendor", "product"} /\ n \in 1 .. Script!LastSeed
         \/ what = "user" /\ n \in 1 .. 3
  BY StatementFacts, <<what, n>>[1] = what, <<what, n>>[2] = n
<1>2. /\ Script!LastSeed \in Nat /\ Script!LastSeed >= 1
      /\ VendorSeeds = 1 .. Script!LastSeed
  BY SeedFacts
<1>3. Len(Script!DemoUsers) = 3
  BY DEF Script!DemoUsers
<1>4. CASE what = "truncate"
  BY <1>1, <1>2, <1>4 DEF Script!Following, Script!Rank, Script!Statements
<1>5. CASE what = "category"
  <2>1. CASE n < Script!LastSeed
    <3>1. Script!Following(what, n) = <<"category", n + 1>>
      BY <1>5, <2>1 DEF Script!Following, Script!Last, Script!LastSeed
    <3> QED BY <1>1, <1>2, <1>5, <2>1, <3>1 DEF Script!Rank, Script!Statements
  <2>2. CASE ~(n < Script!LastSeed)
    <3>1. Script!Following(what, n) = <<"vendor", 1>> /\ n = Script!LastSeed
      BY <1>1, <1>2, <1>5, <2>2 DEF Script!Following, Script!Last, Script!LastSeed
    <3> QED BY <1>1, <1>2, <1>5, <2>2, <3>1 DEF Script!Rank, Script!Statements
  <2> QED BY <2>1, <2>2
<1>6. CASE what = "vendor"
  <2>1. Script!Following(what, n) = <<"product", n>>
    BY <1>6 DEF Script!Following
  <2> QED BY <1>1, <1>2, <1>6, <2>1 DEF Script!Rank, Script!Statements
<1>7. CASE what = "product"
  <2>1. CASE n < Script!LastSeed
    <3>1. Script!Following(what, n) = <<"vendor", n + 1>>
      BY <1>7, <2>1 DEF Script!Following, Script!LastSeed
    <3> QED BY <1>1, <1>2, <1>7, <2>1, <3>1 DEF Script!Rank, Script!Statements
  <2>2. CASE ~(n < Script!LastSeed)
    <3>1. Script!Following(what, n) = <<"user", 1>> /\ n = Script!LastSeed
      BY <1>1, <1>2, <1>7, <2>2 DEF Script!Following, Script!LastSeed
    <3> QED BY <1>1, <1>2, <1>7, <2>2, <3>1 DEF Script!Rank, Script!Statements
  <2> QED BY <2>1, <2>2
<1>8. CASE what = "user"
  <2>1. CASE n < 3
    <3>1. Script!Following(what, n) = <<"user", n + 1>>
      BY <1>3, <1>8, <2>1 DEF Script!Following, Script!Last
    <3> QED BY <1>1, <1>2, <1>8, <2>1, <3>1 DEF Script!Rank, Script!Statements
  <2>2. CASE ~(n < 3)
    <3>1. Script!Following(what, n) = <<"completed", 0>> /\ n = 3
      BY <1>1, <1>3, <1>8, <2>2 DEF Script!Following, Script!Last
    <3> QED BY <1>1, <1>2, <1>8, <2>2, <3>1 DEF Script!Rank, Script!Statements
  <2> QED BY <2>1, <2>2
<1> QED BY <1>1, <1>4, <1>5, <1>6, <1>7, <1>8

\* Nothing has a rank above that of a seeder that failed.
LEMMA FailedIsLast ==
  ASSUME Script!ScriptsAssumption, NEW st \in Script!Statements
  PROVE  /\ Script!Rank(st[1], st[2]) =< Script!Rank("failed", 0)
         /\ Script!Rank("failed", 0) \in Nat
<1>1. Script!LastSeed \in Nat /\ Script!LastSeed >= 1
  BY SeedFacts
<1> QED BY <1>1, StatementFacts DEF Script!Rank

\* Rows are told apart by who inserted them and their number.
LEMMA RowFacts ==
  /\ \A r1, n1, r2, n2 :
       Script!RowOf(r1, n1) = Script!RowOf(r2, n2) <=> r1 = r2 /\ n1 = n2
  /\ \A r1, n1 : Script!RowOf(r1, n1).run = r1 /\ Script!RowOf(r1, n1).n = n1
<1>1. \A r1, n1 : Script!RowOf(r1, n1).run = r1 /\ Script!RowOf(r1, n1).n = n1
  BY DEF Script!RowOf
<1>2. ASSUME NEW r1, NEW n1, NEW r2, NEW n2, Script!RowOf(r1, n1) = Script!RowOf(r2, n2)
      PROVE  r1 = r2 /\ n1 = n2
  BY <1>1, <1>2
<1> QED BY <1>1, <1>2

\* The users that are seeded.
LEMMA UserFacts ==
  /\ Script!Range(Script!DemoUsers) = {"buyer", "vendor", "admin"}
  /\ \A n \in 1 .. 3 : Script!DemoUsers[n] \in Script!Range(Script!DemoUsers)
  /\ \A m, n \in 1 .. 3 : Script!DemoUsers[m] = Script!DemoUsers[n] => m = n
  /\ Script!DemoUsers[1] = "buyer"
  /\ Script!DemoUsers[2] = "vendor"
  /\ Script!DemoUsers[3] = "admin"
<1>1. /\ Script!DemoUsers[1] = "buyer" /\ Script!DemoUsers[2] = "vendor"
      /\ Script!DemoUsers[3] = "admin"
      /\ DOMAIN Script!DemoUsers = 1 .. 3
  BY DEF Script!DemoUsers
<1>2. Script!Range(Script!DemoUsers) = {"buyer", "vendor", "admin"}
  BY <1>1 DEF Script!Range
<1> QED BY <1>1, <1>2

\* Ranks grow, and so do the rows that were there.
LEMMA OldStays ==
  ASSUME Script!ScriptsAssumption, Script!TypeOK, NEW p \in Script!Rows, Script!Old(p),
         x2' \in [Sessions -> Script!Statements], x6' \in Nat, x6 =< x6',
         \A s \in Sessions : Script!RankOf(s) =< Script!RankOf(s)'
  PROVE  Script!Old(p)'
<1>1. CASE p.run = Nobody
  BY <1>1 DEF Script!Old, Script!Rows, Script!TypeOK
<1>2. CASE p.run # Nobody
  <2>1. /\ p.run \in Sessions
        /\ Script!Rank("product", p.n) < Script!RankOf(p.run)
        /\ p.n \in Nat
    BY <1>2 DEF Script!Old, Script!Past, Script!Rows
  <2>2. Script!RankOf(p.run) \in Nat /\ Script!RankOf(p.run)' \in Nat
    BY <2>1, StatementFacts DEF Script!TypeOK, Script!RankOf
  <2>3. Script!Rank("product", p.n) \in Int
    BY <2>1, SeedFacts DEF Script!Rank
  <2>4. Script!Rank("product", p.n) < Script!RankOf(p.run)'
    BY <2>1, <2>2, <2>3
  <2> QED BY <1>2, <2>1, <2>4 DEF Script!Old, Script!Past
<1> QED BY <1>1, <1>2

\* Between two statements of the assignment, others disturb it.
LEMMA DisturbSound ==
  ASSUME Script!TypeOK, Script!AssignSound, Script!Disturb
  PROVE  /\ Script!AssignSound'
         /\ DOMAIN x4' = DOMAIN x4 /\ x4'.disturbed \in BOOLEAN
<1>1. "disturbed" \in DOMAIN x4 /\ "at" \in DOMAIN x4 /\ x4.disturbed \in BOOLEAN
  BY DEF Script!TypeOK
<1>2. /\ DOMAIN x4' = DOMAIN x4 /\ x4'.at = x4.at
      /\ x4'.disturbed = (x4.disturbed \/ x4.at # "user")
  BY <1>1 DEF Script!Disturb
<1>3. Script!AssignSound'
  <2>1. CASE x4.at = "user"
    BY <1>2, <2>1 DEF Script!AssignSound
  <2>2. CASE x4.at # "user"
    BY <1>2, <2>2 DEF Script!AssignSound
  <2> QED BY <2>1, <2>2
<1> QED BY <1>1, <1>2, <1>3

\* The load test is as sound as before if the rows it holds are as they were and
\* there is no more of its product.
LEMMA LoadKept ==
  ASSUME Script!ScriptsAssumption, Script!IInv, DOMAIN x5' = DOMAIN x5,
         x5'.at = x5.at, x5'.products = x5.products,
         x5'.tries = x5.tries, x5'.sold = x5.sold,
         x5'.restocked \in BOOLEAN, x5.restocked => x5'.restocked,
         x2' \in [Sessions -> Script!Statements], x6' \in Nat, x6 =< x6',
         \A s \in Sessions : Script!RankOf(s) =< Script!RankOf(s)',
         \A i \in Script!Holding : /\ x5.tries[i].product \in Script!Products'
                            /\ x1'.products[x5.tries[i].product].stock
                                 = x1.products[x5.tries[i].product].stock,
         x5.at = "oversell" /\ x5.products[1] \in Script!Products' =>
           \/ x5'.restocked
           \/ /\ x5.products[1] \in Script!Products
              /\ x1'.products[x5.products[1]].stock \in Nat
              /\ x1'.products[x5.products[1]].stock =< x1.products[x5.products[1]].stock
  PROVE  Script!HoldersSound' /\ Script!Counted'
<1>0. Script!TypeOK /\ Script!HoldersSound /\ Script!Counted
  BY DEF Script!IInv
<1>1. Script!Holding' = Script!Holding
  BY DEF Script!Holding
<1>2. Script!HoldersSound'
  BY <1>0, <1>1 DEF Script!HoldersSound
<1>3. x5'.at \in {"set", "oversell"} =>
        x5'.products[1] \in Script!Rows /\ Script!Old(x5.products[1])'
  BY <1>0, OldStays DEF Script!Counted
<1>4. x5'.restocked \/
       /\ x5'.at # "failed" /\ x5'.sold <= TestStock
       /\ x5'.at = "oversell" /\ x5'.products[1] \in Script!Products' =>
            x5'.sold + x1'.products[x5'.products[1]].stock <= TestStock
  <2> SUFFICES ASSUME ~x5'.restocked
               PROVE  /\ x5.at # "failed" /\ x5.sold <= TestStock
                      /\ x5.at = "oversell" /\ x5.products[1] \in Script!Products' =>
                           x5.sold + x1'.products[x5.products[1]].stock <= TestStock
    OBVIOUS
  <2>1. ~x5.restocked
    OBVIOUS
  <2>2. x5.at # "failed" /\ x5.sold <= TestStock
    BY <1>0, <2>1 DEF Script!Counted
  <2>3. ASSUME x5.at = "oversell", x5.products[1] \in Script!Products'
        PROVE  x5.sold + x1'.products[x5.products[1]].stock <= TestStock
    <3>1. x5.sold + x1.products[x5.products[1]].stock <= TestStock
      BY <1>0, <2>1, <2>3 DEF Script!Counted
    <3>2. x1.products[x5.products[1]].stock \in Nat
      BY <1>0, <2>3 DEF Script!TypeOK
    <3> QED BY <1>0, <2>3, <3>1, <3>2 DEF Script!TypeOK, Script!ScriptsAssumption
  <2> QED BY <2>2, <2>3
<1>5. /\ x5'.at \in {"pick", "set", "no products"} => Script!Holding' = {} /\ x5'.sold = 0
      /\ x5'.at = "oversell" =>
           \A i \in DOMAIN x5'.tries : x5'.tries[i].product = x5'.products[1]
  BY <1>0, <1>1 DEF Script!Counted
<1>6. Script!Counted'
  BY <1>3, <1>4, <1>5 DEF Script!Counted
<1> QED BY <1>2, <1>6

\* A table with one more row.
LEMMA WithFacts ==
  ASSUME NEW table, NEW key, NEW row
  PROVE  /\ DOMAIN Script!With(table, key, row) = DOMAIN table \cup {key}
         /\ \A k \in DOMAIN table : Script!With(table, key, row)[k] = table[k]
         /\ key \notin DOMAIN table => Script!With(table, key, row)[key] = row
BY DEF Script!With

\* What an insertion does to the tables.
ScriptGrown(s, what, n) ==
  /\ DOMAIN x1' = DOMAIN x1
  /\ x1.categories \subseteq x1'.categories /\ x1'.categories \subseteq VendorSeeds
  /\ x1.vendors \subseteq x1'.vendors
  /\ Script!Products \subseteq Script!Products'
  /\ \A p \in Script!Products : x1'.products[p] = x1.products[p]
  /\ \A p \in Script!Products' \ Script!Products :
       /\ p = Script!RowOf(s, n) /\ what = "product"
       /\ x1'.products[p] \in [vendor : x1'.vendors, stock : Nat]
  /\ DOMAIN x1.users \subseteq DOMAIN x1'.users
  /\ DOMAIN x1'.users \subseteq Script!Range(Script!DemoUsers)
  /\ \A u \in DOMAIN x1.users : x1'.users[u] = x1.users[u]
  /\ what = "category" => n \in x1'.categories
  /\ what = "vendor" => Script!RowOf(s, n) \in x1'.vendors
  /\ what = "product" => Script!RowOf(s, n) \in Script!Products'
  /\ what = "user" =>
       /\ Script!DemoUsers[n] \in DOMAIN x1'.users
       /\ Script!DemoUsers[n] = "vendor" => x1'.users["vendor"] = Script!RowOf(s, 1)

\* An insertion that fits adds its row and leaves all others.
LEMMA InsertGrows ==
  ASSUME Script!ScriptsAssumption, Script!TypeOK, NEW s \in Sessions, NEW what, NEW n,
         <<what, n>> \in Script!Statements, what \notin {"truncate", "completed", "failed"},
         Script!Fits(s, what, n), x1' = Script!Insert(s, what, n)
  PROVE  ScriptGrown(s, what, n)
<1>1. /\ \/ what \in {"category", "vendor", "product"} /\ n \in VendorSeeds
         \/ what = "user" /\ n \in 1 .. 3
  BY StatementFacts, SeedFacts, <<what, n>>[1] = what, <<what, n>>[2] = n
<1>2. DOMAIN x1 = {"categories", "vendors", "products", "users"}
  BY DEF Script!TypeOK
<1>3. CASE what = "category"
  <2>1. /\ DOMAIN x1' = DOMAIN x1 /\ x1'.categories = x1.categories \cup {n}
        /\ x1'.vendors = x1.vendors
        /\ x1'.products = x1.products
        /\ x1'.users = x1.users
    BY <1>2, <1>3 DEF Script!Insert
  <2> QED BY <1>1, <1>3, <2>1 DEF ScriptGrown, Script!TypeOK, Script!Products
<1>4. CASE what = "vendor"
  <2>1. /\ DOMAIN x1' = DOMAIN x1 /\ x1'.categories = x1.categories
        /\ x1'.vendors = x1.vendors \cup {Script!RowOf(s, n)}
        /\ x1'.products = x1.products /\ x1'.users = x1.users
    BY <1>2, <1>4 DEF Script!Insert
  <2> QED BY <1>1, <1>4, <2>1 DEF ScriptGrown, Script!TypeOK, Script!Products
<1>5. CASE what = "product"
  <2> DEFINE row == [vendor |-> Script!RowOf(s, n), stock |-> SeedStock]
  <2>1. /\ DOMAIN x1' = DOMAIN x1 /\ x1'.categories = x1.categories
        /\ x1'.vendors = x1.vendors /\ x1'.users = x1.users
        /\ x1'.products = Script!With(x1.products, Script!RowOf(s, n), row)
    BY <1>2, <1>5 DEF Script!Insert
  <2>2. Script!RowOf(s, n) \in x1.vendors
    BY <1>5 DEF Script!Fits
  <2>3. row \in [vendor : x1'.vendors, stock : Nat]
    BY <2>1, <2>2 DEF Script!ScriptsAssumption
  <2> HIDE DEF row
  <2>4. /\ Script!Products' = Script!Products \cup {Script!RowOf(s, n)}
        /\ \A p \in Script!Products : x1'.products[p] = x1.products[p]
        /\ Script!RowOf(s, n) \notin Script!Products => x1'.products[Script!RowOf(s, n)] = row
    <3> DEFINE new == Script!With(x1.products, Script!RowOf(s, n), row)
    <3>1. /\ DOMAIN new = DOMAIN x1.products \cup {Script!RowOf(s, n)}
          /\ \A p \in DOMAIN x1.products : new[p] = x1.products[p]
          /\ Script!RowOf(s, n) \notin DOMAIN x1.products => new[Script!RowOf(s, n)] = row
      BY WithFacts
    <3>2. x1'.products = new
      BY <2>1
    <3> HIDE DEF new
    <3> QED BY <3>1, <3>2 DEF Script!Products
  <2> QED BY <1>5, <2>1, <2>3, <2>4 DEF ScriptGrown, Script!TypeOK
<1>6. CASE what = "user"
  <2> DEFINE whose == IF Script!DemoUsers[n] = "vendor" THEN Script!RowOf(s, 1) ELSE Nobody
  <2>1. /\ DOMAIN x1' = DOMAIN x1 /\ x1'.categories = x1.categories
        /\ x1'.vendors = x1.vendors /\ x1'.products = x1.products
        /\ x1'.users = Script!With(x1.users, Script!DemoUsers[n], whose)
    BY <1>2, <1>6 DEF Script!Insert
  <2>2. Script!DemoUsers[n] \notin DOMAIN x1.users
    BY <1>6 DEF Script!Fits
  <2>3. Script!DemoUsers[n] = "vendor" => whose = Script!RowOf(s, 1)
    OBVIOUS
  <2> HIDE DEF whose
  <2>4. /\ DOMAIN x1'.users = DOMAIN x1.users \cup {Script!DemoUsers[n]}
        /\ \A u \in DOMAIN x1.users : x1'.users[u] = x1.users[u]
        /\ x1'.users[Script!DemoUsers[n]] = whose
    <3> DEFINE new == Script!With(x1.users, Script!DemoUsers[n], whose)
    <3>1. /\ DOMAIN new = DOMAIN x1.users \cup {Script!DemoUsers[n]}
          /\ \A u \in DOMAIN x1.users : new[u] = x1.users[u]
          /\ Script!DemoUsers[n] \notin DOMAIN x1.users => new[Script!DemoUsers[n]] = whose
      BY WithFacts
    <3>2. x1'.users = new
      BY <2>1
    <3> HIDE DEF new
    <3> QED BY <2>2, <3>1, <3>2
  <2> QED BY <1>1, <1>6, <2>1, <2>3, <2>4, UserFacts
              DEF ScriptGrown, Script!TypeOK, Script!Products
<1> QED BY <1>1, <1>3, <1>4, <1>5, <1>6

\* No two statements have one rank.
LEMMA RankInjective ==
  ASSUME Script!ScriptsAssumption, NEW w1, NEW n1, NEW w2, NEW n2,
         <<w1, n1>> \in Script!Statements, <<w2, n2>> \in Script!Statements,
         Script!Rank(w1, n1) = Script!Rank(w2, n2)
  PROVE  w1 = w2 /\ n1 = n2
<1>1. /\ \/ w1 \in {"truncate", "completed", "failed"} /\ n1 = 0
         \/ w1 \in {"category", "vendor", "product"} /\ n1 \in 1 .. Script!LastSeed
         \/ w1 = "user" /\ n1 \in 1 .. 3
      /\ \/ w2 \in {"truncate", "completed", "failed"} /\ n2 = 0
         \/ w2 \in {"category", "vendor", "product"} /\ n2 \in 1 .. Script!LastSeed
         \/ w2 = "user" /\ n2 \in 1 .. 3
  BY StatementFacts, <<w1, n1>>[1] = w1, <<w1, n1>>[2] = n1,
     <<w2, n2>>[1] = w2, <<w2, n2>>[2] = n2
<1>2. Script!LastSeed \in Nat /\ Script!LastSeed >= 1
  BY SeedFacts
<1> QED BY <1>1, <1>2 DEF Script!Rank

\* What becomes of the seeders by a statement of one.
LEMMA SeedStep ==
  ASSUME Script!ScriptsAssumption, Script!TypeOK, NEW s \in Sessions, Script!Running(s),
         x2' = [x2 EXCEPT ![s] = Script!Following(x2[s][1], x2[s][2])]
  PROVE  /\ x2[s] = <<x2[s][1], x2[s][2]>> /\ <<x2[s][1], x2[s][2]>> \in Script!Statements
         /\ x2' \in [Sessions -> Script!Statements]
         /\ x2'[s][1] # "failed"
         /\ \A d \in Sessions \ {s} :
              x2'[d] = x2[d] /\ Script!RankOf(d)' = Script!RankOf(d)
         /\ Script!RankOf(s)' = Script!Rank(x2[s][1], x2[s][2]) + 1
         /\ \A d \in Sessions :
              Script!RankOf(d) \in Nat /\ Script!RankOf(d) =< Script!RankOf(d)'
<1>1. x2[s] \in Script!Statements /\ x2[s] = <<x2[s][1], x2[s][2]>>
  BY StatementFacts DEF Script!TypeOK
<1> DEFINE next == Script!Following(x2[s][1], x2[s][2])
<1>2. /\ next \in Script!Statements /\ next[1] # "failed"
      /\ Script!Rank(next[1], next[2]) = Script!Rank(x2[s][1], x2[s][2]) + 1
  BY <1>1, FollowingFacts DEF Script!Running
<1>3. /\ x2' \in [Sessions -> Script!Statements] /\ x2'[s] = next
      /\ \A d \in Sessions \ {s} : x2'[d] = x2[d]
  <2> HIDE DEF next
  <2>1. x2' = [x2 EXCEPT ![s] = next]
    BY DEF next
  <2> QED BY <1>2, <2>1 DEF Script!TypeOK
<1> HIDE DEF next
<1>4. \A d \in Sessions \ {s} : Script!RankOf(d)' = Script!RankOf(d)
  BY <1>3 DEF Script!RankOf, Script!Rank, Script!LastSeed
<1>5. Script!RankOf(s)' = Script!Rank(next[1], next[2])
  BY <1>3 DEF Script!RankOf, Script!Rank, Script!LastSeed
<1>6. \A d \in Sessions : Script!RankOf(d) \in Nat
  BY StatementFacts DEF Script!TypeOK, Script!RankOf
<1>7. Script!RankOf(s) = Script!Rank(x2[s][1], x2[s][2])
  BY DEF Script!RankOf
<1>8. \A d \in Sessions : Script!RankOf(d) =< Script!RankOf(d)'
  BY <1>2, <1>4, <1>5, <1>6, <1>7
<1> QED BY <1>1, <1>2, <1>3, <1>4, <1>5, <1>6, <1>8

\* A seeder that begins has inserted nothing, and nor has any other.
LEMMA ScriptTruncate ==
  ASSUME Script!ScriptsAssumption, Script!IInv, NEW s \in Sessions, Script!Statement(s),
         x2[s][1] = "truncate"
  PROVE  Script!IInv'
<1>0. Script!TypeOK /\ Script!SeedersSound /\ Script!RowsOld /\ Script!AssignSound
  BY DEF Script!IInv
<1>1. /\ Script!Running(s)
      /\ x2' = [x2 EXCEPT ![s] = Script!Following(x2[s][1], x2[s][2])]
      /\ Script!Holding = {} /\ x1' = Script!Empty /\ x3' = s
      /\ Script!Disturb /\ UNCHANGED <<x5, x6>>
  BY DEF Script!Statement, Script!Insert
<1>2. /\ x2[s] = <<x2[s][1], x2[s][2]>> /\ x2[s] \in Script!Statements
      /\ x2' \in [Sessions -> Script!Statements]
      /\ Script!RankOf(s)' = Script!Rank(x2[s][1], x2[s][2]) + 1
      /\ \A d \in Sessions : Script!RankOf(d) =< Script!RankOf(d)'
  BY <1>0, <1>1, SeedStep
<1>3. Script!RankOf(s)' = 1
  BY <1>2 DEF Script!Rank
<1>4. /\ Script!AssignSound' /\ DOMAIN x4' = DOMAIN x4
      /\ x4'.disturbed \in BOOLEAN
  BY <1>0, <1>1, DisturbSound
<1>5. /\ DOMAIN x1' = {"categories", "vendors", "products", "users"}
      /\ x1'.categories = {} /\ Script!Products' = {} /\ DOMAIN x1'.users = {}
  BY <1>1 DEF Script!Empty, Script!Products
<1>6. Script!TypeOK'
  BY <1>0, <1>1, <1>2, <1>4, <1>5 DEF Script!TypeOK
<1>7. Script!SeedersSound'
  <2>1. /\ Script!LastSeed \in Nat /\ Script!LastSeed >= 1
        /\ VendorSeeds = 1 .. Script!LastSeed
    BY SeedFacts
  <2>2. \A n \in VendorSeeds : /\ ~Script!Past(s, "category", n)'
                               /\ ~Script!Past(s, "vendor", n)'
                               /\ ~Script!Past(s, "product", n)'
    BY <1>3, <2>1 DEF Script!Past, Script!Rank, Script!LastSeed
  <2>3. \A n \in 1 .. 3 : ~Script!Past(s, "user", n)'
    BY <1>3, <2>1 DEF Script!Past, Script!Rank, Script!LastSeed
  <2>4. Script!Inserted(s)'
    BY <2>2, <2>3 DEF Script!Inserted
  <2> QED BY <1>1, <2>4 DEF Script!SeedersSound
<1>8. Script!RowsOld'
  BY <1>5 DEF Script!RowsOld
<1>9. Script!HoldersSound' /\ Script!Counted'
  BY <1>0, <1>1, <1>2, <1>5, LoadKept DEF Script!TypeOK
<1> QED BY <1>4, <1>6, <1>7, <1>8, <1>9 DEF Script!IInv

\* A seeder that goes on.
LEMMA ScriptInsert ==
  ASSUME Script!ScriptsAssumption, Script!IInv, NEW s \in Sessions, Script!Statement(s),
         x2[s][1] # "truncate"
  PROVE  Script!IInv'
<1> DEFINE what == x2[s][1]
           n == x2[s][2]
<1>0. /\ Script!TypeOK /\ Script!SeedersSound /\ Script!RowsOld /\ Script!AssignSound
      /\ Script!HoldersSound /\ Script!Counted
  BY DEF Script!IInv
<1>1. /\ Script!Running(s) /\ x2' = [x2 EXCEPT ![s] = Script!Following(what, n)]
      /\ Script!Fits(s, what, n) /\ x1' = Script!Insert(s, what, n) /\ x3' = x3
      /\ Script!Disturb /\ UNCHANGED <<x5, x6>>
  BY DEF Script!Statement
<1>2. /\ x2[s] = <<what, n>> /\ <<what, n>> \in Script!Statements
      /\ x2' \in [Sessions -> Script!Statements] /\ x2'[s][1] # "failed"
      /\ \A d \in Sessions \ {s} :
           x2'[d] = x2[d] /\ Script!RankOf(d)' = Script!RankOf(d)
      /\ Script!RankOf(s)' = Script!Rank(what, n) + 1
      /\ \A d \in Sessions :
           Script!RankOf(d) \in Nat /\ Script!RankOf(d) =< Script!RankOf(d)'
  BY <1>0, <1>1, SeedStep
<1>3. /\ what \notin {"truncate", "completed", "failed"}
      /\ Script!RankOf(s) = Script!Rank(what, n)
  BY <1>1 DEF Script!Running, Script!RankOf
<1> HIDE DEF what, n
<1>4. ScriptGrown(s, what, n)
  BY <1>0, <1>1, <1>2, <1>3, InsertGrows
<1>5. n \in Nat /\ Script!Rank(what, n) \in Nat
  BY <1>2, StatementFacts, <<what, n>>[1] = what, <<what, n>>[2] = n
<1>6. /\ Script!AssignSound' /\ DOMAIN x4' = DOMAIN x4
      /\ x4'.disturbed \in BOOLEAN
  BY <1>0, <1>1, DisturbSound
<1>7. Script!TypeOK'
  <2>1. /\ DOMAIN x1' = {"categories", "vendors", "products", "users"}
        /\ x1'.categories \subseteq VendorSeeds
        /\ DOMAIN x1'.users \subseteq Script!Range(Script!DemoUsers)
    BY <1>0, <1>4 DEF Script!TypeOK, ScriptGrown
  <2>2. Script!Products' \subseteq Script!Rows
    <3>1. Script!RowOf(s, n) \in Script!Rows
      BY <1>5 DEF Script!RowOf, Script!Rows
    <3> QED BY <1>0, <1>4, <3>1 DEF Script!TypeOK, ScriptGrown
  <2>3. \A p \in Script!Products' :
          x1'.products[p] \in [vendor : x1'.vendors, stock : Nat]
    <3>1. \A p \in Script!Products :
            x1.products[p] \in [vendor : x1.vendors, stock : Nat]
      BY <1>0 DEF Script!TypeOK
    <3>2. x1.vendors \subseteq x1'.vendors
      BY <1>4 DEF ScriptGrown
    <3>3. \A p \in Script!Products :
            x1.products[p] \in [vendor : x1'.vendors, stock : Nat]
      BY <3>1, <3>2
    <3> QED BY <1>4, <3>3 DEF ScriptGrown
  <2> QED BY <1>0, <1>1, <1>2, <1>6, <2>1, <2>2, <2>3 DEF Script!TypeOK
<1>8. Script!SeedersSound'
  <2>1. ASSUME NEW d \in Sessions, Script!Inserted(d),
               \A m \in VendorSeeds :
                 /\ Script!Past(d, "category", m)' => Script!Past(d, "category", m)
                                               \/ (d = s /\ what = "category" /\ m = n)
                 /\ Script!Past(d, "vendor", m)' => Script!Past(d, "vendor", m)
                                             \/ (d = s /\ what = "vendor" /\ m = n)
                 /\ Script!Past(d, "product", m)' => Script!Past(d, "product", m)
                                              \/ (d = s /\ what = "product" /\ m = n),
               \A m \in 1 .. 3 : Script!Past(d, "user", m)' => Script!Past(d, "user", m)
                                                        \/ (d = s /\ what = "user" /\ m = n)
        PROVE  Script!Inserted(d)'
    <3>1. ASSUME NEW m \in VendorSeeds
          PROVE  /\ Script!Past(d, "category", m)' => m \in x1'.categories
                 /\ Script!Past(d, "vendor", m)' => Script!RowOf(d, m) \in x1'.vendors
                 /\ Script!Past(d, "product", m)' =>
                      Script!RowOf(d, m) \in Script!Products'
      BY <1>4, <2>1 DEF Script!Inserted, ScriptGrown
    <3>2. ASSUME NEW m \in 1 .. 3, Script!Past(d, "user", m)'
          PROVE  /\ Script!DemoUsers[m] \in DOMAIN x1'.users
                 /\ Script!DemoUsers[m] = "vendor" => x1'.users["vendor"] = Script!RowOf(d, 1)
      <4>1. CASE Script!Past(d, "user", m)
        <5>1. /\ Script!DemoUsers[m] \in DOMAIN x1.users
              /\ Script!DemoUsers[m] = "vendor" => x1.users["vendor"] = Script!RowOf(d, 1)
          BY <2>1, <4>1 DEF Script!Inserted
        <5> QED BY <1>4, <5>1 DEF ScriptGrown
      <4>2. CASE d = s /\ what = "user" /\ m = n
        BY <1>4, <4>2 DEF ScriptGrown
      <4> QED BY <2>1, <3>2, <4>1, <4>2
    <3>3. (\A m \in VendorSeeds :
            /\ Script!Past(d, "category", m) => m \in x1.categories
            /\ Script!Past(d, "vendor", m) => Script!RowOf(d, m) \in x1.vendors
            /\ Script!Past(d, "product", m) => Script!RowOf(d, m) \in Script!Products)'
      BY <3>1 DEF Script!RowOf
    <3>4. (\A m \in 1 .. 3 : Script!Past(d, "user", m) =>
            /\ Script!DemoUsers[m] \in DOMAIN x1.users
            /\ Script!DemoUsers[m] = "vendor" => x1.users["vendor"] = Script!RowOf(d, 1))'
      BY <3>2 DEF Script!RowOf, Script!DemoUsers
    <3> QED BY <3>3, <3>4 DEF Script!Inserted
  <2>2. ASSUME NEW d \in Sessions, NEW w, NEW m, <<w, m>> \in Script!Statements,
               Script!Past(d, w, m)'
        PROVE  Script!Past(d, w, m) \/ (d = s /\ what = w /\ m = n)
    <3>0. Script!Rank(w, m)' = Script!Rank(w, m) /\ Script!Rank(w, m) \in Nat
      BY <2>2, StatementFacts, <<w, m>>[1] = w, <<w, m>>[2] = m
         DEF Script!Rank, Script!LastSeed
    <3>9. Script!Rank(w, m) < Script!RankOf(d)'
      BY <2>2, <3>0 DEF Script!Past
    <3>1. CASE d # s
      <4>1. Script!RankOf(d)' = Script!RankOf(d)
        BY <1>2, <3>1
      <4> QED BY <3>9, <4>1 DEF Script!Past
    <3>2. CASE d = s
      <4>1. Script!Rank(w, m) < Script!Rank(what, n) + 1
        BY <1>2, <3>9, <3>2
      <4>2. CASE Script!Rank(w, m) < Script!Rank(what, n)
        <5>1. Script!Rank(w, m) < Script!RankOf(d)
          BY <1>3, <3>2, <4>2
        <5> QED BY <5>1 DEF Script!Past
      <4>3. CASE Script!Rank(w, m) = Script!Rank(what, n)
        BY <1>2, <2>2, <3>2, <4>3, RankInjective
      <4> QED BY <1>5, <3>0, <4>1, <4>2, <4>3
    <3> QED BY <3>1, <3>2
  <2>3. /\ \A m \in VendorSeeds : /\ <<"category", m>> \in Script!Statements
                                  /\ <<"vendor", m>> \in Script!Statements
                                  /\ <<"product", m>> \in Script!Statements
        /\ \A m \in 1 .. 3 : <<"user", m>> \in Script!Statements
    BY DEF Script!Statements
  <2>4. ASSUME NEW d \in Sessions, x2'[d][1] # "failed", x3' = d
        PROVE  Script!Inserted(d)'
    <3>1. x2[d][1] # "failed" /\ x3 = d
      BY <1>1, <1>2, <1>3, <2>4 DEF what
    <3>2. Script!Inserted(d)
      BY <1>0, <3>1 DEF Script!SeedersSound
    <3> QED BY <2>1, <2>2, <2>3, <3>2
  <2> QED BY <2>4 DEF Script!SeedersSound
<1>9. ASSUME NEW p \in Script!Products'
      PROVE  Script!Old(p)'
  <2>1. CASE p \in Script!Products
    <3>1. p \in Script!Rows /\ Script!Old(p) /\ x6' = x6 /\ x6 \in Nat
      BY <1>0, <1>1, <2>1 DEF Script!RowsOld, Script!TypeOK
    <3> QED BY <1>0, <1>2, <3>1, OldStays
  <2>2. CASE p \notin Script!Products
    <3>1. p = Script!RowOf(s, n) /\ what = "product"
      BY <1>4, <2>2 DEF ScriptGrown
    <3>2. p.run = s /\ p.n = n /\ s # Nobody
      BY <3>1, RowFacts DEF Script!ScriptsAssumption
    <3>3. Script!Rank("product", n) < Script!Rank(x2'[s][1], x2'[s][2])
      BY <1>2, <1>5, <3>1 DEF Script!RankOf
    <3>4. Script!Rank("product", p.n) < Script!Rank(x2'[p.run][1], x2'[p.run][2])
      BY <3>2, <3>3
    <3> QED BY <3>2, <3>4 DEF Script!Old, Script!Past, Script!RankOf
  <2> QED BY <2>1, <2>2
<1>10. Script!RowsOld'
  BY <1>9 DEF Script!RowsOld
<1>11. ASSUME x5.at = "oversell", x5.products[1] \in Script!Products'
       PROVE  x5.products[1] \in Script!Products
  <2> SUFFICES ASSUME x5.products[1] \notin Script!Products
               PROVE  FALSE
    OBVIOUS
  <2>1. x5.products[1] = Script!RowOf(s, n) /\ what = "product"
    BY <1>4, <1>11 DEF ScriptGrown
  <2>2. Script!Old(x5.products[1])
    BY <1>0, <1>11 DEF Script!Counted
  <2>3. Script!Past(s, "product", n)
    BY <2>1, <2>2, RowFacts DEF Script!Old, Script!ScriptsAssumption
  <2> QED BY <1>3, <1>5, <2>1, <2>3 DEF Script!Past
<1>12. Script!HoldersSound' /\ Script!Counted'
  <2>1. \A i \in Script!Holding : /\ x5.tries[i].product \in Script!Products'
                           /\ x1'.products[x5.tries[i].product].stock
                                = x1.products[x5.tries[i].product].stock
    BY <1>0, <1>4 DEF Script!HoldersSound, ScriptGrown
  <2>2. x5.at = "oversell" /\ x5.products[1] \in Script!Products' =>
          /\ x5.products[1] \in Script!Products
          /\ x1'.products[x5.products[1]].stock \in Nat
          /\ x1'.products[x5.products[1]].stock =< x1.products[x5.products[1]].stock
    <3>1. ASSUME NEW p \in Script!Products
          PROVE  x1'.products[p] = x1.products[p] /\ x1.products[p].stock \in Nat
      BY <1>0, <1>4 DEF ScriptGrown, Script!TypeOK
    <3> QED BY <1>11, <3>1
  <2>3. x5' = x5 /\ x6' = x6 /\ x6 \in Nat /\ x5.restocked \in BOOLEAN
    BY <1>0, <1>1 DEF Script!TypeOK
  <2> QED BY <1>2, <2>1, <2>2, <2>3, LoadKept
<1> QED BY <1>6, <1>7, <1>8, <1>10, <1>12 DEF Script!IInv

\* A seeder that fails.
LEMMA ScriptFail ==
  ASSUME Script!ScriptsAssumption, Script!IInv, NEW s \in Sessions, Script!Fail(s)
  PROVE  Script!IInv'
<1>0. /\ Script!TypeOK /\ Script!SeedersSound /\ Script!RowsOld /\ Script!AssignSound
      /\ Script!HoldersSound /\ Script!Counted
  BY DEF Script!IInv
<1>1. /\ x2' = [x2 EXCEPT ![s] = <<"failed", 0>>]
      /\ UNCHANGED <<x1, x3, x4, x5, x6>>
  BY DEF Script!Fail
<1>2. /\ x2' \in [Sessions -> Script!Statements] /\ x2'[s] = <<"failed", 0>>
      /\ \A d \in Sessions \ {s} : x2'[d] = x2[d]
  <2>1. <<"failed", 0>> \in Script!Statements
    BY DEF Script!Statements
  <2> QED BY <1>0, <1>1, <2>1 DEF Script!TypeOK
<1>3. \A d \in Sessions : Script!RankOf(d) \in Nat
  BY <1>0, StatementFacts DEF Script!TypeOK, Script!RankOf
<1>4. \A d \in Sessions \ {s} : Script!RankOf(d)' = Script!RankOf(d)
  BY <1>2 DEF Script!RankOf, Script!Rank, Script!LastSeed
<1>5. /\ Script!RankOf(s)' = Script!Rank("failed", 0)
      /\ Script!RankOf(s) =< Script!Rank("failed", 0)
  <2>1. Script!RankOf(s)' = Script!Rank("failed", 0)
    BY <1>2, <<"failed", 0>>[1] = "failed", <<"failed", 0>>[2] = 0 DEF Script!RankOf
  <2>2. Script!RankOf(s) =< Script!Rank("failed", 0)
    BY <1>0, FailedIsLast DEF Script!TypeOK, Script!RankOf
  <2> QED BY <2>1, <2>2
<1>6. \A d \in Sessions : Script!RankOf(d) =< Script!RankOf(d)'
  BY <1>3, <1>4, <1>5
<1>7. Script!TypeOK'
  BY <1>0, <1>1, <1>2 DEF Script!TypeOK, Script!Products
<1>8. Script!SeedersSound'
  <2>1. ASSUME NEW d \in Sessions, x2'[d][1] # "failed", x3' = d
        PROVE  Script!Inserted(d)'
    <3>1. d # s
      BY <1>2, <2>1
    <3>2. x2'[d] = x2[d] /\ Script!Inserted(d)
      BY <1>0, <1>1, <1>2, <2>1, <3>1 DEF Script!SeedersSound
    <3> QED BY <1>1, <3>2
                DEF Script!Inserted, Script!Past, Script!RankOf, Script!Products
  <2> QED BY <2>1 DEF Script!SeedersSound
<1>9. Script!RowsOld'
  <2>1. \A p \in Script!Products : Script!Old(p)'
    BY <1>0, <1>1, <1>2, <1>6, OldStays DEF Script!RowsOld, Script!TypeOK
  <2> QED BY <1>1, <2>1 DEF Script!RowsOld, Script!Products
<1>10. Script!AssignSound'
  BY <1>0, <1>1 DEF Script!AssignSound, Script!Owners, Script!Products
<1>11. Script!HoldersSound' /\ Script!Counted'
  <2>1. \A i \in Script!Holding : x5.tries[i].product \in Script!Products'
    BY <1>0, <1>1 DEF Script!HoldersSound, Script!Products
  <2>2. x5.at = "oversell" /\ x5.products[1] \in Script!Products' =>
          /\ x5.products[1] \in Script!Products
          /\ x1'.products[x5.products[1]].stock \in Nat
          /\ x1'.products[x5.products[1]].stock =< x1.products[x5.products[1]].stock
    BY <1>0, <1>1 DEF Script!TypeOK, Script!Products
  <2>3. x5' = x5 /\ x6' = x6 /\ x6 \in Nat /\ x5.restocked \in BOOLEAN /\ x1' = x1
    BY <1>0, <1>1 DEF Script!TypeOK
  <2> QED BY <1>2, <1>6, <2>1, <2>2, <2>3, LoadKept
<1> QED BY <1>7, <1>8, <1>9, <1>10, <1>11 DEF Script!IInv

\* Where no seeder takes a step and nothing but products changes, which may be new,
\* what was said of the seeders and of the rows still is.
LEMMA TablesKept ==
  ASSUME Script!ScriptsAssumption, Script!TypeOK, Script!SeedersSound, Script!RowsOld,
         UNCHANGED <<x2, x3>>, x6' \in Nat, x6 =< x6',
         DOMAIN x1' = DOMAIN x1, x1'.categories = x1.categories,
         x1'.vendors = x1.vendors, x1'.users = x1.users,
         Script!Products \subseteq Script!Products',
         \A p \in Script!Products' :
           /\ p \in Script!Rows
           /\ x1'.products[p] \in [vendor : x1.vendors, stock : Nat]
           /\ p \notin Script!Products => Script!Old(p)',
         DOMAIN x4' = DOMAIN x4, x4'.disturbed \in BOOLEAN,
         DOMAIN x5' = DOMAIN x5, x5'.sold \in Nat, x5'.restocked \in BOOLEAN,
         \A i \in DOMAIN x5'.tries : DOMAIN x5'.tries[i] = {"product", "at", "read"}
  PROVE  Script!TypeOK' /\ Script!SeedersSound' /\ Script!RowsOld'
<1>1. Script!TypeOK'
  BY DEF Script!TypeOK
<1>2. \A d \in Sessions :
        Script!RankOf(d)' = Script!RankOf(d) /\ Script!RankOf(d) \in Nat
  BY StatementFacts DEF Script!TypeOK, Script!RankOf, Script!Rank, Script!LastSeed
<1>3. ASSUME NEW d \in Sessions, Script!Inserted(d)
      PROVE  Script!Inserted(d)'
  BY <1>3 DEF Script!Inserted, Script!Past, Script!RankOf
<1>4. Script!SeedersSound'
  BY <1>3 DEF Script!SeedersSound
<1>5. ASSUME NEW p \in Script!Products
      PROVE  Script!Old(p)'
  <2>1. p \in Script!Rows /\ Script!Old(p)
    BY DEF Script!TypeOK, Script!RowsOld
  <2>2. /\ x2' \in [Sessions -> Script!Statements]
        /\ \A d \in Sessions : Script!RankOf(d) =< Script!RankOf(d)'
    BY <1>2 DEF Script!TypeOK
  <2> QED BY <2>1, <2>2, OldStays
<1>6. Script!RowsOld'
  BY <1>5 DEF Script!RowsOld
<1> QED BY <1>1, <1>4, <1>6

\* A statement of the assignment leaves the load test alone.
LEMMA AssignStep ==
  ASSUME Script!ScriptsAssumption, Script!IInv, UNCHANGED <<x2, x3, x5, x6>>,
         DOMAIN x1' = DOMAIN x1, x1'.categories = x1.categories,
         x1'.vendors = x1.vendors, x1'.users = x1.users,
         Script!Products' = Script!Products,
         \A p \in Script!Products :
           /\ x1'.products[p] \in [vendor : x1.vendors, stock : Nat]
                             /\ x1'.products[p].stock = x1.products[p].stock,
         DOMAIN x4' = DOMAIN x4, x4'.disturbed \in BOOLEAN,
         Script!AssignSound'
  PROVE  Script!IInv'
<1>0. /\ Script!TypeOK /\ Script!SeedersSound /\ Script!RowsOld /\ Script!HoldersSound
      /\ Script!Counted
  BY DEF Script!IInv
<1>1. /\ x6' = x6 /\ x6 \in Nat /\ x5' = x5 /\ x5.restocked \in BOOLEAN
      /\ x5.sold \in Nat
  BY <1>0 DEF Script!TypeOK
<1>2. \A p \in Script!Products : p \in Script!Rows /\ x1.products[p].stock \in Nat
  BY <1>0 DEF Script!TypeOK
<1>3. \A i \in DOMAIN x5.tries : DOMAIN x5.tries[i] = {"product", "at", "read"}
  BY <1>0 DEF Script!TypeOK
<1>4. Script!TypeOK' /\ Script!SeedersSound' /\ Script!RowsOld'
  BY <1>0, <1>1, <1>2, <1>3, TablesKept
<1>5. \A d \in Sessions :
        Script!RankOf(d) =< Script!RankOf(d)' /\ x2' \in [Sessions -> Script!Statements]
  BY <1>0, StatementFacts DEF Script!TypeOK, Script!RankOf, Script!Rank, Script!LastSeed
<1>6. \A i \in Script!Holding : x5.tries[i].product \in Script!Products
  BY <1>0 DEF Script!HoldersSound
<1>7. Script!HoldersSound' /\ Script!Counted'
  BY <1>1, <1>2, <1>4, <1>5, <1>6, LoadKept DEF Script!TypeOK
<1> QED BY <1>4, <1>7 DEF Script!IInv

\* A look at the tables.
LEMMA LookStep ==
  ASSUME Script!ScriptsAssumption, Script!IInv, UNCHANGED <<x1, x2, x3, x5, x6>>,
         DOMAIN x4' = DOMAIN x4, x4'.disturbed = x4.disturbed,
         Script!AssignSound'
  PROVE  Script!IInv'
<1>1. Script!TypeOK
  BY DEF Script!IInv
<1>2. \A p \in Script!Products : x1.products[p] \in [vendor : x1.vendors, stock : Nat]
  BY <1>1 DEF Script!TypeOK
<1> QED BY <1>1, <1>2, AssignStep DEF Script!TypeOK, Script!Products

\* What is kept of the assignment.
LEMMA AssignFields ==
  ASSUME Script!TypeOK
  PROVE  /\ DOMAIN x4 = {"at", "target", "count", "backup", "ids", "owner", "disturbed"}
         /\ x4.disturbed \in BOOLEAN
BY DEF Script!TypeOK

\* What the assignment reads, and counts at the end.
LEMMA ScriptLooks ==
  ASSUME Script!ScriptsAssumption, Script!IInv,
         \/ Script!ReadUser \/ Script!ReadVendor \/ Script!CountBefore
         \/ Script!BackUp \/ Script!ReadIds \/ Script!Validate
  PROVE  Script!IInv'
<1>0. Script!TypeOK /\ Script!AssignSound
  BY DEF Script!IInv
<1>1. /\ DOMAIN x4 = {"at", "target", "count", "backup", "ids", "owner", "disturbed"}
      /\ x4.disturbed \in BOOLEAN
  BY <1>0, AssignFields
<1>2. UNCHANGED <<x1, x2, x3, x5, x6>>
  BY DEF Script!ReadUser, Script!ReadVendor, Script!CountBefore, Script!BackUp,
         Script!ReadIds, Script!Validate, Script!Looks, Script!Assigns
<1>3. DOMAIN x4' = DOMAIN x4 /\ x4'.disturbed = x4.disturbed
  BY <1>1
     DEF Script!ReadUser, Script!ReadVendor, Script!CountBefore, Script!BackUp,
         Script!ReadIds, Script!Validate, Script!Looks, Script!Assigns
<1>4. CASE Script!ReadUser
  <2>1. x4'.at \in {"vendor", "aborted"}
    BY <1>1, <1>4 DEF Script!ReadUser, Script!Looks, Script!Assigns
  <2>2. Script!AssignSound'
    BY <2>1 DEF Script!AssignSound
  <2> QED BY <1>2, <1>3, <2>2, LookStep
<1>5. CASE Script!ReadVendor
  <2>1. /\ x4'.target = x4.target
        /\ x4'.at = IF x4.target \in x1.vendors THEN "before" ELSE "aborted"
    BY <1>1, <1>5 DEF Script!ReadVendor, Script!Looks, Script!Assigns
  <2>2. Script!AssignSound'
    BY <1>2, <2>1 DEF Script!AssignSound
  <2> QED BY <1>2, <1>3, <2>2, LookStep
<1>6. CASE Script!CountBefore
  <2>1. /\ x4'.target = x4.target
        /\ x4.at = "before" /\ x4'.at = "backup"
    BY <1>1, <1>6 DEF Script!CountBefore, Script!Looks, Script!Assigns
  <2>2. Script!AssignSound'
    BY <1>0, <1>2, <1>3, <2>1 DEF Script!AssignSound
  <2> QED BY <1>2, <1>3, <2>2, LookStep
<1>7. CASE Script!BackUp
  <2>1. /\ x4'.target = x4.target /\ x4'.backup = Script!Owners
        /\ x4.at = "backup" /\ x4'.at = "ids"
    BY <1>1, <1>7 DEF Script!BackUp, Script!Looks, Script!Assigns, Script!Owners
  <2>2. Script!Owners' = Script!Owners
    BY <1>2 DEF Script!Owners, Script!Products
  <2>3. Script!AssignSound'
    BY <1>0, <1>2, <1>3, <2>1, <2>2 DEF Script!AssignSound
  <2> QED BY <1>2, <1>3, <2>3, LookStep
<1>8. CASE Script!ReadIds
  <2>1. /\ x4'.target = x4.target /\ x4'.backup = x4.backup
        /\ x4'.ids = Script!Products
        /\ x4.at = "ids" /\ x4'.at = "update"
    BY <1>1, <1>8 DEF Script!ReadIds, Script!Looks, Script!Assigns
  <2>2. Script!Owners' = Script!Owners /\ Script!Products' = Script!Products
    BY <1>2 DEF Script!Owners, Script!Products
  <2>3. Script!AssignSound'
    BY <1>0, <1>2, <1>3, <2>1, <2>2 DEF Script!AssignSound
  <2> QED BY <1>2, <1>3, <2>3, LookStep
<1>9. CASE Script!Validate
  <2>1. /\ x4'.target = x4.target /\ x4'.backup = x4.backup
        /\ x4'.owner = x4.owner
        /\ x4.at = "after" /\ x4'.at \in {"passed", "validation failed"}
    BY <1>1, <1>9 DEF Script!Validate, Script!Looks, Script!Assigns
  <2>2. Script!Products' = Script!Products
    BY <1>2 DEF Script!Products
  <2>3. Script!AssignSound'
    BY <1>0, <1>2, <1>3, <2>1, <2>2 DEF Script!AssignSound
  <2> QED BY <1>2, <1>3, <2>3, LookStep
<1> QED BY <1>4, <1>5, <1>6, <1>7, <1>8, <1>9

\* Its one transaction gives every product that it knows to the demo vendor.
LEMMA ScriptUpdates ==
  ASSUME Script!ScriptsAssumption, Script!IInv, Script!UpdateAll
  PROVE  Script!IInv'
<1>0. Script!TypeOK /\ Script!AssignSound
  BY DEF Script!IInv
<1>1. /\ DOMAIN x4 = {"at", "target", "count", "backup", "ids", "owner", "disturbed"}
      /\ x4.disturbed \in BOOLEAN
  BY <1>0, AssignFields
<1>2. x4.at = "update" /\ UNCHANGED <<x2, x3, x5, x6>>
  BY DEF Script!UpdateAll, Script!Assigns
<1> DEFINE touched == x4.ids \cap Script!Products
           new == [p \in Script!Products |->
                     IF p \in x4.ids THEN [x1.products[p] EXCEPT !.vendor = x4.target]
                     ELSE x1.products[p]]
<1>3. DOMAIN x1 = {"categories", "vendors", "products", "users"}
      /\ \A p \in Script!Products :
           x1.products[p] \in [vendor : x1.vendors, stock : Nat]
  BY <1>0 DEF Script!TypeOK
<1>4. x1' = IF x4'.at = "aborted" THEN x1 ELSE [x1 EXCEPT !.products = new]
  BY DEF Script!UpdateAll
<1>5. CASE x4.target \in x1.vendors
  <2>1. x4' = [x4 EXCEPT !.at = "after",
                     !.owner = [p \in touched |-> x1.products[p].vendor]]
    BY <1>5 DEF Script!UpdateAll, Script!Assigns
  <2>2. /\ DOMAIN x4' = DOMAIN x4 /\ x4'.disturbed = x4.disturbed
        /\ x4'.at = "after" /\ x4'.target = x4.target
        /\ x4'.backup = x4.backup
        /\ x4'.owner = [p \in touched |-> x1.products[p].vendor]
    BY <1>1, <2>1
  <2>3. /\ DOMAIN x1' = DOMAIN x1 /\ x1'.categories = x1.categories
        /\ x1'.vendors = x1.vendors /\ x1'.users = x1.users /\ x1'.products = new
    BY <1>3, <1>4, <2>2
  <2>4. /\ Script!Products' = Script!Products
        /\ \A p \in Script!Products :
             /\ x1'.products[p] \in [vendor : x1.vendors, stock : Nat]
             /\ x1'.products[p].stock = x1.products[p].stock
             /\ p \in x4.ids => x1'.products[p].vendor = x4.target
    BY <1>3, <1>5, <2>3 DEF Script!Products
  <2>5. Script!AssignSound'
    <3> SUFFICES ASSUME ~x4.disturbed
                 PROVE  Script!AssignSound'
      BY <2>2 DEF Script!AssignSound
    <3>1. /\ x4.target \in x1.vendors /\ x4.backup = Script!Owners
          /\ x4.ids = Script!Products
      BY <1>0, <1>2 DEF Script!AssignSound
    <3>2. touched = Script!Products
      BY <3>1
    <3>3. x4'.owner = Script!Owners
      BY <2>2, <3>2 DEF Script!Owners
    <3> QED BY <2>2, <2>3, <2>4, <3>1, <3>3 DEF Script!AssignSound
  <2> QED BY <1>1, <1>2, <2>2, <2>3, <2>4, <2>5, AssignStep
<1>6. CASE x4.target \notin x1.vendors
  <2>1. x4' = [x4 EXCEPT !.at = IF touched = {} THEN "after" ELSE "aborted"]
    BY <1>6 DEF Script!UpdateAll, Script!Assigns
  <2>2. /\ DOMAIN x4' = DOMAIN x4 /\ x4'.disturbed = x4.disturbed
        /\ x4'.at = IF touched = {} THEN "after" ELSE "aborted"
    BY <1>1, <2>1
  <2>3. x4.disturbed
    BY <1>0, <1>2, <1>6 DEF Script!AssignSound
  <2>4. Script!AssignSound'
    BY <2>2, <2>3 DEF Script!AssignSound
  <2>5. /\ DOMAIN x1' = DOMAIN x1 /\ x1'.categories = x1.categories
        /\ x1'.vendors = x1.vendors /\ x1'.users = x1.users
        /\ Script!Products' = Script!Products
        /\ \A p \in Script!Products : x1'.products[p] = x1.products[p]
    <3>1. CASE touched = {}
      <4>1. /\ DOMAIN x1' = DOMAIN x1 /\ x1'.categories = x1.categories
            /\ x1'.vendors = x1.vendors /\ x1'.users = x1.users /\ x1'.products = new
        BY <1>3, <1>4, <2>2, <3>1
      <4>2. \A p \in Script!Products : new[p] = x1.products[p]
        BY <3>1
      <4> QED BY <4>1, <4>2 DEF Script!Products
    <3>2. CASE touched # {}
      BY <1>4, <2>2, <3>2 DEF Script!Products
    <3> QED BY <3>1, <3>2
  <2> QED BY <1>1, <1>2, <1>3, <2>2, <2>4, <2>5, AssignStep
<1> QED BY <1>5, <1>6

\* An assignment is as sound as it was when nobody's vendor changed.
LEMMA AssignKept ==
  ASSUME Script!AssignSound, x4' = x4, x1'.vendors = x1.vendors,
         Script!Products' = Script!Products,
         \A p \in Script!Products : x1'.products[p].vendor = x1.products[p].vendor
  PROVE  Script!AssignSound'
<1>1. Script!Owners' = Script!Owners
  BY DEF Script!Owners
<1> QED BY <1>1 DEF Script!AssignSound

\* A statement that sets the stock of one product.
LEMMA StockSet ==
  ASSUME Script!TypeOK, NEW p \in Script!Products, NEW n \in Nat,
         x1' = [x1 EXCEPT !.products[p].stock = n]
  PROVE  /\ DOMAIN x1' = DOMAIN x1 /\ x1'.categories = x1.categories
         /\ x1'.vendors = x1.vendors /\ x1'.users = x1.users
         /\ Script!Products' = Script!Products
         /\ \A q \in Script!Products :
              /\ x1'.products[q] \in [vendor : x1.vendors, stock : Nat]
              /\ x1'.products[q].vendor = x1.products[q].vendor
              /\ x1'.products[q].stock = IF q = p THEN n ELSE x1.products[q].stock
<1>1. /\ DOMAIN x1 = {"categories", "vendors", "products", "users"}
      /\ \A q \in Script!Products :
           x1.products[q] \in [vendor : x1.vendors, stock : Nat]
  BY DEF Script!TypeOK
<1> DEFINE row == [x1.products[p] EXCEPT !.stock = n]
           new == [x1.products EXCEPT ![p] = row]
<1>2. /\ row \in [vendor : x1.vendors, stock : Nat]
      /\ row.vendor = x1.products[p].vendor /\ row.stock = n
  BY <1>1
<1>3. x1' = [x1 EXCEPT !.products = new]
  OBVIOUS
<1> HIDE DEF row
<1>4. /\ DOMAIN new = Script!Products /\ new[p] = row
      /\ \A q \in Script!Products : q # p => new[q] = x1.products[q]
  BY DEF Script!Products
<1> HIDE DEF new
<1>5. /\ DOMAIN x1' = DOMAIN x1 /\ x1'.categories = x1.categories
      /\ x1'.vendors = x1.vendors /\ x1'.users = x1.users /\ x1'.products = new
  BY <1>1, <1>3
<1> QED BY <1>1, <1>2, <1>4, <1>5 DEF Script!Products

\* A step that changes stocks and the load test alone, and no stock by another's.
LEMMA LoadStep ==
  ASSUME Script!ScriptsAssumption, Script!IInv, UNCHANGED <<x2, x3, x4>>,
         x6' \in Nat, x6 =< x6',
         DOMAIN x1' = DOMAIN x1, x1'.categories = x1.categories,
         x1'.vendors = x1.vendors, x1'.users = x1.users,
         Script!Products' = Script!Products,
         \A p \in Script!Products :
           /\ x1'.products[p] \in [vendor : x1.vendors, stock : Nat]
                             /\ x1'.products[p].vendor = x1.products[p].vendor,
         DOMAIN x5' = DOMAIN x5, x5'.sold \in Nat, x5'.restocked \in BOOLEAN,
         \A i \in DOMAIN x5'.tries : DOMAIN x5'.tries[i] = {"product", "at", "read"},
         Script!HoldersSound' /\ Script!Counted'
  PROVE  Script!IInv'
<1>0. Script!TypeOK /\ Script!SeedersSound /\ Script!RowsOld /\ Script!AssignSound
  BY DEF Script!IInv
<1>1. \A p \in Script!Products' : p \in Script!Rows
  BY <1>0 DEF Script!TypeOK
<1>2. Script!TypeOK' /\ Script!SeedersSound' /\ Script!RowsOld'
  BY <1>0, <1>1, TablesKept DEF Script!TypeOK
<1>3. Script!AssignSound'
  BY <1>0, AssignKept
<1> QED BY <1>2, <1>3 DEF Script!IInv

\* The same where no stock changes.
LEMMA LoadStill ==
  ASSUME Script!ScriptsAssumption, Script!IInv, UNCHANGED <<x1, x2, x3, x4, x6>>,
         DOMAIN x5' = DOMAIN x5, x5'.sold \in Nat, x5'.restocked \in BOOLEAN,
         \A i \in DOMAIN x5'.tries : DOMAIN x5'.tries[i] = {"product", "at", "read"},
         Script!HoldersSound' /\ Script!Counted'
  PROVE  Script!IInv'
<1>1. Script!TypeOK
  BY DEF Script!IInv
<1>2. \A p \in Script!Products : x1.products[p] \in [vendor : x1.vendors, stock : Nat]
  BY <1>1 DEF Script!TypeOK
<1> QED BY <1>1, <1>2, LoadStep DEF Script!TypeOK, Script!Products

\* What is kept of the load test, and of products.
LEMMA LoadFields ==
  ASSUME Script!TypeOK
  PROVE  /\ DOMAIN x5 = {"at", "products", "tries", "sold", "restocked"}
         /\ \A i \in DOMAIN x5.tries : DOMAIN x5.tries[i] = {"product", "at", "read"}
         /\ x5.sold \in Nat /\ x5.restocked \in BOOLEAN
         /\ DOMAIN x1 = {"categories", "vendors", "products", "users"}
         /\ x6 \in Nat
         /\ \A p \in Script!Products :
              p \in Script!Rows /\ x1.products[p] \in [vendor : x1.vendors, stock : Nat]
BY DEF Script!TypeOK

\* Nothing holds a row when every purchase has ended, or none has begun.
LEMMA NoneHolds ==
  ASSUME Script!Holding' = {}, NEW at, x5'.at = at, x5'.sold \in Nat,
         at \in {"set", "oversell"} =>
           x5'.products[1] \in Script!Rows /\ Script!Old(x5.products[1])',
         at = "oversell" => \A i \in DOMAIN x5'.tries :
                              x5'.tries[i].product = x5'.products[1],
         at \in {"pick", "set", "no products"} => x5'.sold = 0,
         \/ x5'.restocked
         \/ /\ at # "failed" /\ x5'.sold =< TestStock
            /\ at = "oversell" /\ x5'.products[1] \in Script!Products' =>
                 x5'.sold + x1'.products[x5'.products[1]].stock =< TestStock
  PROVE  Script!HoldersSound' /\ Script!Counted'
<1>1. Script!HoldersSound'
  BY DEF Script!HoldersSound
<1>2. (x5.at \in {"set", "oversell"} =>
        x5.products[1] \in Script!Rows /\ Script!Old(x5.products[1]))'
  OBVIOUS
<1>3. Script!Counted'
  BY <1>2 DEF Script!Counted
<1> QED BY <1>1, <1>3

\* The load test takes products.
LEMMA ScriptPick ==
  ASSUME Script!ScriptsAssumption, Script!IInv, Script!Pick
  PROVE  Script!IInv'
<1>0. Script!TypeOK /\ Script!RowsOld /\ Script!Counted
  BY DEF Script!IInv
<1> USE LoadFields
<1>1. x5.at = "pick" /\ UNCHANGED <<x1, x2, x3, x4, x6>>
  BY DEF Script!Pick, Script!Loads
<1>2. Script!Holding = {} /\ x5.sold = 0 /\ 0 =< TestStock
  BY <1>0, <1>1 DEF Script!Counted, Script!ScriptsAssumption
<1>3. CASE x5' = [x5 EXCEPT !.at = "no products"]
  <2>1. /\ DOMAIN x5' = DOMAIN x5 /\ x5'.at = "no products"
        /\ x5'.tries = x5.tries /\ x5'.sold = 0 /\ x5'.restocked = x5.restocked
    BY <1>0, <1>2, <1>3
  <2>2. Script!Holding' = {}
    BY <1>2, <2>1 DEF Script!Holding
  <2>3. Script!HoldersSound' /\ Script!Counted'
    BY <1>2, <2>1, <2>2 DEF Script!HoldersSound, Script!Counted
  <2>4. /\ x5.restocked \in BOOLEAN
        /\ \A i \in DOMAIN x5.tries : DOMAIN x5.tries[i] = {"product", "at", "read"}
    BY <1>0
  <2>5. x5'.sold \in Nat
    BY <2>1, 0 \in Nat, Zenon
  <2>8. x5'.restocked \in BOOLEAN
    BY <2>1, <2>4
  <2>6. \A i \in DOMAIN x5'.tries : DOMAIN x5'.tries[i] = {"product", "at", "read"}
    BY <2>1, <2>4
  <2>7. DOMAIN x5' = DOMAIN x5
    BY <2>1
  <2> QED BY <1>1, <2>3, <2>5, <2>6, <2>7, <2>8, LoadStill
<1>4. ASSUME NEW p \in Script!Products, NEW q \in Script!Products,
             x5' = [x5 EXCEPT !.at = "set", !.products = <<p, q>>]
      PROVE  Script!IInv'
  <2>1. /\ DOMAIN x5' = DOMAIN x5 /\ x5'.at = "set" /\ x5'.products[1] = p
        /\ x5'.tries = x5.tries /\ x5'.sold = 0 /\ x5'.restocked = x5.restocked
    BY <1>0, <1>2, <1>4
  <2>2. Script!Holding' = {}
    BY <1>2, <2>1 DEF Script!Holding
  <2>3. p \in Script!Rows /\ Script!Old(p)'
    <3>1. p \in Script!Rows /\ Script!Old(p)
      BY <1>0 DEF Script!RowsOld
    <3>2. Script!Old(p)' = Script!Old(p)
      BY <1>1 DEF Script!Old, Script!Past, Script!RankOf, Script!Rank, Script!LastSeed
    <3> QED BY <3>1, <3>2
  <2>4. Script!Old(x5.products[1])'
    BY <2>1, <2>3 DEF Script!Old, Script!Past, Script!RankOf
  <2>5. Script!HoldersSound' /\ Script!Counted'
    BY <1>2, <2>1, <2>2, <2>3, <2>4 DEF Script!HoldersSound, Script!Counted
  <2> QED BY <1>0, <1>1, <2>1, <2>5, LoadStill
<1> QED BY <1>3, <1>4 DEF Script!Pick

\* It sets the stock of the first, and nothing is sold yet.
LEMMA ScriptSets ==
  ASSUME Script!ScriptsAssumption, Script!IInv, Script!SetStock
  PROVE  Script!IInv'
<1>0. Script!TypeOK /\ Script!RowsOld /\ Script!Counted
  BY DEF Script!IInv
<1> USE LoadFields
<1> DEFINE first == x5.products[1]
           new == [i \in 1 .. Concurrent |-> Script!Try(first)]
<1>1. x5.at = "set" /\ UNCHANGED <<x2, x3, x4, x6>>
  BY DEF Script!SetStock, Script!Loads
<1>2. /\ x5' = [x5 EXCEPT !.at = "oversell", !.tries = new]
      /\ x1' = IF first \in Script!Products
               THEN [x1 EXCEPT !.products[first].stock = TestStock] ELSE x1
  BY DEF Script!SetStock
<1>3. /\ \A i \in DOMAIN new : /\ DOMAIN new[i] = {"product", "at", "read"}
                               /\ new[i].at = "waiting" /\ new[i].product = first
  BY DEF Script!Try
<1> HIDE DEF new, first
<1>4. /\ DOMAIN x5' = DOMAIN x5 /\ x5'.at = "oversell"
      /\ x5'.products = x5.products /\ x5'.tries = new /\ x5'.sold = x5.sold
      /\ x5'.restocked = x5.restocked
  BY <1>0, <1>2
<1>5. Script!Holding' = {}
  BY <1>3, <1>4 DEF Script!Holding
<1>6. x5.sold = 0 /\ TestStock \in Nat /\ first \in Script!Rows /\ Script!Old(first)
  BY <1>0, <1>1 DEF Script!Counted, Script!ScriptsAssumption, first
<1>7. Script!Old(x5.products[1])'
  BY <1>1, <1>4, <1>6 DEF Script!Old, Script!Past, Script!RankOf, first
<1>8. /\ DOMAIN x1' = DOMAIN x1 /\ x1'.categories = x1.categories
      /\ x1'.vendors = x1.vendors /\ x1'.users = x1.users
      /\ Script!Products' = Script!Products
      /\ \A p \in Script!Products :
           /\ x1'.products[p] \in [vendor : x1.vendors, stock : Nat]
                             /\ x1'.products[p].vendor = x1.products[p].vendor
      /\ first \in Script!Products => x1'.products[first].stock = TestStock
  <2>1. CASE first \in Script!Products
    <3>1. x1' = [x1 EXCEPT !.products[first].stock = TestStock]
      BY <1>2, <2>1
    <3> QED BY <1>0, <1>6, <2>1, <3>1, StockSet
  <2>2. CASE first \notin Script!Products
    BY <1>0, <1>2, <2>2 DEF Script!Products
  <2> QED BY <2>1, <2>2
<1>9. Script!HoldersSound' /\ Script!Counted'
  <2>1. first \in Script!Products' => 0 + x1'.products[first].stock =< TestStock
    BY <1>6, <1>8
  <2>2. 0 =< TestStock /\ 0 \in Nat
    BY <1>6
  <2>3. Script!HoldersSound'
    BY <1>5 DEF Script!HoldersSound
  <2>4. Script!Counted'
    BY <1>3, <1>4, <1>5, <1>6, <1>7, <2>1, <2>2 DEF Script!Counted, first
  <2> QED BY <2>3, <2>4
<1>10. /\ x5'.sold \in Nat /\ x5'.restocked \in BOOLEAN
       /\ \A i \in DOMAIN x5'.tries : DOMAIN x5'.tries[i] = {"product", "at", "read"}
       /\ x6' \in Nat /\ x6 =< x6'
  BY <1>0, <1>1, <1>3, <1>4
<1> QED BY <1>1, <1>4, <1>8, <1>9, <1>10, LoadStep

\* One purchase goes on.
LEMMA TryFacts ==
  ASSUME Script!TypeOK, NEW i \in DOMAIN x5.tries, NEW try, NEW sold \in Nat,
         DOMAIN try = {"product", "at", "read"},
         x5' = [x5 EXCEPT !.tries = [@ EXCEPT ![i] = try], !.sold = sold]
  PROVE  /\ DOMAIN x5' = DOMAIN x5 /\ x5'.at = x5.at
         /\ x5'.products = x5.products /\ x5'.sold = sold
         /\ x5'.restocked = x5.restocked
         /\ DOMAIN x5'.tries = DOMAIN x5.tries /\ x5'.tries[i] = try
         /\ \A j \in DOMAIN x5.tries : j # i => x5'.tries[j] = x5.tries[j]
         /\ \A j \in DOMAIN x5'.tries : DOMAIN x5'.tries[j] = {"product", "at", "read"}
         /\ Script!Holding' = (Script!Holding \ {i}) \cup (IF try.at = "holding" THEN {i} ELSE {})
<1> DEFINE new == [x5.tries EXCEPT ![i] = try]
<1>1. /\ DOMAIN new = DOMAIN x5.tries /\ new[i] = try
      /\ \A j \in DOMAIN x5.tries : j # i => new[j] = x5.tries[j]
  OBVIOUS
<1>2. x5' = [x5 EXCEPT !.tries = new, !.sold = sold]
  OBVIOUS
<1> HIDE DEF new
<1>3. /\ DOMAIN x5' = DOMAIN x5 /\ x5'.at = x5.at
      /\ x5'.products = x5.products /\ x5'.sold = sold
      /\ x5'.restocked = x5.restocked /\ x5'.tries = new
  BY <1>2, LoadFields
<1>4. \A j \in DOMAIN new : DOMAIN new[j] = {"product", "at", "read"}
  BY <1>1, LoadFields
<1>5. Script!Holding' = (Script!Holding \ {i}) \cup (IF try.at = "holding" THEN {i} ELSE {})
  BY <1>1, <1>3 DEF Script!Holding
<1> QED BY <1>1, <1>3, <1>4, <1>5

\* Which products of others are held, and how much is left, does not change.
LEMMA ScriptLocks ==
  ASSUME Script!ScriptsAssumption, Script!IInv, NEW i \in DOMAIN x5.tries,
         Script!LockProduct(i)
  PROVE  Script!IInv'
<1> DEFINE p == x5.tries[i].product
<1>0. Script!TypeOK /\ Script!RowsOld /\ Script!HoldersSound /\ Script!Counted
  BY DEF Script!IInv
<1>1. /\ x5.at \in {"oversell", "parallel"}
      /\ UNCHANGED <<x1, x2, x3, x4, x6>>
      /\ x5.tries[i].at = "waiting" /\ ~Script!Locked(p)
  BY DEF Script!LockProduct, Script!Testing
<1>2. /\ DOMAIN x5 = {"at", "products", "tries", "sold", "restocked"}
      /\ DOMAIN x5.tries[i] = {"product", "at", "read"}
      /\ x5.sold \in Nat /\ x5.restocked \in BOOLEAN
  BY <1>0, LoadFields
<1>3. i \notin Script!Holding
  BY <1>1 DEF Script!Holding
<1>4. ASSUME NEW try, DOMAIN try = {"product", "at", "read"}, try.product = p,
             x5' = [x5 EXCEPT !.tries = [@ EXCEPT ![i] = try], !.sold = x5.sold],
             try.at = "holding" => /\ p \in Script!Products /\ try.read = x1.products[p].stock
                                   /\ try.read > 0
      PROVE  Script!IInv'
  <2>1. /\ DOMAIN x5' = DOMAIN x5 /\ x5'.at = x5.at
        /\ x5'.products = x5.products /\ x5'.sold = x5.sold
        /\ x5'.restocked = x5.restocked
        /\ DOMAIN x5'.tries = DOMAIN x5.tries /\ x5'.tries[i] = try
        /\ \A j \in DOMAIN x5.tries : j # i => x5'.tries[j] = x5.tries[j]
        /\ \A j \in DOMAIN x5'.tries : DOMAIN x5'.tries[j] = {"product", "at", "read"}
        /\ Script!Holding' = (Script!Holding \ {i}) \cup (IF try.at = "holding" THEN {i} ELSE {})
    BY <1>0, <1>2, <1>4, TryFacts
  <2>2. \A j \in DOMAIN x5.tries : x5'.tries[j].product = x5.tries[j].product
    BY <1>4, <2>1
  <2>3. Script!Products' = Script!Products
    BY <1>1 DEF Script!Products
  <2>4. \A j \in Script!Holding : j \in DOMAIN x5.tries /\ x5.tries[j].product # p
    BY <1>1 DEF Script!Locked, Script!Holding
  <2>5. Script!HoldersSound'
    <3>1. ASSUME NEW j \in Script!Holding'
          PROVE  /\ x5'.tries[j].product \in Script!Products'
                 /\ x5'.tries[j].read = x1'.products[x5'.tries[j].product].stock
                 /\ x5'.tries[j].read > 0
      <4>1. CASE j = i
        BY <1>1, <1>4, <2>1, <2>3, <1>3, <4>1
      <4>2. CASE j # i
        <5>1. j \in Script!Holding /\ x5'.tries[j] = x5.tries[j]
          BY <2>1, <2>4, <4>2
        <5> QED BY <1>0, <1>1, <2>3, <5>1 DEF Script!HoldersSound
      <4> QED BY <4>1, <4>2
    <3>2. ASSUME NEW j \in Script!Holding', NEW k \in Script!Holding',
                 x5'.tries[j].product = x5'.tries[k].product
          PROVE  j = k
      <4>1. j \in Script!Holding \cup {i} /\ k \in Script!Holding \cup {i}
        BY <2>1
      <4>2. CASE j = i \/ k = i
        BY <1>4, <2>1, <2>2, <2>4, <3>2, <4>1, <4>2
      <4>3. CASE j # i /\ k # i
        BY <1>0, <2>2, <2>4, <3>2, <4>1, <4>3 DEF Script!HoldersSound
      <4> QED BY <4>2, <4>3
    <3> QED BY <3>1, <3>2 DEF Script!HoldersSound
  <2>6. Script!Counted'
    <3>1. x5'.at = "oversell" =>
            x5'.products[1] \in Script!Rows /\ Script!Old(x5.products[1])'
      <4>1. x5.at = "oversell" =>
              x5.products[1] \in Script!Rows /\ Script!Old(x5.products[1])
        BY <1>0 DEF Script!Counted
      <4> QED BY <1>1, <2>1, <4>1 DEF Script!Old, Script!Past, Script!RankOf
    <3>2. x5'.at = "oversell" =>
            \A j \in DOMAIN x5'.tries : x5'.tries[j].product = x5'.products[1]
      BY <1>0, <2>1, <2>2 DEF Script!Counted
    <3>3. x5'.restocked \/
            (/\ x5'.at # "failed" /\ x5'.sold <= TestStock
             /\ x5'.at = "oversell" /\ x5'.products[1] \in Script!Products' =>
                  x5'.sold + x1'.products[x5'.products[1]].stock <= TestStock)
      BY <1>0, <1>1, <2>1, <2>3 DEF Script!Counted
    <3> QED BY <1>1, <2>1, <3>1, <3>2, <3>3 DEF Script!Counted
  <2> QED BY <1>1, <1>2, <2>1, <2>5, <2>6, LoadStill
<1>5. CASE p \notin Script!Products \/ x1.products[p].stock < 1
  <2> DEFINE try == [x5.tries[i] EXCEPT !.at = "refused"]
  <2>1. x5' = Script!Ends(i, "refused")
    BY <1>5 DEF Script!LockProduct
  <2>2. x5' = [x5 EXCEPT !.tries = [@ EXCEPT ![i] = try], !.sold = x5.sold]
    BY <1>2, <2>1 DEF Script!Ends
  <2>3. /\ DOMAIN try = {"product", "at", "read"} /\ try.product = p
        /\ try.at # "holding"
    BY <1>2
  <2> HIDE DEF try
  <2> QED BY <1>4, <2>2, <2>3
<1>6. CASE ~(p \notin Script!Products \/ x1.products[p].stock < 1)
  <2> DEFINE try == [x5.tries[i] EXCEPT !.at = "holding", !.read = x1.products[p].stock]
  <2>1. x5' = [x5 EXCEPT !.tries[i].at = "holding",
                             !.tries[i].read = x1.products[p].stock]
    BY <1>6 DEF Script!LockProduct
  <2>2. x5' = [x5 EXCEPT !.tries = [@ EXCEPT ![i] = try], !.sold = x5.sold]
    BY <1>2, <2>1
  <2>3. /\ DOMAIN try = {"product", "at", "read"} /\ try.product = p
        /\ try.read = x1.products[p].stock
    BY <1>2
  <2>4. p \in Script!Products /\ x1.products[p].stock > 0
    <3>1. /\ p \in Script!Products /\ x1.products[p].stock \in Nat
          /\ ~(x1.products[p].stock < 1)
      BY <1>0, <1>6, LoadFields
    <3> QED BY <3>1
  <2> HIDE DEF try
  <2> QED BY <1>4, <2>2, <2>3, <2>4
<1> QED BY <1>5, <1>6

\* A purchase that holds its row takes one of what it read, which is what is there.
LEMMA ScriptPurchases ==
  ASSUME Script!ScriptsAssumption, Script!IInv, NEW i \in DOMAIN x5.tries,
         Script!Purchase(i)
  PROVE  Script!IInv'
<1> DEFINE p == x5.tries[i].product
           n == x5.tries[i].read - 1
           try == [x5.tries[i] EXCEPT !.at = "sold"]
           sold == IF x5.at = "oversell" THEN x5.sold + 1 ELSE x5.sold
<1>0. Script!TypeOK /\ Script!RowsOld /\ Script!HoldersSound /\ Script!Counted
  BY DEF Script!IInv
<1>1. /\ x5.at \in {"oversell", "parallel"}
      /\ UNCHANGED <<x2, x3, x4, x6>>
      /\ x5.tries[i].at = "holding"
  BY DEF Script!Purchase, Script!Testing
<1>2. /\ DOMAIN x5 = {"at", "products", "tries", "sold", "restocked"}
      /\ DOMAIN x5.tries[i] = {"product", "at", "read"}
      /\ x5.sold \in Nat /\ x5.restocked \in BOOLEAN /\ x6 \in Nat
  BY <1>0, LoadFields
<1>3. i \in Script!Holding
  BY <1>1 DEF Script!Holding
<1>4. /\ p \in Script!Products /\ x5.tries[i].read = x1.products[p].stock
      /\ x5.tries[i].read > 0
  BY <1>0, <1>3 DEF Script!HoldersSound
<1>5. x1.products[p].stock \in Nat
  BY <1>0, <1>4, LoadFields
<1>6. n \in Nat /\ n + 1 = x1.products[p].stock
  BY <1>4, <1>5
<1>7. /\ DOMAIN try = {"product", "at", "read"} /\ try.product = p /\ try.at = "sold"
      /\ sold \in Nat
  BY <1>2
<1>8. x5' = [x5 EXCEPT !.tries = [@ EXCEPT ![i] = try], !.sold = sold]
  BY <1>2 DEF Script!Purchase, Script!Ends
<1>9. x1' = [x1 EXCEPT !.products[p].stock = n]
  BY DEF Script!Purchase
<1> HIDE DEF try, sold, n, p
<1>10. /\ DOMAIN x5' = DOMAIN x5 /\ x5'.at = x5.at
       /\ x5'.products = x5.products /\ x5'.sold = sold
       /\ x5'.restocked = x5.restocked
       /\ DOMAIN x5'.tries = DOMAIN x5.tries /\ x5'.tries[i] = try
       /\ \A j \in DOMAIN x5.tries : j # i => x5'.tries[j] = x5.tries[j]
       /\ \A j \in DOMAIN x5'.tries : DOMAIN x5'.tries[j] = {"product", "at", "read"}
       /\ Script!Holding' = (Script!Holding \ {i}) \cup (IF try.at = "holding" THEN {i} ELSE {})
  BY <1>0, <1>7, <1>8, TryFacts
<1>11. Script!Holding' = Script!Holding \ {i}
  BY <1>7, <1>10
<1>12. /\ DOMAIN x1' = DOMAIN x1 /\ x1'.categories = x1.categories
       /\ x1'.vendors = x1.vendors /\ x1'.users = x1.users
       /\ Script!Products' = Script!Products
       /\ \A q \in Script!Products :
            /\ x1'.products[q] \in [vendor : x1.vendors, stock : Nat]
            /\ x1'.products[q].vendor = x1.products[q].vendor
            /\ x1'.products[q].stock = IF q = p THEN n ELSE x1.products[q].stock
  BY <1>0, <1>4, <1>6, <1>9, StockSet
<1>13. \A j \in DOMAIN x5.tries : x5'.tries[j].product = x5.tries[j].product
  BY <1>7, <1>10 DEF p
<1>14. \A j \in Script!Holding' : /\ j \in Script!Holding /\ j \in DOMAIN x5.tries
                           /\ x5'.tries[j] = x5.tries[j] /\ x5.tries[j].product # p
  BY <1>0, <1>3, <1>10, <1>11 DEF Script!HoldersSound, Script!Holding, p
<1>15. Script!HoldersSound'
  <2>1. ASSUME NEW j \in Script!Holding'
        PROVE  /\ x5'.tries[j].product \in Script!Products'
               /\ x5'.tries[j].read = x1'.products[x5'.tries[j].product].stock
               /\ x5'.tries[j].read > 0
    <3>1. /\ x5.tries[j].product \in Script!Products
          /\ x5.tries[j].read = x1.products[x5.tries[j].product].stock
          /\ x5.tries[j].read > 0
      BY <1>0, <1>14 DEF Script!HoldersSound
    <3> QED BY <1>12, <1>14, <3>1
  <2>2. ASSUME NEW j \in Script!Holding', NEW k \in Script!Holding',
               x5'.tries[j].product = x5'.tries[k].product
        PROVE  j = k
    BY <1>0, <1>14, <2>2 DEF Script!HoldersSound
  <2> QED BY <2>1, <2>2 DEF Script!HoldersSound
<1>16. Script!Counted'
  <2>1. x5'.at = "oversell" =>
          x5'.products[1] \in Script!Rows /\ Script!Old(x5.products[1])'
    <3>1. x5.at = "oversell" =>
            x5.products[1] \in Script!Rows /\ Script!Old(x5.products[1])
      BY <1>0 DEF Script!Counted
    <3> QED BY <1>1, <1>10, <3>1 DEF Script!Old, Script!Past, Script!RankOf
  <2>2. x5'.at = "oversell" =>
          \A j \in DOMAIN x5'.tries : x5'.tries[j].product = x5'.products[1]
    BY <1>0, <1>10, <1>13 DEF Script!Counted
  <2>3. ASSUME ~x5.restocked
        PROVE  /\ x5'.at # "failed" /\ x5'.sold <= TestStock
               /\ x5'.at = "oversell" /\ x5'.products[1] \in Script!Products' =>
                    x5'.sold + x1'.products[x5'.products[1]].stock <= TestStock
    <3>1. CASE x5.at = "oversell"
      <4>1. x5.products[1] = p /\ sold = x5.sold + 1
        BY <1>0, <3>1 DEF Script!Counted, p, sold
      <4>2. x5.sold + x1.products[p].stock <= TestStock
        BY <1>0, <1>4, <2>3, <3>1, <4>1 DEF Script!Counted
      <4>3. sold + n <= TestStock /\ TestStock \in Nat
        BY <1>2, <1>5, <1>6, <4>1, <4>2 DEF Script!ScriptsAssumption
      <4>4. sold <= TestStock
        BY <1>6, <1>7, <4>3
      <4>5. x1'.products[p].stock = n
        BY <1>4, <1>12
      <4> QED BY <1>10, <3>1, <4>1, <4>3, <4>4, <4>5
    <3>2. CASE x5.at # "oversell"
      BY <1>0, <1>1, <1>10, <2>3, <3>2 DEF Script!Counted, sold
    <3> QED BY <3>1, <3>2
  <2> QED BY <1>1, <1>10, <2>1, <2>2, <2>3 DEF Script!Counted
<1>17. x6' \in Nat /\ x6 =< x6' /\ x5'.sold \in Nat
  BY <1>1, <1>2, <1>7, <1>10
<1>18. x5'.restocked \in BOOLEAN
  BY <1>2, <1>10
<1> QED BY <1>1, <1>10, <1>12, <1>15, <1>16, <1>17, <1>18, LoadStep

\* Its second test, and its report.
LEMMA ScriptRuns ==
  ASSUME Script!ScriptsAssumption, Script!IInv, Script!RunParallel \/ Script!Report
  PROVE  Script!IInv'
<1>0. Script!TypeOK /\ Script!HoldersSound /\ Script!Counted
  BY DEF Script!IInv
<1>1. Script!Settled /\ UNCHANGED <<x1, x2, x3, x4, x6>>
  BY DEF Script!RunParallel, Script!Report, Script!Loads
<1>2. /\ DOMAIN x5 = {"at", "products", "tries", "sold", "restocked"}
      /\ \A i \in DOMAIN x5.tries : DOMAIN x5.tries[i] = {"product", "at", "read"}
      /\ x5.sold \in Nat /\ x5.restocked \in BOOLEAN
  BY <1>0, LoadFields
<1>3. Script!Holding = {}
  BY <1>1 DEF Script!Settled, Script!Holding
<1>4. CASE Script!RunParallel
  <2> DEFINE new == [i \in 1 .. PerProduct *
                             Script!Cardinality({x5.products[1], x5.products[2]}) |->
                       Script!Try(x5.products[1 + (i % 2)])]
  <2>1. x5.at = "oversell" /\ x5' = [x5 EXCEPT !.at = "parallel", !.tries = new]
    BY <1>4 DEF Script!RunParallel, Script!Loads
  <2>2. \A i \in DOMAIN new : /\ DOMAIN new[i] = {"product", "at", "read"}
                              /\ new[i].at = "waiting"
    BY DEF Script!Try
  <2> HIDE DEF new
  <2>3. /\ DOMAIN x5' = DOMAIN x5 /\ x5'.at = "parallel" /\ x5'.tries = new
        /\ x5'.sold = x5.sold /\ x5'.restocked = x5.restocked
    BY <1>2, <2>1
  <2>4. Script!Holding' = {}
    BY <2>2, <2>3 DEF Script!Holding
  <2>5. Script!HoldersSound'
    BY <2>4 DEF Script!HoldersSound
  <2>6. Script!Counted'
    BY <1>0, <2>1, <2>3, <2>4 DEF Script!Counted
  <2>7. \A i \in DOMAIN x5'.tries : DOMAIN x5'.tries[i] = {"product", "at", "read"}
    BY <2>2, <2>3
  <2>8. x5'.sold \in Nat
    BY <1>2, <2>3
  <2>9. x5'.restocked \in BOOLEAN
    BY <1>2, <2>3
  <2> QED BY <1>1, <2>3, <2>5, <2>6, <2>7, <2>8, <2>9, LoadStill
<1>5. CASE Script!Report
  <2>1. x5.at = "parallel"
        /\ x5' = [x5 EXCEPT !.at = IF x5.sold > TestStock THEN "failed" ELSE "passed"]
    BY <1>5 DEF Script!Report, Script!Loads
  <2>2. /\ DOMAIN x5' = DOMAIN x5 /\ x5'.tries = x5.tries
        /\ x5'.at = IF x5.sold > TestStock THEN "failed" ELSE "passed"
        /\ x5'.sold = x5.sold /\ x5'.restocked = x5.restocked
    BY <1>2, <2>1
  <2>3. Script!Holding' = {}
    BY <1>3, <2>2 DEF Script!Holding
  <2>4. Script!HoldersSound'
    BY <2>3 DEF Script!HoldersSound
  <2>5. ~x5.restocked => x5.sold <= TestStock /\ ~(x5.sold > TestStock)
    <3>1. TestStock \in Nat
      BY DEF Script!ScriptsAssumption
    <3>2. ~x5.restocked => x5.sold <= TestStock
      BY <1>0 DEF Script!Counted
    <3> QED BY <1>2, <3>1, <3>2
  <2>6. Script!Counted'
    BY <2>2, <2>3, <2>5 DEF Script!Counted
  <2>7. \A i \in DOMAIN x5'.tries : DOMAIN x5'.tries[i] = {"product", "at", "read"}
    BY <1>2, <2>2
  <2>8. x5'.sold \in Nat
    BY <1>2, <2>2
  <2>9. x5'.restocked \in BOOLEAN
    BY <1>2, <2>2
  <2> QED BY <1>1, <2>2, <2>4, <2>6, <2>7, <2>8, <2>9, LoadStill
<1> QED BY <1>4, <1>5

\* A new product is none of those the scripts know.
LEMMA ScriptCreates ==
  ASSUME Script!ScriptsAssumption, Script!IInv, Script!CreateProduct
  PROVE  Script!IInv'
<1>0. /\ Script!TypeOK /\ Script!SeedersSound /\ Script!RowsOld /\ Script!AssignSound
      /\ Script!HoldersSound /\ Script!Counted
  BY DEF Script!IInv
<1>1. PICK v \in x1.vendors :
        x1' = [x1 EXCEPT !.products =
                 Script!With(@, Script!RowOf(Nobody, x6'), [vendor |-> v, stock |-> SeedStock])]
  BY DEF Script!CreateProduct
<1>2. x6' = x6 + 1 /\ Script!Disturb /\ UNCHANGED <<x2, x3, x5>>
  BY DEF Script!CreateProduct, Script!Intervene
<1>3. /\ x6 \in Nat /\ x6' \in Nat /\ x6 =< x6'
      /\ DOMAIN x1 = {"categories", "vendors", "products", "users"}
      /\ x5.restocked \in BOOLEAN /\ x5.sold \in Nat
      /\ \A i \in DOMAIN x5.tries : DOMAIN x5.tries[i] = {"product", "at", "read"}
  BY <1>0, <1>2, LoadFields
<1>4. \A p \in Script!Products :
        p \in Script!Rows /\ x1.products[p] \in [vendor : x1.vendors, stock : Nat]
  BY <1>0, LoadFields
<1> DEFINE key == Script!RowOf(Nobody, x6 + 1)
           row == [vendor |-> v, stock |-> SeedStock]
           new == Script!With(x1.products, key, row)
<1>5. /\ DOMAIN x1' = DOMAIN x1 /\ x1'.categories = x1.categories
      /\ x1'.vendors = x1.vendors /\ x1'.users = x1.users /\ x1'.products = new
  BY <1>1, <1>2, <1>3
<1>6. row \in [vendor : x1.vendors, stock : Nat]
  BY DEF Script!ScriptsAssumption
<1>7. key \in Script!Rows /\ key.run = Nobody /\ key.n = x6 + 1
  BY <1>3 DEF Script!RowOf, Script!Rows
<1>8. /\ DOMAIN new = DOMAIN x1.products \cup {key}
      /\ \A p \in DOMAIN x1.products : new[p] = x1.products[p]
      /\ key \notin DOMAIN x1.products => new[key] = row
  BY WithFacts
<1> HIDE DEF new, row, key
<1>9. /\ Script!Products \subseteq Script!Products'
      /\ \A p \in Script!Products : x1'.products[p] = x1.products[p]
      /\ \A p \in Script!Products' :
           p \notin Script!Products => p = key /\ x1'.products[p] = row
  BY <1>5, <1>8 DEF Script!Products
<1>10. ~Script!Old(key)
  BY <1>3, <1>7 DEF Script!Old
<1>11. /\ Script!AssignSound' /\ DOMAIN x4' = DOMAIN x4
       /\ x4'.disturbed \in BOOLEAN
  BY <1>0, <1>2, DisturbSound
<1>12. ASSUME NEW p \in Script!Products'
       PROVE  /\ p \in Script!Rows /\ x1'.products[p] \in [vendor : x1.vendors, stock : Nat]
              /\ p \notin Script!Products => Script!Old(p)'
  <2>1. CASE p \in Script!Products
    BY <1>4, <1>9, <2>1
  <2>2. CASE p \notin Script!Products
    <3>1. p = key /\ x1'.products[p] = row
      BY <1>9, <2>2
    <3>2. Script!Old(p)'
      BY <1>2, <1>3, <1>7, <3>1 DEF Script!Old
    <3> QED BY <1>6, <1>7, <3>1, <3>2
  <2> QED BY <2>1, <2>2
<1>13. x5' = x5
  BY <1>2
<1>14. Script!TypeOK' /\ Script!SeedersSound' /\ Script!RowsOld'
  BY <1>0, <1>2, <1>3, <1>5, <1>9, <1>11, <1>12, <1>13, TablesKept
<1>15. /\ x2' \in [Sessions -> Script!Statements]
       /\ \A d \in Sessions : Script!RankOf(d) =< Script!RankOf(d)'
  BY <1>0, <1>2, StatementFacts DEF Script!TypeOK, Script!RankOf
<1>16. \A i \in Script!Holding : /\ x5.tries[i].product \in Script!Products'
                          /\ x1'.products[x5.tries[i].product].stock
                               = x1.products[x5.tries[i].product].stock
  BY <1>0, <1>9 DEF Script!HoldersSound
<1>17. x5.at = "oversell" /\ x5.products[1] \in Script!Products' =>
         /\ x5.products[1] \in Script!Products
         /\ x1'.products[x5.products[1]].stock \in Nat
         /\ x1'.products[x5.products[1]].stock =< x1.products[x5.products[1]].stock
  <2> SUFFICES ASSUME x5.at = "oversell", x5.products[1] \in Script!Products'
               PROVE  x5.products[1] \in Script!Products
    BY <1>4, <1>9
  <2>1. Script!Old(x5.products[1])
    BY <1>0 DEF Script!Counted
  <2> QED BY <1>9, <1>10, <2>1
<1>18. Script!HoldersSound' /\ Script!Counted'
  BY <1>3, <1>13, <1>15, <1>16, <1>17, LoadKept
<1> QED BY <1>11, <1>14, <1>18 DEF Script!IInv

\* The shop sells, takes back or adjusts: one product's stock.
LEMMA ShopStep ==
  ASSUME Script!ScriptsAssumption, Script!IInv, NEW p \in Script!Products,
         ~Script!Locked(p), NEW n \in Nat,
         x1' = [x1 EXCEPT !.products[p].stock = n],
         UNCHANGED <<x2, x3, x4>>, x6' = x6 + 1,
         DOMAIN x5' = DOMAIN x5, x5'.at = x5.at, x5'.products = x5.products,
         x5'.tries = x5.tries, x5'.sold = x5.sold,
         x5'.restocked \in BOOLEAN, x5.restocked => x5'.restocked,
         x5.at = "oversell" => x5'.restocked \/ n =< x1.products[p].stock
  PROVE  Script!IInv'
<1>0. Script!TypeOK /\ Script!HoldersSound
  BY DEF Script!IInv
<1>1. /\ DOMAIN x1' = DOMAIN x1 /\ x1'.categories = x1.categories
      /\ x1'.vendors = x1.vendors /\ x1'.users = x1.users
      /\ Script!Products' = Script!Products
      /\ \A q \in Script!Products :
           /\ x1'.products[q] \in [vendor : x1.vendors, stock : Nat]
           /\ x1'.products[q].vendor = x1.products[q].vendor
           /\ x1'.products[q].stock = IF q = p THEN n ELSE x1.products[q].stock
  BY <1>0, StockSet
<1>2. /\ x6 \in Nat /\ x6' \in Nat /\ x6 =< x6' /\ x5.sold \in Nat
      /\ \A q \in Script!Products : x1.products[q].stock \in Nat
      /\ \A i \in DOMAIN x5.tries : DOMAIN x5.tries[i] = {"product", "at", "read"}
  BY <1>0, LoadFields
<1>3. /\ x2' \in [Sessions -> Script!Statements]
      /\ \A d \in Sessions : Script!RankOf(d) =< Script!RankOf(d)'
  BY <1>0, StatementFacts DEF Script!TypeOK, Script!RankOf
<1>4. \A i \in Script!Holding : /\ x5.tries[i].product \in Script!Products'
                         /\ x1'.products[x5.tries[i].product].stock
                              = x1.products[x5.tries[i].product].stock
  BY <1>0, <1>1 DEF Script!HoldersSound, Script!Locked
<1>5. x5.at = "oversell" /\ x5.products[1] \in Script!Products' =>
         \/ x5'.restocked
         \/ /\ x5.products[1] \in Script!Products
            /\ x1'.products[x5.products[1]].stock \in Nat
            /\ x1'.products[x5.products[1]].stock =< x1.products[x5.products[1]].stock
  BY <1>1, <1>2
<1>6. Script!HoldersSound' /\ Script!Counted'
  BY <1>2, <1>3, <1>4, <1>5, LoadKept
<1>7. \A i \in DOMAIN x5'.tries : DOMAIN x5'.tries[i] = {"product", "at", "read"}
  BY <1>2
<1>8. x5'.sold \in Nat
  BY <1>2
<1> QED BY <1>1, <1>2, <1>6, <1>7, <1>8, LoadStep

\* Both of these.
LEMMA ScriptShops ==
  ASSUME Script!ScriptsAssumption, Script!IInv, NEW p \in Script!Products,
         Script!Sell(p) \/ Script!Restock(p)
  PROVE  Script!IInv'
<1>0. Script!TypeOK
  BY DEF Script!IInv
<1>1. /\ x1.products[p].stock \in Nat
      /\ DOMAIN x5 = {"at", "products", "tries", "sold", "restocked"}
      /\ x5.restocked \in BOOLEAN
  BY <1>0, LoadFields
<1>2. ~Script!Locked(p) /\ UNCHANGED <<x2, x3, x4>> /\ x6' = x6 + 1
  BY DEF Script!Sell, Script!Restock, Script!Intervene
<1>3. CASE Script!Sell(p)
  <2>1. /\ x1' = [x1 EXCEPT !.products[p].stock = x1.products[p].stock - 1]
        /\ x5' = x5 /\ x1.products[p].stock > 0
    BY <1>3 DEF Script!Sell
  <2>2. /\ x1.products[p].stock - 1 \in Nat
        /\ x1.products[p].stock - 1 =< x1.products[p].stock
    BY <1>1, <2>1
  <2> QED BY <1>1, <1>2, <2>1, <2>2, ShopStep
<1>4. CASE Script!Restock(p)
  <2>1. /\ x1' = [x1 EXCEPT !.products[p].stock = x1.products[p].stock + 1]
        /\ x5' = [x5 EXCEPT !.restocked = x5.restocked \/ x5.at = "oversell"]
    BY <1>4 DEF Script!Restock
  <2>2. x1.products[p].stock + 1 \in Nat
    BY <1>1
  <2>3. /\ DOMAIN x5' = DOMAIN x5 /\ x5'.at = x5.at
        /\ x5'.products = x5.products
        /\ x5'.tries = x5.tries /\ x5'.sold = x5.sold
    BY <1>1, <2>1
  <2>4. x5'.restocked = (x5.restocked \/ x5.at = "oversell")
    BY <1>1, <2>1
  <2>5. /\ x5'.restocked \in BOOLEAN /\ x5.restocked => x5'.restocked
        /\ x5.at = "oversell" => x5'.restocked
    BY <2>4
  <2> QED BY <1>2, <2>1, <2>2, <2>3, <2>5, ShopStep
<1> QED BY <1>3, <1>4

\* Nothing ran.
LEMMA ScriptsInit ==
  ASSUME Script!ScriptsAssumption, Script!Init
  PROVE  Script!IInv
<1>1. <<"truncate", 0>> \in Script!Statements
  BY DEF Script!Statements
<1>2. /\ DOMAIN x1 = {"categories", "vendors", "products", "users"}
      /\ x1.categories = {} /\ Script!Products = {} /\ DOMAIN x1.users = {}
  BY DEF Script!Init, Script!Empty, Script!Products
<1>3. Script!TypeOK
  BY <1>1, <1>2 DEF Script!Init, Script!TypeOK
<1>4. Script!SeedersSound
  BY DEF Script!Init, Script!SeedersSound, Script!ScriptsAssumption
<1>5. Script!RowsOld
  BY <1>2 DEF Script!RowsOld
<1>6. Script!AssignSound
  BY DEF Script!Init, Script!AssignSound
<1>7. Script!Holding = {}
  BY DEF Script!Init, Script!Holding
<1>8. Script!HoldersSound /\ Script!Counted
  BY <1>7 DEF Script!Init, Script!HoldersSound, Script!Counted, Script!ScriptsAssumption
<1> QED BY <1>3, <1>4, <1>5, <1>6, <1>8 DEF Script!IInv

\* Every statement of every script, and of the shop, keep it.
LEMMA ScriptsNext ==
  ASSUME Script!ScriptsAssumption, Script!IInv, [Script!Next]_(Script!vars)
  PROVE  Script!IInv'
<1>1. CASE UNCHANGED (Script!vars)
  <2>1. UNCHANGED <<x1, x2, x3, x5, x6>> /\ x4' = x4
    BY <1>1 DEF Script!vars
  <2>2. Script!AssignSound'
    <3>1. Script!Owners' = Script!Owners /\ Script!Products' = Script!Products
      BY <2>1 DEF Script!Owners, Script!Products
    <3> QED BY <2>1, <3>1 DEF Script!IInv, Script!AssignSound
  <2> QED BY <2>1, <2>2, LookStep
<1>2. ASSUME NEW s \in Sessions, Script!Statement(s) \/ Script!Fail(s)
      PROVE  Script!IInv'
  BY <1>2, ScriptTruncate, ScriptInsert, ScriptFail
<1>3. ASSUME NEW i \in DOMAIN x5.tries, Script!LockProduct(i) \/ Script!Purchase(i)
      PROVE  Script!IInv'
  BY <1>3, ScriptLocks, ScriptPurchases
<1>4. ASSUME NEW p \in Script!Products, Script!Sell(p) \/ Script!Restock(p)
      PROVE  Script!IInv'
  BY <1>4, ScriptShops
<1>5. CASE \/ Script!ReadUser \/ Script!ReadVendor \/ Script!CountBefore
           \/ Script!BackUp \/ Script!ReadIds \/ Script!UpdateAll \/ Script!Validate
           \/ Script!Pick \/ Script!SetStock \/ Script!RunParallel \/ Script!Report
           \/ Script!CreateProduct
  BY <1>5, ScriptLooks, ScriptUpdates, ScriptPick, ScriptSets, ScriptRuns, ScriptCreates
<1> QED BY <1>1, <1>2, <1>3, <1>4, <1>5 DEF Script!Next

\* So what the scripts say is so.
LEMMA ScriptsSafe ==
  ASSUME Script!ScriptsAssumption, Script!IInv
  PROVE  Script!ReportsAreTrue
<1>0. Script!TypeOK /\ Script!SeedersSound /\ Script!AssignSound /\ Script!Counted
  BY DEF Script!IInv
<1>1. Script!SeededIsWhole
  <2> SUFFICES ASSUME NEW s \in Sessions, x2[s][1] = "completed", x3 = s
               PROVE  /\ x1.categories = VendorSeeds
                      /\ \A n \in VendorSeeds : /\ Script!RowOf(s, n) \in x1.vendors
                                                /\ Script!RowOf(s, n) \in Script!Products
                      /\ DOMAIN x1.users = Script!Range(Script!DemoUsers)
                      /\ x1.users["vendor"] = Script!RowOf(s, 1)
    BY DEF Script!SeededIsWhole
  <2>1. Script!Inserted(s)
    BY <1>0 DEF Script!SeedersSound
  <2>2. /\ Script!LastSeed \in Nat /\ Script!LastSeed >= 1
        /\ VendorSeeds = 1 .. Script!LastSeed
    BY SeedFacts
  <2>3. Script!RankOf(s) = 3 * Script!LastSeed + 4
    BY DEF Script!RankOf, Script!Rank
  <2>4. \A n \in VendorSeeds : /\ Script!Past(s, "category", n)
                               /\ Script!Past(s, "vendor", n)
                               /\ Script!Past(s, "product", n)
    BY <2>2, <2>3 DEF Script!Past, Script!Rank
  <2>5. \A n \in 1 .. 3 : Script!Past(s, "user", n)
    BY <2>2, <2>3 DEF Script!Past, Script!Rank
  <2>6. \A n \in VendorSeeds : /\ n \in x1.categories
                               /\ Script!RowOf(s, n) \in x1.vendors
                               /\ Script!RowOf(s, n) \in Script!Products
    BY <2>1, <2>4 DEF Script!Inserted
  <2>7. x1.categories = VendorSeeds
    BY <1>0, <2>6 DEF Script!TypeOK
  <2>8. \A n \in 1 .. 3 : /\ Script!DemoUsers[n] \in DOMAIN x1.users
                          /\ Script!DemoUsers[n] = "vendor" =>
                               x1.users["vendor"] = Script!RowOf(s, 1)
    BY <2>1, <2>5 DEF Script!Inserted
  <2>9. {"buyer", "vendor", "admin"} \subseteq DOMAIN x1.users
        /\ x1.users["vendor"] = Script!RowOf(s, 1)
    <3>1. 1 \in 1 .. 3 /\ 2 \in 1 .. 3 /\ 3 \in 1 .. 3
      OBVIOUS
    <3> QED BY <2>8, <3>1, UserFacts
  <2>10. DOMAIN x1.users = Script!Range(Script!DemoUsers)
    BY <1>0, <2>9, UserFacts DEF Script!TypeOK
  <2> QED BY <2>6, <2>7, <2>9, <2>10
<1>2. Script!AssignedIsUndoable
  BY <1>0 DEF Script!AssignSound, Script!AssignedIsUndoable
<1>3. Script!NoFalseAlarm
  BY <1>0 DEF Script!Counted, Script!NoFalseAlarm
<1> QED BY <1>1, <1>2, <1>3 DEF Script!ReportsAreTrue

---------------------------------------
\* Migrations.tla: x1 is where the database is, x2 its schema, x3 whether the
\* history is there, x4 the migrations it lists, x5 the offending rows, x6 to
\* x9 of each run where it stands, its release, what it has still to apply,
\* and whether it may fail.

\* Among finite sets there is one with none of the others within.
LEMMA LeastSet ==
  ASSUME NEW family, family # {}, \A X \in family : IsFiniteSet(X)
  PROVE  \E X \in family : \A Y \in family : Y \subseteq X => Y = X
<1> DEFINE S == UNION family
<1>1. family \subseteq FiniteSubsetsOf(S)
  BY DEF FiniteSubsetsOf
<1>2. PICK X \in family : \A Y \in family : ~(<<Y, X>> \in StrictSubsetOrdering(S))
  BY <1>1, FS_StrictSubsetOrderingWellFounded, WFMin
<1> QED BY <1>2 DEF StrictSubsetOrdering

\* Every set of natural numbers has a least one.
LEMMA LeastNatural ==
  ASSUME NEW ns, ns \subseteq Nat, ns # {}
  PROVE  \E n \in ns : \A k \in ns : n <= k
<1> DEFINE family == {1..n : n \in ns}
<1>1. \A X \in family : IsFiniteSet(X)
  <2>1. \A n \in ns : 1 \in Int /\ n \in Int
    OBVIOUS
  <2>2. \A n \in ns : IsFiniteSet(1..n)
    BY <2>1, FS_Interval
  <2> QED BY <2>2
<1>2. family # {}
  OBVIOUS
<1>3. \E X \in family : \A Y \in family : Y \subseteq X => Y = X
  <2> HIDE DEF family
  <2> QED BY <1>1, <1>2, LeastSet
<1>4. PICK n \in ns : \A k \in ns : 1..k \subseteq 1..n => 1..k = 1..n
  <2>1. PICK X \in family : \A Y \in family : Y \subseteq X => Y = X
    BY <1>3
  <2>2. PICK n \in ns : X = 1..n
    BY <2>1
  <2>3. \A n_1 \in ns : 1..n_1 \in family
    OBVIOUS
  <2> HIDE DEF family
  <2> QED BY <2>1, <2>2, <2>3
<1>5. ASSUME NEW k \in ns, k < n PROVE FALSE
  <2>1. 1..k \subseteq 1..n /\ n \in 1..n /\ n \notin 1..k
    BY <1>5
  <2> QED BY <2>1, <1>4
<1> QED BY <1>5

\* What holds of 0, and of n + 1 if it does of n, holds up to N.
LEMMA UpTo ==
  ASSUME NEW N \in Nat, NEW good, 0 \in good,
         \A n \in 0..N : n \in good /\ n + 1 \in 0..N => n + 1 \in good
  PROVE  0..N \subseteq good
<1> SUFFICES ASSUME (0..N) \ good # {} PROVE FALSE
  OBVIOUS
<1>1. PICK n \in (0..N) \ good : \A k \in (0..N) \ good : n <= k
  BY LeastNatural, 0..N \subseteq Nat
<1>2. n - 1 \in 0..N /\ n - 1 \in good
  BY <1>1
<1> QED BY <1>1, <1>2

\* Migrations are taken one after the other: "before" is a strict total order.
LEMMA BeforeOrders ==
  ASSUME Schema!RegistryAssumption
  PROVE  /\ \A m \in Schema!All : m \in Nat /\ ~Schema!Before(m, m)
         /\ \A m, n \in Schema!All : m = n \/ Schema!Before(m, n) \/ Schema!Before(n, m)
         /\ \A k, m, n \in Schema!All :
              Schema!Before(k, m) /\ Schema!Before(m, n) => Schema!Before(k, n)
<1>1. \A m \in Schema!All :
        /\ m \in Nat
        /\ MigrationRegistry[m].stamp[1] \in Nat /\ MigrationRegistry[m].stamp[2] \in Nat
        /\ MigrationRegistry[m].stamp =
             <<MigrationRegistry[m].stamp[1], MigrationRegistry[m].stamp[2]>>
  BY DEF Schema!RegistryAssumption
<1> QED BY <1>1 DEF Schema!Before

\* One of those that are pending comes first.
LEMMA FirstIs ==
  ASSUME Schema!RegistryAssumption, NEW ms, ms \subseteq Schema!All, ms # {}
  PROVE  Schema!First(ms) \in ms /\ \A n \in ms : ~Schema!Before(n, Schema!First(ms))
<1> DEFINE Earlier(m) == {n \in ms : Schema!Before(n, m)}
           family == {Earlier(m) : m \in ms}
<1>1. IsFiniteSet(ms)
  <2>1. Len(MigrationRegistry) \in Nat /\ ms \in SUBSET (1..Len(MigrationRegistry))
    BY DEF Schema!RegistryAssumption
  <2>2. IsFiniteSet(1..Len(MigrationRegistry))
    BY <2>1, FS_Interval
  <2> QED BY <2>1, <2>2, FS_Subset
<1>2. \A X \in family : IsFiniteSet(X)
  BY <1>1, FS_Subset
<1>3. family # {}
  OBVIOUS
<1>4. \E X \in family : \A Y \in family : Y \subseteq X => Y = X
  <2> HIDE DEF family
  <2> QED BY <1>2, <1>3, LeastSet
<1>5. PICK m \in ms : \A n \in ms : Earlier(n) \subseteq Earlier(m) => Earlier(n) = Earlier(m)
  <2>1. PICK X \in family : \A Y \in family : Y \subseteq X => Y = X
    BY <1>4
  <2>2. PICK m \in ms : X = Earlier(m)
    BY <2>1
  <2>3. \A n \in ms : Earlier(n) \in family
    OBVIOUS
  <2> HIDE DEF Earlier, family
  <2> QED BY <2>1, <2>2, <2>3
<1>6. ASSUME NEW n \in ms, Schema!Before(n, m) PROVE FALSE
  <2>1. Earlier(n) \subseteq Earlier(m) /\ n \in Earlier(m) /\ n \notin Earlier(n)
    BY <1>6, BeforeOrders
  <2> QED BY <2>1, <1>5
<1>7. \A n \in ms \ {m} : Schema!Before(m, n)
  BY <1>6, BeforeOrders
<1>8. \A n \in ms \ {Schema!First(ms)} : Schema!Before(Schema!First(ms), n)
  <2>1. /\ Schema!First(ms) \in ms
        /\ \A n \in ms \ {Schema!First(ms)} : Schema!Before(Schema!First(ms), n)
    BY <1>7 DEF Schema!First
  <2> QED BY <2>1
<1>9. Schema!First(ms) \in ms
  BY <1>7 DEF Schema!First
<1> QED BY <1>8, <1>9, BeforeOrders


\* What a list that is in order says of the columns made, renamed and made so.
LEMMA PartFacts ==
  ASSUME Schema!RegistryAssumption, NEW m \in Schema!All, NEW n \in Schema!All
  PROVE  /\ \A p \in Schema!MadeWith(m) : p[1] \in Schema!Makes(m)
         /\ \A t \in Schema!Makes(m) : \E p \in Schema!MadeWith(m) : p[1] = t
         /\ \A p \in Schema!Given(n) :
              p[1] \in Schema!Makes(m) => n = m \/ Schema!Precedes(m, n)
         /\ Schema!MadeWith(m) \cap Schema!MadeWith(n) # {} => m = n
<1>1. \A p \in Schema!MadeWith(m) : \E t \in Schema!Makes(m) :
        p \in MigrationRegistry[m].tables[t].must \cup MigrationRegistry[m].tables[t].may
  BY DEF Schema!MadeWith, Schema!Must
<1>2. \A p \in Schema!MadeWith(m) : p[1] \in Schema!Makes(m)
  BY <1>1 DEF Schema!RegistryAssumption, Schema!TablesOnce
<1>3. \A p \in Schema!MadeWith(n) : p[1] \in Schema!Makes(n)
  <2>1. \A p \in Schema!MadeWith(n) : \E t \in Schema!Makes(n) :
          p \in MigrationRegistry[n].tables[t].must \cup MigrationRegistry[n].tables[t].may
    BY DEF Schema!MadeWith, Schema!Must
  <2> QED BY <2>1 DEF Schema!RegistryAssumption, Schema!TablesOnce
<1>4. \A t \in Schema!Makes(m) : \E p \in Schema!MadeWith(m) : p[1] = t
  <2> SUFFICES ASSUME NEW t \in Schema!Makes(m) PROVE \E p \in Schema!MadeWith(m) : p[1] = t
    OBVIOUS
  <2>1. PICK p \in MigrationRegistry[m].tables[t].must \cup
                   MigrationRegistry[m].tables[t].may : p[1] = t
    BY DEF Schema!RegistryAssumption, Schema!TablesOnce
  <2>2. p \in Schema!MadeWith(m)
    BY DEF Schema!MadeWith, Schema!Must
  <2> QED BY <2>1, <2>2
<1>5. \A p \in Schema!Given(n) :
        p[1] \in Schema!Makes(m) => n = m \/ Schema!Precedes(m, n)
  BY DEF Schema!RegistryAssumption, Schema!TablesOnce
<1>6. Schema!MadeWith(m) \cap Schema!MadeWith(n) # {} => m = n
  BY <1>2, <1>3 DEF Schema!RegistryAssumption, Schema!TablesOnce
<1> QED BY <1>2, <1>4, <1>5, <1>6

\* And of those renamed: by one migration, after they were made, to a new name.
LEMMA RenameFacts ==
  ASSUME Schema!RegistryAssumption, NEW m \in Schema!All, NEW n \in Schema!All
  PROVE  /\ \A p \in Schema!Olds(m) :
              /\ \E k \in Schema!All : p \in Schema!MadeWith(k) /\ Schema!Precedes(k, m)
              /\ p \notin Schema!Added(n) /\ p \notin Schema!News(n)
              /\ p \in Schema!Given(n) =>
                   p \in Schema!MadeWith(n) /\ Schema!Precedes(n, m)
              /\ p \in Schema!Olds(n) => n = m
         /\ \A p \in Schema!News(m) :
              /\ p \notin Schema!Given(n)
              /\ p \in Schema!News(n) => n = m
         /\ \A r \in MigrationRegistry[m].renames :
              /\ r.old[1] = r.new[1]
              /\ r.old \in Schema!Olds(m)
              /\ r.new \in Schema!News(m)
              /\ \A q \in MigrationRegistry[n].renames :
                   q.old = r.old \/ q.new = r.new => q = r
<1>1. \A r \in MigrationRegistry[m].renames :
        /\ r.old[1] = r.new[1] /\ r.old \in Schema!Olds(m) /\ r.new \in Schema!News(m)
        /\ \A q \in MigrationRegistry[n].renames :
             q.old = r.old \/ q.new = r.new => q = r
  BY DEF Schema!RegistryAssumption, Schema!RenamedOnce, Schema!Olds, Schema!News
<1>2. ASSUME NEW p \in Schema!Olds(m)
      PROVE  /\ \E k \in Schema!All : p \in Schema!MadeWith(k) /\ Schema!Precedes(k, m)
             /\ p \notin Schema!Added(n) /\ p \notin Schema!News(n)
             /\ p \in Schema!Given(n) =>
                  p \in Schema!MadeWith(n) /\ Schema!Precedes(n, m)
             /\ p \in Schema!Olds(n) => n = m
  <2>1. PICK r \in MigrationRegistry[m].renames : p = r.old
    BY DEF Schema!Olds
  <2>2. PICK k \in Schema!All : p \in Schema!MadeWith(k) /\ Schema!Precedes(k, m)
    BY <2>1 DEF Schema!RegistryAssumption, Schema!RenamedOnce
  <2>3. p \notin Schema!Added(n) /\ p \notin Schema!News(n)
    BY <2>1 DEF Schema!RegistryAssumption, Schema!RenamedOnce
  <2>4. p \in Schema!Given(n) => p \in Schema!MadeWith(n)
    BY <2>3 DEF Schema!Given
  <2>5. p \in Schema!MadeWith(n) => k = n
    BY <2>2, PartFacts
  <2>6. p \in Schema!Olds(n) => n = m
    BY <2>1 DEF Schema!RegistryAssumption, Schema!RenamedOnce, Schema!Olds
  <2> QED BY <2>2, <2>3, <2>4, <2>5, <2>6
<1>3. ASSUME NEW p \in Schema!News(m)
      PROVE  p \notin Schema!Given(n) /\ (p \in Schema!News(n) => n = m)
  <2>1. PICK r \in MigrationRegistry[m].renames : p = r.new
    BY DEF Schema!News
  <2> QED BY <2>1 DEF Schema!RegistryAssumption, Schema!RenamedOnce, Schema!News
<1> QED BY <1>1, <1>2, <1>3

\* What migrations make together, member by member.
LEMMA JoinedIs ==
  ASSUME NEW ms
  PROVE  /\ Schema!Joined(ms) =
              [parts |-> Schema!Joined(ms).parts, must |-> Schema!Joined(ms).must,
               names |-> Schema!Joined(ms).names]
         /\ \A p : p \in Schema!Joined(ms).parts <=>
              \/ (\E m \in ms : p \in Schema!Given(m)) /\ ~(\E m \in ms : p \in Schema!Olds(m))
              \/ \E m \in ms : p \in Schema!News(m)
         /\ \A p : p \in Schema!Joined(ms).must <=>
              \/ (\E m \in ms : p \in Schema!Must(m)) /\ ~(\E m \in ms : p \in Schema!Olds(m))
              \/ \E m \in ms : \E r \in MigrationRegistry[m].renames :
                   p = r.new /\ \E k \in ms : r.old \in Schema!Must(k)
         /\ \A p : p \in Schema!Joined(ms).names <=> \E m \in ms : p \in Schema!Named(m)
BY DEF Schema!Joined, Schema!Olds, Schema!News

\* A table is there when the migration that makes it was applied.
LEMMA TableIsThere ==
  ASSUME Schema!RegistryAssumption, NEW ms, ms \subseteq Schema!All, Schema!Closed(ms),
         NEW m \in Schema!All
  PROVE  \A t \in Schema!Makes(m) : t \in Schema!Tables(Schema!Joined(ms)) <=> m \in ms
<1> SUFFICES ASSUME NEW t \in Schema!Makes(m)
             PROVE  (\E p \in Schema!Joined(ms).parts : p[1] = t) <=> m \in ms
  BY DEF Schema!Tables
<1>1. ASSUME NEW n \in ms, NEW p \in Schema!Given(n), p[1] = t PROVE m \in ms
  BY <1>1, PartFacts DEF Schema!Closed
<1>2. ASSUME NEW n \in ms, NEW p \in Schema!News(n), p[1] = t PROVE m \in ms
  <2>1. PICK r \in MigrationRegistry[n].renames : p = r.new
    BY <1>2 DEF Schema!News
  <2>2. r.old[1] = t /\ r.old \in Schema!Olds(n)
    BY <1>2, <2>1, RenameFacts
  <2>3. PICK k \in Schema!All : r.old \in Schema!MadeWith(k) /\ Schema!Precedes(k, n)
    BY <2>2, RenameFacts
  <2>4. k \in ms /\ r.old \in Schema!Given(k)
    BY <2>3 DEF Schema!Closed, Schema!Given
  <2> QED BY <1>1, <2>2, <2>4
<1>3. ASSUME m \in ms PROVE \E p \in Schema!Joined(ms).parts : p[1] = t
  <2>1. PICK p \in Schema!MadeWith(m) : p[1] = t
    BY PartFacts
  <2>2. p \in Schema!Given(m)
    BY DEF Schema!Given
  <2>3. CASE \E n \in ms : p \in Schema!Olds(n)
    <3>1. PICK n \in ms : p \in Schema!Olds(n)
      BY <2>3
    <3>2. PICK r \in MigrationRegistry[n].renames : p = r.old
      BY <3>1 DEF Schema!Olds
    <3>3. r.new \in Schema!News(n) /\ r.new[1] = t
      BY <2>1, <3>2, RenameFacts
    <3> QED BY <3>3, JoinedIs
  <2>4. CASE ~ \E n \in ms : p \in Schema!Olds(n)
    BY <1>3, <2>1, <2>2, <2>4, JoinedIs
  <2> QED BY <2>3, <2>4
<1> QED BY <1>1, <1>2, <1>3, JoinedIs

\* A migration that has not been applied makes everything it makes.
LEMMA AppliedNew ==
  ASSUME Schema!RegistryAssumption, NEW ms, ms \subseteq Schema!All, Schema!Closed(ms),
         NEW m \in Schema!All \ ms, \A k \in Schema!All : Schema!Precedes(k, m) =>
           k \in ms
  PROVE  /\ Schema!Grown(Schema!Joined(ms), MigrationRegistry[m]) =
              Schema!Joined(ms).parts \cup Schema!Given(m)
         /\ \A r \in MigrationRegistry[m].renames :
              /\ r.old \in Schema!Joined(ms).parts
              /\ r.new \notin Schema!Joined(ms).parts \cup Schema!Given(m)
         /\ Schema!Applied(Schema!Joined(ms), MigrationRegistry[m]) = Schema!Joined(ms \cup {m})
<1> DEFINE d     == Schema!Joined(ms)
           parts == d.parts \cup Schema!Given(m)
           must  == d.must \cup Schema!Must(m)
           whole == Schema!Joined(ms \cup {m})
           Renamed(ps) == {r.new : r \in {q \in MigrationRegistry[m].renames : q.old \in ps}}
<1>1. Schema!Created(d, MigrationRegistry[m]) = Schema!Makes(m)
  BY TableIsThere DEF Schema!Created, Schema!Makes
<1>2. Schema!Grown(d, MigrationRegistry[m]) = parts
  BY <1>1
     DEF Schema!Grown, Schema!Given, Schema!MadeWith, Schema!Must, Schema!Added,
         Schema!Makes
<1>3. must =
        d.must \cup UNION {MigrationRegistry[m].tables[t].must :
                            t \in Schema!Created(d, MigrationRegistry[m])}
  BY <1>1 DEF Schema!Must
<1>4. \A p \in Schema!Given(m) \cup Schema!Must(m), n \in ms : p \notin Schema!Olds(n)
  BY RenameFacts DEF Schema!Closed, Schema!Given, Schema!MadeWith
<1>5. \A r \in MigrationRegistry[m].renames : r.old \in d.parts /\ r.new \notin parts
  <2> SUFFICES ASSUME NEW r \in MigrationRegistry[m].renames
               PROVE  r.old \in d.parts /\ r.new \notin parts
    OBVIOUS
  <2>1. r.old \in Schema!Olds(m) /\ r.new \in Schema!News(m)
    BY RenameFacts
  <2>2. PICK k \in Schema!All : r.old \in Schema!MadeWith(k) /\ Schema!Precedes(k, m)
    BY <2>1, RenameFacts
  <2>3. k \in ms /\ r.old \in Schema!Given(k)
    BY <2>2 DEF Schema!Given
  <2>4. \A n \in ms :
          /\ r.old \notin Schema!Olds(n)
          /\ r.new \notin Schema!News(n) /\ r.new \notin Schema!Given(n)
    BY <2>1, RenameFacts
  <2>5. r.new \notin Schema!Given(m)
    BY <2>1, RenameFacts
  <2> QED BY <2>3, <2>4, <2>5, JoinedIs
<1>6. {r \in MigrationRegistry[m].renames : r.old \in parts /\ r.new \notin parts} =
        MigrationRegistry[m].renames
  BY <1>5
<1>7. Schema!Applied(d, MigrationRegistry[m]) =
        [parts |-> (parts \ Schema!Olds(m)) \cup Renamed(parts),
         must  |-> (must \ Schema!Olds(m)) \cup Renamed(must),
         names |-> d.names \cup Schema!Named(m)]
  <2> HIDE DEF d, parts, must
  <2> QED BY <1>2, <1>3, <1>6
              DEF Schema!Applied, Schema!Olds, Schema!Named, Schema!Makes
<1>8. Renamed(parts) = Schema!News(m)
  BY <1>5 DEF Schema!News
<1>9. (parts \ Schema!Olds(m)) \cup Schema!News(m) = whole.parts
  <2>1. ASSUME NEW p \in parts \ Schema!Olds(m) PROVE p \in whole.parts
    BY <1>4, JoinedIs
  <2>2. ASSUME NEW p \in Schema!News(m) PROVE p \in whole.parts
    BY JoinedIs
  <2>3. ASSUME NEW p \in whole.parts PROVE p \in (parts \ Schema!Olds(m)) \cup Schema!News(m)
    <3>1. \A n \in ms : p \in Schema!News(n) => p \notin Schema!Olds(m)
      BY RenameFacts
    <3> QED BY <3>1, JoinedIs
  <2> QED BY <2>1, <2>2, <2>3
<1>10. (must \ Schema!Olds(m)) \cup Renamed(must) = whole.must
  <2>1. ASSUME NEW p \in must \ Schema!Olds(m) PROVE p \in whole.must
    BY <1>4, JoinedIs
  <2>2. ASSUME NEW r \in MigrationRegistry[m].renames, r.old \in must PROVE r.new \in whole.must
    <3>1. r.old \in Schema!Olds(m)
      BY RenameFacts
    <3>2. \A n \in ms : r.old \notin Schema!News(n)
      BY <3>1, RenameFacts
    <3>3. \A n \in ms : \A q \in MigrationRegistry[n].renames : r.old # q.new
      BY <3>2 DEF Schema!News
    <3>4. \E k \in ms \cup {m} : r.old \in Schema!Must(k)
      BY <2>2, <3>3, JoinedIs
    <3> QED BY <3>4, JoinedIs
  <2>3. ASSUME NEW n \in ms \cup {m}, NEW p \in Schema!Must(n),
               \A k \in ms \cup {m} : p \notin Schema!Olds(k)
        PROVE  p \in must \ Schema!Olds(m)
    BY <2>3, JoinedIs
  <2>4. ASSUME NEW n \in ms \cup {m}, NEW r \in MigrationRegistry[n].renames,
               NEW k \in ms \cup {m}, r.old \in Schema!Must(k)
        PROVE  r.new \in (must \ Schema!Olds(m)) \cup Renamed(must)
    <3>1. r.old \in Schema!Olds(n) /\ r.new \in Schema!News(n)
      BY RenameFacts
    <3>2. CASE n = m
      <4>1. \A j \in ms : r.old \notin Schema!Olds(j)
        BY <3>1, <3>2, RenameFacts
      <4>2. r.old \in must
        BY <2>4, <4>1, JoinedIs
      <4> QED BY <3>2, <4>2
    <3>3. CASE n # m
      <4>1. k \in ms
        BY <1>4, <2>4, <3>1, <3>3
      <4>2. r.new \in d.must
        BY <2>4, <3>3, <4>1, JoinedIs
      <4>3. r.new \notin Schema!Olds(m)
        BY <3>1, RenameFacts
      <4> QED BY <4>2, <4>3
    <3> QED BY <3>2, <3>3
  <2> QED BY <2>1, <2>2, <2>3, <2>4, JoinedIs
<1>11. d.names \cup Schema!Named(m) = whole.names
  BY JoinedIs
<1>12. whole = [parts |-> whole.parts, must |-> whole.must, names |-> whole.names]
  BY JoinedIs
<1> QED BY <1>2, <1>5, <1>7, <1>8, <1>9, <1>10, <1>11, <1>12

\* A migration that has been applied changes nothing when it runs again.
LEMMA AppliedAgain ==
  ASSUME Schema!RegistryAssumption, NEW ms, ms \subseteq Schema!All, Schema!Closed(ms),
         NEW m \in ms
  PROVE  Schema!Applied(Schema!Joined(ms), MigrationRegistry[m]) = Schema!Joined(ms)
<1> DEFINE d == Schema!Joined(ms)
<1>1. Schema!Created(d, MigrationRegistry[m]) = {}
  BY TableIsThere DEF Schema!Created, Schema!Makes
<1>2. Schema!Added(m) \subseteq d.parts
  <2>1. \A p \in Schema!Added(m), n \in ms : p \notin Schema!Olds(n)
    BY RenameFacts
  <2> QED BY <2>1, JoinedIs DEF Schema!Given
<1>3. Schema!Grown(d, MigrationRegistry[m]) = d.parts
  BY <1>1, <1>2 DEF Schema!Grown, Schema!Added
<1>4. \A r \in MigrationRegistry[m].renames : r.old \notin d.parts
  <2> SUFFICES ASSUME NEW r \in MigrationRegistry[m].renames PROVE r.old \notin d.parts
    OBVIOUS
  <2>1. r.old \in Schema!Olds(m) /\ \A n \in ms : r.old \notin Schema!News(n)
    BY RenameFacts
  <2> QED BY <2>1, JoinedIs
<1>5. {r \in MigrationRegistry[m].renames : r.old \in d.parts /\ r.new \notin d.parts} = {}
  BY <1>4
<1>6. Schema!Named(m) \subseteq d.names
  BY JoinedIs
<1>7. Schema!Applied(d, MigrationRegistry[m]) =
        [parts |-> d.parts, must |-> d.must, names |-> d.names]
  <2> HIDE DEF d
  <2> QED BY <1>1, <1>3, <1>5, <1>6 DEF Schema!Applied, Schema!Named, Schema!Makes
<1> QED BY <1>7, JoinedIs

\* A migration whose turn it is runs, unless rows are in its way.
LEMMA ApplicableNew ==
  ASSUME Schema!RegistryAssumption, NEW ms, ms \subseteq Schema!All, Schema!Closed(ms),
         NEW m \in Schema!All \ ms,
         \A k \in Schema!All : Schema!Precedes(k, m) => k \in ms,
         MigrationRegistry[m].bars \cap x5 = {}
  PROVE  Schema!Applicable(Schema!Joined(ms), MigrationRegistry[m])
<1> DEFINE d     == Schema!Joined(ms)
           parts == d.parts \cup Schema!Given(m)
<1>1. Schema!Grown(d, MigrationRegistry[m]) = parts
  BY AppliedNew
<1>2. \A n \in ms : n \in Schema!All /\ n # m /\ ~Schema!Precedes(m, n)
  BY DEF Schema!Closed
<1>3. MigrationRegistry[m].needs \cup Schema!Indexes(m) \subseteq parts
  <2> SUFFICES ASSUME NEW p \in MigrationRegistry[m].needs \cup Schema!Indexes(m),
                      p \notin Schema!Given(m)
               PROVE  p \in d.parts
    OBVIOUS
  <2>1. PICK k \in Schema!All : Schema!Precedes(k, m) /\ p \in Schema!Given(k) \cup Schema!News(k)
    BY DEF Schema!RegistryAssumption, Schema!NeedsMet
  <2>2. \A n \in ms : p \notin Schema!Olds(n)
    BY <1>2 DEF Schema!RegistryAssumption, Schema!NeedsMet
  <2> QED BY <2>1, <2>2, JoinedIs
<1>4. \A name \in DOMAIN MigrationRegistry[m].on :
        MigrationRegistry[m].on[name] \subseteq parts
  BY <1>3 DEF Schema!Indexes
<1>5. \A n \in ms :
        /\ MigrationRegistry[m].fresh \cap
             (Schema!Named(n) \cup {p[1] : p \in Schema!Given(n)}) = {}
        /\ MigrationRegistry[m].once \cap Schema!Given(n) = {}
  BY <1>2 DEF Schema!RegistryAssumption, Schema!FreshOnce
<1>6. MigrationRegistry[m].fresh \cap d.names = {}
  BY <1>5, JoinedIs
<1>7. ASSUME NEW p \in d.parts PROVE p[1] \notin MigrationRegistry[m].fresh
  <2>1. CASE \E n \in ms : p \in Schema!Given(n)
    BY <1>5, <2>1
  <2>2. CASE \E n \in ms : p \in Schema!News(n)
    <3>1. PICK n \in ms : p \in Schema!News(n)
      BY <2>2
    <3>2. PICK r \in MigrationRegistry[n].renames : p = r.new
      BY <3>1 DEF Schema!News
    <3>3. r.old[1] = p[1] /\ r.old \in Schema!Olds(n)
      BY <3>2, RenameFacts
    <3>4. PICK k \in Schema!All : r.old \in Schema!MadeWith(k) /\ Schema!Precedes(k, n)
      BY <3>3, RenameFacts
    <3>5. k \in ms /\ r.old \in Schema!Given(k)
      BY <3>4 DEF Schema!Closed, Schema!Given
    <3> QED BY <1>5, <3>3, <3>5
  <2> QED BY <1>7, <2>1, <2>2, JoinedIs
<1>8. MigrationRegistry[m].fresh \cap Schema!Tables(d) = {}
  BY <1>7 DEF Schema!Tables
<1>9. MigrationRegistry[m].once \cap d.parts = {}
  <2>1. MigrationRegistry[m].once \subseteq Schema!Given(m)
    BY DEF Schema!Given, Schema!Added
  <2>2. \A n \in ms : \A p \in Schema!News(n) : p \notin Schema!Given(m)
    BY RenameFacts
  <2> QED BY <1>5, <2>1, <2>2, JoinedIs
<1>10. \A r \in MigrationRegistry[m].renames : r.old \in parts /\ r.new \notin parts
  BY AppliedNew
<1>11. \A r \in MigrationRegistry[m].renames : (r.old \in parts) # (r.new \in parts)
  BY <1>10
<1>12. Schema!Applicable(d, MigrationRegistry[m])
  <2> HIDE DEF d, parts
  <2> QED BY <1>1, <1>3, <1>4, <1>6, <1>8, <1>9, <1>11 DEF Schema!Applicable
<1> QED BY <1>12

\* The function that applies them all: each step is the one before and one more.
LEMMA UpgradedIs ==
  ASSUME Schema!RegistryAssumption
  PROVE  /\ Schema!Upgraded[0] = [db |-> Schema!Empty, recorded |-> {}]
         /\ \A n \in 0..(Len(MigrationRegistry) - 1) :
              LET u == Schema!Upgraded[n]
                  m == Schema!First(Schema!All \ u.recorded)
              IN /\ Schema!Upgraded[n + 1].db = Schema!Applied(u.db, MigrationRegistry[m])
                 /\ Schema!Upgraded[n + 1].recorded = u.recorded \cup {m}
<1> DEFINE N == Len(MigrationRegistry)
           Start == [db |-> Schema!Empty, recorded |-> {}]
           Due(x)  == Schema!First(Schema!All \ x.recorded)
           Step(x) == [db       |-> Schema!Applied(x.db, MigrationRegistry[Due(x)]),
                       recorded |-> x.recorded \cup {Due(x)}]
           Def(f, n) == /\ f = [i \in 0..n |-> f[i]]
                        /\ f[0] = Start /\ \A i \in 1..n : f[i] = Step(f[i - 1])
           good == {n \in 0..N : \E f : Def(f, n)}
<1>1. N \in Nat
  BY DEF Schema!RegistryAssumption
<1>2. 0 \in good
  <2>1. Def([i \in 0..0 |-> Start], 0)
    OBVIOUS
  <2> HIDE DEF Def
  <2> QED BY <1>1, <2>1
<1>3. ASSUME NEW n \in 0..N, n \in good, n + 1 \in 0..N PROVE n + 1 \in good
  <2>1. PICK f : Def(f, n)
    BY <1>3
  <2> DEFINE g == [i \in 0..(n + 1) |-> IF i = n + 1 THEN Step(f[n]) ELSE f[i]]
  <2>2. Def(g, n + 1)
    <3> HIDE DEF Step, Start
    <3> QED BY <1>1, <2>1
  <2> HIDE DEF Def, g
  <2> QED BY <1>3, <2>2
<1>4. N \in good
  <2> HIDE DEF good
  <2>1. 0..N \subseteq good
    BY <1>1, <1>2, <1>3, UpTo
  <2> QED BY <1>1, <2>1
<1>5. PICK f : Def(f, N)
  BY <1>4
<1>6. f = [n \in 0..N |-> IF n = 0 THEN Start ELSE Step(f[n - 1])]
  <2> HIDE DEF Step, Start
  <2>1. f = [n \in 0..N |-> f[n]]
    BY <1>5
  <2>2. \A n \in 0..N : f[n] = IF n = 0 THEN Start ELSE Step(f[n - 1])
    BY <1>1, <1>5
  <2> QED BY <2>1, <2>2
<1>7. Schema!Upgraded = CHOOSE u : u = [n \in 0..N |-> IF n = 0 THEN Start ELSE Step(u[n - 1])]
  BY DEF Schema!Upgraded
<1> HIDE DEF Step, Start
<1>8. Schema!Upgraded = [n \in 0..N |-> IF n = 0 THEN Start ELSE Step(Schema!Upgraded[n - 1])]
  BY <1>6, <1>7
<1>9. Schema!Upgraded[0] = Start
  BY <1>1, <1>8
<1>10. \A n \in 0..(N - 1) : Schema!Upgraded[n + 1] = Step(Schema!Upgraded[n])
  <2>1. \A n \in 0..(N - 1) : n + 1 \in 0..N /\ n + 1 # 0 /\ (n + 1) - 1 = n
    BY <1>1
  <2> QED BY <1>8, <2>1
<1>11. \A n \in 0..(N - 1) :
         LET u == Schema!Upgraded[n]
             m == Schema!First(Schema!All \ u.recorded)
         IN /\ Schema!Upgraded[n + 1].db = Schema!Applied(u.db, MigrationRegistry[m])
            /\ Schema!Upgraded[n + 1].recorded = u.recorded \cup {m}
  <2> SUFFICES ASSUME NEW n \in 0..(N - 1)
               PROVE  /\ Schema!Upgraded[n + 1].db = Step(Schema!Upgraded[n]).db
                      /\ Schema!Upgraded[n + 1].recorded = Step(Schema!Upgraded[n]).recorded
    BY DEF Step
  <2> QED BY <1>10
<1> QED BY <1>9, <1>11 DEF Start

\* What comes first of what is missing is due: all that has to precede it was applied.
LEMMA FirstIsDue ==
  ASSUME Schema!RegistryAssumption, NEW ms, NEW ps, ps \subseteq Schema!All, ps # {},
         \A m \in ps, k \in Schema!All : Schema!Precedes(k, m) => k \in ms \cup ps
  PROVE  /\ Schema!First(ps) \in ps
         /\ \A k \in Schema!All : Schema!Precedes(k, Schema!First(ps)) => k \in ms
<1>1. Schema!First(ps) \in ps /\ \A n \in ps : ~Schema!Before(n, Schema!First(ps))
  BY FirstIs
<1> QED BY <1>1 DEF Schema!Precedes

\* A migration that is due and applied leaves the recorded ones closed.
LEMMA ClosedOnceMore ==
  ASSUME NEW ms, Schema!Closed(ms), NEW m,
         \A k \in Schema!All : Schema!Precedes(k, m) => k \in ms
  PROVE  Schema!Closed(ms \cup {m})
BY DEF Schema!Closed

\* Nothing, if there are none.
LEMMA JoinedNone == Schema!Joined({}) = Schema!Empty
BY DEF Schema!Joined, Schema!Empty

\* The last release, on a new database, applies each of its migrations once.
LEMMA SchemaOfNewIs ==
  ASSUME Schema!RegistryAssumption
  PROVE  Schema!SchemaOfNew = Schema!Joined(Schema!All)
<1> DEFINE N == Len(MigrationRegistry)
           Goes(u, n) == /\ u.recorded \subseteq Schema!All /\ Schema!Closed(u.recorded)
                         /\ IsFiniteSet(u.recorded) /\ Cardinality(u.recorded) = n
                         /\ u.db = Schema!Joined(u.recorded)
           good == {n \in 0..N : Goes(Schema!Upgraded[n], n)}
<1>1. N \in Nat /\ Schema!All = 1..N
  BY DEF Schema!RegistryAssumption
<1>2. IsFiniteSet(Schema!All) /\ Cardinality(Schema!All) = N
  <2>1. 1 \in Int /\ N \in Int
    BY <1>1
  <2>2. IsFiniteSet(1..N) /\ Cardinality(1..N) = IF 1 > N THEN 0 ELSE N - 1 + 1
    BY <2>1, FS_Interval
  <2> QED BY <1>1, <2>2
<1>3. 0 \in good
  <2>1. Schema!Upgraded[0].recorded = {} /\ Schema!Upgraded[0].db = Schema!Empty
    BY UpgradedIs
  <2>2. IsFiniteSet({}) /\ Cardinality({}) = 0
    BY FS_EmptySet
  <2>3. Schema!Closed({})
    BY DEF Schema!Closed
  <2>4. Goes(Schema!Upgraded[0], 0)
    BY <2>1, <2>2, <2>3, JoinedNone
  <2> HIDE DEF Goes
  <2> QED BY <1>1, <2>4
<1>4. ASSUME NEW n \in 0..N, n \in good, n + 1 \in 0..N PROVE n + 1 \in good
  <2> DEFINE u == Schema!Upgraded[n]
             v == Schema!Upgraded[n + 1]
             m == Schema!First(Schema!All \ u.recorded)
  <2>1. /\ u.recorded \subseteq Schema!All /\ Schema!Closed(u.recorded)
        /\ IsFiniteSet(u.recorded) /\ Cardinality(u.recorded) = n
        /\ u.db = Schema!Joined(u.recorded)
    BY <1>4
  <2>2. /\ v.recorded = u.recorded \cup {m}
        /\ v.db = Schema!Applied(u.db, MigrationRegistry[m])
    <3>1. n \in 0..(N - 1)
      BY <1>1, <1>4
    <3> QED BY <3>1, UpgradedIs
  <2>9. Goes(v, n + 1) => n + 1 \in good
    <3> HIDE DEF Goes
    <3> QED BY <1>4
  <2> HIDE DEF u, v
  <2>3. Schema!All \ u.recorded # {}
    <3> SUFFICES ASSUME Schema!All = u.recorded PROVE FALSE
      BY <2>1
    <3> QED BY <1>1, <1>2, <1>4, <2>1
  <2>4. m \in Schema!All \ u.recorded /\ \A k \in Schema!All : Schema!Precedes(k, m) =>
          k \in u.recorded
    <3>1. \A i \in Schema!All \ u.recorded, k \in Schema!All :
            Schema!Precedes(k, i) => k \in u.recorded \cup (Schema!All \ u.recorded)
      OBVIOUS
    <3>2. Schema!All \ u.recorded \subseteq Schema!All
      OBVIOUS
    <3> QED BY <2>3, <3>1, <3>2, FirstIsDue
  <2> HIDE DEF m
  <2>5. Schema!Closed(v.recorded)
    BY <2>1, <2>2, <2>4, ClosedOnceMore
  <2>6. IsFiniteSet(v.recorded) /\ Cardinality(v.recorded) = n + 1
    <3> DEFINE rs == u.recorded
    <3>1. IsFiniteSet(rs) /\ Cardinality(rs) = n /\ m \notin rs
      BY <2>1, <2>4
    <3> HIDE DEF rs
    <3>2. IsFiniteSet(rs \cup {m}) /\ Cardinality(rs \cup {m}) = n + 1
      BY <3>1, FS_AddElement
    <3> QED BY <2>2, <3>2 DEF rs
  <2>7. v.db = Schema!Joined(v.recorded)
    <3> DEFINE rs == u.recorded
    <3>1. /\ rs \subseteq Schema!All /\ Schema!Closed(rs) /\ m \in Schema!All \ rs
          /\ \A k \in Schema!All : Schema!Precedes(k, m) => k \in rs
      BY <2>1, <2>4
    <3> HIDE DEF rs
    <3>2. Schema!Applied(Schema!Joined(rs), MigrationRegistry[m]) = Schema!Joined(rs \cup {m})
      BY <3>1, AppliedNew
    <3> QED BY <2>1, <2>2, <3>2 DEF rs
  <2>8. Goes(v, n + 1)
    BY <2>1, <2>2, <2>4, <2>5, <2>6, <2>7
  <2> QED BY <2>8, <2>9
<1>5. N \in good
  <2> HIDE DEF good
  <2>1. 0..N \subseteq good
    BY <1>1, <1>3, <1>4, UpTo
  <2> QED BY <1>1, <2>1
<1>6. Schema!Upgraded[N].recorded = Schema!All
  BY <1>2, <1>5, FS_Subset
<1> QED BY <1>5, <1>6 DEF Schema!SchemaOfNew

\* A new database has what no migration makes.
LEMMA MigrationInit ==
  ASSUME Schema!RegistryAssumption, Schema!Init
  PROVE  Schema!IInv
<1>1. Schema!TypeOK
  <2>1. (CHOOSE n \in Releases : TRUE) \in Releases
    BY DEF Schema!RegistryAssumption
  <2> QED BY <2>1 DEF Schema!Init, Schema!TypeOK
<1>2. x2 = Schema!Joined(x4) /\ Schema!Closed(x4)
  BY JoinedNone DEF Schema!Init, Schema!Closed
<1>3. \A s \in Sessions :
        Schema!Upgrading(s) /\ \A t \in Sessions \ {s} : Schema!Overlap(s, t)
  BY DEF Schema!Init, Schema!Upgrading, Schema!Overlap, Schema!Running
<1>4. Schema!FailsOnlyWhenExcused
  BY DEF Schema!Init, Schema!FailsOnlyWhenExcused
<1> QED BY <1>1, <1>2, <1>3, <1>4 DEF Schema!IInv

\* A run that ends leaves the others what they were.
LEMMA EndKeeps ==
  ASSUME Schema!IInv, NEW s \in Sessions,
         NEW how \in {"idle", "checked", "done", "blocked", "failed", "incomplete"},
         Schema!End(s, how), UNCHANGED <<x2, x4, x7>>,
         Schema!Running(s), x9' \in [Sessions -> BOOLEAN],
         \A t \in Sessions : x9[t] => x9'[t],
         how \in {"failed", "incomplete"} => x9'[s]
  PROVE  Schema!IInv'
<1>1. Schema!TypeOK'
  BY DEF Schema!IInv, Schema!TypeOK, Schema!End
<1>2. (x2 = Schema!Joined(x4) /\ Schema!Closed(x4))'
  BY DEF Schema!IInv, Schema!Closed, Schema!Joined
<1>3. \A t \in Sessions : /\ t # s => x6'[t] = x6[t] /\ x8'[t] = x8[t]
                         /\ x6'[s] = how
  BY DEF Schema!IInv, Schema!TypeOK, Schema!End
<1>4. ASSUME NEW t \in Sessions PROVE Schema!Upgrading(t)'
  BY <1>3, <1>4 DEF Schema!IInv, Schema!Upgrading
<1>5. \A t \in Sessions : Schema!Running(t)' => Schema!Running(t)
  BY <1>3 DEF Schema!Running
<1>6. ASSUME NEW t \in Sessions, NEW u \in Sessions \ {t} PROVE Schema!Overlap(t, u)'
  BY <1>5 DEF Schema!IInv, Schema!Overlap
<1>7. Schema!FailsOnlyWhenExcused'
  BY <1>3 DEF Schema!IInv, Schema!FailsOnlyWhenExcused
<1> QED BY <1>1, <1>2, <1>4, <1>6, <1>7 DEF Schema!IInv

\* A runner that starts.
LEMMA UpKeeps ==
  ASSUME Schema!RegistryAssumption, Schema!IInv, NEW s \in Sessions,
         NEW n \in Releases, Schema!Up(s, n)
  PROVE  Schema!IInv'
<1>1. Schema!TypeOK'
  BY DEF Schema!IInv, Schema!TypeOK, Schema!Up, Schema!Running
<1>2. (x2 = Schema!Joined(x4) /\ Schema!Closed(x4))'
  BY DEF Schema!IInv, Schema!Closed, Schema!Joined, Schema!Up
<1>3. \A t \in Sessions \ {s} :
        /\ x6'[t] = x6[t] /\ x8'[t] = x8[t] /\ x7'[t] = x7[t]
        /\ x9'[t] = (x9[t] \/ Schema!Running(t))
  BY DEF Schema!IInv, Schema!TypeOK, Schema!Up
<1>4. /\ x6'[s] \in {"started", "checked"}
      /\ \A t \in Sessions \ {s} : Schema!Running(t) => x9'[s]
  BY DEF Schema!IInv, Schema!TypeOK, Schema!Up
<1>5. ASSUME NEW t \in Sessions PROVE Schema!Upgrading(t)'
  BY <1>3, <1>4 DEF Schema!IInv, Schema!Upgrading, Schema!Up
<1>6. ASSUME NEW t \in Sessions, NEW u \in Sessions \ {t} PROVE Schema!Overlap(t, u)'
  BY <1>3, <1>4 DEF Schema!IInv, Schema!Overlap, Schema!Running
<1>7. Schema!FailsOnlyWhenExcused'
  BY <1>3, <1>4 DEF Schema!IInv, Schema!FailsOnlyWhenExcused
<1> QED BY <1>1, <1>2, <1>5, <1>6, <1>7 DEF Schema!IInv

\* What it takes as pending is what its release knows and the database lacks.
LEMMA LoadKeeps ==
  ASSUME Schema!RegistryAssumption, Schema!IInv, NEW s \in Sessions, Schema!Load(s)
  PROVE  Schema!IInv'
<1>1. x7[s] \in Nat /\ Schema!Known(x7[s]) \subseteq Schema!All
  BY DEF Schema!IInv, Schema!TypeOK, Schema!RegistryAssumption
<1>2. Schema!TypeOK'
  BY <1>1 DEF Schema!IInv, Schema!TypeOK, Schema!Load
<1>3. (x2 = Schema!Joined(x4) /\ Schema!Closed(x4))'
  BY DEF Schema!IInv, Schema!Closed, Schema!Joined, Schema!Load
<1>4. \A t \in Sessions \ {s} : x6'[t] = x6[t] /\ x8'[t] = x8[t]
  BY DEF Schema!IInv, Schema!TypeOK, Schema!Load
<1>5. x6'[s] = "applying" /\ x8'[s] = Schema!Known(x7[s]) \ x4
  BY DEF Schema!IInv, Schema!TypeOK, Schema!Load
<1>6. \A m \in Schema!Known(x7[s]), k \in Schema!All :
        Schema!Precedes(k, m) => k \in Schema!Known(x7[s])
  <2>1. \A k \in Schema!All : k \in Nat /\ 1 <= k
    BY DEF Schema!RegistryAssumption
  <2> QED BY <1>1, <2>1 DEF Schema!Known, Schema!Precedes
<1>7. ASSUME NEW t \in Sessions PROVE Schema!Upgrading(t)'
  <2>1. CASE t = s
    BY <1>5, <1>6, <2>1 DEF Schema!Upgrading, Schema!Load
  <2>2. CASE t # s
    BY <1>4, <2>2 DEF Schema!IInv, Schema!Upgrading, Schema!Load
  <2> QED BY <2>1, <2>2
<1>8. \A t \in Sessions : Schema!Running(t)' => Schema!Running(t)
  BY <1>4 DEF Schema!Running, Schema!Load
<1>9. ASSUME NEW t \in Sessions, NEW u \in Sessions \ {t} PROVE Schema!Overlap(t, u)'
  BY <1>8 DEF Schema!IInv, Schema!Overlap, Schema!Load
<1>10. Schema!FailsOnlyWhenExcused'
  BY <1>4, <1>5 DEF Schema!IInv, Schema!FailsOnlyWhenExcused, Schema!Load
<1> QED BY <1>2, <1>3, <1>7, <1>9, <1>10 DEF Schema!IInv

\* The first of the pending ones, applied and recorded.
LEMMA ApplyKeeps ==
  ASSUME Schema!RegistryAssumption, Schema!IInv, NEW s \in Sessions, Schema!Apply(s)
  PROVE  Schema!IInv'
<1> DEFINE m == Schema!First(x8[s])
<1>1. /\ x6[s] = "applying"
      /\ x8[s] # {}
      /\ x8[s] \subseteq Schema!All
      /\ x4 \subseteq Schema!All
      /\ \A i \in x8[s], k \in Schema!All : Schema!Precedes(k, i) => k \in x4 \cup x8[s]
  BY DEF Schema!IInv, Schema!TypeOK, Schema!Apply, Schema!Upgrading
<1>2. m \in x8[s] /\ \A k \in Schema!All : Schema!Precedes(k, m) => k \in x4
  BY <1>1, FirstIsDue
<1>3. /\ x2' = Schema!Applied(x2, MigrationRegistry[m]) /\ x4' = x4 \cup {m}
      /\ x8' = [x8 EXCEPT ![s] = @ \ {m}]
      /\ UNCHANGED <<x6, x7, x9>>
  BY DEF Schema!Apply
<1> HIDE DEF m
<1>4. Schema!TypeOK'
  BY <1>1, <1>2, <1>3 DEF Schema!IInv, Schema!TypeOK
<1>5. Schema!Closed(x4 \cup {m})
  BY <1>2, ClosedOnceMore DEF Schema!IInv
<1>6. Schema!Applied(Schema!Joined(x4), MigrationRegistry[m]) = Schema!Joined(x4 \cup {m})
  <2>1. CASE m \in x4
    <3>1. x4 \cup {m} = x4
      BY <2>1
    <3> QED BY <1>1, <2>1, <3>1, AppliedAgain DEF Schema!IInv
  <2>2. CASE m \notin x4
    BY <1>1, <1>2, <2>2, AppliedNew DEF Schema!IInv
  <2> QED BY <2>1, <2>2
<1>7. x2' = Schema!Joined(x4') /\ Schema!Closed(x4')
  BY <1>3, <1>5, <1>6 DEF Schema!IInv
<1>8. \A t \in Sessions \ {s} : x8'[t] = x8[t]
  BY <1>3 DEF Schema!IInv, Schema!TypeOK
<1>9. x8'[s] = x8[s] \ {m}
  BY <1>3 DEF Schema!IInv, Schema!TypeOK
<1>10. ASSUME NEW t \in Sessions PROVE Schema!Upgrading(t)'
  <2>1. CASE t = s
    BY <1>1, <1>3, <1>9, <2>1 DEF Schema!IInv, Schema!Upgrading
  <2>2. CASE t # s
    <3>1. x6[t] \in {"applying", "verifying"} => x9[t]
      BY <1>1, <2>2 DEF Schema!IInv, Schema!Overlap, Schema!Running
    <3> QED BY <1>3, <1>8, <2>2, <3>1 DEF Schema!IInv, Schema!Upgrading
  <2> QED BY <2>1, <2>2
<1>11. ASSUME NEW t \in Sessions, NEW u \in Sessions \ {t} PROVE Schema!Overlap(t, u)'
  BY <1>3 DEF Schema!IInv, Schema!Overlap, Schema!Running
<1>12. Schema!FailsOnlyWhenExcused'
  BY <1>3 DEF Schema!IInv, Schema!FailsOnlyWhenExcused
<1> QED BY <1>4, <1>7, <1>10, <1>11, <1>12
            DEF Schema!IInv, Schema!Closed, Schema!Joined

\* A migration is refused for rows, or because another run applied it before.
LEMMA RefusedKeeps ==
  ASSUME Schema!RegistryAssumption, Schema!IInv, NEW s \in Sessions, Schema!Refused(s)
  PROVE  Schema!IInv'
<1> DEFINE m == Schema!First(x8[s])
<1>1. /\ x6[s] = "applying"
      /\ x8[s] # {}
      /\ x8[s] \subseteq Schema!All
      /\ x4 \subseteq Schema!All
      /\ \A i \in x8[s], k \in Schema!All : Schema!Precedes(k, i) => k \in x4 \cup x8[s]
      /\ x9[s] \/ x8[s] \cap x4 = {}
  BY DEF Schema!IInv, Schema!TypeOK, Schema!Refused, Schema!Upgrading
<1>2. m \in x8[s] /\ \A k \in Schema!All : Schema!Precedes(k, m) => k \in x4
  BY <1>1, FirstIsDue
<1>3. /\ Schema!End(s, "failed") /\ ~Schema!Applicable(x2, MigrationRegistry[m])
      /\ x9' = [x9 EXCEPT ![s] = @ \/ MigrationRegistry[m].bars \cap x5 # {}]
      /\ UNCHANGED <<x2, x4, x7>>
  BY DEF Schema!Refused
<1> HIDE DEF m
<1>4. x9[s] \/ MigrationRegistry[m].bars \cap x5 # {}
  <2> SUFFICES ASSUME ~x9[s], MigrationRegistry[m].bars \cap x5 = {} PROVE FALSE
    OBVIOUS
  <2>1. m \in Schema!All \ x4
    BY <1>1, <1>2
  <2> QED BY <1>1, <1>2, <1>3, <2>1, ApplicableNew DEF Schema!IInv
<1>5. x9 \in [Sessions -> BOOLEAN]
  BY DEF Schema!IInv, Schema!TypeOK
<1>6. x9' \in [Sessions -> BOOLEAN] /\ x9'[s] /\ \A t \in Sessions : x9[t] => x9'[t]
  BY <1>3, <1>4, <1>5
<1> QED BY <1>1, <1>3, <1>6, EndKeeps DEF Schema!Running

\* A runner with nothing left.
LEMMA FinishKeeps ==
  ASSUME Schema!IInv, NEW s \in Sessions, Schema!Finish(s)
  PROVE  Schema!IInv'
<1>1. Schema!TypeOK'
  BY DEF Schema!IInv, Schema!TypeOK, Schema!Finish
<1>2. (x2 = Schema!Joined(x4) /\ Schema!Closed(x4))'
  BY DEF Schema!IInv, Schema!Closed, Schema!Joined, Schema!Finish
<1>3. \A t \in Sessions \ {s} : x6'[t] = x6[t]
  BY DEF Schema!IInv, Schema!TypeOK, Schema!Finish
<1>4. x6'[s] \in {"verifying", "done"}
  BY DEF Schema!IInv, Schema!TypeOK, Schema!Finish
<1>5. ASSUME NEW t \in Sessions PROVE Schema!Upgrading(t)'
  BY <1>3, <1>4 DEF Schema!IInv, Schema!Upgrading, Schema!Finish
<1>6. \A t \in Sessions : Schema!Running(t)' => Schema!Running(t)
  BY <1>3 DEF Schema!Running, Schema!Finish
<1>7. ASSUME NEW t \in Sessions, NEW u \in Sessions \ {t} PROVE Schema!Overlap(t, u)'
  BY <1>6 DEF Schema!IInv, Schema!Overlap, Schema!Finish
<1>8. Schema!FailsOnlyWhenExcused'
  BY <1>3, <1>4 DEF Schema!IInv, Schema!FailsOnlyWhenExcused, Schema!Finish
<1> QED BY <1>1, <1>2, <1>5, <1>7, <1>8 DEF Schema!IInv

\* No step of a runner, and no row, undoes it.
LEMMA MigrationsNext ==
  ASSUME Schema!RegistryAssumption, Schema!IInv, [Schema!Next]_(Schema!vars)
  PROVE  Schema!IInv'
<1>1. x9 \in [Sessions -> BOOLEAN]
  BY DEF Schema!IInv, Schema!TypeOK
<1>2. ASSUME NEW s \in Sessions, NEW n \in Releases, Schema!Up(s, n) PROVE Schema!IInv'
  BY <1>2, UpKeeps
<1>3. ASSUME NEW s \in Sessions, Schema!CheckHistory(s) PROVE Schema!IInv'
  <2>1. PICK how \in {"blocked", "done", "checked"} : Schema!End(s, how)
    BY <1>3 DEF Schema!CheckHistory
  <2>2. Schema!Running(s)
    BY <1>3 DEF Schema!CheckHistory, Schema!Running
  <2> QED BY <1>1, <1>3, <2>1, <2>2, EndKeeps DEF Schema!CheckHistory
<1>4. ASSUME NEW s \in Sessions, Schema!Load(s) PROVE Schema!IInv'
  BY <1>4, LoadKeeps
<1>5. ASSUME NEW s \in Sessions, Schema!Apply(s) PROVE Schema!IInv'
  BY <1>5, ApplyKeeps
<1>6. ASSUME NEW s \in Sessions, Schema!Refused(s) PROVE Schema!IInv'
  BY <1>6, RefusedKeeps
<1>7. ASSUME NEW s \in Sessions, Schema!Collide(s) PROVE Schema!IInv'
  <2>1. x9[s]
    BY <1>7 DEF Schema!Collide, Schema!IInv, Schema!Overlap, Schema!Running
  <2>2. Schema!Running(s)
    BY <1>7 DEF Schema!Collide, Schema!Running
  <2> QED BY <1>1, <1>7, <2>1, <2>2, EndKeeps DEF Schema!Collide
<1>8. ASSUME NEW s \in Sessions, Schema!Finish(s) PROVE Schema!IInv'
  BY <1>8, FinishKeeps
<1>9. ASSUME NEW s \in Sessions, Schema!Verify(s) PROVE Schema!IInv'
  <2>1. Schema!Known(x7[s]) \subseteq x4
    BY <1>9 DEF Schema!Verify, Schema!IInv, Schema!Upgrading
  <2>2. Schema!End(s, "done")
    BY <1>9, <2>1 DEF Schema!Verify
  <2>3. Schema!Running(s)
    BY <1>9 DEF Schema!Verify, Schema!Running
  <2> QED BY <1>1, <1>9, <2>2, <2>3, EndKeeps DEF Schema!Verify
<1>10. ASSUME NEW s \in Sessions, Schema!Crash(s) PROVE Schema!IInv'
  BY <1>1, <1>10, EndKeeps DEF Schema!Crash
<1>11. ASSUME UNCHANGED <<x2, x4, x6, x7, x8, x9>> PROVE Schema!IInv'
  <2>1. /\ Schema!TypeOK'
        /\ (x2 = Schema!Joined(x4) /\ Schema!Closed(x4))'
        /\ Schema!FailsOnlyWhenExcused'
    BY <1>11
       DEF Schema!IInv, Schema!TypeOK, Schema!Closed, Schema!Joined,
           Schema!FailsOnlyWhenExcused
  <2>2. ASSUME NEW s \in Sessions PROVE Schema!Upgrading(s)'
    BY <1>11 DEF Schema!IInv, Schema!Upgrading
  <2>3. ASSUME NEW s \in Sessions, NEW t \in Sessions \ {s} PROVE Schema!Overlap(s, t)'
    BY <1>11 DEF Schema!IInv, Schema!Overlap, Schema!Running
  <2> QED BY <2>1, <2>2, <2>3 DEF Schema!IInv
<1>12. ASSUME NEW k \in Kinds, Schema!Spoil(k) \/ Schema!Repair(k) PROVE Schema!IInv'
  BY <1>11, <1>12 DEF Schema!Spoil, Schema!Repair
<1>13. CASE UNCHANGED (Schema!vars)
  BY <1>11, <1>13 DEF Schema!vars
<1> QED BY <1>2, <1>3, <1>4, <1>5, <1>6, <1>7, <1>8, <1>9, <1>10, <1>12, <1>13
            DEF Schema!Next

\* What the invariant says of the schema.
LEMMA MigrationHolds ==
  ASSUME Schema!RegistryAssumption, Schema!IInv
  PROVE  Schema!SchemaSettles
BY SchemaOfNewIs DEF Schema!IInv, Schema!SchemaSettles, Schema!OneSchema

---------------------------------------
\* Startup.tla: x1 is the settings, x2 what the application serves, x3 whether
\* a setting changed since.

\* What a name is worth in one, two or three places.
LEMMA OnePlace ==
  ASSUME NEW name, NEW a
  PROVE  Starter!Value(name, <<a>>) = x1[a][name]
<1> DEFINE places == <<a>>
           sets == {i \in DOMAIN places : x1[places[i]][name] # Unset}
<1>1. DOMAIN places = {1} /\ places[1] = a
  OBVIOUS
<1> HIDE DEF places
<1>2. CASE x1[a][name] = Unset
  <2>1. sets = {}
    BY <1>1, <1>2
  <2> QED BY <1>2, <2>1 DEF Starter!Value, places
<1>3. CASE x1[a][name] # Unset
  <2>1. sets = {1}
    BY <1>1, <1>3
  <2>2. (CHOOSE i \in sets : \A j \in sets : i <= j) = 1
    BY <2>1
  <2> QED BY <1>1, <2>1, <2>2 DEF Starter!Value, places
<1> QED BY <1>2, <1>3

\* The same of two.
LEMMA TwoPlaces ==
  ASSUME NEW name, NEW a, NEW b
  PROVE  Starter!Value(name, <<a, b>>) =
           IF x1[a][name] # Unset THEN x1[a][name] ELSE x1[b][name]
<1> DEFINE places == <<a, b>>
           sets == {i \in DOMAIN places : x1[places[i]][name] # Unset}
           first == CHOOSE i \in sets : \A j \in sets : i <= j
<1>1. DOMAIN places = {1, 2} /\ places[1] = a /\ places[2] = b
  OBVIOUS
<1>0. Starter!Value(name, places) = IF sets = {} THEN Unset ELSE x1[places[first]][name]
  BY DEF Starter!Value
<1> HIDE DEF places
<1>a. /\ sets \subseteq {1, 2}
      /\ 1 \in sets <=> x1[a][name] # Unset
      /\ 2 \in sets <=> x1[b][name] # Unset
  BY <1>1
<1> HIDE DEF sets
<1>2. CASE sets = {}
  BY <1>0, <1>a, <1>2 DEF places
<1>3. CASE sets # {}
  <2>1. \E i \in sets : \A j \in sets : i <= j
    <3>1. sets \subseteq {1, 2}
      BY <1>a
    <3>2. CASE 1 \in sets
      BY <3>1, <3>2
    <3>3. CASE 1 \notin sets
      <4>1. 2 \in sets /\ \A j \in sets : j = 2
        BY <1>3, <3>1, <3>3
      <4> QED BY <4>1
    <3> QED BY <3>2, <3>3
  <2>2. first \in sets /\ \A j \in sets : first <= j
    BY <2>1
  <2> HIDE DEF first
  <2>3. first \in {1, 2}
    BY <1>a, <2>2
  <2>4. Starter!Value(name, places) = x1[places[first]][name]
    BY <1>0, <1>3 DEF first
  <2> QED BY <1>1, <1>a, <2>2, <2>3, <2>4 DEF places
<1> QED BY <1>2, <1>3 DEF places

\* And of three: the first that sets it.
LEMMA ThreePlaces ==
  ASSUME NEW name, NEW a, NEW b, NEW c
  PROVE  Starter!Value(name, <<a, b, c>>) =
           IF x1[a][name] # Unset THEN x1[a][name]
           ELSE IF x1[b][name] # Unset THEN x1[b][name] ELSE x1[c][name]
<1> DEFINE places == <<a, b, c>>
           sets == {i \in DOMAIN places : x1[places[i]][name] # Unset}
           first == CHOOSE i \in sets : \A j \in sets : i <= j
<1>1. DOMAIN places = {1, 2, 3} /\ places[1] = a /\ places[2] = b /\ places[3] = c
  OBVIOUS
<1>0. Starter!Value(name, places) = IF sets = {} THEN Unset ELSE x1[places[first]][name]
  BY DEF Starter!Value
<1> HIDE DEF places
<1>a. /\ sets \subseteq {1, 2, 3}
      /\ 1 \in sets <=> x1[a][name] # Unset
      /\ 2 \in sets <=> x1[b][name] # Unset
      /\ 3 \in sets <=> x1[c][name] # Unset
  BY <1>1
<1> HIDE DEF sets
<1>2. CASE sets = {}
  BY <1>0, <1>a, <1>2 DEF places
<1>3. CASE sets # {}
  <2>1. \E i \in sets : \A j \in sets : i <= j
    <3>1. sets \subseteq {1, 2, 3}
      BY <1>a
    <3>2. CASE 1 \in sets
      BY <3>1, <3>2
    <3>3. CASE 1 \notin sets /\ 2 \in sets
      BY <3>1, <3>3
    <3>4. CASE 1 \notin sets /\ 2 \notin sets
      <4>1. 3 \in sets /\ \A j \in sets : j = 3
        BY <1>3, <3>1, <3>4
      <4> QED BY <4>1
    <3> QED BY <3>2, <3>3, <3>4
  <2>2. first \in sets /\ \A j \in sets : first <= j
    BY <2>1
  <2> HIDE DEF first
  <2>3. first \in {1, 2, 3}
    BY <1>a, <2>2
  <2>4. Starter!Value(name, places) = x1[places[first]][name]
    BY <1>0, <1>3 DEF first
  <2> QED BY <1>1, <1>a, <2>2, <2>3, <2>4 DEF places
<1> QED BY <1>2, <1>3 DEF places

\* The values that matter.
LEMMA NameSets ==
  /\ Starter!EnvNames = {"mode", "url", "host", "confirm", "testUrl", "nodeEnv"}
  /\ Starter!Choices["mode"] = {"local", "supabase", "production"}
  /\ Starter!Choices["url"] =
       {"here", "supabase", "another supabase", "elsewhere.com", "elsewhere.com, sslmode"}
  /\ Starter!Choices["host"] = {"localhost", "127.0.0.1", "remote"}
BY DEF Starter!EnvNames, Starter!Choices

\* What a place says of a setting.
LEMMA PlaceFacts ==
  ASSUME Starter!UnsetAssumption, Starter!TypeOK, NEW place \in Starter!Places
  PROVE  /\ x1[place]["mode"] \in {"local", "supabase", "production", Unset}
         /\ x1[place]["url"] \in {"here", "supabase", "another supabase",
              "elsewhere.com", "elsewhere.com, sslmode", Unset}
         /\ x1[place]["host"] \in {"localhost", "127.0.0.1", "remote", Unset}
         /\ Unset \notin {"local", "supabase", "production", "here", "another supabase",
              "elsewhere.com", "elsewhere.com, sslmode", "localhost", "127.0.0.1", "remote"}
BY NameSets DEF Starter!TypeOK, Starter!UnsetAssumption

\* What the application reads.
LEMMA SameValues ==
  ASSUME x1' = x1
  PROVE  \A name, places : Starter!Value(name, places)' = Starter!Value(name, places)
BY DEF Starter!Value

\* What the application may read.
LEMMA AppReads ==
  ASSUME Starter!UnsetAssumption, Starter!TypeOK
  PROVE  /\ Starter!Value("mode", Starter!AppPlaces)
              \in {"local", "supabase", "production", Unset}
         /\ Starter!Value("url", Starter!AppPlaces) \in {"here", "supabase", "another supabase",
              "elsewhere.com", "elsewhere.com, sslmode", Unset}
         /\ Starter!Value("host", Starter!AppPlaces)
              \in {"localhost", "127.0.0.1", "remote", Unset}
<1>1. /\ "process" \in Starter!Places
      /\ "backend/.env" \in Starter!Places
      /\ ".env" \in Starter!Places
  BY DEF Starter!Places
<1>2. \A name : \/ Starter!Value(name, Starter!AppPlaces) = x1["process"][name]
                \/ Starter!Value(name, Starter!AppPlaces) = x1["backend/.env"][name]
                \/ Starter!Value(name, Starter!AppPlaces) = x1[".env"][name]
  BY ThreePlaces DEF Starter!AppPlaces
<1>3. Starter!Value("mode", Starter!AppPlaces) \in {"local", "supabase", "production", Unset}
  BY <1>1, <1>2, PlaceFacts
<1>4. Starter!Value("url", Starter!AppPlaces) \in {"here", "supabase", "another supabase",
        "elsewhere.com", "elsewhere.com, sslmode", Unset}
  BY <1>1, <1>2, PlaceFacts
<1>5. Starter!Value("host", Starter!AppPlaces) \in {"localhost", "127.0.0.1", "remote", Unset}
  BY <1>1, <1>2, PlaceFacts
<1> QED BY <1>3, <1>4, <1>5

\* In local mode it serves no database in the cloud, but for the known case.
LEMMA LocalServed ==
  ASSUME Starter!UnsetAssumption, Starter!TypeOK, x2 = Starter!AppDatabase,
         x2 # "refused"
  PROVE  Starter!LocalIsLocal
<1> DEFINE mode == Starter!Value("mode", Starter!AppPlaces)
           url == Starter!Value("url", Starter!AppPlaces)
           host == Starter!Value("host", Starter!AppPlaces)
<1>1. /\ mode \in {"local", "supabase", "production", Unset}
      /\ url \in {"here", "supabase", "another supabase",
              "elsewhere.com", "elsewhere.com, sslmode", Unset}
      /\ host \in {"localhost", "127.0.0.1", "remote", Unset}
  BY AppReads
<1>2. x2 = CASE Starter!Mode(Starter!AppPlaces) = "supabase" /\ url \in Starter!AppCloud
                 -> Starter!At(url)
              [] /\ Starter!Mode(Starter!AppPlaces) = "local" /\ url \notin Starter!AppCloud
                 /\ url = Unset =>
                      host \notin {"127.0.0.1", "remote"} -> Starter!On(host)
              [] OTHER -> "refused"
  BY DEF Starter!AppDatabase
<1> HIDE DEF mode, url, host
<1> QED BY <1>1, <1>2
            DEF Starter!LocalIsLocal, Starter!AppCloud, Starter!On, mode, url, host

\* What a script reads that finds the same URL and host.
LEMMA SameReading ==
  ASSUME x1["backend/.env"] = Starter!NoSettings, NEW name \in Starter!EnvNames
  PROVE  /\ Starter!Value(name, Starter!AppPlaces) = Starter!Value(name, Starter!SeedPlaces)
         /\ x1[".env"] = Starter!NoSettings =>
              Starter!Value(name, Starter!AppPlaces) = Starter!Value(name, Starter!ProcessOnly)
BY OnePlace, TwoPlaces, ThreePlaces
   DEF Starter!AppPlaces, Starter!SeedPlaces, Starter!ProcessOnly, Starter!NoSettings

\* What the application serves, by its URL or by its host.
LEMMA Serves ==
  ASSUME Starter!UnsetAssumption, Starter!TypeOK, Starter!AppDatabase # "refused"
  PROVE  /\ \/ /\ Starter!Value("url", Starter!AppPlaces) \in Starter!AppCloud
               /\ Starter!AppDatabase = Starter!At(Starter!Value("url", Starter!AppPlaces))
            \/ /\ Starter!Value("url", Starter!AppPlaces) \notin Starter!AppCloud
               /\ Starter!AppDatabase = Starter!On(Starter!Value("host", Starter!AppPlaces))
         /\ Starter!AppDatabase # "test"
<1> DEFINE url == Starter!Value("url", Starter!AppPlaces)
           host == Starter!Value("host", Starter!AppPlaces)
<1>1. Starter!AppDatabase =
         CASE Starter!Mode(Starter!AppPlaces) = "supabase" /\ url \in Starter!AppCloud
                -> Starter!At(url)
           [] /\ Starter!Mode(Starter!AppPlaces) = "local" /\ url \notin Starter!AppCloud
              /\ url = Unset => host \notin {"127.0.0.1", "remote"} -> Starter!On(host)
           [] OTHER -> "refused"
  BY DEF Starter!AppDatabase
<1> HIDE DEF url, host
<1>2. \/ url \in Starter!AppCloud /\ Starter!AppDatabase = Starter!At(url)
      \/ url \notin Starter!AppCloud /\ Starter!AppDatabase = Starter!On(host)
  BY <1>1
<1>3. Starter!AppDatabase # "test"
  BY <1>2 DEF Starter!AppCloud, Starter!At, Starter!On
<1> QED BY <1>2, <1>3 DEF url, host

\* A script that reads what the application read opens its database, or refuses.
LEMMA ScriptsAgree ==
  ASSUME Starter!UnsetAssumption, Starter!TypeOK, x2 = Starter!AppDatabase,
         x2 # "refused",
         NEW script \in DOMAIN Starter!DatabaseOf \ {"localMigration"}, ~Starter!Misread(script)
  PROVE  Starter!DatabaseOf[script] \in {"refused", x2}
<1> DEFINE url == Starter!Value("url", Starter!AppPlaces)
           host == Starter!Value("host", Starter!AppPlaces)
<1>1. x1["backend/.env"] = Starter!NoSettings
  BY DEF Starter!Misread
<1>2. script \in {"seed", "assign", "loadTest", "productionMigration"}
  BY DEF Starter!DatabaseOf
<1>3. \/ url \in Starter!AppCloud /\ x2 = Starter!At(url)
      \/ url \notin Starter!AppCloud /\ x2 = Starter!On(host)
  BY Serves
<1>4. "url" \in Starter!EnvNames /\ "host" \in Starter!EnvNames
  BY NameSets
<1>5. CASE script = "seed"
  <2>1. url # "elsewhere.com"
    BY <1>5 DEF Starter!Misread
  <2>2. /\ Starter!Value("url", Starter!SeedPlaces) = url
        /\ Starter!Value("host", Starter!SeedPlaces) = host
    BY <1>1, <1>4, SameReading
  <2>3. Starter!DatabaseOf[script] =
          IF url \in Starter!SeedCloud THEN Starter!At(url) ELSE Starter!On(host)
    BY <1>5, <2>2 DEF Starter!DatabaseOf, Starter!SeedDatabase, Starter!ByUrlOrHost
  <2> QED BY <1>3, <2>1, <2>3 DEF Starter!SeedCloud
<1>6. CASE script = "assign"
  <2>1. url # "elsewhere.com" /\ x1[".env"] = Starter!NoSettings
    BY <1>6 DEF Starter!Misread
  <2>2. /\ Starter!Value("url", Starter!ProcessOnly) = url
        /\ Starter!Value("host", Starter!ProcessOnly) = host
    BY <1>1, <1>4, <2>1, SameReading
  <2>3. Starter!DatabaseOf[script] \in
          {"refused", IF url \in Starter!SeedCloud THEN Starter!At(url) ELSE Starter!On(host)}
    BY <1>6, <2>2 DEF Starter!DatabaseOf, Starter!AssignDatabase, Starter!ByUrlOrHost
  <2> QED BY <1>3, <2>1, <2>3 DEF Starter!SeedCloud
<1>7. CASE script = "loadTest"
  <2>1. url \notin Starter!AppCloud /\ x1[".env"] = Starter!NoSettings
    BY <1>7 DEF Starter!Misread
  <2>2. Starter!Value("host", Starter!ProcessOnly) = host
    BY <1>1, <1>4, <2>1, SameReading
  <2> QED BY <1>3, <1>7, <2>1, <2>2 DEF Starter!DatabaseOf, Starter!LoadTestDatabase
<1>8. CASE script = "productionMigration"
  <2>1. Starter!Value("url", Starter!ProductionPlaces) = url
    BY <1>8 DEF Starter!Misread
  <2>2. \/ Starter!DatabaseOf[script] = "refused"
        \/ url \in Starter!Supabase /\ Starter!DatabaseOf[script] = Starter!At(url)
    <3>1. Starter!DatabaseOf[script] = Starter!ProductionMigrationDatabase
      BY <1>8 DEF Starter!DatabaseOf
    <3> HIDE DEF url
    <3> QED BY <2>1, <3>1 DEF Starter!ProductionMigrationDatabase
  <2> QED BY <1>3, <2>2 DEF Starter!Supabase, Starter!AppCloud
<1> QED BY <1>2, <1>5, <1>6, <1>7, <1>8

\* So all agree, or differ as is known.
LEMMA StartSafe ==
  ASSUME Starter!UnsetAssumption, Starter!IInv
  PROVE  Starter!StartsAgree
<1> SUFFICES ASSUME x2 \notin {"stopped", "refused"}, ~x3
             PROVE  /\ Starter!LocalIsLocal
                    /\ \A script \in DOMAIN Starter!DatabaseOf \ {"localMigration"} :
                         Starter!DatabaseOf[script] \in {"refused", x2} \/ Starter!Misread(script)
                    /\ Starter!LocalMigrationDatabase # x2
  BY DEF Starter!StartsAgree
<1>1. Starter!TypeOK /\ x2 = Starter!AppDatabase
  BY DEF Starter!IInv
<1>2. Starter!LocalMigrationDatabase \in {"test", "refused"}
  BY DEF Starter!LocalMigrationDatabase
<1>3. x2 # "test"
  BY <1>1, Serves
<1> QED BY <1>1, <1>2, <1>3, LocalServed, ScriptsAgree

\* Nothing is set, and nothing runs.
LEMMA StartInit ==
  ASSUME Starter!Init
  PROVE  Starter!IInv
BY DEF Starter!Init, Starter!IInv, Starter!TypeOK

\* Every change of a setting and every start keep it.
LEMMA StartNext ==
  ASSUME Starter!UnsetAssumption, Starter!IInv, [Starter!Next]_(Starter!vars)
  PROVE  Starter!IInv'
<1>0. Starter!TypeOK
  BY DEF Starter!IInv
<1>1. ASSUME NEW place \in Starter!Places, NEW name \in Starter!Settable(place),
             Starter!Set(place, name) \/ Starter!Clear(place, name)
      PROVE  Starter!IInv'
  <2>1. name \in Starter!EnvNames
    BY <1>1, NameSets DEF Starter!Settable
  <2>2. PICK value \in Starter!Choices[name] \cup {Unset} :
          x1' = [x1 EXCEPT ![place][name] = value]
    BY <1>1 DEF Starter!Set, Starter!Clear
  <2>3. x3' = TRUE /\ x2' = x2
    BY <1>1 DEF Starter!Set, Starter!Clear
  <2> DEFINE sheet == [x1[place] EXCEPT ![name] = value]
  <2>4. /\ DOMAIN sheet = Starter!EnvNames
        /\ \A n \in Starter!EnvNames : sheet[n] \in Starter!Choices[n] \cup {Unset}
    BY <1>0, <2>1, <2>2 DEF Starter!TypeOK
  <2>5. x1' = [x1 EXCEPT ![place] = sheet]
    BY <2>2
  <2> HIDE DEF sheet
  <2>6. Starter!TypeOK'
    BY <1>0, <2>3, <2>4, <2>5 DEF Starter!TypeOK
  <2> QED BY <2>3, <2>6 DEF Starter!IInv
<1>2. CASE Starter!StartApp
  <2>1. x1' = x1 /\ x2' = Starter!AppDatabase
    BY <1>2 DEF Starter!StartApp
  <2>2. Starter!AppDatabase' = Starter!AppDatabase
    BY <2>1, SameValues DEF Starter!AppDatabase, Starter!Mode
  <2>3. Starter!AppDatabase \in Starter!Databases \cup {"refused"}
    <3>1. CASE Starter!AppDatabase = "refused"
      BY <3>1
    <3>2. CASE Starter!AppDatabase # "refused"
      <4>1. \A url \in Starter!AppCloud : Starter!At(url) \in Starter!Databases
        BY DEF Starter!AppCloud, Starter!At, Starter!Databases, Starter!Supabase
      <4>2. \A host : Starter!On(host) \in Starter!Databases
        BY DEF Starter!On, Starter!Databases
      <4> QED BY <1>0, <3>2, <4>1, <4>2, Serves
    <3> QED BY <3>1, <3>2
  <2>4. Starter!TypeOK'
    BY <1>0, <2>1, <2>3 DEF Starter!TypeOK
  <2> QED BY <2>1, <2>2, <2>4 DEF Starter!IInv
<1>3. CASE UNCHANGED (Starter!vars)
  <2>1. UNCHANGED <<x1, x2, x3>>
    BY <1>3 DEF Starter!vars
  <2>2. Starter!AppDatabase' = Starter!AppDatabase
    BY <2>1, SameValues DEF Starter!AppDatabase, Starter!Mode
  <2> QED BY <2>1, <2>2 DEF Starter!IInv, Starter!TypeOK
<1> QED BY <1>1, <1>2, <1>3 DEF Starter!Next

---------------------------------------
\* Credentials.tla: x1 is the user, x2 the links, x3 and x4 where each request
\* stands and what it holds, x5 the role set last, x6 the roles set while a
\* password was saved, x7 and x8 the links that took effect and those that did
\* so again.

\* What a request may hold.
AccountHeld == [entity : Account!User \cup {NoOne}, link : Links \cup {NoOne}, stale : BOOLEAN]
AccountSending(s) == x3[s] \in {"mail", "clean up"}

\* The others stand still.
AccountStand(s) == \A r \in Sessions \ {s} : x3'[r] = x3[r] /\ x4'[r] = x4[r]

\* The fields of rows, and of what a request holds.
LEMMA AccountFields ==
  /\ \A u \in Account!User :
       u.password \in Passwords \cup {NoOne} /\ u.role \in Account!Roles
  /\ \A l \in Account!Link : /\ l.row \in {"none", "stored", "expired", "used"}
                     /\ l.sent \in BOOLEAN /\ l.reported \in BOOLEAN
  /\ \A m \in AccountHeld : /\ m.entity \in Account!User \cup {NoOne}
                     /\ m.link \in Links \cup {NoOne} /\ m.stale \in BOOLEAN
BY DEF Account!User, Account!Link, AccountHeld

\* A request that goes on; the others stand still.
LEMMA AccountGoto ==
  ASSUME Account!IInv, NEW s \in Sessions, NEW step, NEW held \in AccountHeld,
         Account!Goto(s, step, held),
         step \in {"idle", "create", "compare", "update", "commit", "mail", "clean up", "reset"}
  PROVE  /\ x3'[s] = step /\ x4'[s] = held /\ AccountStand(s)
         /\ x3' \in [Sessions -> {"idle", "create", "compare", "update", "commit",
                                  "mail", "clean up", "reset"}]
         /\ x4' \in [Sessions -> AccountHeld]
BY DEF Account!IInv, Account!TypeOK, Account!Goto, AccountStand, AccountHeld

\* Nobody has registered.
LEMMA AccountInit == ASSUME Account!NoOneAssumption, Account!Init PROVE Account!IInv
<1>1. Account!TypeOK
  BY DEF Account!Init, Account!TypeOK, Account!Roles, Account!Link, Account!Nothing
<1>2. (\A s \in Sessions : Account!Relies(s)) /\ Account!OneSender /\ Account!Mailed
  BY DEF Account!Init, Account!Relies, Account!OneSender, Account!Mailed,
         Account!Resetting
<1>3. Account!RoleKept /\ Account!DeliveredLinksWork
  BY DEF Account!Init, Account!RoleKept, Account!DeliveredLinksWork
<1> QED BY <1>1, <1>2, <1>3 DEF Account!IInv

\* A request that goes on, while rows and histories stay.
LEMMA AccountMove ==
  ASSUME Account!NoOneAssumption, Account!IInv, NEW s \in Sessions, NEW step,
         NEW held \in AccountHeld,
         Account!Goto(s, step, held),
         step \in {"idle", "create", "compare", "update", "commit", "mail", "clean up", "reset"},
         UNCHANGED <<x1, x2, Account!history>>,
         Account!Relies(s)',
         step \in {"mail", "clean up"} => AccountSending(s) /\ held.link = x4[s].link,
         \A l \in Links : Account!Resetting(s, l)' => Account!Resetting(s, l)
  PROVE  Account!IInv'
<1>1. /\ x3'[s] = step /\ x4'[s] = held /\ AccountStand(s) /\ Account!TypeOK'
      /\ UNCHANGED <<x1, x2, x5, x6, x7, x8>>
  BY AccountGoto DEF Account!IInv, Account!TypeOK, AccountHeld, Account!history
<1>2. ASSUME NEW r \in Sessions \ {s}
      PROVE  /\ Account!Relies(r)'
             /\ \A l \in Links : Account!Resetting(r, l)' <=> Account!Resetting(r, l)
  <2>1. /\ Account!Relies(r) /\ x3'[r] = x3[r] /\ x4'[r] = x4[r]
        /\ x1' = x1 /\ x2' = x2 /\ x6' = x6
    BY <1>1 DEF Account!IInv, AccountStand
  <2>2. \A l \in Links : Account!Resetting(r, l)' <=> Account!Resetting(r, l)
    BY <2>1 DEF Account!Resetting
  <2> QED BY <2>1, <2>2 DEF Account!Relies
<1>3. \A r \in Sessions : Account!Relies(r)'
  BY <1>2
<1>4. Account!OneSender'
  BY <1>1 DEF Account!IInv, Account!OneSender, AccountStand, AccountSending
<1>5. Account!Mailed'
  <2>1. Account!Mailed /\ x1' = x1 /\ x2' = x2
    BY <1>1 DEF Account!IInv
  <2> QED BY <2>1 DEF Account!Mailed
<1>6. Account!RoleKept' /\ Account!DeliveredLinksWork'
  <2>1. /\ Account!RoleKept /\ Account!DeliveredLinksWork
        /\ x1' = x1 /\ x6' = x6 /\ x5' = x5 /\ x2' = x2
    BY <1>1 DEF Account!IInv
  <2>2. Account!RoleKept'
    BY <2>1 DEF Account!RoleKept
  <2>3. Account!DeliveredLinksWork'
    BY <2>1 DEF Account!DeliveredLinksWork
  <2> QED BY <2>2, <2>3
<1> QED BY <1>1, <1>3, <1>4, <1>5, <1>6 DEF Account!IInv

\* It ends.
LEMMA AccountEnd ==
  ASSUME Account!NoOneAssumption, Account!IInv, NEW s \in Sessions, Account!End(s),
         UNCHANGED <<x1, x2, Account!history>>
  PROVE  Account!IInv'
<1>1. Account!Nothing \in AccountHeld
  BY DEF Account!Nothing, AccountHeld
<1>2. Account!Goto(s, "idle", Account!Nothing)
  BY DEF Account!End
<1>3. x3'[s] = "idle"
  BY <1>1, <1>2, AccountGoto
<1>4. Account!Relies(s)' /\ \A l \in Links : Account!Resetting(s, l)' =>
        Account!Resetting(s, l)
  BY <1>3 DEF Account!Relies, Account!Resetting
<1> QED BY <1>1, <1>2, <1>4, AccountMove

\* It knows who the account is.
LEMMA AccountFind ==
  ASSUME Account!NoOneAssumption, Account!IInv, NEW s \in Sessions,
         \/ \E p \in Passwords : Account!FindNobody(s, p)
         \/ \E portal \in Account!Roles : Account!FindForGoogle(s, portal)
         \/ \E old, new \in Passwords : Account!FindUser(s, old, new)
  PROVE  Account!IInv'
<1>1. PICK step \in {"create", "compare"}, e \in Account!User :
        /\ Account!Goto(s, step, Account!Holding(e, NoOne))
        /\ UNCHANGED <<x1, x2, Account!history>>
        /\ step = "compare" => x1 # NoOne /\ e.role = x1.role
  <2>1. ASSUME NEW p \in Passwords, Account!FindNobody(s, p)
        PROVE  [password |-> p, role |-> "buyer"] \in Account!User
    BY DEF Account!User, Account!Roles
  <2>2. ASSUME NEW portal \in Account!Roles, Account!FindForGoogle(s, portal)
        PROVE  [password |-> NoOne, role |-> portal] \in Account!User
    BY DEF Account!User
  <2>3. ASSUME NEW old \in Passwords, NEW new \in Passwords, Account!FindUser(s, old, new)
        PROVE  /\ [x1 EXCEPT !.password = new] \in Account!User
               /\ x1 # NoOne /\ [x1 EXCEPT !.password = new].role = x1.role
    BY <2>3 DEF Account!FindUser, Account!IInv, Account!TypeOK, Account!User
  <2> QED BY <2>1, <2>2, <2>3
              DEF Account!FindNobody, Account!FindForGoogle, Account!FindUser
<1> DEFINE held == Account!Holding(e, NoOne)
<1>2. held \in AccountHeld /\ held.link = NoOne /\ held.entity = e /\ held.stale = FALSE
  BY DEF Account!Holding, AccountHeld
<1>3. x3'[s] = step /\ x4'[s] = held
  BY <1>1, <1>2, AccountGoto
<1>4. e # NoOne /\ NoOne \notin Links
  BY DEF Account!NoOneAssumption
<1>5. Account!Relies(s)' /\ \A l \in Links : Account!Resetting(s, l)' =>
        Account!Resetting(s, l)
  BY <1>1, <1>2, <1>3, <1>4 DEF Account!Relies, Account!Resetting
<1>6. Account!Goto(s, step, held)
  BY <1>1
<1> HIDE DEF held
<1> QED BY <1>1, <1>2, <1>5, <1>6, AccountMove

\* A save that compares: only a role that differs is stale.
LEMMA AccountCompare ==
  ASSUME Account!NoOneAssumption, Account!IInv, NEW s \in Sessions, Account!Compare(s)
  PROVE  Account!IInv'
<1> DEFINE held == [x4[s] EXCEPT !.stale = x4[s].entity.role # x1.role]
<1>1. /\ x3[s] = "compare"
      /\ Account!Goto(s, "update", held)
      /\ UNCHANGED <<x1, x2, Account!history>>
      /\ x4[s] \in AccountHeld
  BY DEF Account!Compare, Account!IInv, Account!TypeOK, AccountHeld
<1>2. /\ held \in AccountHeld /\ held.link = x4[s].link /\ held.entity = x4[s].entity
      /\ held.stale = (x4[s].entity.role # x1.role)
  BY <1>1 DEF AccountHeld
<1>3. x3'[s] = "update" /\ x4'[s] = held
  BY <1>1, <1>2, AccountGoto
<1>4. x6' = x6 /\ x1' = x1 /\ x2' = x2
  BY <1>1 DEF Account!history
<1>5. Account!Relies(s)' /\ \A l \in Links : Account!Resetting(s, l)' =>
        Account!Resetting(s, l)
  BY <1>1, <1>2, <1>3, <1>4 DEF Account!Relies, Account!Resetting, Account!IInv
<1> HIDE DEF held
<1> QED BY <1>1, <1>2, <1>5, AccountMove

\* A request that goes on, or staff, when a row changes: what the others rely on is
\* what they rely on of the rows.
LEMMA AccountOthers ==
  ASSUME Account!IInv, Account!TypeOK', NEW r \in Sessions, x3'[r] = x3[r],
         x4'[r] = x4[r],
         x1 # NoOne => x1' # NoOne,
         x3[r] = "compare" /\ x6' = {} => x1'.role = x1.role,
         x6 \subseteq x6',
         \A l \in Links : x2[l].sent => x2'[l].sent,
         x3[r] = "mail" => ~x2'[x4[r].link].sent /\ x2'[x4[r].link].row # "none",
         x3[r] = "clean up" => ~x2'[x4[r].link].reported
  PROVE  Account!Relies(r)'
<1>1. Account!Relies(r) /\ (x6' = {} => x6 = {})
  BY DEF Account!IInv
<1>2. \A l \in Links : Account!Resetting(r, l)' => x2'[l].sent
  BY <1>1 DEF Account!Relies, Account!Resetting
<1>3. /\ x3'[r] \in {"create", "compare", "update", "commit"} => x4'[r].entity # NoOne
      /\ x3'[r] \in {"compare", "update", "commit", "reset", "mail"} => x1' # NoOne
      /\ x3'[r] = "compare" /\ x6' = {} => x4'[r].entity.role = x1'.role
      /\ x3'[r] \in {"update", "commit"} /\ x4'[r].stale => x6' # {}
      /\ x3'[r] \in {"reset", "commit", "mail", "clean up"} => x4'[r].link # NoOne
  BY <1>1 DEF Account!Relies
<1>4. /\ x3'[r] = "mail" => ~x2'[x4'[r].link].sent /\ x2'[x4'[r].link].row # "none"
      /\ x3'[r] = "clean up" => ~x2'[x4'[r].link].reported
  OBVIOUS
<1> QED BY <1>2, <1>3, <1>4 DEF Account!Relies

\* The user's row changes, and nothing that is said of links.
LEMMA AccountUser ==
  ASSUME Account!NoOneAssumption, Account!IInv, Account!TypeOK',
         \A r \in Sessions : (x3'[r] = x3[r] /\ x4'[r] = x4[r]) \/ x3'[r] = "idle",
         UNCHANGED <<x2, x7, x8>>,
         x1 # NoOne => x1' # NoOne,
         \A r \in Sessions : x3[r] = "compare" /\ x6' = {} => x1'.role = x1.role,
         x6 \subseteq x6', Account!RoleKept'
  PROVE  Account!IInv'
<1>1. \A r \in Sessions : Account!Relies(r)'
  <2>1. SUFFICES ASSUME NEW r \in Sessions PROVE Account!Relies(r)'
    OBVIOUS
  <2>2. CASE x3'[r] = "idle"
    BY <2>2 DEF Account!Relies, Account!Resetting
  <2>3. CASE x3'[r] = x3[r] /\ x4'[r] = x4[r]
    <3>1. /\ x3[r] = "mail" => ~x2[x4[r].link].sent /\ x2[x4[r].link].row # "none"
          /\ x3[r] = "clean up" => ~x2[x4[r].link].reported
      BY DEF Account!IInv, Account!Relies
    <3> QED BY <2>3, <3>1, AccountOthers
  <2> QED BY <2>2, <2>3
<1>2. Account!OneSender'
  <2>1. \A r \in Sessions : AccountSending(r)' => AccountSending(r) /\ x4'[r] = x4[r]
    BY DEF AccountSending
  <2> QED BY <2>1 DEF Account!IInv, Account!OneSender, AccountSending
<1>3. Account!Mailed'
  BY DEF Account!IInv, Account!Mailed
<1>4. Account!DeliveredLinksWork'
  BY DEF Account!IInv, Account!DeliveredLinksWork
<1> QED BY <1>1, <1>2, <1>3, <1>4 DEF Account!IInv

\* The account is made.
LEMMA AccountInsert ==
  ASSUME Account!NoOneAssumption, Account!IInv, NEW s \in Sessions,
         Account!InsertUser(s)
  PROVE  Account!IInv'
<1>1. /\ x3[s] = "create" /\ x4[s] \in AccountHeld /\ x4[s].entity \in Account!User
      /\ x4[s].entity # NoOne /\ x4[s].entity.role \in Account!Roles
  BY AccountFields
     DEF Account!InsertUser, Account!IInv, Account!TypeOK, Account!Relies, AccountHeld
<1>2. Account!Nothing \in AccountHeld /\ Account!Goto(s, "idle", Account!Nothing)
  BY DEF Account!InsertUser, Account!End, Account!Nothing, AccountHeld
<1>3. x3'[s] = "idle" /\ AccountStand(s)
  BY <1>2, AccountGoto
<1>4. Account!TypeOK'
  BY <1>1, <1>2, AccountGoto
     DEF Account!InsertUser, Account!IInv, Account!TypeOK, AccountHeld
<1>5. Account!RoleKept'
  BY <1>1 DEF Account!InsertUser, Account!IInv, Account!RoleKept
<1>6. \A r \in Sessions : x3[r] = "compare" => x1 # NoOne
  BY DEF Account!IInv, Account!Relies
<1> QED BY <1>1, <1>3, <1>4, <1>5, <1>6, AccountUser
            DEF Account!InsertUser, AccountStand

\* What a saved password makes of the row: its role stays, unless it was set meanwhile.
LEMMA AccountWritten ==
  ASSUME Account!IInv, NEW s \in Sessions, x3[s] \in {"update", "commit"}
  PROVE  /\ Account!Written(s) \in Account!User /\ x1 # NoOne /\ x4[s] \in AccountHeld
         /\ x6 = {} => Account!Written(s).role = x1.role
<1>1. /\ x4[s] \in AccountHeld /\ x4[s].entity \in Account!User /\ x1 \in Account!User
      /\ x4[s].stale => x6 # {}
      /\ x1 # NoOne
  BY DEF Account!IInv, Account!TypeOK, Account!Relies, AccountHeld
<1>2. Account!Written(s) \in Account!User
  BY <1>1 DEF Account!Written, Account!User
<1>3. x6 = {} => Account!Written(s).role = x1.role
  BY <1>1 DEF Account!Written
<1> QED BY <1>1, <1>2, <1>3

\* A changed password is written.
LEMMA AccountUpdate ==
  ASSUME Account!NoOneAssumption, Account!IInv, NEW s \in Sessions, Account!Update(s)
  PROVE  Account!IInv'
<1>1. /\ x3[s] = "update"
      /\ Account!Written(s) \in Account!User
      /\ x1 # NoOne
      /\ x4[s] \in AccountHeld
      /\ x6 = {} => Account!Written(s).role = x1.role
  BY AccountWritten DEF Account!Update
<1>2. CASE x4[s].link = NoOne
  <2>1. /\ Account!Nothing \in AccountHeld
        /\ Account!Goto(s, "idle", Account!Nothing)
        /\ x1' = Account!Written(s)
    BY <1>2 DEF Account!Update, Account!End, Account!Nothing, AccountHeld
  <2>2. x3'[s] = "idle" /\ AccountStand(s)
    BY <2>1, AccountGoto
  <2>3. /\ UNCHANGED <<x2, x5, x6, x7, x8>>
    BY DEF Account!Update, Account!history
  <2>4. Account!TypeOK'
    BY <1>1, <2>1, <2>3, AccountGoto DEF Account!IInv, Account!TypeOK, AccountHeld
  <2>5. Account!RoleKept'
    BY <1>1, <2>1, <2>3 DEF Account!IInv, Account!RoleKept
  <2>6. x1' # NoOne
    BY <1>1, <2>1 DEF Account!NoOneAssumption
  <2> QED BY <1>1, <2>1, <2>2, <2>3, <2>4, <2>5, <2>6, AccountUser DEF AccountStand
<1>3. CASE x4[s].link # NoOne
  <2>1. Account!Goto(s, "commit", x4[s]) /\ UNCHANGED <<x1, x2, Account!history>>
    BY <1>3 DEF Account!Update
  <2>2. x3'[s] = "commit" /\ x4'[s] = x4[s] /\ x6' = x6
    BY <1>1, <2>1, AccountGoto DEF Account!history
  <2>3. Account!Relies(s)' /\ \A l \in Links : Account!Resetting(s, l)' =>
          Account!Resetting(s, l)
    BY <1>1, <1>3, <2>1, <2>2 DEF Account!Relies, Account!Resetting, Account!IInv
  <2> QED BY <1>1, <2>1, <2>3, AccountMove
<1> QED BY <1>2, <1>3

\* A role is set.
LEMMA AccountSetRole ==
  ASSUME Account!NoOneAssumption, Account!IInv, NEW role \in Account!Roles,
         Account!SetRole(role)
  PROVE  Account!IInv'
<1>1. /\ x1 \in Account!User /\ x1' = [x1 EXCEPT !.role = role] /\ x5' = role
      /\ UNCHANGED <<x2, x3, x4, x7, x8>>
  BY DEF Account!SetRole, Account!IInv, Account!TypeOK
<1>2. x1' \in Account!User /\ x1'.role = role /\ x1' # NoOne
  BY <1>1 DEF Account!User, Account!NoOneAssumption
<1>3. /\ x6 \subseteq x6' /\ x6' \subseteq Account!Roles
      /\ \A r \in Sessions : x3[r] = "compare" => x6' # {}
  BY DEF Account!SetRole, Account!IInv, Account!TypeOK
<1>4. Account!TypeOK'
  BY <1>1, <1>2, <1>3 DEF Account!IInv, Account!TypeOK
<1>5. Account!RoleKept'
  BY <1>1, <1>2 DEF Account!RoleKept
<1>6. \A r \in Sessions : Account!Relies(r)'
  <2>1. SUFFICES ASSUME NEW r \in Sessions PROVE Account!Relies(r)'
    OBVIOUS
  <2>2. /\ x3[r] = "mail" => ~x2[x4[r].link].sent /\ x2[x4[r].link].row # "none"
        /\ x3[r] = "clean up" => ~x2[x4[r].link].reported
    BY DEF Account!IInv, Account!Relies
  <2> QED BY <1>1, <1>2, <1>3, <1>4, <2>2, AccountOthers
<1>7. Account!OneSender'
  BY <1>1 DEF Account!IInv, Account!OneSender
<1>8. Account!Mailed'
  BY <1>1, <1>2 DEF Account!IInv, Account!Mailed
<1>9. Account!DeliveredLinksWork'
  BY <1>1 DEF Account!IInv, Account!DeliveredLinksWork
<1> QED BY <1>4, <1>5, <1>6, <1>7, <1>8, <1>9 DEF Account!IInv

\* What another relies on, when links change and the account stays.
LEMMA AccountRest ==
  ASSUME Account!IInv, Account!TypeOK', NEW r \in Sessions, x3'[r] = x3[r],
         x4'[r] = x4[r],
         UNCHANGED <<x1, x6>>,
         \A l \in Links : x2[l].sent => x2'[l].sent,
         AccountSending(r) => x2'[x4[r].link] = x2[x4[r].link]
  PROVE  Account!Relies(r)'
<1>1. /\ x3[r] = "mail" => ~x2'[x4[r].link].sent /\ x2'[x4[r].link].row # "none"
      /\ x3[r] = "clean up" => ~x2'[x4[r].link].reported
  BY DEF Account!IInv, Account!Relies, AccountSending
<1> QED BY <1>1, AccountOthers

\* Links change, while the account stays.
LEMMA AccountLinks ==
  ASSUME Account!NoOneAssumption, Account!IInv, Account!TypeOK',
         UNCHANGED <<x1, x5, x6>>,
         \A r \in Sessions : Account!Relies(r)',
         \A l \in Links :
           /\ x2[l].sent => x2'[l].sent
           /\ x2'[l].sent => x1 # NoOne
           /\ x2'[l].reported => x2'[l].sent /\ x2'[l].row # "none",
         Account!OneSender'
  PROVE  Account!IInv'
<1>1. Account!Mailed'
  BY DEF Account!Mailed
<1>2. Account!RoleKept'
  BY DEF Account!IInv, Account!RoleKept
<1>3. Account!DeliveredLinksWork'
  BY DEF Account!DeliveredLinksWork
<1> QED BY <1>1, <1>2, <1>3 DEF Account!IInv

\* The link that a request mails is its own.
LEMMA AccountSenders ==
  ASSUME Account!IInv, NEW s \in Sessions, AccountSending(s)
  PROVE  /\ x4[s].link \in Links
         /\ \A r \in Sessions \ {s} : AccountSending(r) =>
              x4[r].link \in Links /\ x4[r].link # x4[s].link
<1>1. \A r \in Sessions : AccountSending(r) => x4[r].link \in Links
  BY DEF Account!IInv, Account!TypeOK, Account!Relies, AccountSending
<1> QED BY <1>1 DEF Account!IInv, Account!OneSender, AccountSending

\* A link is stored.
LEMMA AccountStore ==
  ASSUME Account!NoOneAssumption, Account!IInv, NEW s \in Sessions, NEW l \in Links,
         Account!StoreLink(s, l)
  PROVE  Account!IInv'
<1> DEFINE held == Account!Holding(NoOne, l)
<1>1. /\ x1 # NoOne /\ x2[l].row = "none" /\ ~x2[l].sent
      /\ \A r \in Sessions : x4[r].link # l
      /\ x2' = [x2 EXCEPT ![l].row = "stored"] /\ Account!Goto(s, "mail", held)
      /\ UNCHANGED <<x1, x5, x6, x7, x8>>
  BY DEF Account!StoreLink, Account!history
<1>2. held \in AccountHeld /\ held.link = l
  BY DEF AccountHeld, Account!Holding
<1>3. x3'[s] = "mail" /\ x4'[s] = held /\ AccountStand(s)
  BY <1>1, <1>2, AccountGoto
<1>4. /\ x2' \in [Links -> Account!Link] /\ x2'[l].row = "stored"
      /\ x2'[l].sent = x2[l].sent /\ x2'[l].reported = x2[l].reported
      /\ \A k \in Links \ {l} : x2'[k] = x2[k]
  BY <1>1 DEF Account!IInv, Account!TypeOK, Account!Link
<1>5. Account!TypeOK'
  BY <1>1, <1>2, <1>4, AccountGoto DEF Account!IInv, Account!TypeOK, AccountHeld
<1>6. \A r \in Sessions, k \in Links :
        Account!Resetting(r, k)' => Account!Resetting(r, k)
  BY <1>3 DEF Account!Resetting, AccountStand
<1>7. Account!Relies(s)'
  BY <1>1, <1>2, <1>3, <1>4, <1>6
     DEF Account!Relies, Account!NoOneAssumption, Account!Resetting
<1>8. \A r \in Sessions \ {s} :
        /\ x3'[r] = x3[r] /\ x4'[r] = x4[r]
        /\ AccountSending(r) => x2'[x4[r].link] = x2[x4[r].link]
  BY <1>1, <1>3, <1>4, AccountSenders DEF AccountStand
<1>9. \A k \in Links :
        /\ x2[k].sent => x2'[k].sent
        /\ x2'[k].sent => x1 # NoOne
        /\ x2'[k].reported => x2'[k].sent /\ x2'[k].row # "none"
  BY <1>1, <1>4 DEF Account!IInv, Account!Mailed, Account!DeliveredLinksWork
<1>10. Account!OneSender'
  <2>1. \A r \in Sessions \ {s} : x4'[r].link # l
    BY <1>1, <1>3 DEF AccountStand
  <2>2. x4'[s].link = l
    BY <1>2, <1>3
  <2> HIDE DEF held
  <2> QED BY <1>3, <2>1, <2>2 DEF Account!IInv, Account!OneSender, AccountStand
<1>11. UNCHANGED <<x1, x5, x6, x7, x8>>
  BY <1>1
<1>12. \A k \in Links : x2[k].sent => x2'[k].sent
  BY <1>9
<1>13. ASSUME NEW r \in Sessions \ {s} PROVE Account!Relies(r)'
  BY <1>5, <1>8, <1>11, <1>12, AccountRest
<1>14. \A r \in Sessions : Account!Relies(r)'
  BY <1>7, <1>13
<1> QED BY <1>5, <1>9, <1>10, <1>11, <1>14, AccountLinks

\* A link is mailed.
LEMMA AccountMail ==
  ASSUME Account!NoOneAssumption, Account!IInv, NEW s \in Sessions,
         NEW sent \in BOOLEAN,
         NEW reported \in BOOLEAN, Account!Mail(s, sent, reported)
  PROVE  Account!IInv'
<1> DEFINE l == x4[s].link
           held == IF reported THEN Account!Nothing ELSE x4[s]
           step == IF reported THEN "idle" ELSE "clean up"
<1>1. /\ x3[s] = "mail" /\ (reported => sent)
      /\ x2' = [x2 EXCEPT ![l].sent = sent, ![l].reported = reported]
      /\ Account!Goto(s, step, held)
      /\ UNCHANGED <<x1, x5, x6, x7, x8>>
  BY DEF Account!Mail, Account!End, Account!history
<1>2. /\ l \in Links /\ ~x2[l].sent /\ x2[l].row # "none" /\ x1 # NoOne
      /\ \A r \in Sessions \ {s} :
           AccountSending(r) => x4[r].link \in Links /\ x4[r].link # l
  BY <1>1, AccountSenders DEF Account!IInv, Account!Relies, AccountSending
<1>3. held \in AccountHeld
  BY DEF Account!IInv, Account!TypeOK, AccountHeld, Account!Nothing
<1>4. x3'[s] = step /\ x4'[s] = held /\ AccountStand(s)
  BY <1>1, <1>3, AccountGoto
<1>5. /\ x2' \in [Links -> Account!Link] /\ x2'[l].row = x2[l].row
      /\ x2'[l].sent = sent /\ x2'[l].reported = reported
      /\ \A k \in Links \ {l} : x2'[k] = x2[k]
  BY <1>1, <1>2 DEF Account!IInv, Account!TypeOK, Account!Link
<1>6. Account!TypeOK'
  BY <1>1, <1>3, <1>5, AccountGoto DEF Account!IInv, Account!TypeOK, AccountHeld
<1>7. \A r \in Sessions, k \in Links :
        Account!Resetting(r, k)' => Account!Resetting(r, k)
  BY <1>4 DEF Account!Resetting, AccountStand
<1>8. Account!Relies(s)'
  <2>1. CASE reported
    BY <1>4, <2>1 DEF Account!Relies, Account!Resetting
  <2>2. CASE ~reported
    BY <1>2, <1>4, <1>5, <2>2
       DEF Account!Relies, Account!NoOneAssumption, Account!Resetting
  <2> QED BY <2>1, <2>2
<1>9. \A r \in Sessions \ {s} :
        /\ x3'[r] = x3[r] /\ x4'[r] = x4[r]
        /\ AccountSending(r) => x2'[x4[r].link] = x2[x4[r].link]
  BY <1>2, <1>4, <1>5 DEF AccountStand
<1>10. \A k \in Links :
         /\ x2[k].sent => x2'[k].sent
         /\ x2'[k].sent => x1 # NoOne
         /\ x2'[k].reported => x2'[k].sent /\ x2'[k].row # "none"
  BY <1>1, <1>2, <1>5 DEF Account!IInv, Account!Mailed, Account!DeliveredLinksWork
<1>11. Account!OneSender'
  <2>1. \A r \in Sessions :
          AccountSending(r)' => AccountSending(r) /\ x4'[r].link = x4[r].link
    BY <1>1, <1>4 DEF AccountStand, AccountSending, Account!Nothing
  <2> QED BY <2>1 DEF Account!IInv, Account!OneSender, AccountSending
<1>12. UNCHANGED <<x1, x5, x6, x7, x8>>
  BY <1>1
<1>13. \A k \in Links : x2[k].sent => x2'[k].sent
  BY <1>10
<1>14. ASSUME NEW r \in Sessions \ {s} PROVE Account!Relies(r)'
  BY <1>6, <1>9, <1>12, <1>13, AccountRest
<1>15. \A r \in Sessions : Account!Relies(r)'
  BY <1>8, <1>14
<1> QED BY <1>6, <1>10, <1>11, <1>12, <1>15, AccountLinks

\* A link whose mail failed is removed.
LEMMA AccountCleanUp ==
  ASSUME Account!NoOneAssumption, Account!IInv, NEW s \in Sessions, Account!CleanUp(s)
  PROVE  Account!IInv'
<1> DEFINE l == x4[s].link
<1>1. /\ x3[s] = "clean up" /\ x2' = [x2 EXCEPT ![l].row = "none"]
      /\ Account!Goto(s, "idle", Account!Nothing) /\ Account!Nothing \in AccountHeld
      /\ UNCHANGED <<x1, x5, x6, x7, x8>>
  BY DEF Account!CleanUp, Account!End, Account!history, Account!Nothing, AccountHeld
<1>2. /\ l \in Links /\ ~x2[l].reported
      /\ \A r \in Sessions \ {s} :
           AccountSending(r) => x4[r].link \in Links /\ x4[r].link # l
  BY <1>1, AccountSenders DEF Account!IInv, Account!Relies, AccountSending
<1>3. x3'[s] = "idle" /\ AccountStand(s)
  BY <1>1, AccountGoto
<1>4. /\ x2' \in [Links -> Account!Link] /\ x2'[l].row = "none"
      /\ x2'[l].sent = x2[l].sent /\ x2'[l].reported = x2[l].reported
      /\ \A k \in Links \ {l} : x2'[k] = x2[k]
  BY <1>1, <1>2 DEF Account!IInv, Account!TypeOK, Account!Link
<1>5. Account!TypeOK'
  BY <1>1, <1>4, AccountGoto DEF Account!IInv, Account!TypeOK, AccountHeld
<1>6. \A r \in Sessions, k \in Links :
        Account!Resetting(r, k)' => Account!Resetting(r, k)
  BY <1>3 DEF Account!Resetting, AccountStand
<1>7. Account!Relies(s)'
  BY <1>3 DEF Account!Relies, Account!Resetting
<1>8. \A r \in Sessions \ {s} :
        /\ x3'[r] = x3[r] /\ x4'[r] = x4[r]
        /\ AccountSending(r) => x2'[x4[r].link] = x2[x4[r].link]
  BY <1>2, <1>3, <1>4 DEF AccountStand
<1>9. \A k \in Links :
        /\ x2[k].sent => x2'[k].sent
        /\ x2'[k].sent => x1 # NoOne
        /\ x2'[k].reported => x2'[k].sent /\ x2'[k].row # "none"
  BY <1>2, <1>4 DEF Account!IInv, Account!Mailed, Account!DeliveredLinksWork
<1>10. Account!OneSender'
  BY <1>3 DEF Account!IInv, Account!OneSender, AccountStand
<1>11. UNCHANGED <<x1, x5, x6, x7, x8>>
  BY <1>1
<1>12. \A k \in Links : x2[k].sent => x2'[k].sent
  BY <1>9
<1>13. ASSUME NEW r \in Sessions \ {s} PROVE Account!Relies(r)'
  BY <1>5, <1>8, <1>11, <1>12, AccountRest
<1>14. \A r \in Sessions : Account!Relies(r)'
  BY <1>7, <1>13
<1> QED BY <1>5, <1>9, <1>10, <1>11, <1>14, AccountLinks

\* A link gets too old.
LEMMA AccountExpire ==
  ASSUME Account!NoOneAssumption, Account!IInv, NEW l \in Links, Account!ExpireLink(l)
  PROVE  Account!IInv'
<1>1. /\ x2[l].row \in {"stored", "used"} /\ x2' = [x2 EXCEPT ![l].row = "expired"]
      /\ UNCHANGED <<x1, x3, x4, x5, x6, x7, x8>>
  BY DEF Account!ExpireLink, Account!history
<1>2. /\ x2' \in [Links -> Account!Link] /\ x2'[l].row = "expired"
      /\ x2'[l].sent = x2[l].sent /\ x2'[l].reported = x2[l].reported
      /\ \A k \in Links \ {l} : x2'[k] = x2[k]
  BY <1>1 DEF Account!IInv, Account!TypeOK, Account!Link
<1>3. Account!TypeOK'
  BY <1>1, <1>2 DEF Account!IInv, Account!TypeOK
<1>4. \A r \in Sessions, k \in Links :
        Account!Resetting(r, k)' <=> Account!Resetting(r, k)
  BY <1>1 DEF Account!Resetting
<1>5. ASSUME NEW r \in Sessions PROVE Account!Relies(r)'
  <2>1. /\ x3[r] = "mail" => ~x2'[x4[r].link].sent /\ x2'[x4[r].link].row # "none"
        /\ x3[r] = "clean up" => ~x2'[x4[r].link].reported
    <3>1. AccountSending(r) => x4[r].link \in Links
      BY AccountSenders
    <3>2. /\ x3[r] = "mail" => ~x2[x4[r].link].sent /\ x2[x4[r].link].row # "none"
          /\ x3[r] = "clean up" => ~x2[x4[r].link].reported
      BY DEF Account!IInv, Account!Relies
    <3> QED BY <1>2, <3>1, <3>2 DEF AccountSending
  <2>2. \A k \in Links : x2[k].sent => x2'[k].sent
    BY <1>2
  <2>3. x3[r] = "compare" => x1'.role = x1.role
    BY <1>1
  <2> QED BY <1>1, <1>3, <2>1, <2>2, <2>3, AccountOthers
<1>6. \A k \in Links :
        /\ x2[k].sent => x2'[k].sent
        /\ x2'[k].sent => x1 # NoOne
        /\ x2'[k].reported => x2'[k].sent /\ x2'[k].row # "none"
  BY <1>1, <1>2 DEF Account!IInv, Account!Mailed, Account!DeliveredLinksWork
<1>7. Account!OneSender'
  BY <1>1 DEF Account!IInv, Account!OneSender
<1> QED BY <1>1, <1>3, <1>5, <1>6, <1>7, AccountLinks

\* A link is found: it was sent.
LEMMA AccountFindLink ==
  ASSUME Account!NoOneAssumption, Account!IInv, NEW s \in Sessions, NEW l \in Links,
         Account!FindLink(s, l)
  PROVE  Account!IInv'
<1> DEFINE held == Account!Holding(NoOne, l)
<1>1. /\ x2[l].sent /\ Account!Accepted(l) /\ Account!Goto(s, "reset", held)
      /\ UNCHANGED <<x1, x2, x5, x6, x7, x8>>
  BY DEF Account!FindLink, Account!history
<1>2. held \in AccountHeld /\ held.link = l /\ l # NoOne
  BY DEF AccountHeld, Account!Holding, Account!NoOneAssumption
<1>3. x3'[s] = "reset" /\ x4'[s] = held /\ AccountStand(s)
  BY <1>1, <1>2, AccountGoto
<1>4. Account!TypeOK'
  <2>1. /\ x4' \in [Sessions -> AccountHeld]
        /\ x3' \in [Sessions -> {"idle", "create", "compare", "update", "commit",
                                "mail", "clean up", "reset"}]
    BY <1>1, <1>2, AccountGoto
  <2> HIDE DEF held
  <2> QED BY <1>1, <2>1 DEF Account!IInv, Account!TypeOK, AccountHeld
<1>5. \A r \in Sessions, k \in Links :
        Account!Resetting(r, k)' => Account!Resetting(r, k) \/ (r = s /\ k = l)
  BY <1>2, <1>3 DEF Account!Resetting, AccountStand
<1>6. x1 # NoOne
  BY <1>1 DEF Account!IInv, Account!Mailed
<1>7. Account!Relies(s)'
  BY <1>1, <1>2, <1>3, <1>6 DEF Account!Relies, Account!Resetting
<1>8. \A r \in Sessions \ {s} :
        /\ x3'[r] = x3[r] /\ x4'[r] = x4[r]
        /\ AccountSending(r) => x2'[x4[r].link] = x2[x4[r].link]
  BY <1>1, <1>3 DEF AccountStand
<1>9. \A k \in Links :
        /\ x2[k].sent => x2'[k].sent
        /\ x2'[k].sent => x1 # NoOne
        /\ x2'[k].reported => x2'[k].sent /\ x2'[k].row # "none"
  BY <1>1 DEF Account!IInv, Account!Mailed, Account!DeliveredLinksWork
<1>10. Account!OneSender'
  BY <1>3 DEF Account!IInv, Account!OneSender, AccountStand
<1>11. UNCHANGED <<x1, x5, x6, x7, x8>>
  BY <1>1
<1>12. \A k \in Links : x2[k].sent => x2'[k].sent
  BY <1>9
<1>13. ASSUME NEW r \in Sessions \ {s} PROVE Account!Relies(r)'
  BY <1>4, <1>8, <1>11, <1>12, AccountRest
<1>14. \A r \in Sessions : Account!Relies(r)'
  BY <1>7, <1>13
<1> QED BY <1>4, <1>9, <1>10, <1>11, <1>14, AccountLinks

\* The user of a link is read.
LEMMA AccountReadUser ==
  ASSUME Account!NoOneAssumption, Account!IInv, NEW s \in Sessions,
         NEW new \in Passwords, Account!ReadUser(s, new)
  PROVE  Account!IInv'
<1> DEFINE e == [x1 EXCEPT !.password = new]
           held == Account!Holding(e, x4[s].link)
<1>1. /\ x3[s] = "reset" /\ Account!Goto(s, "compare", held)
      /\ UNCHANGED <<x1, x2, Account!history>>
  BY DEF Account!ReadUser
<1>2. x1 \in Account!User /\ x4[s].link \in Links /\ x4[s].link \in Links \cup {NoOne}
  BY <1>1 DEF Account!IInv, Account!TypeOK, Account!Relies
<1>3. e \in Account!User /\ e.role = x1.role
  BY <1>2 DEF Account!User
<1> HIDE DEF e
<1>4. held \in AccountHeld /\ held.entity = e /\ held.link = x4[s].link /\ e # NoOne
  BY <1>2, <1>3 DEF AccountHeld, Account!Holding, Account!NoOneAssumption
<1> HIDE DEF held
<1>5. x3'[s] = "compare" /\ x4'[s] = held /\ x6' = x6 /\ x1' = x1 /\ x2' = x2
  BY <1>1, <1>4, AccountGoto DEF Account!history
<1>6. \A l \in Links : Account!Resetting(s, l)' => Account!Resetting(s, l)
  BY <1>1, <1>4, <1>5 DEF Account!Resetting
<1>7. Account!Relies(s)'
  BY <1>1, <1>3, <1>4, <1>5, <1>6 DEF Account!IInv, Account!Relies
<1> QED BY <1>1, <1>4, <1>6, <1>7, AccountMove

\* A reset commits: its link was sent.
LEMMA AccountCommit ==
  ASSUME Account!NoOneAssumption, Account!IInv, NEW s \in Sessions, Account!Commit(s)
  PROVE  Account!IInv'
<1> DEFINE l == x4[s].link
<1>1. /\ x3[s] = "commit"
      /\ Account!Written(s) \in Account!User
      /\ x1 # NoOne
      /\ x1' = Account!Written(s)
      /\ x6 = {} => Account!Written(s).role = x1.role
      /\ UNCHANGED <<x5, x6>>
      /\ x7' = x7 \cup {l} /\ x8' = x8 \cup ({l} \cap x7)
      /\ Account!Goto(s, "idle", Account!Nothing) /\ Account!Nothing \in AccountHeld
  BY AccountWritten DEF Account!Commit, Account!End, Account!Nothing, AccountHeld
<1>2. PICK row \in {"used", "expired"} \cup ({"none"} \cap {x2[l].row}) :
        x2' = [x2 EXCEPT ![l].row = row]
  BY DEF Account!Commit
<1>3. l \in Links /\ Account!Resetting(s, l) /\ x2[l].sent
  BY <1>1 DEF Account!IInv, Account!TypeOK, Account!Relies, Account!Resetting
<1>4. x3'[s] = "idle" /\ AccountStand(s)
  BY <1>1, AccountGoto
<1>5. /\ x2' \in [Links -> Account!Link] /\ x2'[l].row = row
      /\ x2'[l].sent = x2[l].sent /\ x2'[l].reported = x2[l].reported
      /\ \A k \in Links \ {l} : x2'[k] = x2[k]
  BY <1>2, <1>3 DEF Account!IInv, Account!TypeOK, Account!Link
<1>6. x1' # NoOne
  BY <1>1 DEF Account!NoOneAssumption
<1>7. Account!TypeOK'
  <2>1. /\ x4' \in [Sessions -> AccountHeld]
        /\ x3' \in [Sessions -> {"idle", "create", "compare", "update", "commit",
                                "mail", "clean up", "reset"}]
    BY <1>1, AccountGoto
  <2>2. {x7', x8'} \subseteq SUBSET Links
    BY <1>1, <1>3 DEF Account!IInv, Account!TypeOK
  <2> QED BY <1>1, <1>5, <2>1, <2>2 DEF Account!IInv, Account!TypeOK, AccountHeld
<1>8. \A r \in Sessions, k \in Links :
        Account!Resetting(r, k)' => Account!Resetting(r, k) /\ r # s
  BY <1>4 DEF Account!Resetting, AccountStand
<1>9. ASSUME NEW r \in Sessions PROVE Account!Relies(r)'
  <2>1. CASE r = s
    BY <1>4, <2>1 DEF Account!Relies, Account!Resetting
  <2>2. CASE r # s
    <3>1. AccountSending(r) => x4[r].link \in Links
      BY AccountSenders
    <3>2. /\ x3[r] = "mail" => ~x2[x4[r].link].sent /\ x2[x4[r].link].row # "none"
          /\ x3[r] = "clean up" => ~x2[x4[r].link].reported
      BY DEF Account!IInv, Account!Relies
    <3>3. /\ x3[r] = "mail" => ~x2'[x4[r].link].sent /\ x2'[x4[r].link].row # "none"
          /\ x3[r] = "clean up" => ~x2'[x4[r].link].reported
      BY <1>3, <1>5, <3>1, <3>2 DEF AccountSending
    <3>4. \A k \in Links : x2[k].sent => x2'[k].sent
      BY <1>5
    <3>5. x3[r] = "compare" /\ x6' = {} => x1'.role = x1.role
      BY <1>1
    <3> QED BY <1>1, <1>4, <1>6, <1>7, <2>2, <3>3, <3>4, <3>5, AccountOthers
                DEF AccountStand
  <2> QED BY <2>1, <2>2
<1>10. Account!OneSender'
  BY <1>4 DEF Account!IInv, Account!OneSender, AccountStand
<1>11. Account!Mailed'
  BY <1>1, <1>5, <1>6 DEF Account!IInv, Account!Mailed
<1>12. Account!RoleKept'
  BY <1>1 DEF Account!IInv, Account!RoleKept
<1>13. Account!DeliveredLinksWork'
  BY <1>5 DEF Account!IInv, Account!DeliveredLinksWork
<1> QED BY <1>7, <1>9, <1>10, <1>11, <1>12, <1>13 DEF Account!IInv

\* Every statement of a request, staff, and time keep it.
LEMMA AccountNext ==
  ASSUME Account!NoOneAssumption, Account!IInv, [Account!Next]_(Account!vars)
  PROVE  Account!IInv'
<1>1. CASE UNCHANGED (Account!vars)
  <2>1. /\ Account!TypeOK' /\ Account!OneSender' /\ UNCHANGED <<x1, x3, x4, x5, x6>>
        /\ UNCHANGED <<x7, x8, x2>>
    BY <1>1 DEF Account!vars, Account!IInv, Account!TypeOK, Account!OneSender
  <2>2. \A r \in Sessions : Account!Relies(r)'
    BY <2>1 DEF Account!IInv, Account!Relies, Account!Resetting
  <2>3. Account!Mailed'
    BY <2>1 DEF Account!IInv, Account!Mailed
  <2>4. Account!RoleKept'
    BY <2>1 DEF Account!IInv, Account!RoleKept
  <2>5. Account!DeliveredLinksWork'
    BY <2>1 DEF Account!IInv, Account!DeliveredLinksWork
  <2> QED BY <2>1, <2>2, <2>3, <2>4, <2>5 DEF Account!IInv
<1>2. ASSUME NEW s \in Sessions, Account!Abort(s) PROVE Account!IInv'
  BY <1>2, AccountEnd DEF Account!Abort
<1> QED BY <1>1, <1>2, AccountFind, AccountInsert, AccountCompare, AccountUpdate,
            AccountSetRole, AccountStore, AccountMail, AccountCleanUp, AccountExpire,
            AccountFindLink, AccountReadUser, AccountCommit DEF Account!Next

---------------------------------------
\* RefreshTokens.tla: x1 is the tokens, x2 and x3 where each request stands
\* and the token it exchanges, x4 the login of each token, x5 the logins of
\* which two refreshes held the same token.

\* No token was issued.
LEMMA TicketsInit == ASSUME Tickets!TokensAssumption, Tickets!Init PROVE Tickets!IInv
<1>1. Tickets!TypeOK
  BY DEF Tickets!Init, Tickets!TypeOK
<1>2. Tickets!Rooted /\ Tickets!OneBearer /\ Tickets!OneTokenPerLogin
  BY DEF Tickets!Init, Tickets!TokensAssumption, Tickets!Rooted, Tickets!OneBearer,
         Tickets!OneTokenPerLogin, Tickets!Good
<1> QED BY <1>1, <1>2 DEF Tickets!IInv

\* A request that begins or ends without a token, or keeps its own.
LEMMA TicketsMove ==
  ASSUME Tickets!TokensAssumption, Tickets!IInv, NEW s \in Sessions,
         NEW step \in {"idle", "issue"},
         NEW t \in {x3[s], NoToken}, Tickets!Goto(s, step, t),
         step = "idle" => t = NoToken,
         t # NoToken => x1'[t] # "good", 
         \A u \in Tokens : x1'[u] # x1[u] => x1[u] # "none" /\ x1'[u] = "revoked",
         x1' \in [Tokens -> {"none", "good", "revoked", "expired", "purged"}],
         UNCHANGED <<x4, x5>>
  PROVE  Tickets!IInv'
<1>1. Tickets!TypeOK'
  BY DEF Tickets!IInv, Tickets!TypeOK, Tickets!Goto
<1>2. /\ x2'[s] = step /\ x3'[s] = t
      /\ \A r \in Sessions \ {s} : x2'[r] = x2[r] /\ x3'[r] = x3[r]
  BY DEF Tickets!IInv, Tickets!TypeOK, Tickets!Goto
<1>3. Tickets!Rooted'
  <2>1. \A u \in Tokens : x1'[u] # "none" <=> x1[u] # "none"
    BY DEF Tickets!IInv, Tickets!TypeOK
  <2>2. \A u \in Tokens : x1'[u] # "none" => x4'[u] \in Tokens /\ x1'[x4'[u]] # "none"
    BY <2>1 DEF Tickets!IInv, Tickets!Rooted
  <2>3. ASSUME NEW r \in Sessions
        PROVE  /\ x2'[r] = "idle" => x3'[r] = NoToken
               /\ x2'[r] = "rotate" => x3'[r] # NoToken
               /\ x3'[r] # NoToken => x1'[x3'[r]] # "none"
    BY <1>2, <2>1, <2>3 DEF Tickets!IInv, Tickets!TypeOK, Tickets!Rooted
  <2> QED BY <2>2, <2>3 DEF Tickets!Rooted
<1>4. \A q : Tickets!Good(q)' \subseteq Tickets!Good(q)
  BY DEF Tickets!IInv, Tickets!TypeOK, Tickets!Good
<1>5. ASSUME NEW r \in Sessions, x3'[r] # NoToken, x4'[x3'[r]] \notin x5'
      PROVE  /\ \A u \in Tickets!Good(x4[x3[r]])' : x2'[r] = "rotate" /\ u = x3'[r]
             /\ \A p \in Sessions \ {r} : x3'[p] # NoToken => x4[x3'[p]] # x4[x3[r]]
  BY <1>2, <1>4, <1>5 DEF Tickets!IInv, Tickets!OneBearer, Tickets!Good, Tickets!TypeOK
<1>6. Tickets!OneBearer'
  BY <1>2, <1>5 DEF Tickets!OneBearer, Tickets!Good, Tickets!TypeOK, Tickets!IInv
<1>7. Tickets!OneTokenPerLogin'
  BY <1>4 DEF Tickets!IInv, Tickets!OneTokenPerLogin, Tickets!TypeOK
<1> QED BY <1>1, <1>3, <1>6, <1>7 DEF Tickets!IInv

\* A token that is found is held, and contested if another request holds one of its login.
LEMMA TicketsFind ==
  ASSUME Tickets!TokensAssumption, Tickets!IInv, NEW s \in Sessions, NEW t \in Tokens,
         Tickets!FindToken(s, t)
  PROVE  Tickets!IInv'
<1>1. /\ x2[s] = "idle" /\ x3[s] = NoToken /\ x1[t] = "good" /\ t # NoToken
      /\ x2'[s] = "rotate" /\ x3'[s] = t
      /\ \A r \in Sessions \ {s} : x2'[r] = x2[r] /\ x3'[r] = x3[r]
      /\ x4[t] \in Tokens
      /\ x5 \subseteq x5' /\ UNCHANGED <<x1, x4>>
  BY DEF Tickets!TokensAssumption, Tickets!FindToken, Tickets!Goto, Tickets!IInv,
         Tickets!TypeOK, Tickets!Rooted
<1>2. Tickets!TypeOK'
  BY <1>1 DEF Tickets!FindToken, Tickets!Goto, Tickets!IInv, Tickets!TypeOK
<1>3. Tickets!Rooted'
  BY <1>1 DEF Tickets!IInv, Tickets!Rooted
<1>4. \A q : Tickets!Good(q)' = Tickets!Good(q)
  BY <1>1 DEF Tickets!Good
<1>5. ASSUME x4[t] \notin x5'
      PROVE  \A r \in Sessions \ {s} : x3[r] # NoToken => x4[x3[r]] # x4[t]
  <2>1. SUFFICES ASSUME NEW r \in Sessions \ {s}, x3[r] # NoToken, x4[x3[r]] = x4[t]
                 PROVE  FALSE
    OBVIOUS
  <2>2. t \in Tickets!Good(x4[t]) /\ x4[t] \notin x5
    BY <1>1, <1>5 DEF Tickets!Good
  <2>3. x3[r] = t
    BY <2>1, <2>2 DEF Tickets!IInv, Tickets!OneBearer
  <2> QED BY <1>1, <1>5, <2>3 DEF Tickets!FindToken
<1>6. x4[t] \notin x5' => \A u \in Tickets!Good(x4[t]) : u = t
  BY <1>1 DEF Tickets!IInv, Tickets!OneTokenPerLogin, Tickets!Good
<1>7. ASSUME NEW r \in Sessions, x3'[r] # NoToken, x4[x3'[r]] \notin x5'
      PROVE  /\ \A u \in Tickets!Good(x4[x3'[r]]) : x2'[r] = "rotate" /\ u = x3'[r]
             /\ \A p \in Sessions \ {r} : x3'[p] # NoToken => x4[x3'[p]] # x4[x3'[r]]
  <2>1. CASE r = s
    BY <1>1, <1>5, <1>6, <1>7, <2>1
  <2>2. CASE r # s
    <3>1. x3'[r] = x3[r] /\ x2'[r] = x2[r] /\ x4[x3[r]] \notin x5
      BY <1>1, <1>7, <2>2
    <3>2. ASSUME NEW p \in Sessions \ {r}, x3'[p] # NoToken, p = s
          PROVE  x4[x3'[p]] # x4[x3'[r]]
      BY <1>1, <1>5, <1>7, <2>2, <3>1, <3>2
    <3> QED BY <1>1, <1>7, <3>1, <3>2 DEF Tickets!IInv, Tickets!OneBearer
  <2> QED BY <2>1, <2>2
<1>8. Tickets!OneBearer'
  BY <1>1, <1>4, <1>7 DEF Tickets!OneBearer
<1>9. Tickets!OneTokenPerLogin'
  BY <1>1, <1>4 DEF Tickets!IInv, Tickets!OneTokenPerLogin
<1> QED BY <1>2, <1>3, <1>8, <1>9 DEF Tickets!IInv

\* A token that is issued is the first of its login that is good since the old one
\* was revoked, or the first of all.
LEMMA TicketsIssue ==
  ASSUME Tickets!TokensAssumption, Tickets!IInv, NEW s \in Sessions, NEW t \in Tokens,
         Tickets!Issue(s, t)
  PROVE  Tickets!IInv'
<1> DEFINE q == IF x3[s] = NoToken THEN t ELSE x4[x3[s]]
<1>1. /\ x2[s] = "issue" /\ x1[t] = "none"
      /\ x2'[s] = "idle" /\ x3'[s] = NoToken
      /\ \A r \in Sessions \ {s} : x2'[r] = x2[r] /\ x3'[r] = x3[r]
      /\ x1'[t] = "good" /\ x4'[t] = q
      /\ \A u \in Tokens \ {t} : x1'[u] = x1[u] /\ x4'[u] = x4[u]
      /\ x5' = x5
  BY DEF Tickets!Issue, Tickets!End, Tickets!Goto, Tickets!IInv, Tickets!TypeOK
<1>2. /\ q \in Tokens /\ (q = t \/ x1[q] # "none")
      /\ x3[s] # NoToken => x3[s] \in Tokens
  BY DEF Tickets!IInv, Tickets!TypeOK, Tickets!Rooted
<1>3. Tickets!TypeOK'
  BY <1>2 DEF Tickets!Issue, Tickets!End, Tickets!Goto, Tickets!IInv, Tickets!TypeOK
<1>4. \A r \in Sessions : x3[r] # NoToken =>
         x3[r] \in Tokens \ {t} /\ x4[x3[r]] \in Tokens \ {t}
  BY <1>1 DEF Tickets!IInv, Tickets!TypeOK, Tickets!Rooted
<1>5. Tickets!Rooted'
  <2>1. \A u \in Tokens : x1[u] # "none" => x1'[u] # "none"
    BY <1>1
  <2>2. ASSUME NEW u \in Tokens, x1'[u] # "none"
        PROVE  x4'[u] \in Tokens /\ x1'[x4'[u]] # "none"
    <3>1. CASE u = t
      BY <1>1, <1>2, <2>1, <3>1
    <3>2. CASE u # t
      BY <1>1, <2>1, <2>2, <3>2 DEF Tickets!IInv, Tickets!Rooted
    <3> QED BY <3>1, <3>2
  <2>3. ASSUME NEW r \in Sessions
        PROVE  /\ x2'[r] = "idle" => x3'[r] = NoToken
               /\ x2'[r] = "rotate" => x3'[r] # NoToken
               /\ x3'[r] # NoToken => x1'[x3'[r]] # "none"
    BY <1>1, <1>4, <2>1, <2>3 DEF Tickets!IInv, Tickets!Rooted
  <2> QED BY <2>2, <2>3 DEF Tickets!Rooted
<1>6. \A p \in Tokens :
        Tickets!Good(p)' = Tickets!Good(p) \cup ({t} \cap {u \in {t} : q = p})
  BY <1>1 DEF Tickets!Good
<1>7. q \notin x5 => Tickets!Good(q) = {}
  <2>1. CASE x3[s] = NoToken
    BY <1>1, <1>2, <2>1 DEF Tickets!IInv, Tickets!Rooted, Tickets!Good
  <2>2. CASE x3[s] # NoToken
    BY <1>1, <2>2 DEF Tickets!IInv, Tickets!OneBearer, Tickets!Good
  <2> QED BY <2>1, <2>2
<1>8. q \notin x5 => \A r \in Sessions \ {s} : x3[r] # NoToken => x4[x3[r]] # q
  BY <1>4 DEF Tickets!IInv, Tickets!OneBearer
<1>9. Tickets!OneBearer'
  <2>1. SUFFICES ASSUME NEW r \in Sessions, x3'[r] # NoToken, x4'[x3'[r]] \notin x5'
                 PROVE  /\ \A u \in Tickets!Good(x4[x3[r]])' : x2'[r] = "rotate" /\ u = x3'[r]
                        /\ \A p \in Sessions \ {r} : x3'[p] # NoToken =>
                             x4'[x3'[p]] # x4'[x3'[r]]
    BY <1>1, <1>4 DEF Tickets!OneBearer
  <2>2. /\ r # s /\ x3'[r] = x3[r] /\ x2'[r] = x2[r]
        /\ x4'[x3'[r]] = x4[x3[r]] /\ x4[x3[r]] \notin x5
    BY <1>1, <1>4, <2>1
  <2>3. x4[x3[r]] # q /\ x4[x3[r]] \in Tokens
    BY <1>4, <1>8, <2>1, <2>2
  <2>4. Tickets!Good(x4[x3[r]])' = Tickets!Good(x4[x3[r]])
    BY <1>1, <2>2, <2>3 DEF Tickets!Good
  <2>5. ASSUME NEW p \in Sessions \ {r}, x3'[p] # NoToken
        PROVE  x4'[x3'[p]] # x4'[x3'[r]]
    <3>1. p # s /\ x3'[p] = x3[p] /\ x4'[x3'[p]] = x4[x3[p]]
      BY <1>1, <1>4, <2>5
    <3> QED BY <2>1, <2>2, <2>5, <3>1 DEF Tickets!IInv, Tickets!OneBearer
  <2> QED BY <2>1, <2>2, <2>4, <2>5 DEF Tickets!IInv, Tickets!OneBearer
<1>10. Tickets!OneTokenPerLogin'
  <2>1. SUFFICES ASSUME NEW p \in Tokens, p \notin x5
                 PROVE  \A u, v \in Tickets!Good(p)' : u = v
    BY <1>1 DEF Tickets!OneTokenPerLogin
  <2>2. CASE p = q
    BY <1>6, <1>7, <2>1, <2>2
  <2>3. CASE p # q
    BY <1>6, <2>1, <2>3 DEF Tickets!IInv, Tickets!OneTokenPerLogin
  <2> QED BY <2>2, <2>3
<1> QED BY <1>3, <1>5, <1>9, <1>10 DEF Tickets!IInv

\* Tokens that go bad.
LEMMA TicketsGo ==
  ASSUME Tickets!TokensAssumption, Tickets!IInv,
         NEW kind \in {"revoked", "expired", "purged"},
         x1' \in [Tokens -> {"none", "good", "revoked", "expired", "purged"}],
         \A t \in Tokens : x1'[t] # x1[t] => x1[t] # "none" /\ x1'[t] = kind,
         UNCHANGED <<x2, x3, x4, x5>>
  PROVE  Tickets!IInv'
<1>1. Tickets!TypeOK'
  BY DEF Tickets!IInv, Tickets!TypeOK
<1>2. \A t \in Tokens : x1'[t] # "none" <=> x1[t] # "none"
  BY DEF Tickets!IInv, Tickets!TypeOK
<1>3. Tickets!Rooted'
  BY <1>2 DEF Tickets!IInv, Tickets!TypeOK, Tickets!Rooted
<1>4. \A q : Tickets!Good(q)' \subseteq Tickets!Good(q)
  BY DEF Tickets!Good
<1>5. Tickets!OneBearer'
  BY <1>4 DEF Tickets!IInv, Tickets!OneBearer
<1>6. Tickets!OneTokenPerLogin'
  BY <1>4 DEF Tickets!IInv, Tickets!OneTokenPerLogin
<1> QED BY <1>1, <1>3, <1>5, <1>6 DEF Tickets!IInv

\* Every statement of a request, and whatever happens to tokens, keeps it.
LEMMA TicketsNext ==
  ASSUME Tickets!TokensAssumption, Tickets!IInv, [Tickets!Next]_(Tickets!vars)
  PROVE  Tickets!IInv'
<1>1. CASE UNCHANGED (Tickets!vars)
  BY <1>1
     DEF Tickets!vars, Tickets!IInv, Tickets!TypeOK, Tickets!Rooted, Tickets!OneBearer,
         Tickets!OneTokenPerLogin, Tickets!Good
<1>2. ASSUME NEW s \in Sessions, Tickets!Login(s) PROVE Tickets!IInv'
  BY <1>2, TicketsMove DEF Tickets!Login, Tickets!IInv, Tickets!TypeOK
<1>3. ASSUME NEW s \in Sessions, Tickets!Rotate(s) PROVE Tickets!IInv'
  <2>1. x3[s] \in Tokens /\ x1[x3[s]] # "none"
    BY <1>3 DEF Tickets!Rotate, Tickets!IInv, Tickets!TypeOK, Tickets!Rooted
  <2>2. /\ x1' \in [Tokens -> {"none", "good", "revoked", "expired", "purged"}]
        /\ \A u \in Tokens : x1'[u] # x1[u] =>
             x1[u] # "none" /\ x1'[u] = "revoked"
        /\ x1'[x3[s]] # "good"
    BY <1>3, <2>1 DEF Tickets!Rotate, Tickets!IInv, Tickets!TypeOK
  <2> QED BY <1>3, <2>2, TicketsMove DEF Tickets!Rotate
<1>4. ASSUME NEW s \in Sessions, Tickets!Abort(s) PROVE Tickets!IInv'
  BY <1>4, TicketsMove DEF Tickets!Abort, Tickets!End, Tickets!IInv, Tickets!TypeOK
<1>5. ASSUME NEW t \in Tokens, Tickets!Logout(t) \/ Tickets!Expire(t) PROVE Tickets!IInv'
  <2>1. CASE Tickets!Logout(t)
    BY <2>1, TicketsGo DEF Tickets!Logout, Tickets!IInv, Tickets!TypeOK
  <2>2. CASE Tickets!Expire(t)
    BY <2>2, TicketsGo DEF Tickets!Expire, Tickets!IInv, Tickets!TypeOK
  <2> QED BY <1>5, <2>1, <2>2
<1>6. CASE Tickets!RevokeAllForUser
  BY <1>6, TicketsGo DEF Tickets!RevokeAllForUser, Tickets!IInv, Tickets!TypeOK
<1>7. CASE Tickets!PurgeExpired
  BY <1>7, TicketsGo DEF Tickets!PurgeExpired, Tickets!IInv, Tickets!TypeOK
<1> QED BY <1>1, <1>2, <1>3, <1>4, <1>5, <1>6, <1>7, TicketsFind, TicketsIssue
            DEF Tickets!Next

---------------------------------------
\* ShopWindow.tla: x1 is the product, x2 the page, x3 the cart, x4 the payment
\* of the form, x5 the pending order, x6 whether a cart was lost, x7 the
\* number of edits.

\* What a line of the cart may be, and what a page may show.
CartLines == [quantity : View!Units, asked : View!Units, price : Int, limit : View!Units,
          stale : BOOLEAN, quick : BOOLEAN, merged : BOOLEAN]
PageViews == [kind : {"grid", "details", "wishlist"}, price : Int, stock : View!Units,
          picked : Nat, stale : BOOLEAN]

\* What is kept of a line.
SoundLine(c) ==
  /\ c \in CartLines
  /\ c.quantity > 0 => c.limit > 0
  /\ c.quantity > 0 /\ ~c.stale => c.price \in View!EffectivePrices
  /\ c.quantity = c.asked \/ c.quick
  /\ c.quantity <= c.limit \/ c.merged

\* Prices and discounts are whole numbers.
LEMMA WholeRates ==
  ASSUME View!WindowAssumption
  PROVE  Prices \subseteq Nat /\ ({0} \cup Percents) \subseteq Int
<1>1. Prices \subseteq Nat
  BY DEF View!WindowAssumption
<1>2. ASSUME NEW d \in ({0} \cup Percents) PROVE d \in Int
  BY DEF View!WindowAssumption
<1> QED BY <1>1, <1>2

\* The prices a product may be shown at now: they are integers, and two of them are
\* the same or differ by a cent, at an exact half.
LEMMA ShownPrices ==
  ASSUME View!WindowAssumption, View!TypeOK, NEW u \in View!EffectivePrices,
         NEW v \in View!EffectivePrices
  PROVE  /\ u \in Int /\ v \in Int
         /\ u = v \/ ((u - v = 1 \/ v - u = 1) /\ View!HalfCent)
<1> DEFINE a == x1.price * (10000 - x1.discount)
<1>1. x1.price \in Nat /\ x1.discount \in Int
  <2>1. x1.price \in Prices /\ x1.discount \in ({0} \cup Percents)
    BY DEF View!TypeOK
  <2>2. Prices \subseteq Nat /\ ({0} \cup Percents) \subseteq Int
    BY WholeRates
  <2> QED BY <2>1, <2>2
<1>2. a \in Int
  BY <1>1
<1>3. View!EffectivePrices = View!Nearest(a, 10000)
  BY DEF View!EffectivePrices, View!FloatDiscounted
<1>4. View!HalfCent <=> 2 * (a % 10000) = 10000
  BY DEF View!HalfCent
<1> HIDE DEF a
<1> DEFINE q == a \div 10000
           r == a % 10000
<1>5. q \in Int /\ r \in Int /\ 0 <= r /\ r < 10000 /\ a = 10000 * q + r
  BY <1>2
<1>6. /\ u \in {q, q + 1}
      /\ -10000 <= 2 * (u * 10000 - a)
      /\ 2 * (u * 10000 - a) <= 10000
      /\ v \in {q, q + 1}
      /\ -10000 <= 2 * (v * 10000 - a)
      /\ 2 * (v * 10000 - a) <= 10000
  BY <1>3 DEF View!Nearest
<1> HIDE DEF q, r
<1>7. u \in Int /\ v \in Int
  BY <1>5, <1>6
<1>8. u = v \/ (u - v = 1 \/ v - u = 1)
  BY <1>5, <1>6
<1>9. u # v => 2 * r = 10000
  BY <1>5, <1>6
<1> QED BY <1>4, <1>7, <1>8, <1>9 DEF r

\* They depend on price and promotion only.
LEMMA SamePrices ==
  ASSUME x1'.price = x1.price, x1'.discount = x1.discount
  PROVE  View!EffectivePrices' = View!EffectivePrices
BY DEF View!EffectivePrices

\* A page that shows the product as it is.
LEMMA WindowInit ==
  ASSUME View!WindowAssumption, View!Init
  PROVE  View!IInv
<1>1. PICK price \in View!EffectivePrices : x2 = View!PageOf("grid", price)
  BY DEF View!Init
<1>2. x1 \in [price : Prices, stock : View!Units, discount : ({0} \cup Percents)]
  BY DEF View!Init
<1>3. price \in Int
  <2>1. x1.price \in Prices /\ x1.discount \in ({0} \cup Percents)
    BY <1>2
  <2>2. x1.price \in Nat /\ x1.discount \in Int
    <3>1. Prices \subseteq Nat /\ ({0} \cup Percents) \subseteq Int
      BY WholeRates
    <3> QED BY <2>1, <3>1
  <2>3. x1.price * (100 * 100 - x1.discount) \in Int
    BY <2>2
  <2> QED BY <1>1, <2>3 DEF View!EffectivePrices, View!FloatDiscounted, View!Nearest
<1>4. View!TypeOK
  <2>1. 0 \in View!Units /\ x1.stock \in View!Units
    BY <1>2 DEF View!Units, View!WindowAssumption
  <2>2. x2 \in PageViews
    BY <1>1, <1>3, <2>1 DEF View!PageOf, PageViews
  <2>3. x3 \in CartLines
    BY <2>1 DEF View!Init, View!NoLine, CartLines
  <2>4. /\ x4 \in [step : {"idle", "asked", "open"}, quantity : View!Units, button : Int,
                    stale : BOOLEAN, touched : BOOLEAN]
        /\ x5 \in [quantity : View!Units, amount : Int, stale : BOOLEAN]
    BY <2>1 DEF View!Init, View!NotPaying, View!NoAttempt
  <2> QED BY <1>2, <2>2, <2>3, <2>4 DEF View!Init, View!TypeOK, PageViews, CartLines
<1>5. View!Current
  BY <1>1
     DEF View!Init, View!Current, View!PageOf, View!NoLine, View!NotPaying,
         View!NoAttempt, View!Paying
<1>6. View!Matching
  BY <1>1
     DEF View!Init, View!Matching, View!PageOf, View!NoLine, View!NotPaying,
         View!NoAttempt, View!Paying
<1> QED BY <1>4, <1>5, <1>6
            DEF View!Init, View!IInv, View!ClearedWasBought, View!HoldsWhatWasAsked,
                View!WithinStock, View!NoLine

\* A page that is opened shows the product as it is now.
LEMMA WindowOpen ==
  ASSUME View!WindowAssumption, View!IInv,
         NEW kind \in {"grid", "details", "wishlist"}, View!Open(kind)
  PROVE  View!IInv'
<1>1. PICK price \in View!EffectivePrices : x2' = View!PageOf(kind, price)
  BY DEF View!Open
<1>2. /\ UNCHANGED <<x1, x3, x4, x5, x6, x7>>
      /\ x1' = x1
  BY DEF View!Open
<1>3. price \in Int
  BY <1>1, ShownPrices DEF View!IInv
<1>4. View!EffectivePrices' = View!EffectivePrices
  BY <1>2, SamePrices
<1>5. View!TypeOK'
  BY <1>1, <1>2, <1>3 DEF View!IInv, View!TypeOK, View!PageOf
<1>6. View!Current'
  BY <1>1, <1>2, <1>4 DEF View!IInv, View!Current, View!PageOf, View!Paying
<1>7. View!Matching'
  BY <1>1, <1>2 DEF View!IInv, View!Matching, View!PageOf, View!Paying
<1> QED BY <1>2, <1>5, <1>6, <1>7
            DEF View!IInv, View!ClearedWasBought, View!HoldsWhatWasAsked,
                View!WithinStock

\* The cart after products are added to it.
LEMMA AddedFacts ==
  ASSUME View!WindowAssumption, View!IInv, x2.stock > 0, NEW q \in Nat,
         NEW asked \in Nat,
         q > 0, asked > 0, NEW quick \in BOOLEAN, q = asked \/ quick
  PROVE  SoundLine(View!Added(q, asked, quick))
<1> DEFINE c == View!Added(q, asked, quick)
<1>0. x2.stock > 0
  OBVIOUS
<1>1. /\ x2.stock \in View!Units /\ x2.price \in Int /\ x2.stale \in BOOLEAN
      /\ x3.quantity \in View!Units
      /\ x3.asked \in View!Units
      /\ x3.limit \in View!Units
      /\ x3.price \in Int /\ x3.limit \in Nat /\ x3.quantity \in Nat /\ x3.asked \in Nat
      /\ x2.stock \in Nat
      /\ \A n \in Nat : View!Lesser(n, x2.stock) \in View!Units
      /\ \A n \in Nat : n > 0 => View!Lesser(n, x2.stock) > 0
      /\ \A n \in Nat : View!Lesser(n, x2.stock) <= x2.stock
  <2>1. x2 \in PageViews /\ x3 \in CartLines
    BY DEF View!IInv, View!TypeOK, PageViews, CartLines
  <2>2. View!Units \subseteq Nat /\ \A n \in Nat : \A m \in View!Units : n <= m =>
          n \in View!Units
    BY DEF View!Units, View!WindowAssumption
  <2>3. /\ x2.stock \in View!Units /\ x2.price \in Int /\ x2.stale \in BOOLEAN
        /\ x3.quantity \in View!Units
        /\ x3.asked \in View!Units
        /\ x3.limit \in View!Units
        /\ x3.price \in Int
    BY <2>1 DEF PageViews, CartLines
  <2>4. /\ \A n \in Nat :
             View!Lesser(n, x2.stock) \in Nat /\ View!Lesser(n, x2.stock) <= x2.stock
        /\ \A n \in Nat : n > 0 => View!Lesser(n, x2.stock) > 0
    <3>1. x2.stock \in Nat
      BY <2>2, <2>3
    <3> QED BY <1>0, <3>1 DEF View!Lesser
  <2> QED BY <2>2, <2>3, <2>4
<1>2. CASE x3.quantity = 0
  <2>1. c = [quantity |-> View!Lesser(q, x2.stock), asked |-> View!Lesser(asked, x2.stock),
             price |-> x2.price, limit |-> x2.stock, stale |-> x2.stale,
             quick |-> quick, merged |-> FALSE]
    BY <1>2 DEF View!Added
  <2>2. ~x2.stale => x2.price \in View!EffectivePrices
    BY DEF View!IInv, View!Current
  <2> HIDE DEF c
  <2>3. c \in CartLines
    BY <1>1, <2>1 DEF CartLines
  <2>4. c.quantity > 0 /\ c.limit > 0 /\ c.quantity <= c.limit
    BY <1>1, <2>1
  <2>5. (~c.stale => c.price \in View!EffectivePrices) /\ (c.quantity = c.asked \/ c.quick)
    BY <2>1, <2>2
  <2> QED BY <2>3, <2>4, <2>5 DEF c, SoundLine
<1>3. CASE x3.quantity # 0
  <2>1. c = [x3 EXCEPT !.quantity = View!Lesser(@ + q, x2.stock),
                         !.asked = View!Lesser(@ + asked, x2.stock),
                         !.quick = @ \/ quick,
                         !.merged = @ \/ x2.stock > x3.limit]
    BY <1>3 DEF View!Added
  <2>2. /\ x3 \in CartLines
        /\ x3.limit > 0
        /\ ~x3.stale => x3.price \in View!EffectivePrices
        /\ x3.quantity = x3.asked \/ x3.quick
    <3>1. x3.quantity > 0
      BY <1>1, <1>3
    <3>2. x3 \in CartLines
      BY DEF View!IInv, View!TypeOK, CartLines
    <3> QED BY <3>1, <3>2
                DEF View!IInv, View!Current, View!Matching, View!HoldsWhatWasAsked
  <2> DEFINE x == View!Lesser(x3.quantity + q, x2.stock)
             y == View!Lesser(x3.asked + asked, x2.stock)
  <2>3. /\ x \in View!Units /\ y \in View!Units /\ x > 0 /\ x <= x2.stock
        /\ x3.quantity = x3.asked /\ q = asked => x = y
        /\ x \in Nat
    <3>1. /\ x3.quantity + q \in Nat /\ x3.asked + asked \in Nat
          /\ x3.quantity + q > 0
      BY <1>1
    <3>2. View!Lesser(x3.quantity + q, x2.stock) \in Nat
      BY <1>1, <3>1 DEF View!Lesser
    <3> QED BY <1>1, <3>1, <3>2
  <2> HIDE DEF x, y
  <2>4. c = [x3 EXCEPT !.quantity = x, !.asked = y, !.quick = @ \/ quick,
                         !.merged = @ \/ x2.stock > x3.limit]
    BY <2>1 DEF x, y
  <2> HIDE DEF c
  <2>5. c \in CartLines
    BY <2>2, <2>3, <2>4 DEF CartLines
  <2>6. /\ c.quantity = x /\ c.asked = y /\ c.limit = x3.limit
        /\ c.price = x3.price /\ c.stale = x3.stale
        /\ c.quick = (x3.quick \/ quick)
        /\ c.merged = (x3.merged \/ x2.stock > x3.limit)
    BY <2>2, <2>4 DEF CartLines
  <2>7. c.quantity <= c.limit \/ c.merged
    <3>1. CASE x2.stock > x3.limit
      BY <2>6, <3>1
    <3>2. CASE x2.stock <= x3.limit
      BY <1>1, <2>3, <2>6, <3>2
    <3> QED BY <1>1, <3>1, <3>2
  <2> QED BY <2>2, <2>3, <2>5, <2>6, <2>7 DEF c, SoundLine
<1> QED BY <1>1, <1>2, <1>3

\* And after its quantity is set.
LEMMA UpdatedFacts ==
  ASSUME View!WindowAssumption, View!IInv, x3.quantity > 0, NEW q \in Nat, q > 0
  PROVE  SoundLine(View!Updated(q))
<1> DEFINE c == View!Updated(q)
           n == View!Lesser(q, x3.limit)
<1>1. /\ x3 \in CartLines
      /\ x3.limit > 0
      /\ ~x3.stale => x3.price \in View!EffectivePrices
  BY DEF View!IInv, View!TypeOK, View!Current, View!Matching, CartLines
<1>2. n \in View!Units /\ n > 0 /\ n <= x3.limit /\ n \in Nat
  BY <1>1 DEF View!Units, View!Lesser, View!WindowAssumption, CartLines
<1>3. c = [x3 EXCEPT !.quantity = n, !.asked = n, !.quick = FALSE, !.merged = FALSE]
  BY DEF View!Updated
<1> HIDE DEF c, n
<1>4. c \in CartLines
  BY <1>1, <1>2, <1>3 DEF CartLines
<1>5. /\ c.quantity = n /\ c.asked = n /\ c.limit = x3.limit
      /\ c.price = x3.price /\ c.stale = x3.stale
  BY <1>1, <1>3 DEF CartLines
<1> QED BY <1>1, <1>2, <1>4, <1>5 DEF c, SoundLine

\* A step that changes the cart, and touches it if the form waits.
LEMMA CartKeeps ==
  ASSUME View!WindowAssumption, View!IInv, View!Touch, UNCHANGED <<x1, x5, x6, x7>>,
         x2' \in PageViews, x2'.price = x2.price, x2'.stale = x2.stale,
         x2'.picked >= 1, SoundLine(x3')
  PROVE  View!IInv'
<1>1. View!EffectivePrices' = View!EffectivePrices
  BY SamePrices
<1>2. /\ x4' = [x4 EXCEPT !.touched = View!Paying]
      /\ x4 \in [step : {"idle", "asked", "open"}, quantity : View!Units, button : Int,
                  stale : BOOLEAN, touched : BOOLEAN]
  BY DEF View!Touch, View!IInv, View!TypeOK
<1>3. View!Paying \in BOOLEAN
  BY DEF View!Paying
<1>4. /\ x4' \in [step : {"idle", "asked", "open"}, quantity : View!Units, button : Int,
                   stale : BOOLEAN, touched : BOOLEAN]
      /\ x4'.step = x4.step /\ x4'.quantity = x4.quantity /\ x4'.button = x4.button
      /\ x4'.stale = x4.stale /\ x4'.touched = View!Paying
  BY <1>2, <1>3
<1>5. View!Paying' <=> View!Paying
  BY <1>4 DEF View!Paying
<1>6. View!TypeOK'
  BY <1>4 DEF View!IInv, View!TypeOK, SoundLine, CartLines, PageViews
<1>7. View!Current'
  BY <1>1, <1>4, <1>5 DEF View!IInv, View!Current, SoundLine
<1>8. View!Matching'
  BY <1>4, <1>5 DEF View!IInv, View!Matching, SoundLine
<1> QED BY <1>6, <1>7, <1>8
            DEF View!IInv, View!ClearedWasBought, View!HoldsWhatWasAsked,
                View!WithinStock, SoundLine

\* Picking a quantity, adding it, and the preview.
LEMMA WindowPick ==
  ASSUME View!WindowAssumption, View!IInv, NEW kind, NEW n \in 1..MaxUnits,
         View!Pick(kind, n)
  PROVE  View!IInv'
<1>1. /\ x2' = [x2 EXCEPT !.picked = n] /\ n \in Nat /\ n >= 1
      /\ UNCHANGED <<x1, x3, x4, x5, x6, x7>>
  BY DEF View!Pick, View!WindowAssumption
<1>2. x2 \in PageViews
  BY DEF View!IInv, View!TypeOK, PageViews
<1>3. /\ x2' \in PageViews
      /\ x2'.price = x2.price /\ x2'.stale = x2.stale /\ x2'.picked = n
  BY <1>1, <1>2 DEF PageViews
<1>4. View!EffectivePrices' = View!EffectivePrices
  BY <1>1, SamePrices
<1>5. View!TypeOK'
  BY <1>1, <1>3 DEF View!IInv, View!TypeOK, PageViews
<1>6. View!Current'
  BY <1>1, <1>3, <1>4 DEF View!IInv, View!Current, View!Paying
<1>7. View!Matching'
  BY <1>1, <1>3 DEF View!IInv, View!Matching, View!Paying
<1> QED BY <1>1, <1>5, <1>6, <1>7
            DEF View!IInv, View!ClearedWasBought, View!HoldsWhatWasAsked,
                View!WithinStock

\* What a card or the product page adds.
LEMMA WindowAdd ==
  ASSUME View!WindowAssumption, View!IInv, NEW kind, View!Add(kind)
  PROVE  View!IInv'
<1>1. /\ x2.stock > 0 /\ x3' = View!Added(x2.picked, x2.picked, FALSE) /\ View!Touch
      /\ UNCHANGED <<x1, x2, x5, x6, x7>>
  BY DEF View!Add
<1>2. x2.picked \in Nat /\ x2.picked >= 1 /\ x2.picked > 0 /\ x2 \in PageViews
  BY DEF View!IInv, View!TypeOK, View!Matching, PageViews
<1>3. SoundLine(x3')
  BY <1>1, <1>2, AddedFacts
<1> QED BY <1>1, <1>2, <1>3, CartKeeps

\* What the preview adds.
LEMMA WindowQuickAdd ==
  ASSUME View!WindowAssumption, View!IInv, NEW n \in 1..MaxUnits, View!QuickAdd(n)
  PROVE  View!IInv'
<1>1. /\ n \in 1 .. x2.stock
      /\ x3' = View!Added(x2.picked, n, x2.picked # n)
      /\ View!Touch
      /\ x2' = [x2 EXCEPT !.picked = n]
      /\ UNCHANGED <<x1, x5, x6, x7>>
  BY DEF View!QuickAdd
<1>2. /\ x2.picked \in Nat /\ x2.picked >= 1 /\ x2.stock \in Nat
      /\ x2.picked > 0 /\ x2 \in PageViews
  BY DEF View!IInv, View!TypeOK, View!Matching, View!Units, View!WindowAssumption,
         PageViews
<1>3. n \in Nat /\ n > 0 /\ n >= 1 /\ x2.stock > 0
  BY <1>1, <1>2
<1>4. (x2.picked # n) \in BOOLEAN /\ (x2.picked = n \/ x2.picked # n)
  OBVIOUS
<1>5. SoundLine(x3')
  BY <1>1, <1>2, <1>3, <1>4, AddedFacts
<1>6. /\ x2' \in PageViews
      /\ x2'.price = x2.price /\ x2'.stale = x2.stale /\ x2'.picked >= 1
  BY <1>1, <1>2, <1>3 DEF PageViews
<1> QED BY <1>1, <1>5, <1>6, CartKeeps

\* The buttons of the cart.
LEMMA WindowButtons ==
  ASSUME View!WindowAssumption, View!IInv, View!Increase \/ View!Decrease \/ View!Remove
  PROVE  View!IInv'
<1>1. View!Touch /\ UNCHANGED <<x1, x2, x5, x6, x7>>
  BY DEF View!Increase, View!Decrease, View!Remove
<1>2. x2 \in PageViews /\ x2.picked >= 1 /\ x3.quantity \in Nat
  BY DEF View!IInv, View!TypeOK, View!Matching, View!Units, View!WindowAssumption,
         PageViews
<1>3. SoundLine(x3')
  <2>1. CASE View!Remove
    <3>1. x3' = View!NoLine /\ 0 \in View!Units
      BY <2>1 DEF View!Remove, View!Units, View!WindowAssumption
    <3> QED BY <3>1 DEF View!NoLine, SoundLine, CartLines
  <2>2. CASE View!Increase
    <3>1. x3.quantity + 1 \in Nat /\ x3.quantity + 1 > 0
      BY <1>2
    <3> QED BY <2>2, <3>1, UpdatedFacts DEF View!Increase
  <2>3. CASE View!Decrease
    <3>1. /\ View!Greater(1, x3.quantity - 1) \in Nat
          /\ View!Greater(1, x3.quantity - 1) > 0
      BY <1>2 DEF View!Greater
    <3> QED BY <2>3, <3>1, UpdatedFacts DEF View!Decrease
  <2> QED BY <2>1, <2>2, <2>3
<1> QED BY <1>1, <1>2, <1>3, CartKeeps

\* The inputs of the form, while it does not submit.
LEMMA WindowEnter ==
  ASSUME View!WindowAssumption, View!IInv, NEW n \in 1..MaxUnits, View!Enter(n)
  PROVE  View!IInv'
<1>1. /\ x4.step = "idle" /\ x3.quantity > 0 /\ x3' = View!Updated(n)
      /\ UNCHANGED <<x1, x2, x4, x5, x6, x7>>
      /\ n \in Nat /\ n > 0
  BY DEF View!Enter, View!Paying, View!WindowAssumption
<1>2. SoundLine(x3')
  BY <1>1, UpdatedFacts
<1>3. View!EffectivePrices' = View!EffectivePrices
  BY <1>1, SamePrices
<1>4. View!TypeOK'
  BY <1>1, <1>2 DEF View!IInv, View!TypeOK, SoundLine, CartLines
<1>5. View!Current'
  BY <1>1, <1>2, <1>3 DEF View!IInv, View!Current, View!Paying, SoundLine
<1>6. View!Matching'
  BY <1>1, <1>2 DEF View!IInv, View!Matching, View!Paying, SoundLine
<1> QED BY <1>1, <1>2, <1>4, <1>5, <1>6
         DEF View!IInv, View!ClearedWasBought, View!HoldsWhatWasAsked,
             View!WithinStock, SoundLine

\* What a payment may be.
FormPayments == [step : {"idle", "asked", "open"}, quantity : View!Units, button : Int,
             stale : BOOLEAN, touched : BOOLEAN]

\* A step of the payment that leaves prices, page and cart alone.
LEMMA PayKeeps ==
  ASSUME View!WindowAssumption, View!IInv, UNCHANGED <<x2, x3, x6, x7>>,
         x1' \in [price : Prices, stock : View!Units, discount : ({0} \cup Percents)],
         x1'.price = x1.price, x1'.discount = x1.discount,
         x4' \in FormPayments,
         x5' \in [quantity : View!Units, amount : Int, stale : BOOLEAN],
         View!Paying' /\ ~x4'.stale =>
           \E u \in View!EffectivePrices : x4'.button = u * x4'.quantity,
         x5'.quantity > 0 /\ ~x5'.stale =>
           \E u \in View!EffectivePrices : x5'.amount = u * x5'.quantity,
         x4'.step = "open" /\ x5'.quantity > 0 => x5'.quantity = x4'.quantity,
         View!Paying' /\ ~x4'.touched => x3.quantity = x4'.quantity
  PROVE  View!IInv'
<1>1. View!EffectivePrices' = View!EffectivePrices
  BY SamePrices
<1>2. View!TypeOK'
  BY DEF View!IInv, View!TypeOK, FormPayments
<1>3. View!Current'
  BY <1>1 DEF View!IInv, View!Current
<1>4. View!Matching'
  BY DEF View!IInv, View!Matching
<1> QED BY <1>2, <1>3, <1>4
            DEF View!IInv, View!ClearedWasBought, View!HoldsWhatWasAsked,
                View!WithinStock

\* Facts of the payment before a step.
LEMMA PayFacts ==
  ASSUME View!WindowAssumption, View!IInv
  PROVE  /\ x1 \in [price : Prices, stock : View!Units, discount : ({0} \cup Percents)]
         /\ x4 \in FormPayments /\ View!NotPaying \in FormPayments
         /\ x5 \in [quantity : View!Units, amount : Int, stale : BOOLEAN]
         /\ View!NoAttempt \in [quantity : View!Units, amount : Int, stale : BOOLEAN]
         /\ x4.step # "idle" /\ ~x4.stale =>
              \E u \in View!EffectivePrices : x4.button = u * x4.quantity
         /\ x5.quantity > 0 /\ ~x5.stale =>
              \E u \in View!EffectivePrices : x5.amount = u * x5.quantity
         /\ x4.step = "open" /\ x5.quantity > 0 => x5.quantity = x4.quantity
         /\ x4.step # "idle" /\ ~x4.touched => x3.quantity = x4.quantity
BY DEF View!IInv, View!TypeOK, View!Current, View!Matching, View!Paying, FormPayments,
       View!NotPaying, View!NoAttempt, View!Units,
       View!WindowAssumption

\* The form submits what the cart holds.
LEMMA WindowPlace ==
  ASSUME View!WindowAssumption, View!IInv, View!PlaceOrder
  PROVE  View!IInv'
<1>1. /\ x4.step = "idle" /\ x3.quantity > 0
      /\ x4' = [step |-> "asked", quantity |-> x3.quantity,
                 button |-> x3.price * x3.quantity, stale |-> x3.stale, touched |-> FALSE]
      /\ UNCHANGED <<x1, x2, x3, x5, x6, x7>>
  BY DEF View!PlaceOrder, View!Paying
<1>2. x3.quantity \in View!Units /\ x3.price \in Int /\ x3.stale \in BOOLEAN
  BY DEF View!IInv, View!TypeOK
<1>3. x3.quantity \in Int
  BY <1>2 DEF View!Units, View!WindowAssumption
<1>4. x3.price * x3.quantity \in Int
  BY <1>2, <1>3
<1> DEFINE m == x3.price * x3.quantity
<1>5. x4' \in FormPayments
  <2>1. x4' = [step |-> "asked", quantity |-> x3.quantity,
                button |-> m, stale |-> x3.stale, touched |-> FALSE] /\ m \in Int
    BY <1>1, <1>4
  <2> HIDE DEF m
  <2> QED BY <1>2, <2>1 DEF FormPayments
<1>6. ~x4'.stale => \E u \in View!EffectivePrices : x4'.button = u * x4'.quantity
  <2>1. ~x3.stale => x3.price \in View!EffectivePrices
    BY <1>1 DEF View!IInv, View!Current
  <2>2. /\ x4'.stale = x3.stale /\ x4'.quantity = x3.quantity
        /\ x4'.button = x3.price * x3.quantity
    BY <1>1
  <2> QED BY <2>1, <2>2
<1>7. /\ x5' = x5 /\ x4'.step = "asked" /\ x4'.quantity = x3.quantity
  BY <1>1
<1> QED BY <1>1, <1>5, <1>6, <1>7, PayFacts, PayKeeps

\* The answer of the server: the window opens, or the form gives up.
LEMMA OpenedFacts ==
  ASSUME View!WindowAssumption, View!IInv, x4.step = "asked", NEW opened \in View!Opened
  PROVE  /\ opened \in FormPayments
         /\ opened.step # "idle" =>
              /\ opened.quantity = x4.quantity /\ opened.button = x4.button
              /\ opened.stale = x4.stale /\ opened.touched = x4.touched
<1>1. x4 \in FormPayments /\ View!NotPaying \in FormPayments
  BY PayFacts
<1>2. CASE opened = View!NotPaying
  BY <1>1, <1>2 DEF View!NotPaying
<1>3. CASE opened = [x4 EXCEPT !.step = "open"]
  BY <1>1, <1>3 DEF FormPayments
<1> QED BY <1>2, <1>3 DEF View!Opened

\* A pending order is answered again.
LEMMA WindowReuse ==
  ASSUME View!WindowAssumption, View!IInv, NEW opened \in View!Opened,
         View!Reuse(opened)
  PROVE  View!IInv'
<1>1. /\ x4.step = "asked" /\ x5.quantity = x4.quantity /\ x4' = opened
      /\ UNCHANGED <<x1, x2, x3, x5, x6, x7>>
  BY DEF View!Reuse
<1>2. /\ x4' \in FormPayments
      /\ x4'.step # "idle" =>
           /\ x4'.quantity = x4.quantity /\ x4'.button = x4.button
           /\ x4'.stale = x4.stale /\ x4'.touched = x4.touched
  BY <1>1, OpenedFacts
<1>3. /\ View!Paying' <=> x4'.step # "idle"
      /\ x4'.step = "open" => x4'.step # "idle"
  BY DEF View!Paying
<1> QED BY <1>1, <1>2, <1>3, PayFacts, PayKeeps

\* The order is placed at the prices of now.
LEMMA WindowInitiate ==
  ASSUME View!WindowAssumption, View!IInv, NEW opened \in View!Opened,
         View!Initiate(opened)
  PROVE  View!IInv'
<1>1. PICK price \in View!EffectivePrices :
        x5' = [quantity |-> x4.quantity, amount |-> price * x4.quantity, stale |-> FALSE]
  BY DEF View!Initiate
<1>2. /\ x4.step = "asked" /\ x4.quantity <= x1.stock /\ x4' = opened
      /\ x1' = [x1 EXCEPT !.stock = @ - x4.quantity]
      /\ UNCHANGED <<x2, x3, x6, x7>>
  BY DEF View!Initiate
<1>3. /\ x4' \in FormPayments
      /\ x4'.step # "idle" =>
           /\ x4'.quantity = x4.quantity /\ x4'.button = x4.button
           /\ x4'.stale = x4.stale /\ x4'.touched = x4.touched
  BY <1>2, OpenedFacts
<1>4. /\ View!Paying' <=> x4'.step # "idle"
      /\ x4'.step = "open" => x4'.step # "idle"
  BY DEF View!Paying
<1>5. /\ x1 \in [price : Prices, stock : View!Units, discount : ({0} \cup Percents)]
      /\ x1.stock \in Nat /\ x1.stock <= MaxUnits
      /\ x4.quantity \in View!Units /\ x4.quantity \in Nat
  BY PayFacts
     DEF View!IInv, View!TypeOK, View!Units, View!WindowAssumption, FormPayments
<1>6. x1.stock - x4.quantity \in View!Units
  BY <1>2, <1>5 DEF View!Units, View!WindowAssumption
<1>7. /\ x1' \in [price : Prices, stock : View!Units, discount : ({0} \cup Percents)]
      /\ x1'.price = x1.price /\ x1'.discount = x1.discount
  BY <1>2, <1>5, <1>6
<1>8. price \in Int
  BY <1>1, ShownPrices DEF View!IInv
<1> DEFINE m == price * x4.quantity
<1>9. m \in Int
  BY <1>5, <1>8
<1>10. x5' = [quantity |-> x4.quantity, amount |-> m, stale |-> FALSE]
  BY <1>1
<1>11. x5'.amount = price * x5'.quantity
  BY <1>10
<1> HIDE DEF m
<1>12. x5' \in [quantity : View!Units, amount : Int, stale : BOOLEAN]
  BY <1>5, <1>9, <1>10
<1>13. x5'.quantity = x4.quantity
  BY <1>10
<1> QED BY <1>2, <1>3, <1>4, <1>7, <1>11, <1>12, <1>13, PayFacts, PayKeeps

\* The form gives up.
LEMMA WindowGiveUp ==
  ASSUME View!WindowAssumption, View!IInv, View!GiveUp
  PROVE  View!IInv'
<1>1. /\ x4' = View!NotPaying
      /\ UNCHANGED <<x1, x2, x3, x5, x6, x7>>
  BY DEF View!GiveUp
<1>2. x4'.step = "idle" /\ ~View!Paying'
  BY <1>1 DEF View!NotPaying, View!Paying
<1> QED BY <1>1, <1>2, PayFacts, PayKeeps

\* The payment is verified: the cart that is cleared is the one that was bought.
LEMMA WindowVerify ==
  ASSUME View!WindowAssumption, View!IInv, NEW heard \in BOOLEAN, View!Verify(heard)
  PROVE  View!IInv'
<1>1. /\ x4.step = "open" /\ x5' = View!NoAttempt /\ x4' = View!NotPaying
      /\ UNCHANGED <<x1, x2, x7>>
  BY DEF View!Verify
<1>2. \/ /\ x3' = View!NoLine
         /\ x6' = (x6 \/ (~x4.touched /\ x3.quantity # x4.quantity))
      \/ x3' = x3 /\ x6' = x6
  BY DEF View!Verify
<1>3. x6 = FALSE
  BY DEF View!IInv, View!TypeOK, View!ClearedWasBought
<1>4. ~x4.touched => x3.quantity = x4.quantity
  BY <1>1 DEF View!IInv, View!Matching, View!Paying
<1>5. x6' = FALSE
  BY <1>2, <1>3, <1>4
<1>6. 0 \in View!Units
  BY DEF View!Units, View!WindowAssumption
<1>7. SoundLine(x3)
  BY DEF View!IInv, View!TypeOK, View!Current, View!Matching, View!HoldsWhatWasAsked,
         View!WithinStock, SoundLine, CartLines
<1>8. SoundLine(View!NoLine)
  BY <1>6 DEF View!NoLine, SoundLine, CartLines
<1>9. SoundLine(x3')
  BY <1>2, <1>7, <1>8
<1>10. View!EffectivePrices' = View!EffectivePrices
  BY <1>1, SamePrices
<1>11. ~View!Paying' /\ x4'.step = "idle" /\ x5'.quantity = 0
  BY <1>1 DEF View!Paying, View!NotPaying, View!NoAttempt
<1>12. /\ x4' \in FormPayments
       /\ x5' \in [quantity : View!Units, amount : Int, stale : BOOLEAN]
  BY <1>1, PayFacts
<1>13. View!TypeOK'
  BY <1>1, <1>5, <1>9, <1>12
     DEF View!IInv, View!TypeOK, SoundLine, CartLines, FormPayments
<1>14. View!Current'
  BY <1>1, <1>9, <1>10, <1>11 DEF View!IInv, View!Current, SoundLine
<1>15. View!Matching'
  BY <1>1, <1>9, <1>11 DEF View!IInv, View!Matching, SoundLine
<1> QED BY <1>5, <1>9, <1>13, <1>14, <1>15
         DEF View!IInv, View!ClearedWasBought, View!HoldsWhatWasAsked,
             View!WithinStock, SoundLine

\* An order is cancelled, or the vendor sets the stock.
LEMMA WindowStock ==
  ASSUME View!WindowAssumption, View!IInv, NEW n \in View!Units,
         x1' = [x1 EXCEPT !.stock = n],
         x5' \in {x5, View!NoAttempt}, UNCHANGED <<x2, x3, x4, x6, x7>>
  PROVE  View!IInv'
<1>1. /\ x1' \in [price : Prices, stock : View!Units, discount : ({0} \cup Percents)]
      /\ x1'.price = x1.price /\ x1'.discount = x1.discount
  BY DEF View!IInv, View!TypeOK
<1>2. x5' = x5 \/ x5' = View!NoAttempt
  OBVIOUS
<1>3. /\ View!Paying' <=> x4.step # "idle"
      /\ View!NoAttempt.quantity = 0
  BY DEF View!Paying, View!NoAttempt
<1>4. View!EffectivePrices' = View!EffectivePrices
  BY <1>1, SamePrices
<1>5. View!TypeOK'
  BY <1>1, <1>2, PayFacts DEF View!IInv, View!TypeOK
<1>6. View!Current'
  BY <1>2, <1>3, <1>4 DEF View!IInv, View!Current, View!Paying
<1>7. View!Matching'
  BY <1>2, <1>3 DEF View!IInv, View!Matching, View!Paying
<1> QED BY <1>5, <1>6, <1>7
            DEF View!IInv, View!ClearedWasBought, View!HoldsWhatWasAsked,
                View!WithinStock

\* A new price makes every copy of the old one stale.
LEMMA WindowReprice ==
  ASSUME View!WindowAssumption, View!IInv, NEW price \in Prices,
         NEW discount \in ({0} \cup Percents),
         View!Reprice(price, discount)
  PROVE  View!IInv'
<1>1. /\ x1' = [x1 EXCEPT !.price = price, !.discount = discount]
      /\ x7' = x7 + 1
      /\ x2' = [x2 EXCEPT !.stale = TRUE]
      /\ x3' = [x3 EXCEPT !.stale = x3.quantity > 0]
      /\ x4' = [x4 EXCEPT !.stale = View!Paying]
      /\ x5' = [x5 EXCEPT !.stale = x5.quantity > 0]
      /\ UNCHANGED x6
  BY DEF View!Reprice
<1>2. /\ x1 \in [price : Prices, stock : View!Units, discount : ({0} \cup Percents)]
      /\ x2 \in PageViews /\ x3 \in CartLines /\ x4 \in FormPayments
      /\ x5 \in [quantity : View!Units, amount : Int, stale : BOOLEAN]
      /\ x7 \in Nat /\ x6 \in BOOLEAN
  BY DEF View!IInv, View!TypeOK, PageViews, CartLines, FormPayments
<1>3. x1' \in [price : Prices, stock : View!Units, discount : ({0} \cup Percents)]
  BY <1>1, <1>2
<1>4. /\ x2' \in PageViews /\ x2'.stale = TRUE /\ x2'.picked = x2.picked
  BY <1>1, <1>2 DEF PageViews
<1>5. /\ (x3.quantity > 0) \in BOOLEAN /\ (x5.quantity > 0) \in BOOLEAN
      /\ View!Paying \in BOOLEAN
  BY DEF View!Paying
<1>6. /\ x3' \in CartLines /\ x3'.quantity = x3.quantity /\ x3'.asked = x3.asked
      /\ x3'.limit = x3.limit /\ x3'.quick = x3.quick /\ x3'.merged = x3.merged
      /\ x3'.stale = (x3.quantity > 0)
  BY <1>1, <1>2, <1>5 DEF CartLines
<1>7. /\ x4' \in FormPayments /\ x4'.step = x4.step /\ x4'.quantity = x4.quantity
      /\ x4'.touched = x4.touched /\ x4'.stale = View!Paying
  BY <1>1, <1>2, <1>5 DEF FormPayments
<1>8. /\ x5' \in [quantity : View!Units, amount : Int, stale : BOOLEAN]
      /\ x5'.quantity = x5.quantity
      /\ x5'.stale = (x5.quantity > 0)
  BY <1>1, <1>2, <1>5
<1>9. View!Paying' <=> View!Paying
  BY <1>7 DEF View!Paying
<1>10. View!TypeOK'
  BY <1>1, <1>2, <1>3, <1>4, <1>6, <1>7, <1>8
     DEF View!TypeOK, PageViews, CartLines, FormPayments
<1>11. View!Current'
  BY <1>4, <1>6, <1>7, <1>8, <1>9 DEF View!Current
<1>12. View!Matching'
  BY <1>4, <1>6, <1>7, <1>8, <1>9 DEF View!IInv, View!Matching
<1> QED BY <1>1, <1>6, <1>10, <1>11, <1>12
         DEF View!IInv, View!ClearedWasBought, View!HoldsWhatWasAsked, View!WithinStock

\* Every click, answer and edit keeps it.
LEMMA WindowNext ==
  ASSUME View!WindowAssumption, View!IInv, [View!Next]_(View!vars)
  PROVE  View!IInv'
<1>1. CASE UNCHANGED (View!vars)
  <2>1. UNCHANGED <<x1, x2, x3, x4, x5, x6, x7>>
    BY <1>1 DEF View!vars
  <2>2. View!EffectivePrices' = View!EffectivePrices
    BY <2>1, SamePrices
  <2> QED BY <2>1, <2>2
           DEF View!IInv, View!TypeOK, View!Current, View!Matching, View!Paying,
               View!ClearedWasBought, View!HoldsWhatWasAsked,
               View!WithinStock
<1>2. CASE View!LoadProducts \/ View!LoadDetails \/ View!LoadWishlist
  BY <1>2, WindowOpen DEF View!LoadProducts, View!LoadDetails, View!LoadWishlist
<1>3. ASSUME NEW n \in 1..MaxUnits,
             View!SetQty(n) \/ View!SetQuantity(n) \/ View!QuickAdd(n) \/ View!Enter(n)
      PROVE  View!IInv'
  BY <1>3, WindowPick, WindowQuickAdd, WindowEnter DEF View!SetQty, View!SetQuantity
<1>4. CASE \/ View!HandleAdd \/ View!HandleAddToCart \/ View!MoveToCart
           \/ View!Increase \/ View!Decrease \/ View!Remove
  BY <1>4, WindowAdd, WindowButtons
     DEF View!HandleAdd, View!HandleAddToCart, View!MoveToCart
<1>5. CASE View!PlaceOrder \/ View!GiveUp
  BY <1>5, WindowPlace, WindowGiveUp
<1>6. ASSUME NEW opened \in View!Opened, View!Reuse(opened) \/ View!Initiate(opened)
      PROVE  View!IInv'
  BY <1>6, WindowReuse, WindowInitiate
<1>7. ASSUME NEW heard \in BOOLEAN, View!Verify(heard)  PROVE View!IInv'
  BY <1>7, WindowVerify
<1>8. CASE View!CancelOrder
  <2>1. /\ x1' = [x1 EXCEPT !.stock = x1.stock + x5.quantity]
        /\ x5' = View!NoAttempt /\ x1.stock + x5.quantity <= MaxUnits
        /\ UNCHANGED <<x2, x3, x4, x6, x7>>
    BY <1>8 DEF View!CancelOrder
  <2>2. x1.stock \in Nat /\ x5.quantity \in Nat
    BY DEF View!IInv, View!TypeOK, View!Units, View!WindowAssumption
  <2>3. x1.stock + x5.quantity \in View!Units
    BY <2>1, <2>2 DEF View!Units, View!WindowAssumption
  <2>4. x5' \in {x5, View!NoAttempt}
    BY <2>1
  <2> QED BY <2>1, <2>3, <2>4, WindowStock
<1>9. ASSUME NEW n \in View!Units, View!SetStock(n)  PROVE View!IInv'
  <2>1. /\ x1' = [x1 EXCEPT !.stock = n] /\ x5' \in {x5, View!NoAttempt}
        /\ UNCHANGED <<x2, x3, x4, x6, x7>>
    BY <1>9 DEF View!SetStock
  <2> QED BY <2>1, WindowStock
<1>10. ASSUME NEW price \in Prices, NEW discount \in ({0} \cup Percents),
              View!Reprice(price, discount)
       PROVE  View!IInv'
  BY <1>10, WindowReprice
<1> QED BY <1>1, <1>2, <1>3, <1>4, <1>5, <1>6, <1>7, <1>8, <1>9, <1>10 DEF View!Next

\* So the provider asks for what the button said.
LEMMA WindowSafe ==
  ASSUME View!WindowAssumption, View!IInv
  PROVE  View!ChargedAsShown
<1> SUFFICES ASSUME x4.step = "open", x5.quantity > 0, ~x4.stale, ~x5.stale
             PROVE  /\ x5.quantity = x4.quantity
                    /\ x5.amount - x4.button \in -x4.quantity .. x4.quantity
                    /\ x5.amount = x4.button \/ View!HalfCent
  BY DEF View!ChargedAsShown
<1>1. x5.quantity = x4.quantity /\ x4.quantity \in Nat
  BY DEF View!IInv, View!TypeOK, View!Matching, View!Units, View!WindowAssumption
<1>2. PICK u \in View!EffectivePrices : x4.button = u * x4.quantity
  BY DEF View!IInv, View!Current, View!Paying
<1>3. PICK v \in View!EffectivePrices : x5.amount = v * x4.quantity
  BY <1>1 DEF View!IInv, View!Current
<1>4. u \in Int /\ v \in Int /\ (u = v \/ ((u - v = 1 \/ v - u = 1) /\ View!HalfCent))
  BY ShownPrices DEF View!IInv
<1> DEFINE n == x4.quantity
<1>5. n \in Nat /\ x4.button = u * n /\ x5.amount = v * n
  BY <1>1, <1>2, <1>3
<1> HIDE DEF n
<1>6. CASE u = v
  <2>1. x5.amount = x4.button /\ x4.button \in Int
    BY <1>4, <1>5, <1>6
  <2>2. x5.amount - x4.button = 0
    BY <2>1
  <2> QED BY <1>1, <1>5, <2>1, <2>2 DEF n
<1>7. CASE v = u + 1 /\ View!HalfCent
  <2>1. v * n = u * n + n /\ u * n \in Int
    BY <1>4, <1>5, <1>7
  <2>2. x5.amount - x4.button = n
    BY <1>5, <2>1
  <2> QED BY <1>1, <1>5, <1>7, <2>2 DEF n
<1>8. CASE u = v + 1 /\ View!HalfCent
  <2>1. u * n = v * n + n /\ v * n \in Int
    BY <1>4, <1>5, <1>8
  <2>2. x5.amount - x4.button = -n
    BY <1>5, <2>1
  <2> QED BY <1>1, <1>5, <1>8, <2>2 DEF n
<1> QED BY <1>4, <1>6, <1>7, <1>8

---------------------------------------
\* The modules with proofs of their own: the service and its instance here are
\* the same definitions.

MP == INSTANCE MembershipProofs WITH
  user <- x1, app <- x2, vendor <- x3, pc <- x4, req <- x5
BP == INSTANCE AddressesProofs WITH
  table <- x1, pc <- x2, req <- x3, addr <- x4, overlapped <- x5
FP == INSTANCE StorefrontProofs WITH
  tokens <- x1, user <- x2, latest <- x3, call <- x4, crossed <- x5, cart <- x6,
  savedCarts <- x7, wishlist <- x8, savedWishlists <- x9, pay <- x10, told <- x11
GP == INSTANCE PagesProofs WITH
  page <- x1, question <- x2, newest <- x3, flight <- x4, act <- x5, committed <- x6,
  shown <- x7, failed <- x8, finished <- x9, crossed <- x10

\* The start and the steps of accounts and applications.
LEMMA MembershipSame ==
  /\ Members!NamesAssumption => MP!NamesAssumption
  /\ Members!Init => MP!Init
  /\ [Members!Next]_(Members!vars) => [MP!Next]_(MP!vars)
<1>1. Members!NamesAssumption => MP!NamesAssumption
  BY DEF Members!NamesAssumption, MP!NamesAssumption
<1>2. Members!Init => MP!Init
  BY DEF Members!vars, MP!vars, Members!NoApplication, MP!NoApplication,
         Members!Submission, MP!Submission, Members!Review, MP!Review,
         Members!Link, MP!Link, Members!Request, MP!Request, Members!Init,
         MP!Init, Members!Goto, MP!Goto, Members!End, MP!End, Members!Begin,
         MP!Begin, Members!Abort, MP!Abort, Members!Pending, MP!Pending,
         Members!FindPending, MP!FindPending, Members!InsertAgain,
         MP!InsertAgain, Members!InsertApplication, MP!InsertApplication,
         Members!Reviewing, MP!Reviewing, Members!ReadApplication,
         MP!ReadApplication, Members!LockApplication, MP!LockApplication,
         Members!Approving, MP!Approving, Members!Named, MP!Named,
         Members!Unused, MP!Unused, Members!FindVendor, MP!FindVendor,
         Members!Approve, MP!Approve, Members!Reject, MP!Reject,
         Members!Linkable, MP!Linkable, Members!CheckLink, MP!CheckLink,
         Members!WriteLink, MP!WriteLink, Members!CheckUnlink, MP!CheckUnlink,
         Members!WriteUnlink, MP!WriteUnlink, Members!Next, MP!Next
<1>3. Members!Next => MP!Next
  BY DEF Members!vars, MP!vars, Members!NoApplication, MP!NoApplication,
         Members!Submission, MP!Submission, Members!Review, MP!Review,
         Members!Link, MP!Link, Members!Request, MP!Request, Members!Init,
         MP!Init, Members!Goto, MP!Goto, Members!End, MP!End, Members!Begin,
         MP!Begin, Members!Abort, MP!Abort, Members!Pending, MP!Pending,
         Members!FindPending, MP!FindPending, Members!InsertAgain,
         MP!InsertAgain, Members!InsertApplication, MP!InsertApplication,
         Members!Reviewing, MP!Reviewing, Members!ReadApplication,
         MP!ReadApplication, Members!LockApplication, MP!LockApplication,
         Members!Approving, MP!Approving, Members!Named, MP!Named,
         Members!Unused, MP!Unused, Members!FindVendor, MP!FindVendor,
         Members!Approve, MP!Approve, Members!Reject, MP!Reject,
         Members!Linkable, MP!Linkable, Members!CheckLink, MP!CheckLink,
         Members!WriteLink, MP!WriteLink, Members!CheckUnlink, MP!CheckUnlink,
         Members!WriteUnlink, MP!WriteUnlink, Members!Next, MP!Next
<1>4. UNCHANGED (Members!vars) => UNCHANGED (MP!vars)
  BY DEF Members!vars, MP!vars
<1> QED BY <1>1, <1>2, <1>3, <1>4

\* The start and the steps of the address book.
LEMMA AddressesSame ==
  /\ Book!NamesAssumption => BP!NamesAssumption
  /\ Book!Init => BP!Init
  /\ [Book!Next]_(Book!vars) => [BP!Next]_(BP!vars)
<1>1. Book!NamesAssumption => BP!NamesAssumption
  BY DEF Book!NamesAssumption, BP!NamesAssumption, Book!Row, BP!Row
<1>2. Book!Init => BP!Init
  BY DEF Book!vars, BP!vars, Book!Row, BP!Row, Book!Columns, BP!Columns,
         Book!Mention, BP!Mention, Book!Request, BP!Request, Book!Sensible,
         BP!Sensible, Book!Init, BP!Init, Book!Goto, BP!Goto, Book!End, BP!End,
         Book!Begin, BP!Begin, Book!Abort, BP!Abort, Book!Body, BP!Body,
         Book!Creating, BP!Creating, Book!Taken, BP!Taken, Book!Load, BP!Load,
         Book!Remove, BP!Remove, Book!NewLabel, BP!NewLabel, Book!BecomesDefault,
         BP!BecomesDefault, Book!CheckLabel, BP!CheckLabel, Book!KeepDefaults,
         BP!KeepDefaults, Book!UnsetDefaults, BP!UnsetDefaults, Book!Insert,
         BP!Insert, Book!Assigned, BP!Assigned, Book!Compare, BP!Compare,
         Book!Save, BP!Save, Book!Next, BP!Next
<1>3. Book!Next => BP!Next
  BY DEF Book!vars, BP!vars, Book!Row, BP!Row, Book!Columns, BP!Columns,
         Book!Mention, BP!Mention, Book!Request, BP!Request, Book!Sensible,
         BP!Sensible, Book!Init, BP!Init, Book!Goto, BP!Goto, Book!End, BP!End,
         Book!Begin, BP!Begin, Book!Abort, BP!Abort, Book!Body, BP!Body,
         Book!Creating, BP!Creating, Book!Taken, BP!Taken, Book!Load, BP!Load,
         Book!Remove, BP!Remove, Book!NewLabel, BP!NewLabel, Book!BecomesDefault,
         BP!BecomesDefault, Book!CheckLabel, BP!CheckLabel, Book!KeepDefaults,
         BP!KeepDefaults, Book!UnsetDefaults, BP!UnsetDefaults, Book!Insert,
         BP!Insert, Book!Assigned, BP!Assigned, Book!Compare, BP!Compare,
         Book!Save, BP!Save, Book!Next, BP!Next
<1>4. UNCHANGED (Book!vars) => UNCHANGED (BP!vars)
  BY DEF Book!vars, BP!vars
<1> QED BY <1>1, <1>2, <1>3, <1>4

\* The start and the steps of the browser.
LEMMA StorefrontSame ==
  /\ Browser!BrowserAssumption => FP!BrowserAssumption
  /\ Browser!Init => FP!Init
  /\ [Browser!Next]_(Browser!vars) => [FP!Next]_(FP!vars)
<1>1. Browser!BrowserAssumption => FP!BrowserAssumption
  BY DEF Browser!BrowserAssumption, FP!BrowserAssumption
<1>2. Browser!Init => FP!Init
  BY DEF Browser!session, FP!session, Browser!lists, FP!lists, Browser!vars,
         FP!vars, Browser!Owners, FP!Owners, Browser!Idle, FP!Idle,
         Browser!NoAttempt, FP!NoAttempt, Browser!Init, FP!Init,
         Browser!ActivateUnsuppressed, FP!ActivateUnsuppressed,
         Browser!ActivateCartUser, FP!ActivateCartUser,
         Browser!ActivateWishlistUser, FP!ActivateWishlistUser, Browser!SetCart,
         FP!SetCart, Browser!Clickable, FP!Clickable, Browser!Capped, FP!Capped,
         Browser!AddToCart, FP!AddToCart, Browser!UpdateQuantity,
         FP!UpdateQuantity, Browser!ToggleWishlist, FP!ToggleWishlist,
         Browser!Show, FP!Show, Browser!Begin, FP!Begin, Browser!EndCall,
         FP!EndCall, Browser!Restoring, FP!Restoring, Browser!NeverStale,
         FP!NeverStale, Browser!IsStale, FP!IsStale, Browser!Discard, FP!Discard,
         Browser!Restore, FP!Restore, Browser!MeAnswers, FP!MeAnswers,
         Browser!MeFails, FP!MeFails, Browser!RotateAnswers, FP!RotateAnswers,
         Browser!RotateFails, FP!RotateFails, Browser!Login, FP!Login,
         Browser!Land, FP!Land, Browser!LoginAnswers, FP!LoginAnswers,
         Browser!LoginFails, FP!LoginFails, Browser!Logout, FP!Logout,
         Browser!LogoutAnswers, FP!LogoutAnswers, Browser!Tell, FP!Tell,
         Browser!Settle, FP!Settle, Browser!Pay, FP!Pay,
         Browser!InitiationAnswers, FP!InitiationAnswers,
         Browser!InitiationFails, FP!InitiationFails, Browser!Handler,
         FP!Handler, Browser!DismissAlways, FP!DismissAlways, Browser!Dismiss,
         FP!Dismiss, Browser!VerificationAnswers, FP!VerificationAnswers,
         Browser!VerificationFails, FP!VerificationFails, Browser!Next, FP!Next
<1>3. Browser!Next => FP!Next
  BY DEF Browser!session, FP!session, Browser!lists, FP!lists, Browser!vars,
         FP!vars, Browser!Owners, FP!Owners, Browser!Idle, FP!Idle,
         Browser!NoAttempt, FP!NoAttempt, Browser!Init, FP!Init,
         Browser!ActivateUnsuppressed, FP!ActivateUnsuppressed,
         Browser!ActivateCartUser, FP!ActivateCartUser,
         Browser!ActivateWishlistUser, FP!ActivateWishlistUser, Browser!SetCart,
         FP!SetCart, Browser!Clickable, FP!Clickable, Browser!Capped, FP!Capped,
         Browser!AddToCart, FP!AddToCart, Browser!UpdateQuantity,
         FP!UpdateQuantity, Browser!ToggleWishlist, FP!ToggleWishlist,
         Browser!Show, FP!Show, Browser!Begin, FP!Begin, Browser!EndCall,
         FP!EndCall, Browser!Restoring, FP!Restoring, Browser!NeverStale,
         FP!NeverStale, Browser!IsStale, FP!IsStale, Browser!Discard, FP!Discard,
         Browser!Restore, FP!Restore, Browser!MeAnswers, FP!MeAnswers,
         Browser!MeFails, FP!MeFails, Browser!RotateAnswers, FP!RotateAnswers,
         Browser!RotateFails, FP!RotateFails, Browser!Login, FP!Login,
         Browser!Land, FP!Land, Browser!LoginAnswers, FP!LoginAnswers,
         Browser!LoginFails, FP!LoginFails, Browser!Logout, FP!Logout,
         Browser!LogoutAnswers, FP!LogoutAnswers, Browser!Tell, FP!Tell,
         Browser!Settle, FP!Settle, Browser!Pay, FP!Pay,
         Browser!InitiationAnswers, FP!InitiationAnswers,
         Browser!InitiationFails, FP!InitiationFails, Browser!Handler,
         FP!Handler, Browser!DismissAlways, FP!DismissAlways, Browser!Dismiss,
         FP!Dismiss, Browser!VerificationAnswers, FP!VerificationAnswers,
         Browser!VerificationFails, FP!VerificationFails, Browser!Next, FP!Next
<1>4. UNCHANGED (Browser!vars) => UNCHANGED (FP!vars)
  BY DEF Browser!vars, FP!vars, Browser!session, FP!session, Browser!lists, FP!lists
<1> QED BY <1>1, <1>2, <1>3, <1>4

\* The start and the steps of a page.
LEMMA PagesSame ==
  /\ Screen!BoundAssumption => GP!BoundAssumption
  /\ Screen!Init => GP!Init
  /\ [Screen!Next]_(Screen!vars) => [GP!Next]_(GP!vars)
<1>1. Screen!BoundAssumption => GP!BoundAssumption
  BY DEF Screen!BoundAssumption, GP!BoundAssumption
<1>2. Screen!Init => GP!Init
  BY DEF Screen!vars, GP!vars, Screen!Plain, GP!Plain, Screen!Flagged,
         GP!Flagged, Screen!Numbered, GP!Numbered, Screen!AdminOrders,
         GP!AdminOrders, Screen!AdminDeadLetter, GP!AdminDeadLetter,
         Screen!VendorApplications, GP!VendorApplications, Screen!AdminVendors,
         GP!AdminVendors, Screen!AdminCategories, GP!AdminCategories,
         Screen!AuditLogs, GP!AuditLogs, Screen!AuditLogModal, GP!AuditLogModal,
         Screen!AdminDisputes, GP!AdminDisputes, Screen!AdminRefunds,
         GP!AdminRefunds, Screen!AdminPayments, GP!AdminPayments,
         Screen!LinkedUsers, GP!LinkedUsers, Screen!AdminOrderDetail,
         GP!AdminOrderDetail, Screen!AdminTelemetry, GP!AdminTelemetry,
         Screen!AdminAnalytics, GP!AdminAnalytics, Screen!Overview, GP!Overview,
         Screen!VendorOrders, GP!VendorOrders, Screen!VendorPromotions,
         GP!VendorPromotions, Screen!VendorProducts, GP!VendorProducts,
         Screen!VendorInventory, GP!VendorInventory, Screen!VendorDashboard,
         GP!VendorDashboard, Screen!VendorDeadLetter, GP!VendorDeadLetter,
         Screen!VendorPayouts, GP!VendorPayouts, Screen!ProductsPage,
         GP!ProductsPage, Screen!ProductPage, GP!ProductPage,
         Screen!VendorStorefront, GP!VendorStorefront, Screen!AccountAddresses,
         GP!AccountAddresses, Screen!VendorsDirectory, GP!VendorsDirectory,
         Screen!BuyerOrders, GP!BuyerOrders, Screen!DealsPage, GP!DealsPage,
         Screen!HomePage, GP!HomePage, Screen!ForYouPage, GP!ForYouPage,
         Screen!AllPages, GP!AllPages, Screen!NewLoad, GP!NewLoad, Screen!NoAct,
         GP!NoAct, Screen!Init, GP!Init, Screen!Load, GP!Load, Screen!Stage,
         GP!Stage, Screen!Acting, GP!Acting, Screen!Ask, GP!Ask, Screen!Again,
         GP!Again, Screen!Read, GP!Read, Screen!NeverStale, GP!NeverStale,
         Screen!Stale, GP!Stale, Screen!Answer, GP!Answer, Screen!LoadFails,
         GP!LoadFails, Screen!Press, GP!Press, Screen!Commit, GP!Commit,
         Screen!ActAnswers, GP!ActAnswers, Screen!ActFails, GP!ActFails,
         Screen!Next, GP!Next
<1>3. Screen!Next => GP!Next
  BY DEF Screen!vars, GP!vars, Screen!Plain, GP!Plain, Screen!Flagged,
         GP!Flagged, Screen!Numbered, GP!Numbered, Screen!AdminOrders,
         GP!AdminOrders, Screen!AdminDeadLetter, GP!AdminDeadLetter,
         Screen!VendorApplications, GP!VendorApplications, Screen!AdminVendors,
         GP!AdminVendors, Screen!AdminCategories, GP!AdminCategories,
         Screen!AuditLogs, GP!AuditLogs, Screen!AuditLogModal, GP!AuditLogModal,
         Screen!AdminDisputes, GP!AdminDisputes, Screen!AdminRefunds,
         GP!AdminRefunds, Screen!AdminPayments, GP!AdminPayments,
         Screen!LinkedUsers, GP!LinkedUsers, Screen!AdminOrderDetail,
         GP!AdminOrderDetail, Screen!AdminTelemetry, GP!AdminTelemetry,
         Screen!AdminAnalytics, GP!AdminAnalytics, Screen!Overview, GP!Overview,
         Screen!VendorOrders, GP!VendorOrders, Screen!VendorPromotions,
         GP!VendorPromotions, Screen!VendorProducts, GP!VendorProducts,
         Screen!VendorInventory, GP!VendorInventory, Screen!VendorDashboard,
         GP!VendorDashboard, Screen!VendorDeadLetter, GP!VendorDeadLetter,
         Screen!VendorPayouts, GP!VendorPayouts, Screen!ProductsPage,
         GP!ProductsPage, Screen!ProductPage, GP!ProductPage,
         Screen!VendorStorefront, GP!VendorStorefront, Screen!AccountAddresses,
         GP!AccountAddresses, Screen!VendorsDirectory, GP!VendorsDirectory,
         Screen!BuyerOrders, GP!BuyerOrders, Screen!DealsPage, GP!DealsPage,
         Screen!HomePage, GP!HomePage, Screen!ForYouPage, GP!ForYouPage,
         Screen!AllPages, GP!AllPages, Screen!NewLoad, GP!NewLoad, Screen!NoAct,
         GP!NoAct, Screen!Init, GP!Init, Screen!Load, GP!Load, Screen!Stage,
         GP!Stage, Screen!Acting, GP!Acting, Screen!Ask, GP!Ask, Screen!Again,
         GP!Again, Screen!Read, GP!Read, Screen!NeverStale, GP!NeverStale,
         Screen!Stale, GP!Stale, Screen!Answer, GP!Answer, Screen!LoadFails,
         GP!LoadFails, Screen!Press, GP!Press, Screen!Commit, GP!Commit,
         Screen!ActAnswers, GP!ActAnswers, Screen!ActFails, GP!ActFails,
         Screen!Next, GP!Next
<1>4. UNCHANGED (Screen!vars) => UNCHANGED (GP!vars)
  BY DEF Screen!vars, GP!vars
<1> QED BY <1>1, <1>2, <1>3, <1>4

---------------------------------------
\* All of them.

\* The invariant of the service that runs.
Invariant ==
  /\ service = "rows" => Rows!IInv
  /\ service = "payouts" => Payees!IInv
  /\ service = "queues" => Workers!IInv
  /\ service = "seeding" => Seeder!IInv
  /\ service = "membership" => MP!IInv
  /\ service = "addresses" => BP!IInv
  /\ service = "storefront" => FP!IInv
  /\ service = "pages" => GP!IInv
  /\ service = "audit" => Auditor!IInv
  /\ service = "pricing" => Pricing!IInv
  /\ service = "listing" => Reader!IInv
  /\ service = "scripts" => Script!IInv
  /\ service = "startup" => Starter!IInv
  /\ service = "migrations" => Schema!IInv
  /\ service = "account" => Account!IInv
  /\ service = "tokens" => Tickets!IInv
  /\ service = "window" => View!IInv

\* A behaviour starts as one service does.
LEMMA ServicesInit ==
  ASSUME Init
  PROVE  Invariant
<1>1. service = "rows" => Rows!IInv
  BY ServicesAssumption, RowsInit DEF Init
<1>2. service = "payouts" => Payees!IInv
  BY ServicesAssumption, PayoutsInit DEF Init
<1>3. service = "queues" => Workers!IInv
  BY ServicesAssumption, QueuesInit DEF Init
<1>4. service = "seeding" => Seeder!IInv
  BY ServicesAssumption, SeedingInit DEF Init
<1>5. service = "membership" => MP!IInv
  BY ServicesAssumption, MembershipSame, MP!InitHolds DEF Init
<1>6. service = "addresses" => BP!IInv
  BY ServicesAssumption, AddressesSame, BP!InitHolds DEF Init
<1>7. service = "storefront" => FP!IInv
  BY ServicesAssumption, StorefrontSame, FP!InitHolds DEF Init
<1>8. service = "pages" => GP!IInv
  BY ServicesAssumption, PagesSame, GP!InitHolds DEF Init
<1>9. service = "audit" => Auditor!IInv
  BY ServicesAssumption, AuditInit DEF Init
<1>10. service = "pricing" => Pricing!IInv
  BY ServicesAssumption, PricingInit DEF Init
<1>11. service = "listing" => Reader!IInv
  BY ServicesAssumption, ListInit DEF Init
<1>12. service = "scripts" => Script!IInv
  BY ServicesAssumption, ScriptsInit DEF Init
<1>13. service = "startup" => Starter!IInv
  BY ServicesAssumption, StartInit DEF Init
<1>14. service = "migrations" => Schema!IInv
  BY ServicesAssumption, MigrationInit DEF Init
<1>15. service = "account" => Account!IInv
  BY ServicesAssumption, AccountInit DEF Init
<1>16. service = "tokens" => Tickets!IInv
  BY ServicesAssumption, TicketsInit DEF Init
<1>17. service = "window" => View!IInv
  BY ServicesAssumption, WindowInit DEF Init
<1> QED BY <1>1, <1>2, <1>3, <1>4, <1>5, <1>6, <1>7, <1>8, <1>9,
             <1>10, <1>11, <1>12, <1>13, <1>14, <1>15, <1>16, <1>17 DEF Invariant

\* And goes on as it does: a step is one of the service chosen at the start.
LEMMA StepsOfOne ==
  ASSUME [Next]_vars
  PROVE  /\ service' = service
         /\ service = "rows" => [Rows!Next]_(Rows!vars)
         /\ service = "payouts" => [Payees!Next]_(Payees!vars)
         /\ service = "queues" => [Workers!Next]_(Workers!vars)
         /\ service = "seeding" => [Seeder!Next]_(Seeder!vars)
         /\ service = "membership" => [Members!Next]_(Members!vars)
         /\ service = "addresses" => [Book!Next]_(Book!vars)
         /\ service = "storefront" => [Browser!Next]_(Browser!vars)
         /\ service = "pages" => [Screen!Next]_(Screen!vars)
         /\ service = "audit" => [Auditor!Next]_(Auditor!vars)
         /\ service = "pricing" => [Pricing!Next]_(Pricing!vars)
         /\ service = "listing" => [Reader!Next]_(Reader!vars)
         /\ service = "scripts" => [Script!Next]_(Script!vars)
         /\ service = "startup" => [Starter!Next]_(Starter!vars)
         /\ service = "migrations" => [Schema!Next]_(Schema!vars)
         /\ service = "account" => [Account!Next]_(Account!vars)
         /\ service = "tokens" => [Tickets!Next]_(Tickets!vars)
         /\ service = "window" => [View!Next]_(View!vars)
<1>1. CASE UNCHANGED vars
  BY <1>1 DEF vars, Rows!vars, Payees!vars, Payees!history, Workers!vars, Seeder!vars,
              Members!vars, Book!vars, Browser!vars, Browser!session, Browser!lists,
              Screen!vars, Auditor!vars, Pricing!vars, Pricing!checkouts, Script!vars,
              Starter!vars, Reader!vars, Schema!vars,
              Account!vars, Tickets!vars, View!vars
<1>2. CASE Next
  BY <1>2 DEF Next, RowStep, PricingStep, MembershipStep, AddressStep, QueueStep,
              StorefrontStep, PayoutStep, SeedingStep, PageStep, MigrationStep,
              ContractStep, ListingStep, AuditStep, ScriptStep, StartupStep,
              AccountStep, TokenStep, WindowStep
<1> QED BY <1>1, <1>2

\* Every step of every service keeps its invariant.
LEMMA ServicesNext ==
  ASSUME Invariant, [Next]_vars
  PROVE  Invariant'
<1>1. ASSUME service = "rows" PROVE Rows!IInv'
  BY <1>1, ServicesAssumption, StepsOfOne, RowsNext DEF Invariant
<1>2. ASSUME service = "payouts" PROVE Payees!IInv'
  BY <1>2, ServicesAssumption, StepsOfOne, PayoutsNext DEF Invariant
<1>3. ASSUME service = "queues" PROVE Workers!IInv'
  BY <1>3, ServicesAssumption, StepsOfOne, QueuesNext DEF Invariant
<1>4. ASSUME service = "seeding" PROVE Seeder!IInv'
  BY <1>4, ServicesAssumption, StepsOfOne, SeedingNext DEF Invariant
<1>5. ASSUME service = "membership" PROVE MP!IInv'
  BY <1>5, ServicesAssumption, StepsOfOne, MembershipSame, MP!NextHolds DEF Invariant
<1>6. ASSUME service = "addresses" PROVE BP!IInv'
  BY <1>6, ServicesAssumption, StepsOfOne, AddressesSame, BP!NextHolds DEF Invariant
<1>7. ASSUME service = "storefront" PROVE FP!IInv'
  BY <1>7, ServicesAssumption, StepsOfOne, StorefrontSame, FP!NextHolds DEF Invariant
<1>8. ASSUME service = "pages" PROVE GP!IInv'
  BY <1>8, ServicesAssumption, StepsOfOne, PagesSame, GP!NextHolds DEF Invariant
<1>9. ASSUME service = "audit" PROVE Auditor!IInv'
  BY <1>9, ServicesAssumption, StepsOfOne, AuditNext DEF Invariant
<1>10. ASSUME service = "pricing" PROVE Pricing!IInv'
  BY <1>10, ServicesAssumption, StepsOfOne, PricingNext DEF Invariant
<1>11. ASSUME service = "listing" PROVE Reader!IInv'
  BY <1>11, ServicesAssumption, StepsOfOne, ListNext DEF Invariant
<1>12. ASSUME service = "scripts" PROVE Script!IInv'
  BY <1>12, ServicesAssumption, StepsOfOne, ScriptsNext DEF Invariant
<1>13. ASSUME service = "startup" PROVE Starter!IInv'
  BY <1>13, ServicesAssumption, StepsOfOne, StartNext DEF Invariant
<1>14. ASSUME service = "migrations" PROVE Schema!IInv'
  BY <1>14, ServicesAssumption, StepsOfOne, MigrationsNext DEF Invariant
<1>15. ASSUME service = "account" PROVE Account!IInv'
  BY <1>15, ServicesAssumption, StepsOfOne, AccountNext DEF Invariant
<1>16. ASSUME service = "tokens" PROVE Tickets!IInv'
  BY <1>16, ServicesAssumption, StepsOfOne, TicketsNext DEF Invariant
<1>17. ASSUME service = "window" PROVE View!IInv'
  BY <1>17, ServicesAssumption, StepsOfOne, WindowNext DEF Invariant
<1> QED BY <1>1, <1>2, <1>3, <1>4, <1>5, <1>6, <1>7, <1>8, <1>9,
             <1>10, <1>11, <1>12, <1>13, <1>14, <1>15, <1>16, <1>17, StepsOfOne
         DEF Invariant

\* So the invariant of the service that runs always holds.
THEOREM ServicesInvariance == Spec => []Invariant
<1>1. Init => Invariant
  BY ServicesInit
<1>2. Invariant /\ [Next]_vars => Invariant'
  BY ServicesNext
<1> QED BY <1>1, <1>2, PTL DEF Spec

\* Callers that race for a row under a unique key, or retry, are told what is
\* stored: no two of them a different amount.
THEOREM CallersGetOneAnswer == Spec => []OneAnswer
<1>1. Invariant => OneAnswer
  BY DEF Invariant, OneAnswer, Rows!IInv
<1> QED BY <1>1, ServicesInvariance, PTL

\* The account in use is one that staff activated under that row, a row that was
\* unlinked is not there again unless requests raced, and no transfer is instructed
\* before an account was activated.
THEOREM PaidWhereStaffApproved == Spec => []PaidWhereApproved
<1>1. Invariant => PaidWhereApproved
  BY PayoutsSafe DEF Invariant, PaidWhereApproved
<1> QED BY <1>1, ServicesInvariance, PTL

\* A vendor with a waiting job has a worker, unless a restart took it, and never
\* more jobs running than maxConcurrencyPerVendor.
THEOREM WaitingJobsHaveWorkers == Spec => []JobsHaveWorkers
<1>1. Invariant => JobsHaveWorkers
  BY QueuesSafe DEF Invariant, JobsHaveWorkers
<1> QED BY <1>1, ServicesInvariance, PTL

\* However often the seeder runs, no vendor and no product is seeded twice and what
\* it calls seeded is whole, unless two overlapped or one did not finish.
THEOREM SeedingIsIdempotent == Spec => []SeededOnce
<1>1. Invariant => SeededOnce
  BY ServicesAssumption, SeedingSafe DEF Invariant, SeededOnce
<1> QED BY <1>1, ServicesInvariance, PTL

\* An account has at most one pending application, whoever submits, reviews and
\* links at the same time.  It has the role that creation or staff set last, unless
\* it was set while a password was being saved; and a link reported as delivered is
\* stored until it is used or too old.
THEOREM AccountsAreSound == Spec => []AccountsSound
<1>1. service = "membership" /\ MP!IInv => Members!OnePending
  <2>1. MP!OnePending => Members!OnePending
    BY DEF MP!OnePending, Members!OnePending, MP!Pending, Members!Pending,
           MP!Cardinality, Members!Cardinality, MP!IsFiniteSet, Members!IsFiniteSet
  <2> QED BY <2>1, ServicesAssumption, MembershipSame, MP!AtMostOne
<1>2. Invariant => AccountsSound
  BY <1>1 DEF Invariant, AccountsSound, Account!IInv
<1> QED BY <1>2, ServicesInvariance, PTL

\* A decision on an application is final, and only the approval of its application
\* moves an account to a vendor or from one vendor to another.
THEOREM DecisionsAreFinal == Spec => DecisionIsFinal
<1>1. /\ MP!DecisionKept => Members!DecisionKept
      /\ MP!ApprovedOrBuyer => Members!ApprovedOrBuyer
  BY DEF MP!DecisionKept, Members!DecisionKept, MP!ApprovedOrBuyer, Members!ApprovedOrBuyer
<1>2. ASSUME Invariant, [Next]_vars, service = "membership"
      PROVE  Members!DecisionKept /\ Members!ApprovedOrBuyer
  <2>1. MP!NamesAssumption /\ MP!IInv /\ [MP!Next]_(MP!vars)
    BY <1>2, ServicesAssumption, StepsOfOne, MembershipSame DEF Invariant
  <2> QED BY <1>1, <2>1, MP!DecisionStep, MP!AccountStep
<1>3. Invariant /\ [Next]_vars =>
        [service = "membership" => Members!DecisionKept /\ Members!ApprovedOrBuyer]_vars
  BY <1>2
<1> QED BY <1>3, ServicesInvariance, PTL DEF Spec, DecisionIsFinal

\* A customer whose requests did not overlap has one default address, and no two
\* addresses with one label.
THEOREM OneDefaultAddress == Spec => []OneDefaultUnlessRaced
<1>1. Invariant => OneDefaultUnlessRaced
  BY DEF Invariant, OneDefaultUnlessRaced, BP!IInv, BP!OneDefaultUnlessRaced,
         Book!OneDefaultUnlessRaced
<1> QED BY <1>1, ServicesInvariance, PTL

\* The identity on the screen is that of the stored tokens, whatever restores,
\* logins and logouts overtake one another, unless two logins crossed.  At most one
\* refresh token of a login is good, however often they are exchanged, revoked,
\* expired or purged, unless two refreshes held the same one.
THEOREM SessionsAreSound == Spec => []SessionsSound
<1>1. Invariant => SessionsSound
  BY DEF Invariant, SessionsSound, FP!IInv, FP!SessionAgrees, Browser!SessionAgrees,
         Tickets!IInv
<1> QED BY <1>1, ServicesInvariance, PTL

\* A payment attempt tells its buyer one outcome, and that it was closed only if the
\* verification has not begun.
THEOREM PaymentsHaveOneOutcome == Spec => []OneOutcome
<1>1. Invariant => OneOutcome
  BY DEF Invariant, OneOutcome, FP!IInv, FP!OneOutcome, Browser!OneOutcome
<1> QED BY <1>1, ServicesInvariance, PTL

\* Changing accounts alters the cart and the wishlist of nobody else.
THEOREM ListsAreKept == Spec => ListsKept
<1>1. ASSUME Invariant, [Next]_vars, service = "storefront"
      PROVE  [Browser!OnlyTheOwnersChange]_vars
  <2>1. FP!BrowserAssumption /\ FP!IInv /\ [FP!Next]_(FP!vars)
    BY <1>1, ServicesAssumption, StepsOfOne, StorefrontSame DEF Invariant
  <2>2. [FP!OnlyTheOwnersChange]_(FP!vars)
    BY <2>1, FP!NextHolds
  <2>3. UNCHANGED (FP!vars) => UNCHANGED vars
    BY <1>1, StepsOfOne DEF FP!vars, FP!session, FP!lists, vars
  <2>4. FP!OnlyTheOwnersChange => Browser!OnlyTheOwnersChange
    BY DEF FP!OnlyTheOwnersChange, Browser!OnlyTheOwnersChange, FP!KeptForItsOwner,
           Browser!KeptForItsOwner, FP!Owners, Browser!Owners
  <2> QED BY <2>2, <2>3, <2>4
<1>2. Invariant /\ [Next]_vars =>
        [service = "storefront" => Browser!OnlyTheOwnersChange]_vars
  BY <1>1
<1> QED BY <1>2, ServicesInvariance, PTL DEF Spec, ListsKept

\* A page that drops stale answers and loads again after its actions shows, once its
\* newest load is answered, the answer to the question on its screen with every
\* action it reported; any other page does as long as nothing overlapped.
THEOREM ScreensAnswer == Spec => []ScreenAnswers
<1>1. Invariant => ScreenAnswers
  BY GP!AnswersShown DEF Invariant, ScreenAnswers, GP!ScreenAnswers, Screen!ScreenAnswers,
     GP!Settled, Screen!Settled
<1> QED BY <1>1, ServicesInvariance, PTL

\* The entries of committed requests, in the order of their insertion, lead from the
\* first stock of a product to its present one without a gap, for any number of
\* requests at a time and of products, unless a PATCH set the stock.
THEOREM TrailExplainsTheStock == Spec => []TrailExplainsStock
<1>1. Invariant => TrailExplainsStock
  BY DEF Invariant, TrailExplainsStock, Auditor!IInv
<1> QED BY <1>1, ServicesInvariance, PTL

\* A plain checkout applies only what staff approved and its parts add up to the
\* price although promotions change meanwhile; both checkouts round a discount by at
\* most half a cent a unit; an allocation gives away neither more nor less than the
\* line; the provider asks for what the form said, unless that was out of date, of a
\* cart that holds what was asked for; and a payment clears the cart that was bought.
\* For all prices, quantities, discounts, shares, policies and stock.
THEOREM AmountsAlwaysAddUp == Spec => []AmountsAddUp
<1>1. Invariant => AmountsAddUp
  BY ServicesAssumption, PricingSafe, WindowSafe DEF Invariant, AmountsAddUp, View!IInv
<1> QED BY <1>1, ServicesInvariance, PTL

\* Whoever reads a list page by page sees every match once and in order, finds no page
\* empty of a list that is not, and is told the sizes of the lists that a choice leads
\* to, if nobody edits the catalog meanwhile.  For any catalog and size of pages.
THEOREM BrowsingIsWhole == Spec => []BrowsingIsComplete
<1>1. Invariant => BrowsingIsComplete
  BY ServicesAssumption, ListSafe DEF Invariant, BrowsingIsComplete
<1> QED BY <1>1, ServicesInvariance, PTL

\* Whatever releases a database was migrated with, in whatever order their migrations
\* ran, and wherever runs died, a later one fails only for offending rows or another
\* run, and the last leaves the schema of a new database.  For any list of migrations
\* that is in order (RegistryAssumption), any releases and any number of runs.
THEOREM UpgradesArrive == Spec => []SchemaSettles
<1>1. Invariant => SchemaSettles
  BY ServicesAssumption, MigrationHolds DEF Invariant, SchemaSettles
<1> QED BY <1>1, ServicesInvariance, PTL

\* What the scripts say at the end is so, for any number of seeders, vendors and
\* purchases: a catalog that is called seeded is whole, a reassignment that passed
\* can be undone from its backup, and the load test raises no false alarm.
THEOREM ReportsHold == Spec => []ReportsAreTrue
<1>1. Invariant => ReportsAreTrue
  BY ServicesAssumption, ScriptsSafe DEF Invariant, ReportsAreTrue
<1> QED BY <1>1, ServicesInvariance, PTL

\* With the settings the application was started with, a script writes to the
\* database that the application serves, or refuses, but for the known gaps.
THEOREM ProgramsAgreeOnTheDatabase == Spec => []StartsAgree
<1>1. Invariant => StartsAgree
  BY ServicesAssumption, StartSafe DEF Invariant, StartsAgree
<1> QED BY <1>1, ServicesInvariance, PTL
===============================================================================
