---------------------------- MODULE MembershipProofs ----------------------------
(***************************************************************************)
(* What is proved about Membership for all sets of accounts, applications, *)
(* vendors and requests: the inductive invariant IInv, that an account has *)
(* one pending application at most, that a decision is final, and that     *)
(* only an approval moves an account from one vendor to another.           *)
(***************************************************************************)
EXTENDS Membership, FiniteSetTheorems, TLAPS

\* A request of each kind.
LEMMA RequestFacts ==
  ASSUME NEW r \in Request
  PROVE  /\ r.kind \in {"submit", "review", "link", "unlink"}
         /\ r.kind = "submit" => r \in Submission
         /\ r.kind = "review" => r \in Review
         /\ r.kind \in {"link", "unlink"} => r \in Link
BY DEF Request, Submission, Review, Link

\* An application of an account or a guest is no empty place.
LEMMA EmptyPlace == NoApplication.status = "none"
BY DEF NoApplication

\* An application of an account or a guest has a name.
LEMMA ApplicationFacts ==
  ASSUME TypeOK, NEW a \in Applications, app[a].status # "none"
  PROVE  /\ app[a] \in Application
         /\ app[a].applicant \in Users \cup {Guest} /\ app[a].name \in Names
BY EmptyPlace DEF TypeOK, Application

\* Nobody has applied, every account is a buyer or of staff.
LEMMA InitHolds == ASSUME NamesAssumption, Init PROVE IInv
<1>1. TypeOK
  BY DEF Init, TypeOK, Account, Stages
<1>2. RolesAgree
  BY DEF Init, RolesAgree
<1>3. OneOpen
  BY EmptyPlace DEF Init, OneOpen
<1> QED  BY <1>1, <1>2, <1>3 DEF Init, IInv, Holds, Approving, ReviewsLocked

(***************************************************************************)
(* One request moves.                                                      *)
(***************************************************************************)
\* The others stay where they are.
Alone(s) == \A t \in Sessions \ {s} : pc'[t] = pc[t] /\ req'[t] = req[t]
Steps == /\ pc' \in [Sessions -> Stages]
         /\ req' \in [Sessions -> Request \cup Approval \cup {None}]

\* It is answered.
LEMMA EndFacts ==
  ASSUME IInv, NEW s \in Sessions, End(s)
  PROVE  Steps /\ pc'[s] = "idle" /\ Alone(s)
BY DEF IInv, TypeOK, End, Goto, Stages, Alone, Steps

\* It goes on to the next statement.
LEMMA GotoFacts ==
  ASSUME IInv, NEW s \in Sessions, NEW step \in Stages, Goto(s, step), UNCHANGED req
  PROVE  Steps /\ pc'[s] = step /\ req'[s] = req[s] /\ Alone(s)
BY DEF IInv, TypeOK, Goto, Alone, Steps

\* The others hold what they held.
LEMMA OthersHold ==
  ASSUME IInv, NEW s \in Sessions, Alone(s), Holds(s)'
  PROVE  \A t \in Sessions : Holds(t)'
BY DEF IInv, Holds, Approving, Alone

\* Accounts stay as they are.
LEMMA UsersKept ==
  ASSUME IInv, UNCHANGED user
  PROVE  user' \in [Users -> Account] /\ RolesAgree'
BY DEF IInv, TypeOK, RolesAgree

\* A request that reviews nothing afterwards, and changes no application.
LEMMA Quiet ==
  ASSUME IInv, NEW s \in Sessions, Alone(s), Steps,
         Holds(s)', pc'[s] \notin {"vendor", "decide"},
         UNCHANGED <<app, vendor>>, user' \in [Users -> Account], RolesAgree'
  PROVE  IInv'
<1>1. TypeOK' /\ OneOpen'
  BY DEF IInv, TypeOK, OneOpen, Steps
<1>2. ReviewsLocked'
  BY DEF IInv, ReviewsLocked, Reviewing, Alone
<1> QED  BY <1>1, <1>2, OthersHold DEF IInv

\* A request that is answered and changes no application.
LEMMA QuietEnd ==
  ASSUME IInv, NEW s \in Sessions, End(s),
         UNCHANGED <<app, vendor>>, user' \in [Users -> Account], RolesAgree'
  PROVE  IInv'
<1>1. Holds(s)'
  BY EndFacts DEF Holds, Approving
<1> QED  BY <1>1, EndFacts, Quiet

\* A request that is answered and changes nothing.
LEMMA JustEnds ==
  ASSUME IInv, NEW s \in Sessions, End(s), UNCHANGED <<user, app, vendor>>
  PROVE  IInv'
BY UsersKept, QuietEnd

(***************************************************************************)
(* The actions.                                                            *)
(***************************************************************************)
LEMMA BeginHolds ==
  ASSUME IInv, NEW s \in Sessions, NEW r \in Request, Begin(s, r)
  PROVE  IInv'
<1>1. /\ pc' = [pc EXCEPT ![s] = r.kind] /\ req' = [req EXCEPT ![s] = r]
      /\ UNCHANGED <<user, app, vendor>>
  BY DEF Begin, Goto
<1>2. r.kind \in {"submit", "review", "link", "unlink"}
  BY RequestFacts
<1>3. /\ Steps /\ Alone(s)
      /\ pc'[s] = r.kind /\ req'[s] = r
  BY <1>1, <1>2 DEF IInv, TypeOK, Stages, Steps, Alone
<1>4. Holds(s)'
  BY <1>2, <1>3, RequestFacts DEF Holds, Approving
<1> QED  BY <1>1, <1>2, <1>3, <1>4, UsersKept, Quiet

LEMMA FindPendingHolds ==
  ASSUME IInv, NEW s \in Sessions, FindPending(s)
  PROVE  IInv'
<1>1. pc[s] = "submit" /\ UNCHANGED <<user, app, vendor>>
  BY DEF FindPending
<1>2. CASE End(s)
  BY <1>1, <1>2, JustEnds
<1>3. CASE Goto(s, "insert") /\ UNCHANGED req
  <2>1. Steps /\ Alone(s) /\ pc'[s] = "insert" /\ req'[s] = req[s]
    BY <1>3, GotoFacts DEF Stages
  <2>2. Holds(s)'
    BY <1>1, <2>1 DEF IInv, Holds, Approving
  <2> QED  BY <1>1, <2>1, <2>2, UsersKept, Quiet
<1> QED  BY <1>2, <1>3 DEF FindPending

LEMMA InsertHolds ==
  ASSUME IInv, NEW s \in Sessions, NEW a \in Applications, InsertApplication(s, a)
  PROVE  IInv'
<1> DEFINE r == req[s]
           new == [applicant |-> r.applicant, name |-> r.name, status |-> "pending"]
<1>1. /\ pc[s] = "insert" /\ app[a] = NoApplication
      /\ End(s) /\ UNCHANGED <<user, vendor>>
  BY DEF InsertApplication
<1>2. r \in Submission
  BY <1>1 DEF IInv, Holds
<1>3. CASE r.applicant # Guest /\ Pending(r.applicant) # {}
  BY <1>1, <1>3, JustEnds DEF InsertApplication
<1>4. CASE ~(r.applicant # Guest /\ Pending(r.applicant) # {})
  <2>1. app' = [app EXCEPT ![a] = new]
    BY <1>4 DEF InsertApplication
  <2>2. /\ new \in Application
        /\ new.applicant = r.applicant /\ new.status = "pending"
        /\ r.applicant \in Users \cup {Guest}
    BY <1>2 DEF Submission, Application
  <2> HIDE DEF new
  <2>3. app'[a] = new /\ \A b \in Applications \ {a} : app'[b] = app[b]
    BY <2>1 DEF IInv, TypeOK
  <2>4. TypeOK'
    <3>1. app' \in [Applications -> Application \cup {NoApplication}]
      BY <2>1, <2>2 DEF IInv, TypeOK
    <3> QED  BY <1>1, <3>1, EndFacts DEF IInv, TypeOK, Steps
  <2>5. RolesAgree'
    BY <1>1, UsersKept
  <2>6. Holds(s)'
    BY <1>1, EndFacts DEF Holds, Approving
  <2>7. OneOpen'
    <3>1. ASSUME new.applicant # Guest, NEW b \in Applications \ {a},
                 app[b].status = "pending"
          PROVE  app[b].applicant # new.applicant
      BY <1>4, <2>2, <3>1 DEF Pending
    <3> QED  BY <2>2, <2>3, <3>1 DEF IInv, OneOpen
  <2>8. ReviewsLocked'
    <3>1. ASSUME NEW t \in Sessions, pc'[t] \in {"vendor", "decide"}
          PROVE  /\ t # s /\ pc[t] = pc'[t] /\ req[t] = req'[t]
                 /\ app[req[t].app].status = "pending" /\ req[t].app # a
      <4>1. t # s /\ pc[t] = pc'[t] /\ req[t] = req'[t]
        BY <1>1, <3>1, EndFacts DEF Alone
      <4> QED  BY <1>1, <3>1, <4>1, EmptyPlace DEF IInv, ReviewsLocked
    <3>2. ASSUME NEW t \in Sessions, pc'[t] \in {"vendor", "decide"}
          PROVE  req[t].app \in Applications
      BY <3>1, <3>2 DEF IInv, Holds, Review, Approval
    <3> QED  BY <2>3, <3>1, <3>2 DEF IInv, ReviewsLocked, Reviewing
  <2> QED  BY <1>1, <2>4, <2>5, <2>6, <2>7, <2>8, EndFacts, OthersHold DEF IInv
<1> QED  BY <1>3, <1>4

\* Where a request that reviews goes on to: what it knows of the application.
LEMMA GoesOnReviewing ==
  ASSUME IInv, NEW s \in Sessions, Alone(s), Steps, Holds(s)',
         UNCHANGED <<user, app, vendor>>, pc'[s] \in {"vendor", "decide"},
         req'[s].app = req[s].app, app[req[s].app].status = "pending",
         req'[s].decision = "approve" => app[req[s].app].applicant \in Users,
         \A t \in Sessions : Reviewing(t, req[s].app) => t = s
  PROVE  IInv'
<1>1. TypeOK' /\ OneOpen' /\ RolesAgree'
  BY DEF IInv, TypeOK, OneOpen, Steps, RolesAgree
<1>2. ReviewsLocked'
  BY DEF IInv, ReviewsLocked, Reviewing, Alone
<1> QED  BY <1>1, <1>2, OthersHold DEF IInv

LEMMA LockHolds ==
  ASSUME IInv, NEW s \in Sessions, LockApplication(s)
  PROVE  IInv'
<1> DEFINE a == app[req[s].app]
           step == IF req[s].decision = "approve" THEN "vendor" ELSE "decide"
<1>1. /\ pc[s] = "review" /\ UNCHANGED <<user, app, vendor>>
      /\ \A t \in Sessions : ~Reviewing(t, req[s].app)
  BY DEF LockApplication
<1>2. CASE a.status # "pending" \/ (req[s].decision = "approve" /\ a.applicant = Guest)
  BY <1>1, <1>2, JustEnds DEF LockApplication
<1>3. CASE ~(a.status # "pending" \/ (req[s].decision = "approve" /\ a.applicant = Guest))
  <2>1. Goto(s, step) /\ UNCHANGED req /\ step \in {"vendor", "decide"}
    BY <1>3 DEF LockApplication
  <2>2. Steps /\ Alone(s) /\ pc'[s] = step /\ req'[s] = req[s]
    BY <2>1, GotoFacts DEF Stages
  <2>3. req[s] \in Review \cup Approval
    BY <1>1 DEF IInv, Holds
  <2>4. req[s].app \in Applications /\ req[s].decision \in {"approve", "reject"}
    BY <2>3 DEF Review, Approval
  <2>5. Holds(s)'
    BY <2>1, <2>2, <2>3, <2>4 DEF Holds, Approving
  <2>6. req[s].decision = "approve" => a.applicant \in Users
    BY <1>3, <2>4, ApplicationFacts DEF IInv
  <2> QED  BY <1>1, <1>3, <2>1, <2>2, <2>5, <2>6, GoesOnReviewing
<1> QED  BY <1>2, <1>3

LEMMA FindVendorHolds ==
  ASSUME NamesAssumption, IInv, NEW s \in Sessions, FindVendor(s)
  PROVE  IInv'
<1> DEFINE n == app[req[s].app].name
           found == IF Named(n) = {} THEN Unused ELSE Named(n)
<1>1. /\ pc[s] = "vendor" /\ Goto(s, "decide") /\ UNCHANGED <<user, app, vendor>>
      /\ \E v \in found :
           req' = [req EXCEPT ![s] = [kind |-> "review", app |-> req[s].app,
                                      decision |-> "approve", vendor |-> v, name |-> n]]
  BY DEF FindVendor
<1>2. PICK v \in Vendors :
        req' = [req EXCEPT ![s] = [kind |-> "review", app |-> req[s].app,
                                   decision |-> "approve", vendor |-> v, name |-> n]]
  BY <1>1 DEF Named, Unused
<1> DEFINE chosen == [kind |-> "review", app |-> req[s].app,
                      decision |-> "approve", vendor |-> v, name |-> n]
<1>3. req[s] \in Review \cup Approval /\ req[s].decision = "approve"
  BY <1>1 DEF IInv, Holds
<1>4. req[s].app \in Applications
  BY <1>3 DEF Review, Approval
<1>5. app[req[s].app].status = "pending" /\ app[req[s].app].applicant \in Users
  BY <1>1, <1>3 DEF IInv, ReviewsLocked
<1>6. n \in Names
  BY <1>4, <1>5, ApplicationFacts DEF IInv
<1>7. chosen \in Approval /\ chosen.app = req[s].app /\ chosen.decision = "approve"
  BY <1>4, <1>6 DEF Approval
<1>8. Steps /\ Alone(s) /\ pc'[s] = "decide" /\ req'[s] = chosen
  <2> HIDE DEF chosen
  <2>1. req' = [req EXCEPT ![s] = chosen] /\ pc' = [pc EXCEPT ![s] = "decide"]
    BY <1>1, <1>2 DEF Goto, chosen
  <2> QED  BY <2>1, <1>7 DEF IInv, TypeOK, Stages, Steps, Alone
<1>9. Holds(s)'
  <2> HIDE DEF chosen
  <2> QED  BY <1>7, <1>8 DEF Holds, Approving
<1>10. \A t \in Sessions : Reviewing(t, req[s].app) => t = s
  BY <1>1 DEF IInv, ReviewsLocked
<1> HIDE DEF chosen
<1> QED  BY <1>1, <1>5, <1>7, <1>8, <1>9, <1>10, GoesOnReviewing

\* A decision: the application that was pending leaves the queue.
LEMMA Decides ==
  ASSUME NamesAssumption, IInv, NEW s \in Sessions, pc[s] = "decide", End(s),
         NEW status \in {"approved", "rejected"},
         app' = [app EXCEPT ![req[s].app].status = status],
         vendor' \in [Vendors -> Names \cup {None}],
         user' \in [Users -> Account], RolesAgree'
  PROVE  IInv'
<1> DEFINE a == req[s].app
<1>1. a \in Applications /\ app[a].status = "pending"
  <2>1. req[s] \in Review \cup Approval
    BY DEF IInv, Holds
  <2> QED  BY <2>1 DEF IInv, ReviewsLocked, Review, Approval
<1>2. app[a] \in Application
  BY <1>1, ApplicationFacts DEF IInv
<1> DEFINE decided == [app[a] EXCEPT !.status = status]
<1>3. decided \in Application /\ decided.status = status /\ decided.applicant = app[a].applicant
  BY <1>2 DEF Application
<1>4. app' = [app EXCEPT ![a] = decided]
  OBVIOUS
<1> HIDE DEF decided
<1>5. app'[a] = decided /\ \A b \in Applications \ {a} : app'[b] = app[b]
  BY <1>1, <1>4 DEF IInv, TypeOK
<1>6. TypeOK'
  <2>1. app' \in [Applications -> Application \cup {NoApplication}]
    BY <1>3, <1>4 DEF IInv, TypeOK
  <2> QED  BY <2>1, EndFacts DEF TypeOK, Steps
<1>7. OneOpen'
  BY <1>3, <1>5 DEF IInv, OneOpen
<1>8. ReviewsLocked'
  <2> SUFFICES ASSUME NEW t \in Sessions, pc'[t] \in {"vendor", "decide"}
               PROVE  /\ app'[req'[t].app].status = "pending"
                      /\ req'[t].decision = "approve" => app'[req'[t].app].applicant \in Users
                      /\ \A r \in Sessions : Reviewing(r, req[t].app)' => r = t
    BY DEF ReviewsLocked, Reviewing
  <2>1. t # s /\ pc'[t] = pc[t] /\ req'[t] = req[t]
    BY EndFacts DEF Alone
  <2>2. req[t].app # a
    BY <1>1, <2>1 DEF IInv, ReviewsLocked, Reviewing
  <2>3. req[t].app \in Applications
    BY <2>1 DEF IInv, Holds, Review, Approval
  <2>4. app'[req[t].app] = app[req[t].app]
    BY <1>5, <2>2, <2>3
  <2>5. \A r \in Sessions : Reviewing(r, req[t].app)' => Reviewing(r, req[t].app)
    BY <2>1, EndFacts DEF Reviewing, Alone
  <2> QED  BY <2>1, <2>4, <2>5 DEF IInv, ReviewsLocked
<1>9. Holds(s)'
  BY EndFacts DEF Holds, Approving
<1> QED  BY <1>6, <1>7, <1>8, <1>9, EndFacts, OthersHold DEF IInv

LEMMA ApproveHolds ==
  ASSUME NamesAssumption, IInv, NEW s \in Sessions, Approve(s)
  PROVE  IInv'
<1> DEFINE u == app[req[s].app].applicant
           account == [role |-> "vendor", vendor |-> req[s].vendor]
<1>1. /\ pc[s] = "decide" /\ req[s].decision = "approve" /\ Approving(s)
      /\ vendor' = [vendor EXCEPT ![req[s].vendor] = req[s].name]
      /\ user' = [user EXCEPT ![u] = account]
      /\ app' = [app EXCEPT ![req[s].app].status = "approved"]
      /\ End(s)
  BY DEF Approve, Approving
<1>2. req[s].vendor \in Vendors /\ req[s].name \in Names
  BY <1>1 DEF IInv, Holds, Approval
<1>3. vendor' \in [Vendors -> Names \cup {None}]
  BY <1>1, <1>2 DEF IInv, TypeOK
<1>4. account \in Account /\ account.role = "vendor" /\ account.vendor # None
  BY <1>2 DEF Account, NamesAssumption
<1> HIDE DEF account
<1>5. user' \in [Users -> Account] /\ RolesAgree'
  BY <1>1, <1>4 DEF IInv, TypeOK, RolesAgree
<1> QED  BY <1>1, <1>3, <1>5, Decides

LEMMA RejectHolds ==
  ASSUME NamesAssumption, IInv, NEW s \in Sessions, Reject(s)
  PROVE  IInv'
<1>1. /\ pc[s] = "decide" /\ End(s) /\ UNCHANGED <<user, vendor>>
      /\ app' = [app EXCEPT ![req[s].app].status = "rejected"]
  BY DEF Reject
<1>2. vendor' \in [Vendors -> Names \cup {None}]
  BY <1>1 DEF IInv, TypeOK
<1> QED  BY <1>1, <1>2, UsersKept, Decides

\* The reads before a transaction: the request goes on with what it is.
LEMMA CheckHolds ==
  ASSUME IInv, NEW s \in Sessions, CheckLink(s) \/ CheckUnlink(s)
  PROVE  IInv'
<1>1. UNCHANGED <<user, app, vendor>> /\ pc[s] \in {"link", "unlink"}
  BY DEF CheckLink, CheckUnlink
<1>2. CASE End(s)
  BY <1>1, <1>2, JustEnds
<1>3. CASE (Goto(s, "write link") \/ Goto(s, "write unlink")) /\ UNCHANGED req
  <2>1. /\ Steps /\ Alone(s) /\ req'[s] = req[s]
        /\ pc'[s] \in {"write link", "write unlink"}
    BY <1>3, GotoFacts DEF Stages
  <2>2. Holds(s)'
    BY <1>1, <2>1 DEF IInv, Holds, Approving
  <2> QED  BY <1>1, <2>1, <2>2, UsersKept, Quiet
<1> QED  BY <1>2, <1>3 DEF CheckLink, CheckUnlink

\* What linking and unlinking write.
LEMMA LinkFacts ==
  ASSUME NamesAssumption, IInv, NEW s \in Sessions,
         pc[s] \in {"write link", "write unlink"}
  PROVE  /\ req[s].user \in Users /\ req[s].vendor \in Vendors /\ req[s].vendor # None
         /\ [role |-> "vendor", vendor |-> req[s].vendor] \in Account
         /\ [role |-> "buyer", vendor |-> None] \in Account
BY DEF IInv, Holds, Link, Account, NamesAssumption

LEMMA WriteHolds ==
  ASSUME NamesAssumption, IInv, NEW s \in Sessions, WriteLink(s) \/ WriteUnlink(s)
  PROVE  IInv'
<1>1. End(s) /\ UNCHANGED <<app, vendor>> /\ pc[s] \in {"write link", "write unlink"}
  BY DEF WriteLink, WriteUnlink
<1>2. PICK account \in Account :
        /\ account.role = "vendor" <=> account.vendor # None
        /\ user' = user \/ user' = [user EXCEPT ![req[s].user] = account]
  BY <1>1, LinkFacts DEF WriteLink, WriteUnlink
<1>3. user' \in [Users -> Account] /\ RolesAgree'
  BY <1>1, <1>2, LinkFacts DEF IInv, TypeOK, RolesAgree
<1> QED  BY <1>1, <1>3, QuietEnd

\* Every statement of a request keeps the invariant.
LEMMA NextHolds ==
  ASSUME NamesAssumption, IInv, [Next]_vars
  PROVE  IInv'
<1>1. ASSUME NEW s \in Sessions, NEW r \in Request, Begin(s, r) PROVE IInv'
  BY <1>1, BeginHolds
<1>2. ASSUME NEW s \in Sessions, FindPending(s) PROVE IInv'
  BY <1>2, FindPendingHolds
<1>3. ASSUME NEW s \in Sessions, NEW a \in Applications, InsertApplication(s, a) PROVE IInv'
  BY <1>3, InsertHolds
<1>4. ASSUME NEW s \in Sessions, LockApplication(s) PROVE IInv'
  BY <1>4, LockHolds
<1>5. ASSUME NEW s \in Sessions, FindVendor(s) PROVE IInv'
  BY <1>5, FindVendorHolds
<1>6. ASSUME NEW s \in Sessions, Approve(s) PROVE IInv'
  BY <1>6, ApproveHolds
<1>7. ASSUME NEW s \in Sessions, Reject(s) PROVE IInv'
  BY <1>7, RejectHolds
<1>8. ASSUME NEW s \in Sessions, CheckLink(s) \/ CheckUnlink(s) PROVE IInv'
  BY <1>8, CheckHolds
<1>9. ASSUME NEW s \in Sessions, WriteLink(s) \/ WriteUnlink(s) PROVE IInv'
  BY <1>9, WriteHolds
<1>10. ASSUME NEW s \in Sessions, Abort(s) PROVE IInv'
  BY <1>10, JustEnds DEF Abort
<1>11. CASE UNCHANGED vars
  BY <1>11 DEF vars, IInv, TypeOK, Holds, Approving, RolesAgree, OneOpen, ReviewsLocked, Reviewing
<1> QED
  BY <1>1, <1>2, <1>3, <1>4, <1>5, <1>6, <1>7, <1>8, <1>9, <1>10, <1>11 DEF Next

(***************************************************************************)
(* What follows.                                                           *)
(***************************************************************************)
\* The unique index counted.
LEMMA AtMostOne ==
  ASSUME NamesAssumption, IInv
  PROVE  OnePending
<1> SUFFICES ASSUME NEW u \in Users PROVE Cardinality(Pending(u)) =< 1
  BY DEF OnePending
<1>1. CASE Pending(u) = {}
  BY <1>1, FS_EmptySet
<1>2. CASE Pending(u) # {}
  <2>1. PICK a \in Pending(u) : TRUE
    BY <1>2
  <2>2. Pending(u) = {a}
    BY <2>1 DEF Pending, IInv, OneOpen, NamesAssumption
  <2>3. Cardinality({a}) = 1
    BY FS_Singleton
  <2> QED  BY <2>2, <2>3
<1> QED  BY <1>1, <1>2

\* A request decides only what is pending.
LEMMA DecisionStep ==
  ASSUME IInv, [Next]_vars
  PROVE  DecisionKept
<1>1. CASE app' = app
  BY <1>1 DEF DecisionKept
<1>2. ASSUME NEW s \in Sessions, NEW a \in Applications, InsertApplication(s, a)
      PROVE  DecisionKept
  <2>1. app[a].status = "none" /\ \A b \in Applications \ {a} : app'[b] = app[b]
    BY <1>2, EmptyPlace DEF InsertApplication, IInv, TypeOK
  <2> QED  BY <2>1 DEF DecisionKept
<1>3. ASSUME NEW s \in Sessions, Approve(s) \/ Reject(s)
      PROVE  DecisionKept
  <2>1. /\ app[req[s].app].status = "pending"
        /\ \A b \in Applications \ {req[s].app} : app'[b] = app[b]
    BY <1>3 DEF Approve, Approving, Reject, IInv, TypeOK, ReviewsLocked
  <2> QED  BY <2>1 DEF DecisionKept
<1> QED
  BY <1>1, <1>2, <1>3 DEF Next, vars, Begin, FindPending, LockApplication, FindVendor,
     CheckLink, WriteLink, CheckUnlink, WriteUnlink, Abort

\* Linking finds a buyer or the same vendor's, unlinking a vendor's.
LEMMA AccountStep ==
  ASSUME NamesAssumption, IInv, [Next]_vars
  PROVE  ApprovedOrBuyer
<1>1. CASE user' = user
  BY <1>1 DEF ApprovedOrBuyer
<1>2. ASSUME NEW s \in Sessions, Approve(s)
      PROVE  ApprovedOrBuyer
  <2> DEFINE a == req[s].app
  <2>1. a \in Applications /\ app[a].status = "pending"
    BY <1>2 DEF Approve, Approving, IInv, Holds, ReviewsLocked, Approval
  <2>2. app'[a].status = "approved"
    BY <1>2, <2>1, ApplicationFacts DEF Approve, IInv, TypeOK, Application
  <2>3. \A u \in Users : u # app[a].applicant => user'[u] = user[u]
    BY <1>2 DEF Approve, IInv, TypeOK
  <2> QED  BY <2>1, <2>2, <2>3 DEF ApprovedOrBuyer
<1>3. ASSUME NEW s \in Sessions, WriteLink(s)
      PROVE  ApprovedOrBuyer
  <2> DEFINE w == req[s].user
             v == req[s].vendor
  <2>1. CASE ~Linkable(w, v)
    BY <1>1, <1>3, <2>1 DEF WriteLink
  <2>2. CASE Linkable(w, v)
    <3>1. user' = [user EXCEPT ![w] = [role |-> "vendor", vendor |-> v]]
      BY <1>3, <2>2 DEF WriteLink
    <3>2. w \in Users /\ user[w] \in Account /\ v # None
      BY <1>3, LinkFacts DEF WriteLink, IInv, TypeOK
    <3>3. user[w].role = "buyer" \/ user[w] = [role |-> "vendor", vendor |-> v]
      BY <2>2, <3>2 DEF Linkable, Account, IInv, RolesAgree
    <3> QED  BY <3>1, <3>2, <3>3 DEF ApprovedOrBuyer, IInv, TypeOK
  <2> QED  BY <2>1, <2>2
<1>4. ASSUME NEW s \in Sessions, WriteUnlink(s)
      PROVE  ApprovedOrBuyer
  <2> DEFINE w == req[s].user
  <2>1. CASE user[w].vendor # req[s].vendor
    BY <1>1, <1>4, <2>1 DEF WriteUnlink
  <2>2. CASE user[w].vendor = req[s].vendor
    <3>1. user' = [user EXCEPT ![w] = [role |-> "buyer", vendor |-> None]]
      BY <1>4, <2>2 DEF WriteUnlink
    <3>2. w \in Users /\ user[w].role = "vendor"
      BY <1>4, <2>2, LinkFacts DEF WriteUnlink, IInv, RolesAgree
    <3> QED  BY <3>1, <3>2 DEF ApprovedOrBuyer, IInv, TypeOK
  <2> QED  BY <2>1, <2>2
<1> QED
  BY <1>1, <1>2, <1>3, <1>4 DEF Next, vars, Begin, FindPending, InsertApplication,
     LockApplication, FindVendor, Reject, CheckLink, CheckUnlink, Abort

\* The applications and accounts keep their invariant: at most one application of
\* an account is open (the unique index), and whoever reviews one holds its lock.
THEOREM MembershipInvariance == NamesAssumption => (Spec => []IInv)
<1> SUFFICES ASSUME NamesAssumption PROVE Spec => []IInv
  OBVIOUS
<1>1. Init => IInv
  BY InitHolds
<1>2. IInv /\ [Next]_vars => IInv'
  BY NextHolds
<1> QED  BY <1>1, <1>2, PTL DEF Spec

\* LockApplication and the unique index make a decision final.
THEOREM DecisionsAreFinal == NamesAssumption => (Spec => DecisionIsFinal)
<1> SUFFICES ASSUME NamesAssumption PROVE Spec => DecisionIsFinal
  OBVIOUS
<1>1. IInv /\ [Next]_vars => [DecisionKept]_vars
  BY DecisionStep
<1> QED  BY <1>1, MembershipInvariance, PTL DEF Spec, DecisionIsFinal

\* linkVendorUser and unlinkVendorUser check again under the lock of the account.
THEOREM ApprovalsAloneMove == NamesAssumption => (Spec => MovedByApprovalOnly)
<1> SUFFICES ASSUME NamesAssumption PROVE Spec => MovedByApprovalOnly
  OBVIOUS
<1>1. IInv /\ [Next]_vars => [ApprovedOrBuyer]_vars
  BY AccountStep
<1> QED  BY <1>1, MembershipInvariance, PTL DEF Spec, MovedByApprovalOnly
=================================================================================
