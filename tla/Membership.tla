------------------------------- MODULE Membership -------------------------------
(***************************************************************************)
(* How an account becomes a vendor's: by an application that staff         *)
(* approve, or by staff linking and unlinking it directly.                 *)
(*                                                                         *)
(* Submission looks for a pending application and inserts one under a      *)
(* partial unique index.  A review is a transaction that locks the         *)
(* application.  Linking reads the account first, then locks its row and   *)
(* checks again.                                                           *)
(***************************************************************************)
EXTENDS Integers, FiniteSets

CONSTANTS
  Sessions,      \* requests served at the same time
  Users,         \* accounts
  Staff,         \* those with a privileged role
  Applications,  \* ids of applications
  Vendors,       \* ids of vendors
  Names,         \* business names
  Guest,         \* the applicant of an application without an account
  None           \* no vendor, no name, no request

VARIABLES
  user,          \* users: role and vendor_id
  app,           \* vendor_applications
  vendor,        \* vendors: the name of each
  pc,            \* where each request stands
  req            \* the request, and what it read

vars == <<user, app, vendor, pc, req>>

NoApplication == [applicant |-> None, name |-> None, status |-> "none"]
Submission == [kind : {"submit"}, applicant : Users \cup {Guest}, name : Names]
Review == [kind : {"review"}, app : Applications,
           decision : {"approve", "reject"}]
Link   == [kind : {"link", "unlink"}, user : Users, vendor : Vendors]
Request == Submission \cup Review \cup Link

Init ==
  /\ user = [u \in Users |-> [role |-> IF u \in Staff THEN "staff" ELSE "buyer",
                              vendor |-> None]]
  /\ app = [a \in Applications |-> NoApplication]
  /\ vendor \in {[v \in Vendors |-> IF v = w THEN n ELSE None] :
                   w \in Vendors, n \in Names}
  /\ pc = [s \in Sessions |-> "idle"]
  /\ req = [s \in Sessions |-> None]

Goto(s, step) == pc' = [pc EXCEPT ![s] = step]
End(s) == Goto(s, "idle") /\ req' = [req EXCEPT ![s] = None]

Begin(s, r) ==
  /\ pc[s] = "idle"
  /\ Goto(s, r.kind)
  /\ req' = [req EXCEPT ![s] = r]
  /\ UNCHANGED <<user, app, vendor>>

\* A crash or an error: what is not committed is rolled back.
Abort(s) ==
  /\ pc[s] # "idle"
  /\ End(s)
  /\ UNCHANGED <<user, app, vendor>>

(***************************************************************************)
(* Submission.                                                             *)
(***************************************************************************)
Pending(u) == {a \in Applications : app[a].applicant = u /\ app[a].status = "pending"}

\* A pending application of the account is returned; a guest has none.
FindPending(s) ==
  /\ pc[s] = "submit"
  /\ IF req[s].applicant # Guest /\ Pending(req[s].applicant) # {}
       THEN End(s)
       ELSE Goto(s, "insert") /\ UNCHANGED req
  /\ UNCHANGED <<user, app, vendor>>

\* Fault: nothing but the earlier look keeps a second one out.
InsertAgain(s, a) ==
  /\ pc[s] = "insert"
  /\ app[a] = NoApplication
  /\ app' = [app EXCEPT ![a] = [applicant |-> req[s].applicant,
                                name |-> req[s].name, status |-> "pending"]]
  /\ End(s)
  /\ UNCHANGED <<user, vendor>>

\* The unique index refuses a second pending application of an account.
InsertApplication(s, a) ==
  /\ pc[s] = "insert"
  /\ app[a] = NoApplication
  /\ IF req[s].applicant # Guest /\ Pending(req[s].applicant) # {}
       THEN UNCHANGED app
       ELSE app' = [app EXCEPT ![a] = [applicant |-> req[s].applicant,
                                       name |-> req[s].name, status |-> "pending"]]
  /\ End(s)
  /\ UNCHANGED <<user, vendor>>

(***************************************************************************)
(* Review.                                                                 *)
(***************************************************************************)
Reviewing(s, a) == pc[s] \in {"vendor", "decide"} /\ req[s].app = a

\* Fault: the application is read without its lock.
ReadApplication(s) ==
  /\ pc[s] = "review"
  /\ LET a == app[req[s].app] IN
       IF a.status # "pending" \/ (req[s].decision = "approve" /\ a.applicant = Guest)
         THEN End(s)
         ELSE /\ Goto(s, IF req[s].decision = "approve" THEN "vendor" ELSE "decide")
              /\ UNCHANGED req
  /\ UNCHANGED <<user, app, vendor>>

\* The application is locked; one that is decided, and the approval of a
\* guest's, is refused.
LockApplication(s) ==
  /\ pc[s] = "review"
  /\ \A t \in Sessions : ~Reviewing(t, req[s].app)
  /\ LET a == app[req[s].app] IN
       IF a.status # "pending" \/ (req[s].decision = "approve" /\ a.applicant = Guest)
         THEN End(s)
         ELSE /\ Goto(s, IF req[s].decision = "approve" THEN "vendor" ELSE "decide")
              /\ UNCHANGED req
  /\ UNCHANGED <<user, app, vendor>>

Approving(s) == pc[s] = "decide" /\ req[s].decision = "approve"
Named(n) == {v \in Vendors : vendor[v] = n}
\* Ids are generated, never shared with a vendor that is not committed yet.
Unused   == {v \in Vendors :
               /\ vendor[v] = None
               /\ \A s \in Sessions : Approving(s) => req[s].vendor # v}

\* The vendor of the business name, or a new one: names are not unique, and an
\* uncommitted vendor is not seen.
FindVendor(s) ==
  /\ pc[s] = "vendor"
  /\ LET n == app[req[s].app].name IN
       \E v \in IF Named(n) = {} THEN Unused ELSE Named(n) :
         req' = [req EXCEPT ![s] = [kind |-> "review", app |-> req[s].app,
                                    decision |-> "approve", vendor |-> v, name |-> n]]
  /\ Goto(s, "decide")
  /\ UNCHANGED <<user, app, vendor>>

\* Approval overwrites role and vendor of the account, whatever they are.
Approve(s) ==
  /\ Approving(s)
  /\ vendor' = [vendor EXCEPT ![req[s].vendor] = req[s].name]
  /\ user' = [user EXCEPT ![app[req[s].app].applicant] =
                            [role |-> "vendor", vendor |-> req[s].vendor]]
  /\ app' = [app EXCEPT ![req[s].app].status = "approved"]
  /\ End(s)

Reject(s) ==
  /\ pc[s] = "decide"
  /\ req[s].decision = "reject"
  /\ app' = [app EXCEPT ![req[s].app].status = "rejected"]
  /\ End(s)
  /\ UNCHANGED <<user, vendor>>

(***************************************************************************)
(* Linking and unlinking.                                                  *)
(***************************************************************************)
Linkable(u, v) ==
  /\ user[u].role # "staff"
  /\ user[u].vendor \in {None, v}

\* The reads before the transaction.
CheckLink(s) ==
  /\ pc[s] = "link"
  /\ LET u == req[s].user
         v == req[s].vendor IN
       IF vendor[v] # None /\ Linkable(u, v) /\ user[u].vendor # v
         THEN Goto(s, "write link") /\ UNCHANGED req
         ELSE End(s)
  /\ UNCHANGED <<user, app, vendor>>

\* The transaction: lock, check again, write.
WriteLink(s) ==
  /\ pc[s] = "write link"
  /\ user' = IF Linkable(req[s].user, req[s].vendor)
               THEN [user EXCEPT ![req[s].user] =
                                   [role |-> "vendor", vendor |-> req[s].vendor]]
               ELSE user
  /\ End(s)
  /\ UNCHANGED <<app, vendor>>

CheckUnlink(s) ==
  /\ pc[s] = "unlink"
  /\ IF user[req[s].user].vendor = req[s].vendor
       THEN Goto(s, "write unlink") /\ UNCHANGED req
       ELSE End(s)
  /\ UNCHANGED <<user, app, vendor>>

WriteUnlink(s) ==
  /\ pc[s] = "write unlink"
  /\ user' = IF user[req[s].user].vendor = req[s].vendor
               THEN [user EXCEPT ![req[s].user] = [role |-> "buyer", vendor |-> None]]
               ELSE user
  /\ End(s)
  /\ UNCHANGED <<app, vendor>>

Next == \E s \in Sessions :
  \/ \E r \in Request : Begin(s, r)
  \/ FindPending(s)
  \/ \E a \in Applications : InsertApplication(s, a)
  \/ LockApplication(s) \/ FindVendor(s) \/ Approve(s) \/ Reject(s)
  \/ CheckLink(s) \/ WriteLink(s) \/ CheckUnlink(s) \/ WriteUnlink(s)
  \/ Abort(s)

Spec == Init /\ [][Next]_vars

(***************************************************************************)
(* Properties.                                                             *)
(***************************************************************************)
\* An account has at most one pending application, however its submissions race.
OnePending == \A u \in Users : Cardinality(Pending(u)) =< 1

DecisionKept ==
  \A a \in Applications :
    app[a].status \in {"approved", "rejected"} => app'[a] = app[a]

ApprovedOrBuyer ==
  \A u \in Users :
    \/ user'[u] = user[u]
    \/ user[u].role = "buyer"
    \/ user'[u] = [role |-> "buyer", vendor |-> None] /\ user[u].role = "vendor"
    \/ \E a \in Applications :
         /\ app[a].applicant = u
         /\ app[a].status = "pending" /\ app'[a].status = "approved"

\* Two reviewers never decide the same application: a decision is final.
DecisionIsFinal == [][DecisionKept]_vars

\* Linking and unlinking that race never move an account from one vendor to
\* another, nor touch staff: only the approval of its own application does.
MovedByApprovalOnly == [][ApprovedOrBuyer]_vars

(***************************************************************************)
(* Why it holds: the inductive invariant of the proofs.                    *)
(***************************************************************************)
NamesAssumption == Guest \notin Users /\ None \notin Vendors \cup Users \cup Names

Account == [role : {"buyer", "staff", "vendor"}, vendor : Vendors \cup {None}]
Application == [applicant : Users \cup {Guest}, name : Names,
                status : {"pending", "approved", "rejected"}]
Approval == [kind : {"review"}, app : Applications, decision : {"approve"},
             vendor : Vendors, name : Names]
Stages == {"idle", "submit", "insert", "review", "vendor", "decide",
           "link", "write link", "unlink", "write unlink"}

TypeOK ==
  /\ user \in [Users -> Account]
  /\ app \in [Applications -> Application \cup {NoApplication}]
  /\ vendor \in [Vendors -> Names \cup {None}]
  /\ pc \in [Sessions -> Stages]
  /\ req \in [Sessions -> Request \cup Approval \cup {None}]

\* A request is what its statement needs.
Holds(s) ==
  /\ pc[s] \in {"submit", "insert"} => req[s] \in Submission
  /\ pc[s] \in {"review", "vendor", "decide"} => req[s] \in Review \cup Approval
  /\ pc[s] = "vendor" => req[s].decision = "approve"
  /\ Approving(s) => req[s] \in Approval
  /\ pc[s] \in {"link", "write link", "unlink", "write unlink"} => req[s] \in Link

\* An account belongs to a vendor as its vendor and not otherwise.
RolesAgree == \A u \in Users : user[u].role = "vendor" <=> user[u].vendor # None

\* The unique index.
OneOpen ==
  \A a, b \in Applications :
    /\ app[a].status = "pending" /\ app[b].status = "pending"
    /\ app[a].applicant = app[b].applicant /\ app[a].applicant # Guest
    => a = b

\* An application under review is pending, one that is being approved is that of
\* an account, and one request at a time reviews it.
ReviewsLocked ==
  \A s \in Sessions : pc[s] \in {"vendor", "decide"} =>
    /\ app[req[s].app].status = "pending"
    /\ req[s].decision = "approve" => app[req[s].app].applicant \in Users
    /\ \A t \in Sessions : Reviewing(t, req[s].app) => t = s

IInv ==
  /\ TypeOK
  /\ \A s \in Sessions : Holds(s)
  /\ RolesAgree
  /\ OneOpen
  /\ ReviewsLocked
================================================================================
