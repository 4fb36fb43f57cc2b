------------------------------ MODULE Credentials ------------------------------
(***************************************************************************)
(* One account in AuthService: how it is made, its password and role, and  *)
(* the links that reset its password.  Its sessions are in RefreshTokens.  *)
(*                                                                         *)
(* Requests read first and write later, most of them without a             *)
(* transaction.  A password is changed by saving the whole user, which     *)
(* updates every column that differs from the row by then.                 *)
(***************************************************************************)
EXTENDS Integers

CONSTANTS
  Sessions,     \* requests served at the same time
  Passwords,
  Links,        \* links to reset the password
  NoOne         \* no user, link or password

VARIABLES
  user,         \* the row of the account in users
  links,        \* password_reset_tokens, and the mails that carry them
  pc,           \* where each request stands
  mem,          \* what each request holds
  granted,      \* history: the role that creation or staff set last
  raced,        \* history: the roles set while a password was being saved
  spent,        \* history: the links that took effect
  respent       \* history: those that did so again

vars == <<user, links, pc, mem, granted, raced, spent, respent>>
history == <<granted, raced, spent, respent>>

Roles == {"buyer", "vendor"}
User == [password : Passwords \cup {NoOne}, role : Roles]
Link == [row : {"none", "stored", "expired", "used"}, sent : BOOLEAN, reported : BOOLEAN]
Nothing == [entity |-> NoOne, link |-> NoOne, stale |-> FALSE]

Init ==
  /\ user = NoOne
  /\ links = [l \in Links |-> [row |-> "none", sent |-> FALSE, reported |-> FALSE]]
  /\ pc = [s \in Sessions |-> "idle"]
  /\ mem = [s \in Sessions |-> Nothing]
  /\ granted \in Roles
  /\ raced = {} /\ spent = {} /\ respent = {}

Goto(s, step, held) ==
  /\ pc' = [pc EXCEPT ![s] = step]
  /\ mem' = [mem EXCEPT ![s] = held]
End(s) == Goto(s, "idle", Nothing)
Holding(entity, link) == [entity |-> entity, link |-> link, stale |-> FALSE]

(***************************************************************************)
(* Registration.                                                           *)
(***************************************************************************)
\* register: nobody has the email.
FindNobody(s, password) ==
  /\ pc[s] = "idle"
  /\ user = NoOne
  /\ Goto(s, "create", Holding([password |-> password, role |-> "buyer"], NoOne))
  /\ UNCHANGED <<user, links, history>>

\* googleSignIn: a new user is created without a password, in the role of the
\* portal; one that is found just gets tokens.
FindForGoogle(s, portal) ==
  /\ pc[s] = "idle"
  /\ user = NoOne
  /\ Goto(s, "create", Holding([password |-> NoOne, role |-> portal], NoOne))
  /\ UNCHANGED <<user, links, history>>

\* Emails are unique: whoever comes second fails.
InsertUser(s) ==
  /\ pc[s] = "create"
  /\ IF user = NoOne THEN user' = mem[s].entity /\ granted' = mem[s].entity.role
                     ELSE UNCHANGED <<user, granted>>
  /\ End(s)
  /\ UNCHANGED <<links, raced, spent, respent>>

(***************************************************************************)
(* Passwords.                                                              *)
(***************************************************************************)
\* changePassword: the current one matches.
FindUser(s, old, new) ==
  /\ pc[s] = "idle"
  /\ user # NoOne /\ user.password = old
  /\ Goto(s, "compare", Holding([user EXCEPT !.password = new], NoOne))
  /\ UNCHANGED <<user, links, history>>

\* save loads the row: a role that differs will be written, too.
Compare(s) ==
  /\ pc[s] = "compare"
  /\ Goto(s, "update", [mem[s] EXCEPT !.stale = mem[s].entity.role # user.role])
  /\ UNCHANGED <<user, links, history>>

\* Fault: the update writes the entity as it was read.
WrittenWhole(s) == mem[s].entity

Written(s) ==
  [password |-> mem[s].entity.password,
   role |-> IF mem[s].stale THEN mem[s].entity.role ELSE user.role]

\* A reset that has updated the row keeps it until it commits.
UserFree == \A s \in Sessions : pc[s] # "commit"

\* The update of a changed password, which commits at once, or of a reset's.
Update(s) ==
  /\ pc[s] = "update"
  /\ UserFree
  /\ IF mem[s].link = NoOne THEN user' = Written(s) /\ End(s)
                             ELSE UNCHANGED user /\ Goto(s, "commit", mem[s])
  /\ UNCHANGED <<links, history>>

\* Staff, and the review of an application, set the role under the row's lock.
SetRole(role) ==
  /\ user # NoOne
  /\ UserFree
  /\ user' = [user EXCEPT !.role = role]
  /\ granted' = role
  /\ raced' = IF \E s \in Sessions : pc[s] = "compare" THEN raced \cup {role} ELSE raced
  /\ UNCHANGED <<links, pc, mem, spent, respent>>

(***************************************************************************)
(* Resets.                                                                 *)
(***************************************************************************)
\* requestReset: the link is stored before it is mailed.
StoreLink(s, l) ==
  /\ pc[s] = "idle"
  /\ user # NoOne
  /\ links[l].row = "none" /\ ~links[l].sent
  /\ \A r \in Sessions : mem[r].link # l
  /\ links' = [links EXCEPT ![l].row = "stored"]
  /\ Goto(s, "mail", Holding(NoOne, l))
  /\ UNCHANGED <<user, history>>

\* The provider's answer may be lost although the mail goes out.
Mail(s, sent, reported) ==
  /\ pc[s] = "mail"
  /\ reported => sent
  /\ links' = [links EXCEPT ![mem[s].link].sent = sent,
                            ![mem[s].link].reported = reported]
  /\ IF reported THEN End(s) ELSE Goto(s, "clean up", mem[s])
  /\ UNCHANGED <<user, history>>

CleanUp(s) ==
  /\ pc[s] = "clean up"
  /\ links' = [links EXCEPT ![mem[s].link].row = "none"]
  /\ End(s)
  /\ UNCHANGED <<user, history>>

ExpireLink(l) ==
  /\ links[l].row \in {"stored", "used"}
  /\ links' = [links EXCEPT ![l].row = "expired"]
  /\ UNCHANGED <<user, pc, mem, history>>

\* The row with this hash: the library drops the criterion that used_at is null, so
\* that a used one is found, too.  An expired one is refused; its deletion is rolled
\* back with the transaction.
Accepted(l) == links[l].row \in {"stored", "used"}

Resetting(s, l) ==
  pc[s] \in {"reset", "compare", "update", "commit"} /\ mem[s].link = l

\* resetPassword, by someone who got the mail.
FindLink(s, l) ==
  /\ pc[s] = "idle"
  /\ links[l].sent
  /\ Accepted(l)
  /\ Goto(s, "reset", Holding(NoOne, l))
  /\ UNCHANGED <<user, links, history>>

ReadUser(s, new) ==
  /\ pc[s] = "reset"
  /\ Goto(s, "compare", Holding([user EXCEPT !.password = new], mem[s].link))
  /\ UNCHANGED <<user, links, history>>

\* The sessions are revoked before the commit, on another connection.
\* A link whose row was cleaned up meanwhile is inserted again or stays away, as
\* save found it; one that expired meanwhile stays too old.
Commit(s) ==
  LET l == mem[s].link
      old == links[l].row IN
  /\ pc[s] = "commit"
  /\ user' = Written(s)
  /\ \E row \in {IF old = "expired" THEN old ELSE "used"} \cup ({"none"} \cap {old}) :
       links' = [links EXCEPT ![l].row = row]
  /\ spent' = spent \cup {l}
  /\ respent' = respent \cup ({l} \cap spent)
  /\ End(s)
  /\ UNCHANGED <<granted, raced>>

\* A crash or a lost connection: a transaction is rolled back.
Abort(s) ==
  /\ pc[s] # "idle"
  /\ End(s)
  /\ UNCHANGED <<user, links, history>>

Next ==
  \/ \E s \in Sessions :
       \/ \E p \in Passwords : FindNobody(s, p)
       \/ \E portal \in Roles : FindForGoogle(s, portal)
       \/ InsertUser(s)
       \/ \E old, new \in Passwords : FindUser(s, old, new)
       \/ Compare(s) \/ Update(s)
       \/ \E l \in Links : StoreLink(s, l) \/ FindLink(s, l)
       \/ \E sent, reported \in BOOLEAN : Mail(s, sent, reported)
       \/ CleanUp(s)
       \/ \E new \in Passwords : ReadUser(s, new)
       \/ Commit(s) \/ Abort(s)
  \/ \E l \in Links : ExpireLink(l)
  \/ \E role \in Roles : SetRole(role)

Spec == Init /\ [][Next]_vars

(***************************************************************************)
(* Properties.                                                             *)
(***************************************************************************)
\* The account has the role that staff set last, or that it was made with: saving
\* a password brings back another only if the role was set while it was saved.
RoleKept == user # NoOne /\ raced = {} => user.role = granted

\* A link resets the password once.  The program lets a used link pass.
ResetOnce == respent = {}

\* A link that was reported as delivered can be used, or was, or is too old.
DeliveredLinksWork == \A l \in Links : links[l].reported => links[l].row # "none"

(***************************************************************************)
(* Why they hold.                                                          *)
(***************************************************************************)
NoOneAssumption == NoOne \notin Passwords \cup Links \cup User

TypeOK ==
  /\ user \in User \cup {NoOne}
  /\ links \in [Links -> Link]
  /\ pc \in [Sessions -> {"idle", "create", "compare", "update", "commit",
                          "mail", "clean up", "reset"}]
  /\ mem \in [Sessions -> [entity : User \cup {NoOne}, link : Links \cup {NoOne},
                           stale : BOOLEAN]]
  /\ granted \in Roles
  /\ raced \subseteq Roles
  /\ {spent, respent} \subseteq SUBSET Links

\* What a request relies on: its entity has the role of the row, or will not write
\* it; its link was sent, or is only known to itself.
Relies(s) ==
  /\ pc[s] \in {"create", "compare", "update", "commit"} => mem[s].entity # NoOne
  /\ pc[s] \in {"compare", "update", "commit", "reset", "mail"} => user # NoOne
  /\ pc[s] = "compare" /\ raced = {} => mem[s].entity.role = user.role
  /\ pc[s] \in {"update", "commit"} /\ mem[s].stale => raced # {}
  /\ pc[s] \in {"reset", "commit", "mail", "clean up"} => mem[s].link # NoOne
  /\ \A l \in Links : Resetting(s, l) => links[l].sent
  /\ pc[s] = "mail" => ~links[mem[s].link].sent /\ links[mem[s].link].row # "none"
  /\ pc[s] = "clean up" => ~links[mem[s].link].reported

\* A link is mailed by one request.
OneSender ==
  \A s, r \in Sessions :
    pc[s] \in {"mail", "clean up"} /\ pc[r] \in {"mail", "clean up"} /\ mem[s].link = mem[r].link
      => s = r

\* Links are mailed to users.
Mailed ==
  \A l \in Links :
    /\ links[l].reported => links[l].sent
    /\ links[l].sent => user # NoOne

IInv ==
  /\ TypeOK
  /\ \A s \in Sessions : Relies(s)
  /\ OneSender /\ Mailed
  /\ RoleKept /\ DeliveredLinksWork
================================================================================
