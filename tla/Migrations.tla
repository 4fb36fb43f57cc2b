------------------------------- MODULE Migrations -------------------------------
(***************************************************************************)
(* The runners that migrate the database.  Every release registers a       *)
(* longer list; a runner applies what is pending in the order of the       *)
(* timestamps in the migrations' names, each in a transaction of its own.  *)
(* That order is not the one in which they were written, so that a         *)
(* database has them in an order that depends on when it was migrated.     *)
(* Runners crash, overlap, are of an old release, and meet rows that a     *)
(* migration refuses.                                                      *)
(***************************************************************************)
EXTENDS Integers, FiniteSets, Sequences, TLC

CONSTANTS
  Runners,      \* runs of the migration command at the same time
  Releases,     \* how many migrations the releases in use have registered
  Registry,     \* the migrations, as MigrationList says what one is
  Kinds         \* the kinds of rows that get in a migration's way

VARIABLES
  target,       \* "production", or the "local" test database
  db,           \* the committed schema
  history,      \* the table of applied migrations exists
  recorded,     \* the migrations it lists
  bad,          \* the kinds of offending rows there are
  pc,           \* where each run stands, or how the last one ended
  release,      \* the release it is of
  pending,      \* the migrations it has still to apply
  excused       \* history: it overlapped another run, or met offending rows

vars == <<target, db, history, recorded, bad, pc, release, pending, excused>>

(***************************************************************************)
(* The order in which TypeORM takes what is pending.                       *)
(***************************************************************************)
Known(n) == 1..n
All == DOMAIN Registry

\* By the timestamp that ends the name; the sort keeps equal ones as registered.
Before(m, n) ==
  LET s == Registry[m].stamp
      t == Registry[n].stamp
  IN \/ s[1] < t[1]
     \/ s[1] = t[1] /\ s[2] < t[2]
     \/ s = t /\ m < n

First(ms) == CHOOSE m \in ms : \A n \in ms \ {m} : Before(m, n)

(***************************************************************************)
(* What a migration does to the schema.                                    *)
(***************************************************************************)
Tables(d) == {p[1] : p \in d.parts}

\* The tables that are not there yet, with what the other statements add.
Created(d, m) == DOMAIN m.tables \ Tables(d)
Grown(d, m) ==
  d.parts \cup m.adds \cup m.once \cup
  UNION {m.tables[t].must \cup m.tables[t].may : t \in Created(d, m)}

\* What runs as if it were the first time finds nothing of its own, what the
\* statements refer to is there, and so are the columns of the indexes to create.
Applicable(d, m) ==
  LET parts == Grown(d, m)
  IN /\ m.needs \subseteq parts
     /\ \A name \in DOMAIN m.on \ d.names : m.on[name] \subseteq parts
     /\ m.fresh \cap (d.names \cup Tables(d)) = {}
     /\ m.once \cap d.parts = {}
     /\ m.exact => \A r \in m.renames : (r.old \in parts) # (r.new \in parts)
     /\ m.bars \cap bad = {}

\* PostgreSQL's indexes and constraints follow a renamed column.
Applied(d, m) ==
  LET parts   == Grown(d, m)
      must    == d.must \cup UNION {m.tables[t].must : t \in Created(d, m)}
      renames == {r \in m.renames : r.old \in parts /\ r.new \notin parts}
      old     == {r.old : r \in renames}
      Renamed(ps) == (ps \ old) \cup {r.new : r \in {q \in renames : q.old \in ps}}
  IN [parts |-> Renamed(parts), must |-> Renamed(must),
      names |-> d.names \cup DOMAIN m.on \cup (m.fresh \ DOMAIN m.tables)]

(***************************************************************************)
(* What a list of migrations has to keep for upgrades to arrive whoever    *)
(* applies which of them when: facts about the list alone.                 *)
(***************************************************************************)
\* Wherever m is registered k is, and it is taken first.
Precedes(k, m) == k < m /\ Before(k, m)

Makes(m)    == DOMAIN Registry[m].tables
Must(m)     == UNION {Registry[m].tables[t].must : t \in Makes(m)}
MadeWith(m) == Must(m) \cup UNION {Registry[m].tables[t].may : t \in Makes(m)}
Added(m)    == Registry[m].adds \cup Registry[m].once
Given(m)    == MadeWith(m) \cup Added(m)
Named(m)    == DOMAIN Registry[m].on \cup (Registry[m].fresh \ Makes(m))
Indexes(m)  == UNION {Registry[m].on[name] : name \in DOMAIN Registry[m].on}
Olds(m)     == {r.old : r \in Registry[m].renames}
News(m)     == {r.new : r \in Registry[m].renames}

\* A table is made by one migration, with a column at least; whoever adds to it
\* comes later.
TablesOnce ==
  \A m \in All : \A t \in Makes(m) :
    /\ Registry[m].tables[t].must \cup Registry[m].tables[t].may # {}
    /\ \A p \in Registry[m].tables[t].must \cup Registry[m].tables[t].may : p[1] = t
    /\ \A n \in All \ {m} :
         /\ t \notin Makes(n)
         /\ \A p \in Given(n) : p[1] = t => Precedes(m, n)

\* A column is renamed by one migration, within its table and after that was made,
\* to a name that nothing else has.
RenamedOnce ==
  \A m \in All : \A r \in Registry[m].renames :
    /\ r.old[1] = r.new[1]
    /\ \E k \in All : r.old \in MadeWith(k) /\ Precedes(k, m)
    /\ \A n \in All :
         /\ r.old \notin Added(n) \cup News(n)
         /\ r.new \notin Given(n)
         /\ \A q \in Registry[n].renames :
              q.old = r.old \/ q.new = r.new => q = r /\ n = m

\* What a migration refers to is made by itself or before it, and renamed after it.
NeedsMet ==
  \A m \in All : \A p \in Registry[m].needs \cup Indexes(m) :
    /\ \/ p \in Given(m)
       \/ \E k \in All : Precedes(k, m) /\ p \in Given(k) \cup News(k)
    /\ \A n \in All : p \in Olds(n) => Precedes(m, n)

\* What it makes as if nobody had, nobody makes before it.
FreshOnce ==
  \A m, n \in All :
    \/ m = n \/ Precedes(m, n)
    \/ /\ Registry[m].fresh \cap (Named(n) \cup {p[1] : p \in Given(n)}) = {}
       /\ Registry[m].once \cap Given(n) = {}

RegistryAssumption ==
  /\ Len(Registry) \in Nat /\ All = 1..Len(Registry)
  /\ \A m \in All : Registry[m].stamp \in Nat \X Nat
  /\ Releases # {} /\ \A n \in Releases : n \in Nat /\ Known(n) \subseteq All
  /\ TablesOnce /\ RenamedOnce /\ NeedsMet /\ FreshOnce

(***************************************************************************)
(* The command "up".                                                       *)
(***************************************************************************)
Empty == [parts |-> {}, must |-> {}, names |-> {}]

Init ==
  /\ target \in {"production", "local"}
  /\ db = Empty
  /\ history \in BOOLEAN
  /\ recorded = {} /\ bad = {}
  /\ pc = [s \in Runners |-> "idle"]
  /\ release = [s \in Runners |-> CHOOSE n \in Releases : TRUE]
  /\ pending = [s \in Runners |-> {}]
  /\ excused = [s \in Runners |-> FALSE]

Running(s) == pc[s] \in {"started", "checked", "applying", "verifying"}

\* The production runner looks at the history first; the local one leaves that
\* to TypeORM.
Up(s, n) ==
  LET others == {t \in Runners \ {s} : Running(t)}
  IN /\ ~Running(s)
     /\ pc' = [pc EXCEPT ![s] = IF target = "production" THEN "started" ELSE "checked"]
     /\ release' = [release EXCEPT ![s] = n]
     /\ pending' = [pending EXCEPT ![s] = {}]
     /\ excused' = [t \in Runners |->
          IF t = s THEN others # {} ELSE excused[t] \/ t \in others]
     /\ UNCHANGED <<target, db, history, recorded, bad>>

End(s, how) == pc' = [pc EXCEPT ![s] = how] /\ pending' = [pending EXCEPT ![s] = {}]

\* Without a history, or with one that the release does not know, it stops.
CheckHistory(s) ==
  /\ pc[s] = "started"
  /\ End(s, CASE ~history \/ ~(recorded \subseteq Known(release[s])) -> "blocked"
              [] Known(release[s]) \subseteq recorded                -> "done"
              [] OTHER                                               -> "checked")
  /\ UNCHANGED <<target, db, history, recorded, bad, release, excused>>

\* TypeORM creates the history and takes what is registered and not in it.
Load(s) ==
  /\ pc[s] = "checked"
  /\ history' = TRUE
  /\ pending' = [pending EXCEPT ![s] = Known(release[s]) \ recorded]
  /\ pc' = [pc EXCEPT ![s] = "applying"]
  /\ UNCHANGED <<target, db, recorded, bad, release, excused>>

\* Fault: the entry is not written in the migration's transaction, and the process
\* may die between the two.
ApplyInTwo(s) ==
  LET m == First(pending[s])
  IN /\ pc[s] = "applying" /\ pending[s] # {}
     /\ Applicable(db, Registry[m])
     /\ db' = Applied(db, Registry[m])
     /\ \/ /\ recorded' = recorded \cup {m}
           /\ pending' = [pending EXCEPT ![s] = @ \ {m}]
           /\ UNCHANGED pc
        \/ End(s, "idle") /\ UNCHANGED recorded
     /\ UNCHANGED <<target, history, bad, release, excused>>

\* One migration and its entry in the history, in a transaction of their own.
Apply(s) ==
  LET m == First(pending[s])
  IN /\ pc[s] = "applying" /\ pending[s] # {}
     /\ Applicable(db, Registry[m])
     /\ db' = Applied(db, Registry[m])
     /\ recorded' = recorded \cup {m}
     /\ pending' = [pending EXCEPT ![s] = @ \ {m}]
     /\ UNCHANGED <<target, history, bad, pc, release, excused>>

\* The statements of a migration fail, and what follows is not tried.
Refused(s) ==
  LET m == First(pending[s])
  IN /\ pc[s] = "applying" /\ pending[s] # {}
     /\ ~Applicable(db, Registry[m])
     /\ End(s, "failed")
     /\ excused' = [excused EXCEPT ![s] = @ \/ Registry[m].bars \cap bad # {}]
     /\ UNCHANGED <<target, db, history, recorded, bad, release>>

\* Two transactions that change the schema at once may make one another fail.
Collide(s) ==
  /\ pc[s] = "applying" /\ pending[s] # {}
  /\ \E t \in Runners \ {s} : pc[t] = "applying"
  /\ End(s, "failed")
  /\ UNCHANGED <<target, db, history, recorded, bad, release, excused>>

Finish(s) ==
  /\ pc[s] = "applying" /\ pending[s] = {}
  /\ pc' = [pc EXCEPT ![s] = IF target = "production" THEN "verifying" ELSE "done"]
  /\ UNCHANGED <<target, db, history, recorded, bad, release, pending, excused>>

\* The production runner reads the history again.
Verify(s) ==
  /\ pc[s] = "verifying"
  /\ End(s, IF Known(release[s]) \subseteq recorded THEN "done" ELSE "incomplete")
  /\ UNCHANGED <<target, db, history, recorded, bad, release, excused>>

\* The process dies: an open transaction is rolled back.
Crash(s) ==
  /\ Running(s)
  /\ End(s, "idle")
  /\ UNCHANGED <<target, db, history, recorded, bad, release, excused>>

(***************************************************************************)
(* Offending rows: the table is there, and nothing keeps them out yet.     *)
(***************************************************************************)
Home(k)  == IF k = "two pending applications" THEN "vendor_applications" ELSE "users"
Guard(k) == CASE k = "two pending applications" -> "idx_vendor_applications_pending_applicant"
              [] k = "user of no vendor"        -> "fk_users_vendor"
              [] OTHER                          -> "chk_users_vendor_role"

Spoil(k) ==
  /\ k \notin bad /\ Home(k) \in Tables(db) /\ Guard(k) \notin db.names
  /\ bad' = bad \cup {k}
  /\ UNCHANGED <<target, db, history, recorded, pc, release, pending, excused>>

Repair(k) ==
  /\ k \in bad
  /\ bad' = bad \ {k}
  /\ UNCHANGED <<target, db, history, recorded, pc, release, pending, excused>>

Next ==
  \/ \E s \in Runners :
       \/ \E n \in Releases : Up(s, n)
       \/ CheckHistory(s) \/ Load(s) \/ Apply(s) \/ Refused(s) \/ Collide(s)
       \/ Finish(s) \/ Verify(s) \/ Crash(s)
  \/ \E k \in Kinds : Spoil(k) \/ Repair(k)

Spec == Init /\ [][Next]_vars

(***************************************************************************)
(* Properties.                                                             *)
(***************************************************************************)
TypeOK ==
  /\ recorded \subseteq All
  /\ pc \in [Runners -> {"idle", "started", "checked", "applying", "verifying",
                         "done", "blocked", "failed", "incomplete"}]
  /\ release \in [Runners -> Releases]
  /\ pending \in [Runners -> SUBSET All]
  /\ excused \in [Runners -> BOOLEAN]

\* Whichever releases the database was migrated with, and wherever runs died, a
\* later run is refused only for rows that have to be repaired, or because
\* another run was in its way: a migration finds what it builds on whatever the
\* order of the timestamps, and half a migration is never left behind.
FailsOnlyWhenExcused ==
  \A s \in Runners : pc[s] \in {"failed", "incomplete"} => excused[s]

\* A new database: what the last release applies, one migration after the other.
Upgraded[n \in 0..Len(Registry)] ==
  IF n = 0 THEN [db |-> Empty, recorded |-> {}]
  ELSE LET before == Upgraded[n - 1]
           m      == First(All \ before.recorded)
       IN [db       |-> Applied(before.db, Registry[m]),
           recorded |-> before.recorded \cup {m}]
SchemaOfNew == Upgraded[Len(Registry)].db

\* A database migrated release by release, in another order, ends with the
\* schema of one that was created by the last release.
OneSchema == recorded = All => db = SchemaOfNew

\* Upgrades arrive, at one schema.
SchemaSettles == FailsOnlyWhenExcused /\ OneSchema

(***************************************************************************)
(* Why they hold.                                                          *)
(***************************************************************************)
\* What the migrations of ms make, in whatever order.
Joined(ms) ==
  LET parts   == UNION {Given(m) : m \in ms}
      must    == UNION {Must(m) : m \in ms}
      renames == UNION {Registry[m].renames : m \in ms}
      old     == {r.old : r \in renames}
  IN [parts |-> (parts \ old) \cup {r.new : r \in renames},
      must  |-> (must \ old) \cup {r.new : r \in {q \in renames : q.old \in must}},
      names |-> UNION {Named(m) : m \in ms}]

\* What has to come before one of ms is in there, too.
Closed(ms) == \A m \in ms, k \in All : Precedes(k, m) => k \in ms

\* Whoever applies what a release still lacks knows it, applies no migration before
\* what precedes it, and, with nobody else at work, none that is recorded.
Upgrading(s) ==
  pc[s] \in {"applying", "verifying"} =>
    /\ Known(release[s]) \subseteq recorded \cup pending[s]
    /\ \A m \in pending[s], k \in All : Precedes(k, m) => k \in recorded \cup pending[s]
    /\ excused[s] \/ pending[s] \cap recorded = {}
    /\ pc[s] = "verifying" => pending[s] = {}

Overlap(s, t) == Running(s) /\ Running(t) => excused[s] /\ excused[t]

IInv ==
  /\ TypeOK
  /\ db = Joined(recorded) /\ Closed(recorded)
  /\ \A s \in Runners : Upgrading(s) /\ \A t \in Runners \ {s} : Overlap(s, t)
  /\ FailsOnlyWhenExcused
================================================================================
