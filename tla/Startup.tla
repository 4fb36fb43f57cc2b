-------------------------------- MODULE Startup --------------------------------
(***************************************************************************)
(* Which database a program opens.  The application and each script find   *)
(* that out for themselves, from settings in the process's environment and *)
(* in files of which each reads others, in another order; settings change  *)
(* between one start and the next.                                         *)
(***************************************************************************)
EXTENDS Integers, Sequences, FiniteSets

CONSTANTS
  MaxSettings,    \* bound: changes of a setting
  Unset

VARIABLES
  settings,       \* places: what each sets
  app,            \* the database the application serves, "stopped" or "refused"
  edited          \* a setting changed since

vars == <<settings, app, edited>>

(***************************************************************************)
(* Settings.  Of a URL matters what the checks look for in it.             *)
(***************************************************************************)
Places == {"process", "backend/.env", ".env", ".env.local"}
Choices ==
  [mode |-> {"local", "supabase", "production"},
   url |-> {"here", "supabase", "another supabase", "elsewhere.com", "elsewhere.com, sslmode"},
   host |-> {"localhost", "127.0.0.1", "remote"},
   confirm |-> {"yes"}, testUrl |-> {"test", "another"}, nodeEnv |-> {"production"}]
EnvNames == DOMAIN Choices

\* A setting that is not there is none of the values that one may have.
UnsetAssumption == \A name \in EnvNames : Unset \notin Choices[name]

\* What a file may set; test databases and NODE_ENV are given by hand.
Settable(place) == IF place = "process" THEN EnvNames ELSE {"mode", "url", "host", "confirm"}

Value(name, places) ==
  LET sets == {i \in DOMAIN places : settings[places[i]][name] # Unset}
  IN IF sets = {} THEN Unset
     ELSE settings[places[CHOOSE i \in sets : \A j \in sets : i <= j]][name]

\* The order in which each looks ("backend/.env" stands for the .env.local next to
\* it, too): what is set already is kept, but for the runner of the production
\* migrations, which overrides it.  The path that "assign" reads
\* is no file of the repository, and the load test reads none.
AppPlaces        == <<"process", "backend/.env", ".env">>
SeedPlaces       == <<"process", ".env">>
ProductionPlaces == <<".env.local", ".env", "process">>
ProcessOnly      == <<"process">>

Init ==
  /\ settings = [place \in Places |-> [name \in EnvNames |-> Unset]]
  /\ app = "stopped"
  /\ edited = FALSE

(***************************************************************************)
(* The databases.                                                          *)
(***************************************************************************)
AppCloud  == {"supabase", "another supabase", "elsewhere.com", "elsewhere.com, sslmode"}
SeedCloud == AppCloud \ {"elsewhere.com"}
Supabase  == {"supabase", "another supabase"}

At(url) == IF url = "elsewhere.com, sslmode" THEN "elsewhere.com" ELSE url
On(host) == IF host = "remote" THEN "remote" ELSE "local"

Mode(places) == IF Value("mode", places) = Unset THEN "local" ELSE Value("mode", places)

\* A numeric address counts as remote, and only if no URL is given.
AppDatabase ==
  LET mode == Mode(AppPlaces)
      url  == Value("url", AppPlaces)
      host == Value("host", AppPlaces)
  IN CASE mode = "supabase" /\ url \in AppCloud -> At(url)
       [] /\ mode = "local" /\ url \notin AppCloud
          /\ url = Unset => host \notin {"127.0.0.1", "remote"} -> On(host)
       [] OTHER -> "refused"

\* Fault: the host is looked at first.
ByHostOrUrl(places) ==
  IF Value("host", places) # Unset THEN On(Value("host", places))
  ELSE IF Value("url", places) \in SeedCloud THEN At(Value("url", places)) ELSE "local"

ByUrlOrHost(places) ==
  IF Value("url", places) \in SeedCloud THEN At(Value("url", places))
  ELSE On(Value("host", places))

SeedDatabase == ByUrlOrHost(SeedPlaces)

AssignDatabase ==
  IF Value("nodeEnv", ProcessOnly) = "production" THEN "refused" ELSE ByUrlOrHost(ProcessOnly)

LoadTestDatabase == On(Value("host", ProcessOnly))

\* The runner of the local migrations allows its own test database and nothing else.
Closed(url) == url = "test"

LocalMigrationDatabase ==
  IF /\ Value("confirm", ProcessOnly) = "yes"
     /\ Value("url", ProcessOnly) = Unset /\ Value("host", ProcessOnly) = Unset
     /\ Closed(Value("testUrl", ProcessOnly))
  THEN "test" ELSE "refused"

ProductionMigrationDatabase ==
  IF Value("confirm", ProductionPlaces) = "yes" /\ Value("url", ProductionPlaces) \in Supabase
  THEN At(Value("url", ProductionPlaces)) ELSE "refused"

DatabaseOf ==
  [seed |-> SeedDatabase, assign |-> AssignDatabase, loadTest |-> LoadTestDatabase,
   localMigration |-> LocalMigrationDatabase,
   productionMigration |-> ProductionMigrationDatabase]

(***************************************************************************)
(* Steps.                                                                  *)
(***************************************************************************)
NoSettings == [name \in EnvNames |-> Unset]
Changes == Cardinality({p \in Places \X EnvNames : settings[p[1]][p[2]] # Unset})

Set(place, name) ==
  /\ Changes < MaxSettings
  /\ settings[place][name] = Unset
  /\ \E value \in Choices[name] : settings' = [settings EXCEPT ![place][name] = value]
  /\ edited' = TRUE
  /\ UNCHANGED app
Clear(place, name) ==
  /\ settings[place][name] # Unset
  /\ settings' = [settings EXCEPT ![place][name] = Unset]
  /\ edited' = TRUE
  /\ UNCHANGED app

\* The application keeps the database it was started with.
StartApp ==
  /\ app' = AppDatabase
  /\ edited' = FALSE
  /\ UNCHANGED settings

Next ==
  \/ \E place \in Places : \E name \in Settable(place) : Set(place, name) \/ Clear(place, name)
  \/ StartApp

Spec == Init /\ [][Next]_vars

(***************************************************************************)
(* Properties.                                                             *)
(***************************************************************************)
Databases == {"local", "remote", "test", "elsewhere.com"} \cup Supabase
TypeOK ==
  /\ DOMAIN settings = Places /\ \A place \in Places : DOMAIN settings[place] = EnvNames
  /\ \A place \in Places, name \in EnvNames : settings[place][name] \in Choices[name] \cup {Unset}
  /\ app \in Databases \cup {"stopped", "refused"}

\* Where a script is known to differ from the application: in files that only
\* one of them reads or ranks higher, in a URL that only the application takes
\* for a cloud's, and, for the load test, in every URL.
Misread(script) ==
  LET url == Value("url", AppPlaces) IN
  \/ settings["backend/.env"] # NoSettings
  \/ script \in {"assign", "loadTest"} /\ settings[".env"] # NoSettings
  \/ script = "productionMigration" /\ Value("url", ProductionPlaces) # url
  \/ script \in {"seed", "assign"} /\ url = "elsewhere.com"
  \/ script = "loadTest" /\ url \in AppCloud

\* In local mode the application serves no database in the cloud, unless it is
\* told of a host there and of a URL that is not.
LocalIsLocal ==
  \/ app = "local"
  \/ Mode(AppPlaces) = "supabase"
  \/ Value("url", AppPlaces) = "here" /\ Value("host", AppPlaces) = "remote"

\* While the settings are those the application was started with, a script that
\* starts writes to the database the application serves, or refuses, but for
\* known gaps; the runner of the local migrations writes to none of them.
StartsAgree ==
  app \notin {"stopped", "refused"} /\ ~edited =>
    /\ LocalIsLocal
    /\ \A script \in DOMAIN DatabaseOf \ {"localMigration"} :
         DatabaseOf[script] \in {"refused", app} \/ Misread(script)
    /\ LocalMigrationDatabase # app

(***************************************************************************)
(* Why it holds.                                                           *)
(***************************************************************************)
\* The application serves what the settings say until one changes; the rest is
\* a matter of the settings alone.
IInv == TypeOK /\ (~edited /\ app # "stopped" => app = AppDatabase)
================================================================================
