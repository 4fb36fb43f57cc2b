\* The application's entities against the schema of its migrations.
CONSTANTS
  Runners = {r1}
  Registry <- MigrationRegistry
  Releases = {36}
  Kinds = {}
\* Once everything is applied, a run finds nothing to do.
CHECK_DEADLOCK FALSE
SPECIFICATION Spec
INVARIANT EntitiesFit
