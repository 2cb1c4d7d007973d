---------------------------- MODULE MCDatabases ----------------------------
(* Three programs: one with tasks, started three times; one whose tasks    *)
(* name proxies; one that saves files in several directories.  Each looks  *)
(* at the files it needs, which tell the programs apart.                   *)
EXTENDS Databases

OfTasks == INSTANCE Databases WITH
  DBs <- {"task"}, ProxyNames <- {}, Paths <- {"a"}
OfProxies == INSTANCE Databases WITH
  DBs <- {"task", "proxy"}, Paths <- {"a"}, Fields <- {}, MaxTasks <- 1, MaxStarts <- 2
OfPaths == INSTANCE Databases WITH
  DBs <- {"config"}, ProxyNames <- {}, Fields <- {}, MaxTasks <- 1, MaxStarts <- 2

MCInit == OfTasks!Init \/ OfProxies!Init \/ OfPaths!Init
MCNext == \/ DOMAIN files = {"task"} /\ OfTasks!Next
          \/ DOMAIN files = {"task", "proxy"} /\ OfProxies!Next
          \/ DOMAIN files = {"config"} /\ OfPaths!Next
MCSpec == MCInit /\ [][MCNext]_vars
=============================================================================
