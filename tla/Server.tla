------------------------------- MODULE Server -------------------------------
(***************************************************************************)
(* Start and stop of the application server (backend/main.py, lifespan):   *)
(* migrations under an advisory lock (core/migrations.py), two PostgreSQL  *)
(* pools (core/postgres.py), the Neo4j drivers (core/neo4j.py,             *)
(* orchestrator/execution/cypher_executor.py) and what is closed again     *)
(* when a step fails or the server ends.  Several servers, of the same or  *)
(* of different releases, start on one database.                           *)
(***************************************************************************)
EXTENDS Naturals, Sequences, FiniteSets

CONSTANTS
  Servers,
  Files,        \* server -> its migrations, sorted: <<[name, sha256], ...>>
  Failing,      \* checksums of migrations whose SQL the database refuses
  ReaderRole,   \* servers whose reader account really is read-only
  MaxStarts,    \* bound: server -> how often it may be started
  NoServer

(* Migrations have different names, and two releases that both have an     *)
(* i-th migration call it the same: files are only ever added at the end.  *)
ASSUME FilesAssumption ==
  /\ Files \in [Servers -> Seq([name : STRING, sha256 : STRING])]
  /\ \A s, t \in Servers : \A i \in DOMAIN Files[s], k \in DOMAIN Files[t] :
       Files[s][i].name = Files[t][k].name <=> i = k

Drivers == {"driver", "reader"}
Resources == Drivers \cup {"log", "read pool", "write pool"}

VARIABLES
  pc,       \* server -> its next step
  open,     \* server -> what it holds
  stuck,    \* server -> what could not be closed
  file,     \* server -> index of the migration it looks at
  pending,  \* server -> rows its open transaction has written
  starts,   \* server -> how often it was started
  lock,     \* holder of the advisory lock
  rows,     \* app.schema_migrations, name -> sha256, with the schema they made
  probe     \* is a probe node left in the graph?

serverVars == <<pc, open, stuck, file, pending, starts, lock, rows, probe>>
database == <<lock, rows, pending, file>>

NoRows == [n \in {} |-> ""]

ServerInit ==
  /\ pc = [s \in Servers |-> "stopped"]
  /\ open = [s \in Servers |-> {}] /\ stuck = [s \in Servers |-> {}]
  /\ file = [s \in Servers |-> 1]
  /\ pending = [s \in Servers |-> NoRows]
  /\ starts = [s \in Servers |-> 0]
  /\ lock = NoServer /\ rows = NoRows /\ probe = FALSE

Goto(s, step) == pc' = [pc EXCEPT ![s] = step]
Gets(s, r) == open' = [open EXCEPT ![s] = @ \cup {r}]

----------------------------------------------------------------------------
(* check_jwt_secret, configure_observability_logging and get_driver come   *)
(* before the first try: when there is no NEO4J_URI the log stays.         *)
Startup(s) ==
  /\ pc[s] = "stopped" /\ starts[s] < MaxStarts[s] /\ open[s] = {}
  /\ starts' = [starts EXCEPT ![s] = @ + 1]
  /\ \/ UNCHANGED <<pc, open>>
     \/ Gets(s, "log") /\ UNCHANGED pc
     \/ open' = [open EXCEPT ![s] = {"log", "driver"}] /\ Goto(s, "bootstrap")
  /\ UNCHANGED <<stuck, database, probe>>

(* Only the extension may be missing, not the connection.                  *)
bootstrap_postgres(s) ==
  /\ pc[s] = "bootstrap"
  /\ \/ Goto(s, "lock")
     \/ Goto(s, "close driver")
  /\ UNCHANGED <<open, stuck, starts, database, probe>>

----------------------------------------------------------------------------
(* apply_migrations.                                                       *)

Lock(s) ==
  /\ pc[s] = "lock" /\ lock = NoServer
  /\ lock' = s
  /\ file' = [file EXCEPT ![s] = 1]
  /\ Goto(s, "select")
  /\ UNCHANGED <<open, stuck, starts, rows, pending, probe>>

(* Mutant: a row counts whatever its checksum.                             *)
SelectByName(s) ==
  /\ pc[s] = "select"
  /\ IF file[s] > Len(Files[s])
     THEN Goto(s, "unlock") /\ UNCHANGED file
     ELSE IF Files[s][file[s]].name \notin DOMAIN rows
          THEN Goto(s, "execute") /\ UNCHANGED file
          ELSE file' = [file EXCEPT ![s] = @ + 1] /\ UNCHANGED pc
  /\ UNCHANGED <<open, stuck, starts, lock, rows, pending, probe>>

(* The row of the next file, as committed or as written by this            *)
(* transaction.  One with another checksum is an error.                    *)
Select(s) ==
  /\ pc[s] = "select"
  /\ IF file[s] > Len(Files[s])
     THEN Goto(s, "unlock") /\ UNCHANGED file
     ELSE LET f == Files[s][file[s]] IN
          IF f.name \notin DOMAIN rows
          THEN Goto(s, "execute") /\ UNCHANGED file
          ELSE IF rows[f.name] # f.sha256
          THEN Goto(s, "unlock, failed") /\ UNCHANGED file
          ELSE file' = [file EXCEPT ![s] = @ + 1] /\ UNCHANGED pc
  /\ UNCHANGED <<open, stuck, starts, lock, rows, pending, probe>>

(* Mutant: a failing file is skipped.                                      *)
ExecuteRest(s) ==
  /\ pc[s] = "execute"
  /\ LET f == Files[s][file[s]] IN
     /\ \A t \in Servers \ {s} : f.name \notin DOMAIN pending[t]
     /\ pending' = [pending EXCEPT ![s] =
          IF f.name \in DOMAIN rows \/ f.sha256 \in Failing THEN @
          ELSE [n \in DOMAIN @ \cup {f.name} |-> IF n = f.name THEN f.sha256 ELSE @[n]]]
     /\ file' = [file EXCEPT ![s] = @ + 1]
     /\ Goto(s, "select")
  /\ UNCHANGED <<open, stuck, starts, lock, rows, probe>>

(* The SELECT has opened a transaction, so conn.transaction() is only a    *)
(* savepoint of it and nothing is committed yet.  PostgreSQL lets the SQL  *)
(* wait while another transaction has done the same, and refuses it when   *)
(* that one commits.                                                       *)
Execute(s) ==
  /\ pc[s] = "execute"
  /\ LET f == Files[s][file[s]] IN
     /\ \A t \in Servers \ {s} : f.name \notin DOMAIN pending[t]
     /\ IF f.name \in DOMAIN rows \/ f.sha256 \in Failing
        THEN Goto(s, "unlock, failed") /\ UNCHANGED <<file, pending>>
        ELSE /\ pending' = [pending EXCEPT ![s] =
                  [n \in DOMAIN @ \cup {f.name} |-> IF n = f.name THEN f.sha256 ELSE @[n]]]
             /\ file' = [file EXCEPT ![s] = @ + 1]
             /\ Goto(s, "select")
  /\ UNCHANGED <<open, stuck, starts, lock, rows, probe>>

(* The finally gives the lock away first and commits afterwards.           *)
Unlock(s) ==
  /\ pc[s] \in {"unlock", "unlock, failed"}
  /\ lock' = NoServer
  /\ Goto(s, IF pc[s] = "unlock" THEN "commit" ELSE "commit, failed")
  /\ UNCHANGED <<open, stuck, starts, rows, pending, file, probe>>

WithRows(s) ==
  [n \in DOMAIN rows \cup DOMAIN pending[s] |->
     IF n \in DOMAIN pending[s] THEN pending[s][n] ELSE rows[n]]

Commit(s) ==
  /\ pc[s] \in {"commit", "commit, failed"}
  /\ rows' = WithRows(s)
  /\ pending' = [pending EXCEPT ![s] = NoRows]
  /\ Goto(s, IF pc[s] = "commit" THEN "read pool" ELSE "close driver")
  /\ UNCHANGED <<open, stuck, starts, lock, file, probe>>

(* The connection breaks: PostgreSQL rolls back and releases the lock.     *)
Migrating == {"lock", "select", "execute", "unlock", "unlock, failed", "commit",
              "commit, failed"}

ConnectionLost(s) ==
  /\ pc[s] \in Migrating
  /\ pending' = [pending EXCEPT ![s] = NoRows]
  /\ lock' = IF lock = s THEN NoServer ELSE lock
  /\ Goto(s, "close driver")
  /\ UNCHANGED <<open, stuck, starts, rows, file, probe>>

----------------------------------------------------------------------------
(* open_pool: a pool that cannot be filled closes itself.  It is awaited   *)
(* outside the try that closes the pools, so the first one stays when the  *)
(* second cannot be opened.                                                *)
open_pool(s) ==
  /\ \/ /\ pc[s] = "read pool"
        /\ \/ Gets(s, "read pool") /\ Goto(s, "write pool")
           \/ Goto(s, "close driver") /\ UNCHANGED open
     \/ /\ pc[s] = "write pool"
        /\ \/ Gets(s, "write pool") /\ Goto(s, "reader")
           \/ Goto(s, "close driver") /\ UNCHANGED open
  /\ UNCHANGED <<stuck, starts, database, probe>>

(* The reader's settings are required.                                     *)
get_reader_driver(s) ==
  /\ pc[s] = "reader"
  /\ \/ Gets(s, "reader") /\ Goto(s, "verify")
     \/ Goto(s, "close pools") /\ UNCHANGED open
  /\ UNCHANGED <<stuck, starts, database, probe>>

(* Mutant: the verification stands before the try that closes the reader.  *)
VerifyOutsideTry(s) ==
  /\ pc[s] = "verify"
  /\ \/ Goto(s, "close pools") /\ UNCHANGED probe
     \/ IF s \in ReaderRole
        THEN Goto(s, "build") /\ UNCHANGED probe
        ELSE Goto(s, "clean up probe") /\ probe' = TRUE
  /\ UNCHANGED <<open, stuck, starts, database>>

(* verify_connectivity, then a write that must be forbidden; one that was  *)
(* not is undone before the start is given up.                             *)
verify_reader_is_read_only(s) ==
  /\ pc[s] = "verify"
  /\ \/ Goto(s, "close reader") /\ UNCHANGED probe
     \/ IF s \in ReaderRole
        THEN Goto(s, "build") /\ UNCHANGED probe
        ELSE Goto(s, "clean up probe") /\ probe' = TRUE
  /\ UNCHANGED <<open, stuck, starts, database>>

CleanUpProbe(s) ==
  /\ pc[s] = "clean up probe"
  /\ probe' \in {probe, FALSE}
  /\ Goto(s, "close reader")
  /\ UNCHANGED <<open, stuck, starts, database>>

(* build_orchestrator_graph needs the model's key and the schema files.    *)
Build(s) ==
  /\ pc[s] = "build"
  /\ \/ Goto(s, "serving") \/ Goto(s, "close reader")
  /\ UNCHANGED <<open, stuck, starts, database, probe>>

Shutdown(s) ==
  /\ pc[s] = "serving"
  /\ Goto(s, "close reader")
  /\ UNCHANGED <<open, stuck, starts, database, probe>>

----------------------------------------------------------------------------
(* The nested finally blocks.  A close that raises leaves its resource,    *)
(* and the blocks around it still run.                                     *)

Closes(s, r) == open' = [open EXCEPT ![s] = @ \ {r}] /\ UNCHANGED stuck
Sticks(s, r) == stuck' = [stuck EXCEPT ![s] = @ \cup ({r} \cap open[s])] /\ UNCHANGED open

CloseReader(s) ==
  /\ pc[s] = "close reader"
  /\ Closes(s, "reader") \/ Sticks(s, "reader")
  /\ Goto(s, "close pools")
  /\ UNCHANGED <<starts, database, probe>>

(* close_pool closes the two in turn: the second only after the first.     *)
ClosePool(s) ==
  /\ \/ /\ pc[s] = "close pools"
        /\ \/ Closes(s, "read pool") /\ Goto(s, "close write pool")
           \/ Sticks(s, "read pool") /\ Goto(s, "close driver")
     \/ /\ pc[s] = "close write pool"
        /\ Closes(s, "write pool") \/ Sticks(s, "write pool")
        /\ Goto(s, "close driver")
  /\ UNCHANGED <<starts, database, probe>>

(* stop_observability_logging follows close_driver in one block.           *)
CloseDriver(s) ==
  /\ pc[s] = "close driver"
  /\ \/ Closes(s, "driver") /\ Goto(s, "stop log")
     \/ Sticks(s, "driver") /\ Goto(s, "stopped")
  /\ UNCHANGED <<starts, database, probe>>

StopLog(s) ==
  /\ pc[s] = "stop log"
  /\ Closes(s, "log")
  /\ Goto(s, "stopped")
  /\ UNCHANGED <<starts, database, probe>>

(* The process dies, or a stopped one is gone: the system takes back all   *)
(* it held.                                                                *)
Exit(s) ==
  /\ pc[s] # "stopped" \/ open[s] # {}
  /\ Goto(s, "stopped")
  /\ open' = [open EXCEPT ![s] = {}] /\ stuck' = [stuck EXCEPT ![s] = {}]
  /\ pending' = [pending EXCEPT ![s] = NoRows]
  /\ lock' = IF lock = s THEN NoServer ELSE lock
  /\ UNCHANGED <<starts, rows, file, probe>>

ServerNext ==
  \E s \in Servers :
    \/ Startup(s) \/ bootstrap_postgres(s)
    \/ Lock(s) \/ Select(s) \/ Execute(s) \/ Unlock(s) \/ Commit(s) \/ ConnectionLost(s)
    \/ open_pool(s) \/ get_reader_driver(s) \/ verify_reader_is_read_only(s)
    \/ CleanUpProbe(s) \/ Build(s) \/ Shutdown(s)
    \/ CloseReader(s) \/ ClosePool(s) \/ CloseDriver(s) \/ StopLog(s) \/ Exit(s)

ServerSpec == ServerInit /\ [][ServerNext]_serverVars

----------------------------------------------------------------------------
(* A server that answers requests holds every resource they need, its      *)
(* reader account was seen to refuse a write, and all of its migrations    *)
(* are committed with its own checksums, whatever other servers started,   *)
(* failed or died meanwhile (main.py, lifespan; migrations.py).            *)
ServingReady ==
  \A s \in Servers : pc[s] = "serving" =>
    /\ open[s] = Resources /\ s \in ReaderRole
    /\ \A i \in DOMAIN Files[s] :
         LET f == Files[s][i] IN f.name \in DOMAIN rows /\ rows[f.name] = f.sha256

(* The migrations of the database are at all times a prefix of the sorted  *)
(* list of every release that shares the list: a failing or interrupted    *)
(* one, or two servers applying them at once, leaves no gap                *)
(* (migrations.py, apply_migrations).                                      *)
SchemaIsPrefix ==
  \A s \in Servers : \A i, k \in DOMAIN Files[s] :
    i < k /\ Files[s][k].name \in DOMAIN rows => Files[s][i].name \in DOMAIN rows

(* However a start fails, and whichever other resource refuses to close,   *)
(* a stopped server keeps neither Neo4j driver unless that driver's own    *)
(* close failed; the pools it may keep are those of an open_pool or        *)
(* close_pool that stopped half-way (main.py, the finally blocks).         *)
DriversReleased ==
  \A s \in Servers : pc[s] = "stopped" =>
    /\ open[s] \cap Drivers \subseteq stuck[s]
    /\ "write pool" \in open[s] => {"read pool", "write pool"} \cap stuck[s] # {}
============================================================================
