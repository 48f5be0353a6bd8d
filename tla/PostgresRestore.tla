-------------------------- MODULE PostgresRestore --------------------------
(***************************************************************************)
(* Restoring the PostgreSQL dump (etl/postgres_restore.py).  A run of the  *)
(* script, a job, restores the dump into a database of its own, validates  *)
(* that database and only then gives it the live name, by two RENAMEs in   *)
(* one transaction; --retry-swap repeats the last stage alone.             *)
(*                                                                         *)
(* A database is the set of things its statements created: tables, and     *)
(* Fixtures for the rows the fixture checks compare.  A dump is the tables *)
(* its CREATE TABLE lines declare and the batches of statements that       *)
(* restore_sql_file really executes: the text after the last line ending   *)
(* in a semicolon is in no batch.                                          *)
(***************************************************************************)
EXTENDS Naturals, Sequences, FiniteSets

CONSTANTS
  Jobs,        \* runs of the ETL scripts
  Clients,     \* pool connections of the application to the live database
  Dumps,       \* [declared : SUBSET tables, batches : Seq(SUBSET things)]
  Fixtures,    \* the rows of query_parameters.json
  LiveContent, \* what the live database holds at first
  MaxNow,      \* bound of the clock, in seconds
  NoName

ASSUME ClockAssumption ==
  /\ MaxNow \in Nat
  /\ NoName \notin {"restore", "previous", "mvpgraph", "neo4j"} \X Nat
  /\ NoName \notin Dumps

ASSUME ActorsAssumption == Jobs \cap Clients = {}

(* At first the fixtures are in the live database.  Nothing is assumed of  *)
(* what a dump declares or holds.                                          *)
ASSUME LiveAssumption == Fixtures \subseteq LiveContent

VARIABLES
  now,        \* the second the clock shows
  pg,         \* name -> content of every PostgreSQL database
  conns,      \* who -> [db, state] of every connection to one of them
  restore,    \* job -> the restore it runs
  verified,   \* history: database -> the tables step 3 found in it
  restoredAs  \* history: the name the live database was restored under

history == <<verified, restoredAs>>
pgVars == <<now, pg, conns, restore, history>>

Live == <<"live", 0>>
build_new_database_name == <<"restore", now>>
build_previous_database_name == <<"previous", now>>

Exists(name) == name \in DOMAIN pg
ConnectedTo(name) == {w \in DOMAIN conns : conns[w].db = name}
Without(f, ks) == [k \in DOMAIN f \ ks |-> f[k]]
With(f, k, v) == [x \in DOMAIN f \cup {k} |-> IF x = k THEN v ELSE f[x]]

NoRestore ==
  [pc |-> "free", dump |-> NoName, new |-> NoName, prev |-> NoName,
   done |-> 0, idle |-> {}, targets |-> <<>>, yes |-> FALSE]

PgInit ==
  /\ now = 0
  /\ pg = [n \in {Live} |-> LiveContent]
  /\ conns = [w \in {} |-> NoName]
  /\ restore = [j \in Jobs |-> NoRestore]
  /\ verified = [n \in {Live} |-> LiveContent]
  /\ restoredAs = NoName

Tick == now < MaxNow /\ now' = now + 1 /\ UNCHANGED <<pg, conns, restore, history>>

----------------------------------------------------------------------------
(* The application's connections: pools open idle connections to the live  *)
(* database and run transactions on them.                                  *)

ClientConnect(c) ==
  /\ c \notin DOMAIN conns /\ Exists(Live)
  /\ conns' = With(conns, c, [db |-> Live, state |-> "idle"])
  /\ UNCHANGED <<now, pg, restore, history>>

ClientToggle(c) ==
  /\ c \in DOMAIN conns
  /\ conns' = [conns EXCEPT ![c].state = IF @ = "idle" THEN "active" ELSE "idle"]
  /\ UNCHANGED <<now, pg, restore, history>>

ClientClose(c) ==
  /\ c \in DOMAIN conns
  /\ conns' = Without(conns, {c})
  /\ UNCHANGED <<now, pg, restore, history>>

----------------------------------------------------------------------------
(* Steps 0 to 3: create, restore, validate.                                *)

End(j, why) == restore' = [restore EXCEPT ![j].pc = why]

(* Steps 0 and 1.  A dump without a CREATE TABLE line ends the job; so     *)
(* does CREATE DATABASE when a job of the same second took the name.  The  *)
(* new database has no connection yet.                                     *)
RestoreStart(j, dump, yes) ==
  /\ restore[j].pc = "free"
  /\ LET new == build_new_database_name IN
     \/ /\ dump.declared = {} \/ Exists(new)
        /\ End(j, "exit")
        /\ UNCHANGED pg
     \/ /\ dump.declared # {} /\ ~Exists(new)
        /\ pg' = With(pg, new, {})
        /\ restore' = [restore EXCEPT ![j] =
             [NoRestore EXCEPT !.pc = "connect", !.dump = dump, !.new = new, !.yes = yes]]
  /\ UNCHANGED <<now, conns, history>>

(* The restore's own connection: idle after a COMMIT, active once the next *)
(* statement has been sent.                                                *)
Session(j) ==
  \E state \in {"idle", "active"} :
    conns' = With(conns, j, [db |-> restore[j].new, state |-> state])

(* Step 2: the connection to the new database, which must still have its   *)
(* name.                                                                   *)
RestoreConnect(j) ==
  /\ restore[j].pc = "connect" /\ Exists(restore[j].new)
  /\ Session(j)
  /\ restore' = [restore EXCEPT ![j].pc = "restore"]
  /\ UNCHANGED <<now, pg, history>>

(* One batch, executed and committed, on a connection nobody terminated.   *)
RestoreBatch(j) ==
  LET r == restore[j] IN
  /\ r.pc = "restore" /\ r.done < Len(r.dump.batches)
  /\ j \in DOMAIN conns
  /\ pg' = [pg EXCEPT ![r.new] = @ \cup r.dump.batches[r.done + 1]]
  /\ Session(j)
  /\ restore' = [restore EXCEPT ![j].done = @ + 1]
  /\ UNCHANGED <<now, history>>

(* Connecting, a batch or a check raises: the job ends and leaves the new  *)
(* database behind as it is.                                               *)
RestoreFails(j) ==
  /\ restore[j].pc \in {"connect", "restore"}
  /\ End(j, "exit")
  /\ conns' = Without(conns, {j})
  /\ UNCHANGED <<now, pg, history>>

find_missing_tables(declared, content) == declared \ content
run_fixture_checks(content) == Fixtures \ content

(* Mutant: the tables of the dump are not looked for.                      *)
RestoreValidatedNoTables(r) == run_fixture_checks(pg[r.new]) = {}

RestoreValidated(r) ==
  /\ find_missing_tables(r.dump.declared, pg[r.new]) = {}
  /\ run_fixture_checks(pg[r.new]) = {}

(* Step 3: the validation of the new database; its connection is closed    *)
(* before the failures are looked at.                                      *)
RestoreValidate(j) ==
  LET r == restore[j] IN
  /\ r.pc = "restore" /\ r.done = Len(r.dump.batches)
  /\ j \in DOMAIN conns
  /\ conns' = Without(conns, {j})
  /\ IF RestoreValidated(r)
     THEN verified' = With(verified, r.new, r.dump.declared) /\ End(j, "swap")
     ELSE End(j, "exit") /\ UNCHANGED verified
  /\ UNCHANGED <<now, pg, restoredAs>>

----------------------------------------------------------------------------
(* Step 4, retry_swap, which --retry-swap runs alone, for any name.        *)

RetrySwap(j, name, yes) ==
  /\ restore[j].pc = "free"
  /\ restore' = [restore EXCEPT ![j] =
       [NoRestore EXCEPT !.pc = "swap", !.new = name, !.yes = yes]]
  /\ UNCHANGED <<now, pg, conns, history>>

SwapPrepare(j) ==
  LET r == restore[j] IN
  /\ r.pc = "swap"
  /\ IF Exists(r.new)
     THEN restore' = [restore EXCEPT
            ![j].pc = "idle", ![j].targets = <<Live, r.new>>,
            ![j].prev = IF Exists(Live) THEN build_previous_database_name ELSE NoName]
     ELSE End(j, "exit")
  /\ UNCHANGED <<now, pg, conns, history>>

find_idle_connections(name) == {w \in ConnectedTo(name) : conns[w].state = "idle"}

FindIdle(j) ==
  /\ restore[j].pc = "idle"
  /\ LET r == restore[j]
         found == find_idle_connections(Head(r.targets)) IN
     restore' = [restore EXCEPT ![j] =
       IF r.targets = <<>> THEN [r EXCEPT !.pc = "confirm"]
       ELSE IF found = {} THEN [r EXCEPT !.targets = Tail(@)]
       ELSE [r EXCEPT !.idle = found, !.pc = "terminate"]]
  /\ UNCHANGED <<now, pg, conns, history>>

(* The found connections are terminated, with --yes or once the operator   *)
(* has answered "y", whatever they have come to do in between.             *)
TerminateIdle(j) ==
  LET r == restore[j] IN
  /\ r.pc = "terminate"
  /\ restore' = [restore EXCEPT ![j].pc = "idle", ![j].idle = {},
                                ![j].targets = Tail(@)]
  /\ \/ conns' = Without(conns, r.idle)
     \/ ~r.yes /\ UNCHANGED conns
  /\ UNCHANGED <<now, pg, history>>

(* swap_databases: the two RENAMEs and the COMMIT.  The first one takes    *)
(* the name of a new database that is the live one.                        *)
swap_databases(live, new, prev) ==
  IF prev # NoName /\ (~Exists(live) \/ Exists(prev)) THEN "race"
  ELSE IF prev # NoName /\ ConnectedTo(live) # {} THEN "in_use"
  ELSE IF ~Exists(new) \/ new = live \/ (prev = NoName /\ Exists(live)) THEN "race"
  ELSE IF ConnectedTo(new) # {} THEN "in_use"
  ELSE "ok"

(* The name, before the two RENAMEs, of the database now called n.         *)
OldName(n, live, new, prev) == IF n = live THEN new ELSE IF n = prev THEN live ELSE n

(* Mutant: the old live database is dropped for the new one.               *)
RenamedOver(f, live, new, prev) ==
  [n \in {m \in DOMAIN f \ {new} : m = live => new \in DOMAIN f} |-> f[OldName(n, live, new, prev)]]

(* f, a function of database names, follows the two RENAMEs.               *)
Renamed(f, live, new, prev) ==
  [n \in {m \in (DOMAIN f \cup {live, prev}) \ {new} : OldName(m, live, new, prev) \in DOMAIN f} |->
     f[OldName(n, live, new, prev)]]

(* The operator who types another name than the database's ends the job.   *)
SwapConfirmed(j) ==
  LET r == restore[j] IN
  /\ r.pc = "confirm"
  /\ \/ /\ ~r.yes
        /\ End(j, "exit")
        /\ UNCHANGED <<pg, history>>
     \/ LET result == swap_databases(Live, r.new, r.prev) IN
        /\ End(j, result)
        /\ IF result = "ok"
           THEN /\ pg' = Renamed(pg, Live, r.new, r.prev)
                /\ verified' = Renamed(verified, Live, r.new, r.prev)
                /\ restoredAs' = r.new
           ELSE UNCHANGED <<pg, history>>
  /\ UNCHANGED <<now, conns>>

(* The process is killed; the server drops its connection.                 *)
RestoreCrash(j) ==
  /\ restore[j].pc \in {"connect", "restore", "swap", "idle", "terminate", "confirm"}
  /\ End(j, "crashed")
  /\ conns' = Without(conns, {j})
  /\ UNCHANGED <<now, pg, history>>

RestoreStep(j) ==
  \/ RestoreConnect(j) \/ RestoreBatch(j) \/ RestoreFails(j) \/ RestoreValidate(j)
  \/ SwapPrepare(j) \/ FindIdle(j) \/ TerminateIdle(j) \/ SwapConfirmed(j)

ClientStep(c) == ClientConnect(c) \/ ClientToggle(c) \/ ClientClose(c)
============================================================================
