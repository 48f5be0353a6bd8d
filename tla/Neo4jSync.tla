----------------------------- MODULE Neo4jSync -----------------------------
(***************************************************************************)
(* Building the graph from PostgreSQL (etl/run_structured_mvp_sync.py,     *)
(* structured_mvp_load.py, structured_mvp_validate.py).  A job extracts    *)
(* every row, validates the rows, loads them into a graph database of its  *)
(* own, validates that database and promotes it: the default database is   *)
(* stopped and the new one made the default.  --retry-promote repeats the  *)
(* promotion alone.                                                        *)
(*                                                                         *)
(* One node spec and one relationship spec between its nodes stand for the *)
(* six and six of structured_mvp_spec.py.                                  *)
(***************************************************************************)
EXTENDS PostgresRestore, Functions

CONSTANTS
  Extracts,      \* [nodes : Seq(key), rels : Seq([key, from, to])], key may be NoName
  FixtureNodes,  \* nodes the graph fixtures start at
  GraphClients,  \* sessions of the application on the default database
  FirstGraph     \* the extract the first default database was built from

VARIABLES
  graphs,   \* name -> [online, nodes, rels, of] of every graph database
  default,  \* the name of the default one
  txs,      \* session -> the database its transaction runs on
  sync,     \* job -> the synchronisation it runs
  passed    \* the graph databases that passed step 5

graphVars == <<graphs, default, txs, sync, passed>>

First == <<"neo4j", 0>>
generate_database_name == <<"mvpgraph", now>>

NoSync ==
  [pc |-> "free", expected |-> NoName, actual |-> NoName, new |-> NoName,
   rows |-> NoName, done |-> 0]

GraphInit ==
  /\ graphs = [n \in {First} |->
       [online |-> TRUE, nodes |-> Range(FirstGraph.nodes),
        rels |-> Range(FirstGraph.rels), of |-> FirstGraph]]
  /\ default = First
  /\ txs = [g \in {} |-> NoName]
  /\ sync = [j \in Jobs |-> NoSync]
  /\ passed = {}

Stays == UNCHANGED <<now, pg, restore, history>>
To(j, pc) == sync' = [sync EXCEPT ![j].pc = pc]

(* finally: pg_conn.close(), driver.close().                               *)
SyncExit(j, pc) == To(j, pc) /\ conns' = Without(conns, {j})

----------------------------------------------------------------------------
(* The application's sessions on the default database.                     *)

GraphBegin(g) ==
  /\ g \notin DOMAIN txs /\ graphs[default].online
  /\ txs' = With(txs, g, default)
  /\ UNCHANGED <<graphs, default, sync, passed>>

GraphEnd(g) ==
  /\ g \in DOMAIN txs
  /\ txs' = Without(txs, {g})
  /\ UNCHANGED <<graphs, default, sync, passed>>

----------------------------------------------------------------------------
(* Before anything is written: connect, note the default, extract, check.  *)

(* prepare_pg_connection, until the first statement: the connection is     *)
(* still idle.                                                             *)
prepare_pg_connection(j) ==
  /\ sync[j].pc = "free"
  /\ IF Exists(Live)
     THEN To(j, "context") /\ conns' = With(conns, j, [db |-> Live, state |-> "idle"])
     ELSE To(j, "exit") /\ UNCHANGED conns
  /\ UNCHANGED <<graphs, default, txs, passed>>
  /\ Stays

(* The rest of it and prepare_sync_context: from its first statement on    *)
(* the connection is inside a transaction, which nothing ends before exit. *)
prepare_sync_context(j) ==
  /\ sync[j].pc = "context"
  /\ IF j \in DOMAIN conns
     THEN /\ conns' = [conns EXCEPT ![j].state = "active"]
          /\ sync' = [sync EXCEPT ![j].pc = "extract", ![j].expected = default]
     ELSE SyncExit(j, "exit")
  /\ UNCHANGED <<graphs, default, txs, passed>>
  /\ Stays

find_rows_with_null_key(keys) == {i \in DOMAIN keys : keys[i] = NoName}
find_duplicate_key_rows(keys) ==
  {k \in Range(keys) : \E i, j \in DOMAIN keys : i # j /\ keys[i] = k /\ keys[j] = k}
find_dangling_relationship_rows(rels, ids) ==
  {i \in DOMAIN rels : rels[i].from \notin ids \/ rels[i].to \notin ids}
KeysOf(rels) == [i \in DOMAIN rels |-> rels[i].key]

validate_before_write(rows) ==
  /\ \A keys \in {rows.nodes, KeysOf(rows.rels)} :
       /\ keys # <<>>
       /\ find_rows_with_null_key(keys) = {}
       /\ find_duplicate_key_rows(keys) = {}
  /\ find_dangling_relationship_rows(rows.rels, Range(rows.nodes)) = {}

(* Rows come in sequences, and the first default database was built from   *)
(* rows that passed the checks.                                            *)
ASSUME ExtractsAssumption ==
  /\ \A e \in Extracts : /\ e.nodes \in Seq(Range(e.nodes))
                         /\ e.rels \in Seq(Range(e.rels))
  /\ validate_before_write(FirstGraph)
  /\ FixtureNodes \subseteq Range(FirstGraph.nodes)

(* Steps 1 to 3: extraction, which raises on a connection that was         *)
(* terminated, the checks, and CREATE DATABASE, which raises when a job of *)
(* the same second took the name.                                          *)
SyncExtract(j, rows) ==
  /\ sync[j].pc = "extract"
  /\ LET new == generate_database_name IN
     IF j \in DOMAIN conns /\ validate_before_write(rows) /\ new \notin DOMAIN graphs
     THEN /\ graphs' = With(graphs, new,
                [online |-> TRUE, nodes |-> {}, rels |-> {}, of |-> rows])
          /\ sync' = [sync EXCEPT ![j].pc = "load", ![j].new = new, ![j].rows = rows]
          /\ UNCHANGED conns
     ELSE SyncExit(j, "exit") /\ UNCHANGED graphs
  /\ UNCHANGED <<default, txs, passed>>
  /\ Stays

----------------------------------------------------------------------------
(* Steps 4 and 5: load_all into the new database, one row at a time here,  *)
(* and the checks of what it then holds.                                   *)

RowCount(rows) == Len(rows.nodes) + Len(rows.rels)

(* UNWIND ... MERGE: a relationship whose end nodes are not MATCHed is     *)
(* silently not created.                                                   *)
Merged(graph, rows, n) ==
  IF n <= Len(rows.nodes) THEN [graph EXCEPT !.nodes = @ \cup {rows.nodes[n]}]
  ELSE LET rel == rows.rels[n - Len(rows.nodes)] IN
       IF {rel.from, rel.to} \subseteq graph.nodes
       THEN [graph EXCEPT !.rels = @ \cup {rel}]
       ELSE graph

(* load_rows does not consume its results: an error of the last batch of a *)
(* spec is met, and dropped, where the session is closed.  Nothing is      *)
(* written to a database that was stopped.                                 *)
LastBatch(rows, n) == n \in {Len(rows.nodes), RowCount(rows)}

load_rows(j) ==
  LET s == sync[j]
      n == s.done + 1 IN
  /\ s.pc = "load" /\ s.done < RowCount(s.rows)
  /\ \/ /\ graphs[s.new].online
        /\ graphs' = [graphs EXCEPT ![s.new] = Merged(@, s.rows, n)]
        /\ sync' = [sync EXCEPT ![j].done = n]
        /\ UNCHANGED conns
     \/ /\ LastBatch(s.rows, n)
        /\ sync' = [sync EXCEPT ![j].done = n]
        /\ UNCHANGED <<graphs, conns>>
     \/ /\ ~LastBatch(s.rows, n)
        /\ SyncExit(j, "exit")
        /\ UNCHANGED graphs
  /\ UNCHANGED <<default, txs, passed>>
  /\ Stays

validate_after_load(graph, rows) ==
  /\ Cardinality(graph.nodes) = Len(rows.nodes)
  /\ Cardinality(graph.rels) = Len(rows.rels)
  /\ FixtureNodes \subseteq graph.nodes

SyncValidate(j) ==
  LET s == sync[j] IN
  /\ s.pc = "load" /\ s.done = RowCount(s.rows)
  /\ IF graphs[s.new].online /\ validate_after_load(graphs[s.new], s.rows)
     THEN To(j, "promote") /\ passed' = passed \cup {s.new} /\ UNCHANGED conns
     ELSE SyncExit(j, "exit") /\ UNCHANGED passed
  /\ UNCHANGED <<graphs, default, txs>>
  /\ Stays

----------------------------------------------------------------------------
(* Step 6, retry_promote: three reads and two commands, none of them in    *)
(* one transaction with another.                                           *)

(* --retry-promote, for any name.                                          *)
RetryPromote(j, name) ==
  /\ sync[j].pc = "free"
  /\ sync' = [sync EXCEPT ![j].pc = "promote", ![j].new = name]
  /\ UNCHANGED <<conns, graphs, default, txs, passed>>
  /\ Stays

(* Mutant: whether the new database exists is not asked.                   *)
PromoteReadUnchecked(j) ==
  LET s == sync[j] IN
  /\ s.pc = "promote"
  /\ IF s.expected \in {NoName, default}
     THEN /\ sync' = [sync EXCEPT ![j].pc = "active", ![j].actual = default]
          /\ UNCHANGED conns
     ELSE SyncExit(j, "exit")
  /\ UNCHANGED <<graphs, default, txs, passed>>
  /\ Stays

PromoteRead(j) ==
  LET s == sync[j] IN
  /\ s.pc = "promote"
  /\ IF s.new \in DOMAIN graphs /\ s.expected \in {NoName, default}
     THEN /\ sync' = [sync EXCEPT ![j].pc = "active", ![j].actual = default]
          /\ UNCHANGED conns
     ELSE SyncExit(j, "exit")
  /\ UNCHANGED <<graphs, default, txs, passed>>
  /\ Stays

has_active_transactions(name) == \E g \in DOMAIN txs : txs[g] = name

PromoteCheckActive(j) ==
  /\ sync[j].pc = "active"
  /\ IF has_active_transactions(sync[j].actual)
     THEN SyncExit(j, "exit")
     ELSE To(j, "stop") /\ UNCHANGED conns
  /\ UNCHANGED <<graphs, default, txs, passed>>
  /\ Stays

(* STOP DATABASE ends the transactions that began since.                   *)
PromoteStop(j) ==
  LET old == sync[j].actual IN
  /\ sync[j].pc = "stop"
  /\ graphs' = [graphs EXCEPT ![old].online = FALSE]
  /\ txs' = Without(txs, {g \in DOMAIN txs : txs[g] = old})
  /\ To(j, "set")
  /\ UNCHANGED <<conns, default, passed>>
  /\ Stays

(* dbms.setDefaultDatabase: the database must exist.  It may also refuse   *)
(* while the old default, another job's promotion, still runs.  A job that *)
(* made a stopped database the default ends as "closed", not as "done".    *)
PromoteSet(j) ==
  LET s == sync[j] IN
  /\ s.pc = "set"
  /\ \/ /\ s.new \in DOMAIN graphs
        /\ default' = s.new
        /\ SyncExit(j, IF graphs[s.new].online THEN "done" ELSE "closed")
     \/ /\ s.new \notin DOMAIN graphs \/ graphs[default].online
        /\ SyncExit(j, "exit")
        /\ UNCHANGED default
  /\ UNCHANGED <<graphs, txs, passed>>
  /\ Stays

SyncCrash(j) ==
  /\ sync[j].pc \notin {"free", "exit", "done", "closed", "crashed", "halfway"}
  /\ SyncExit(j, IF sync[j].pc = "set" THEN "halfway" ELSE "crashed")
  /\ UNCHANGED <<graphs, default, txs, passed>>
  /\ Stays

SyncStep(j) ==
  \/ prepare_sync_context(j)
  \/ \E rows \in Extracts : SyncExtract(j, rows)
  \/ load_rows(j) \/ SyncValidate(j)
  \/ PromoteRead(j) \/ PromoteCheckActive(j) \/ PromoteStop(j) \/ PromoteSet(j)
============================================================================
