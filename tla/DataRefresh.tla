---------------------------- MODULE DataRefresh ----------------------------
(***************************************************************************)
(* The two halves of the ETL run beside each other and beside the          *)
(* application: restores of PostgreSQL, synchronisations of the graph that *)
(* read the PostgreSQL database under its live name, retries of either,    *)
(* processes killed anywhere, pool connections and graph sessions.         *)
(***************************************************************************)
EXTENDS Neo4jSync

vars == <<pgVars, graphVars>>

Init == PgInit /\ GraphInit

Free(j) == restore[j].pc = "free" /\ sync[j].pc = "free"

(* A name no database has: a mistyped argument.                            *)
NoSuch == <<"mvpgraph", MaxNow + 1>>

Begin(j) ==
  /\ Free(j)
  /\ \/ /\ \/ \E d \in Dumps, yes \in BOOLEAN : RestoreStart(j, d, yes)
           \/ \E n \in DOMAIN pg \cup {NoSuch}, yes \in BOOLEAN : RetrySwap(j, n, yes)
        /\ UNCHANGED graphVars
     \/ prepare_pg_connection(j)
     \/ \E n \in DOMAIN graphs \cup {NoSuch} : RetryPromote(j, n)

Next ==
  \/ Tick /\ UNCHANGED graphVars
  \/ \E j \in Jobs : Begin(j)
  \/ \E j \in Jobs : (RestoreStep(j) \/ RestoreCrash(j)) /\ UNCHANGED graphVars
  \/ \E j \in Jobs : SyncStep(j) \/ SyncCrash(j)
  \/ \E c \in Clients : ClientStep(c) /\ UNCHANGED graphVars
  \/ \E g \in GraphClients :
       (GraphBegin(g) \/ GraphEnd(g)) /\ UNCHANGED <<now, pg, conns, restore, history>>

Spec == Init /\ [][Next]_vars

----------------------------------------------------------------------------
(* Some --retry-swap put the database of this name in service.             *)
SwappedByHand(name) ==
  \E j \in Jobs : restore[j].dump = NoName /\ restore[j].pc = "ok" /\ restore[j].new = name

(* Some --retry-promote made the graph database of this name the default.  *)
PromotedByHand(name) ==
  \E j \in Jobs :
    sync[j].expected = NoName /\ sync[j].pc \in {"done", "closed"} /\ sync[j].new = name

(* What the application reads is complete, but for what an operator put in *)
(* service by hand.  The live name always names a PostgreSQL database; it  *)
(* holds the fixtures and every table it was checked for, or it never      *)
(* passed the checks and a --retry-swap has named it, or a database of the *)
(* same second before it.  The default graph database holds exactly the    *)
(* rows one extraction produced, fixtures included, with no relationship   *)
(* missing an end, or it never passed the checks and a --retry-promote has *)
(* named it.  This holds whatever dump or rows a job met, wherever jobs    *)
(* failed, were killed or lost their connections and however they          *)
(* interleave: no restore or synchronisation of its own accord puts a      *)
(* database that is only partly filled in service (postgres_restore.py,    *)
(* main and retry_swap; structured_mvp_load.py, retry_promote).            *)
LiveComplete ==
  /\ Exists(Live)
  /\ IF Live \in DOMAIN verified THEN Fixtures \cup verified[Live] \subseteq pg[Live]
     ELSE SwappedByHand(restoredAs)
  /\ IF default \in {First} \cup passed
     THEN LET g == graphs[default] IN
          /\ g.nodes = Range(g.of.nodes) \ {NoName}
          /\ g.rels = Range(g.of.rels) /\ g.rels # {}
          /\ FixtureNodes \subseteq g.nodes
          /\ \A r \in g.rels : {r.from, r.to} \subseteq g.nodes
     ELSE PromotedByHand(default)

(* The default graph database runs, except while the promotion that        *)
(* stopped it is between its two commands or was killed there.             *)
(* structured_mvp_load.py:22-25 claims that the checks of retry_promote    *)
(* leave no other exception.                                               *)
DefaultKeptRunning ==
  \/ graphs[default].online
  \/ \E j \in Jobs : sync[j].pc \in {"set", "halfway"} /\ sync[j].actual = default

(* There is one exception more: a database that was stopped is made the    *)
(* default again, which takes a --retry-promote that names it.  No refused *)
(* promotion, no mistyped name, and no pair of synchronisations leaves the *)
(* application a stopped database (structured_mvp_load.py, retry_promote). *)
DefaultRuns ==
  \/ DefaultKeptRunning
  \/ /\ PromotedByHand(default)
     /\ \E j \in Jobs : sync[j].pc = "closed" /\ sync[j].new = default

Kept ==
  LET gone == DOMAIN pg \ DOMAIN pg' IN
  /\ \A n \in DOMAIN pg \cap DOMAIN pg' : n # Live => pg[n] \subseteq pg'[n]
  /\ gone = {} => pg'[Live] = pg[Live]
  /\ gone # {} => \E n \in DOMAIN pg, m \in DOMAIN pg' \ DOMAIN pg :
       /\ gone = {n} /\ m[1] = "previous"
       /\ pg'[Live] = pg[n] /\ pg'[m] = pg[Live]

(* No restore, failure or swap loses data.  A database keeps its name and  *)
(* everything in it until a swap gives it the live name, so that the name  *)
(* in a failure message stays one --retry-swap can be given; the live      *)
(* database changes only in a swap, to exactly what the swapped one held,  *)
(* and what it held before is kept whole under a new name of its own       *)
(* (postgres_restore.py, swap_databases).                                  *)
NothingDropped == [][Kept]_vars

============================================================================
