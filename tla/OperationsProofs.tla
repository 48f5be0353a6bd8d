-------------------------- MODULE OperationsProofs --------------------------
(***************************************************************************)
(* Proofs about the three programs around the request path, which share    *)
(* no state: the start and stop of the servers (Server), the refresh of    *)
(* the databases (DataRefresh) and the evaluation (Evaluation).            *)
(***************************************************************************)
EXTENDS Server, DataRefresh, Evaluation, FiniteSetTheorems, WellFoundedInduction, TLAPS

-----------------------------------------------------------------------------
(***************************************************************************)
(* Start and stop of the servers, for any number of servers and any lists  *)
(* of migrations that are only extended.                                   *)
(***************************************************************************)
-----------------------------------------------------------------------------
(***************************************************************************)
(* Resources: what is held at each step of lifespan.                       *)
(***************************************************************************)
Pools == {"read pool", "write pool"}

Early == Migrating \cup {"bootstrap", "read pool"}

Full == {"verify", "clean up probe", "build", "serving"}

Closing == {"close pools", "close write pool", "close driver", "stop log", "stopped"}

Steps == Early \cup Full \cup Closing \cup {"write pool", "reader", "close reader"}

\* On the way up a server holds exactly what it has opened; on the way down
\* what is left behind each finally block was refused by its own close.
HeldAt(s, step, held, left) ==
  /\ step \in Early => held = {"log", "driver"}
  /\ step = "write pool" => held = {"log", "driver", "read pool"}
  /\ step = "reader" => held = {"log", "driver"} \cup Pools
  /\ step \in Full => held = Resources
  /\ step \in {"build", "serving"} => s \in ReaderRole
  /\ step \in {"close reader", "close pools"} => Pools \subseteq held
  /\ step \in Closing => ("reader" \in held => "reader" \in left)
  /\ step \in {"close driver", "stop log", "stopped"} =>
       ("write pool" \in held => Pools \cap left # {})
  /\ step \in {"stop log", "stopped"} => ("driver" \in held => "driver" \in left)

Held ==
  /\ pc \in [Servers -> Steps]
  /\ open \in [Servers -> SUBSET Resources]
  /\ stuck \in [Servers -> SUBSET Resources]
  /\ \A s \in Servers : HeldAt(s, pc[s], open[s], stuck[s])

LEMMA InitHeld == ServerInit => Held
BY DEF ServerInit, Held, HeldAt, Steps, Early, Full, Closing, Migrating, Pools, Resources, Drivers

\* A step of one server only has to be looked at where that server arrives.
LEMMA MoveKeepsHeld ==
  ASSUME Held, NEW s \in Servers, NEW step \in Steps,
         NEW held \in SUBSET Resources, NEW left \in SUBSET Resources,
         pc' = [pc EXCEPT ![s] = step],
         open' = [open EXCEPT ![s] = held],
         stuck' = [stuck EXCEPT ![s] = left],
         HeldAt(s, step, held, left)
  PROVE  Held'
<1>1. /\ pc' \in [Servers -> Steps]
      /\ open' \in [Servers -> SUBSET Resources]
      /\ stuck' \in [Servers -> SUBSET Resources]
  BY DEF Held
<1>2. \A t \in Servers : HeldAt(t, pc'[t], open'[t], stuck'[t])
  <2>1. SUFFICES ASSUME NEW t \in Servers
                 PROVE  HeldAt(t, pc'[t], open'[t], stuck'[t])
    OBVIOUS
  <2>2. CASE t = s
    <3>1. pc'[t] = step /\ open'[t] = held /\ stuck'[t] = left
      BY <2>2 DEF Held
    <3>. QED  BY <2>2, <3>1
  <2>3. CASE t # s
    <3>1. pc'[t] = pc[t] /\ open'[t] = open[t] /\ stuck'[t] = stuck[t]
      BY <2>3 DEF Held
    <3>2. HeldAt(t, pc[t], open[t], stuck[t])
      BY DEF Held
    <3>. QED  BY <3>1, <3>2
  <2>. QED  BY <2>2, <2>3
<1>. QED  BY <1>1, <1>2 DEF Held

\* What the server at s holds now.
LEMMA HeldNow ==
  ASSUME Held, NEW s \in Servers
  PROVE  /\ pc[s] \in Steps
         /\ open[s] \in SUBSET Resources /\ stuck[s] \in SUBSET Resources
         /\ HeldAt(s, pc[s], open[s], stuck[s])
         /\ open = [open EXCEPT ![s] = open[s]]
         /\ stuck = [stuck EXCEPT ![s] = stuck[s]]
         /\ pc = [pc EXCEPT ![s] = pc[s]]
BY DEF Held

\* Where a step of lifespan may lead, looking only at what is held.
LEMMA Arrivals ==
  ASSUME NEW s, NEW held \in SUBSET Resources, NEW left \in SUBSET Resources
  PROVE  /\ HeldAt(s, "bootstrap", {"log", "driver"}, left)
         /\ HeldAt(s, "stopped", {}, left)
         /\ HeldAt(s, "stopped", {"log"}, left)
         /\ \A a \in Early : HeldAt(s, a, held, left) =>
              /\ \A b \in Early : HeldAt(s, b, held, left)
              /\ HeldAt(s, "write pool", held \cup {"read pool"}, left)
              /\ HeldAt(s, "close driver", held, left)
         /\ HeldAt(s, "write pool", held, left) =>
              /\ HeldAt(s, "reader", held \cup {"write pool"}, left)
              /\ HeldAt(s, "close driver", held, left)
         /\ HeldAt(s, "reader", held, left) =>
              /\ HeldAt(s, "verify", held \cup {"reader"}, left)
              /\ HeldAt(s, "close pools", held, left)
         /\ HeldAt(s, "verify", held, left) =>
              /\ HeldAt(s, "clean up probe", held, left)
              /\ s \in ReaderRole => HeldAt(s, "build", held, left)
         /\ HeldAt(s, "build", held, left) => HeldAt(s, "serving", held, left)
         /\ \A a \in Full : HeldAt(s, a, held, left) => HeldAt(s, "close reader", held, left)
         /\ HeldAt(s, "close reader", held, left) =>
              /\ HeldAt(s, "close pools", held \ {"reader"}, left)
              /\ HeldAt(s, "close pools", held, left \cup ({"reader"} \cap held))
         /\ HeldAt(s, "close pools", held, left) =>
              /\ HeldAt(s, "close write pool", held \ {"read pool"}, left)
              /\ HeldAt(s, "close driver", held, left \cup ({"read pool"} \cap held))
         /\ HeldAt(s, "close write pool", held, left) =>
              /\ HeldAt(s, "close driver", held \ {"write pool"}, left)
              /\ HeldAt(s, "close driver", held, left \cup ({"write pool"} \cap held))
         /\ HeldAt(s, "close driver", held, left) =>
              /\ HeldAt(s, "stop log", held \ {"driver"}, left)
              /\ HeldAt(s, "stopped", held, left \cup ({"driver"} \cap held))
         /\ HeldAt(s, "stop log", held, left) => HeldAt(s, "stopped", held \ {"log"}, left)
<1>1. HeldAt(s, "bootstrap", {"log", "driver"}, left)
  BY DEF HeldAt, Early, Full, Closing, Migrating, Pools, Resources, Drivers
<1>2. HeldAt(s, "stopped", {}, left)
  BY DEF HeldAt, Early, Full, Closing, Migrating, Pools, Resources, Drivers
<1>3. HeldAt(s, "stopped", {"log"}, left)
  BY DEF HeldAt, Early, Full, Closing, Migrating, Pools, Resources, Drivers
<1>4. \A a \in Early : HeldAt(s, a, held, left) =>
    /\ \A b \in Early : HeldAt(s, b, held, left)
    /\ HeldAt(s, "write pool", held \cup {"read pool"}, left)
    /\ HeldAt(s, "close driver", held, left)
  BY DEF HeldAt, Early, Full, Closing, Migrating, Pools, Resources, Drivers
<1>5. HeldAt(s, "write pool", held, left) =>
    /\ HeldAt(s, "reader", held \cup {"write pool"}, left)
    /\ HeldAt(s, "close driver", held, left)
  BY DEF HeldAt, Early, Full, Closing, Migrating, Pools, Resources, Drivers
<1>6. HeldAt(s, "reader", held, left) =>
    /\ HeldAt(s, "verify", held \cup {"reader"}, left)
    /\ HeldAt(s, "close pools", held, left)
  BY DEF HeldAt, Early, Full, Closing, Migrating, Pools, Resources, Drivers
<1>7. HeldAt(s, "verify", held, left) =>
    /\ HeldAt(s, "clean up probe", held, left)
    /\ s \in ReaderRole => HeldAt(s, "build", held, left)
  BY DEF HeldAt, Early, Full, Closing, Migrating, Pools, Resources, Drivers
<1>8. HeldAt(s, "build", held, left) => HeldAt(s, "serving", held, left)
  BY DEF HeldAt, Early, Full, Closing, Migrating, Pools, Resources, Drivers
<1>9. \A a \in Full : HeldAt(s, a, held, left) => HeldAt(s, "close reader", held, left)
  BY DEF HeldAt, Early, Full, Closing, Migrating, Pools, Resources, Drivers
<1>10. HeldAt(s, "close reader", held, left) =>
    /\ HeldAt(s, "close pools", held \ {"reader"}, left)
    /\ HeldAt(s, "close pools", held, left \cup ({"reader"} \cap held))
  BY DEF HeldAt, Early, Full, Closing, Migrating, Pools, Resources, Drivers
<1>11. HeldAt(s, "close pools", held, left) =>
    /\ HeldAt(s, "close write pool", held \ {"read pool"}, left)
    /\ HeldAt(s, "close driver", held, left \cup ({"read pool"} \cap held))
  BY DEF HeldAt, Early, Full, Closing, Migrating, Pools, Resources, Drivers
<1>12. HeldAt(s, "close write pool", held, left) =>
    /\ HeldAt(s, "close driver", held \ {"write pool"}, left)
    /\ HeldAt(s, "close driver", held, left \cup ({"write pool"} \cap held))
  BY DEF HeldAt, Early, Full, Closing, Migrating, Pools, Resources, Drivers
<1>13. HeldAt(s, "close driver", held, left) =>
    /\ HeldAt(s, "stop log", held \ {"driver"}, left)
    /\ HeldAt(s, "stopped", held, left \cup ({"driver"} \cap held))
  BY DEF HeldAt, Early, Full, Closing, Migrating, Pools, Resources, Drivers
<1>14. HeldAt(s, "stop log", held, left) => HeldAt(s, "stopped", held \ {"log"}, left)
  BY DEF HeldAt, Early, Full, Closing, Migrating, Pools, Resources, Drivers
<1>. QED  BY <1>1, <1>2, <1>3, <1>4, <1>5, <1>6, <1>7, <1>8, <1>9, <1>10, <1>11, <1>12, <1>13, <1>14

\* Every way in which a step of lifespan changes what a server holds.
Move(s, step, held, left) ==
  /\ pc' = [pc EXCEPT ![s] = step]
  /\ open' = [open EXCEPT ![s] = held]
  /\ stuck' = [stuck EXCEPT ![s] = left]

Moves(s) ==
  \/ pc[s] = "stopped" /\ Move(s, "stopped", {}, stuck[s])
  \/ pc[s] = "stopped" /\ Move(s, "stopped", {"log"}, stuck[s])
  \/ pc[s] = "stopped" /\ Move(s, "bootstrap", {"log", "driver"}, stuck[s])
  \/ pc[s] \in Early /\ \E b \in Early : Move(s, b, open[s], stuck[s])
  \/ pc[s] \in Early /\ Move(s, "close driver", open[s], stuck[s])
  \/ pc[s] = "read pool" /\ Move(s, "write pool", open[s] \cup {"read pool"}, stuck[s])
  \/ pc[s] = "write pool" /\ Move(s, "reader", open[s] \cup {"write pool"}, stuck[s])
  \/ pc[s] = "write pool" /\ Move(s, "close driver", open[s], stuck[s])
  \/ pc[s] = "reader" /\ Move(s, "verify", open[s] \cup {"reader"}, stuck[s])
  \/ pc[s] = "reader" /\ Move(s, "close pools", open[s], stuck[s])
  \/ pc[s] = "verify" /\ Move(s, "clean up probe", open[s], stuck[s])
  \/ pc[s] = "verify" /\ s \in ReaderRole /\ Move(s, "build", open[s], stuck[s])
  \/ pc[s] = "build" /\ Move(s, "serving", open[s], stuck[s])
  \/ pc[s] \in Full /\ Move(s, "close reader", open[s], stuck[s])
  \/ pc[s] = "close reader" /\ Move(s, "close pools", open[s] \ {"reader"}, stuck[s])
  \/ pc[s] = "close reader" /\ Move(s, "close pools", open[s], stuck[s] \cup ({"reader"} \cap open[s]))
  \/ pc[s] = "close pools" /\ Move(s, "close write pool", open[s] \ {"read pool"}, stuck[s])
  \/ pc[s] = "close pools" /\ Move(s, "close driver", open[s], stuck[s] \cup ({"read pool"} \cap open[s]))
  \/ pc[s] = "close write pool" /\ Move(s, "close driver", open[s] \ {"write pool"}, stuck[s])
  \/ pc[s] = "close write pool" /\ Move(s, "close driver", open[s], stuck[s] \cup ({"write pool"} \cap open[s]))
  \/ pc[s] = "close driver" /\ Move(s, "stop log", open[s] \ {"driver"}, stuck[s])
  \/ pc[s] = "close driver" /\ Move(s, "stopped", open[s], stuck[s] \cup ({"driver"} \cap open[s]))
  \/ pc[s] = "stop log" /\ Move(s, "stopped", open[s] \ {"log"}, stuck[s])
  \/ Move(s, "stopped", {}, {})

LEMMA MovesKeepHeld ==
  ASSUME Held, NEW s \in Servers, Moves(s)
  PROVE  Held'
<1>. DEFINE held == open[s]
            left == stuck[s]
<1>1. /\ pc[s] \in Steps /\ held \in SUBSET Resources /\ left \in SUBSET Resources
      /\ HeldAt(s, pc[s], held, left)
  BY HeldNow
<1>2. ASSUME NEW step \in Steps, NEW h \in SUBSET Resources, NEW l \in SUBSET Resources,
             Move(s, step, h, l), HeldAt(s, step, h, l)
      PROVE  Held'
  BY <1>2, MoveKeepsHeld DEF Move
<1>3. {} \in SUBSET Resources /\ {"log"} \in SUBSET Resources /\ {"log", "driver"} \in SUBSET Resources
  BY DEF Resources, Drivers
<1>4. HeldAt(s, "stopped", {}, {})
  BY <1>3, Arrivals
<1>5. CASE pc[s] = "stopped" /\ Move(s, "stopped", {}, stuck[s])
  <2>1. HeldAt(s, "stopped", {}, stuck[s])
    BY <1>1, <1>3, <1>4, <1>5, Arrivals
  <2>2. "stopped" \in Steps /\ {} \in SUBSET Resources /\ stuck[s] \in SUBSET Resources
    BY <1>1, <1>3 DEF Steps, Early, Full, Closing, Migrating, Resources, Drivers
  <2>. QED  BY <1>2, <1>5, <2>1, <2>2
<1>6. CASE pc[s] = "stopped" /\ Move(s, "stopped", {"log"}, stuck[s])
  <2>1. HeldAt(s, "stopped", {"log"}, stuck[s])
    BY <1>1, <1>3, <1>4, <1>6, Arrivals
  <2>2. "stopped" \in Steps /\ {"log"} \in SUBSET Resources /\ stuck[s] \in SUBSET Resources
    BY <1>1, <1>3 DEF Steps, Early, Full, Closing, Migrating, Resources, Drivers
  <2>. QED  BY <1>2, <1>6, <2>1, <2>2
<1>7. CASE pc[s] = "stopped" /\ Move(s, "bootstrap", {"log", "driver"}, stuck[s])
  <2>1. HeldAt(s, "bootstrap", {"log", "driver"}, stuck[s])
    BY <1>1, <1>3, <1>4, <1>7, Arrivals
  <2>2. "bootstrap" \in Steps /\ {"log", "driver"} \in SUBSET Resources /\ stuck[s] \in SUBSET Resources
    BY <1>1, <1>3 DEF Steps, Early, Full, Closing, Migrating, Resources, Drivers
  <2>. QED  BY <1>2, <1>7, <2>1, <2>2
<1>8. CASE pc[s] \in Early /\ \E b \in Early : Move(s, b, open[s], stuck[s])
  <2>1. PICK b \in Early : Move(s, b, open[s], stuck[s])
    BY <1>8
  <2>2. HeldAt(s, b, open[s], stuck[s])
    BY <1>1, <1>8, Arrivals
  <2>3. b \in Steps
    BY DEF Steps
  <2>. QED  BY <1>1, <1>2, <2>1, <2>2, <2>3
<1>9. CASE pc[s] \in Early /\ Move(s, "close driver", open[s], stuck[s])
  <2>1. HeldAt(s, "close driver", open[s], stuck[s])
    BY <1>1, <1>3, <1>4, <1>9, Arrivals
  <2>2. "close driver" \in Steps /\ open[s] \in SUBSET Resources /\ stuck[s] \in SUBSET Resources
    BY <1>1, <1>3 DEF Steps, Early, Full, Closing, Migrating, Resources, Drivers
  <2>. QED  BY <1>2, <1>9, <2>1, <2>2
<1>10. CASE pc[s] = "read pool" /\ Move(s, "write pool", open[s] \cup {"read pool"}, stuck[s])
  <2>1. HeldAt(s, "write pool", open[s] \cup {"read pool"}, stuck[s])
    BY <1>1, <1>3, <1>4, <1>10, Arrivals DEF Early
  <2>2. "write pool" \in Steps /\ (open[s] \cup {"read pool"}) \in SUBSET Resources /\ stuck[s] \in SUBSET Resources
    BY <1>1, <1>3 DEF Steps, Early, Full, Closing, Migrating, Resources, Drivers
  <2>. QED  BY <1>2, <1>10, <2>1, <2>2
<1>11. CASE pc[s] = "write pool" /\ Move(s, "reader", open[s] \cup {"write pool"}, stuck[s])
  <2>1. HeldAt(s, "reader", open[s] \cup {"write pool"}, stuck[s])
    BY <1>1, <1>3, <1>4, <1>11, Arrivals
  <2>2. "reader" \in Steps /\ (open[s] \cup {"write pool"}) \in SUBSET Resources /\ stuck[s] \in SUBSET Resources
    BY <1>1, <1>3 DEF Steps, Early, Full, Closing, Migrating, Resources, Drivers
  <2>. QED  BY <1>2, <1>11, <2>1, <2>2
<1>12. CASE pc[s] = "write pool" /\ Move(s, "close driver", open[s], stuck[s])
  <2>1. HeldAt(s, "close driver", open[s], stuck[s])
    BY <1>1, <1>3, <1>4, <1>12, Arrivals
  <2>2. "close driver" \in Steps /\ open[s] \in SUBSET Resources /\ stuck[s] \in SUBSET Resources
    BY <1>1, <1>3 DEF Steps, Early, Full, Closing, Migrating, Resources, Drivers
  <2>. QED  BY <1>2, <1>12, <2>1, <2>2
<1>13. CASE pc[s] = "reader" /\ Move(s, "verify", open[s] \cup {"reader"}, stuck[s])
  <2>1. HeldAt(s, "verify", open[s] \cup {"reader"}, stuck[s])
    BY <1>1, <1>3, <1>4, <1>13, Arrivals
  <2>2. "verify" \in Steps /\ (open[s] \cup {"reader"}) \in SUBSET Resources /\ stuck[s] \in SUBSET Resources
    BY <1>1, <1>3 DEF Steps, Early, Full, Closing, Migrating, Resources, Drivers
  <2>. QED  BY <1>2, <1>13, <2>1, <2>2
<1>14. CASE pc[s] = "reader" /\ Move(s, "close pools", open[s], stuck[s])
  <2>1. HeldAt(s, "close pools", open[s], stuck[s])
    BY <1>1, <1>3, <1>4, <1>14, Arrivals
  <2>2. "close pools" \in Steps /\ open[s] \in SUBSET Resources /\ stuck[s] \in SUBSET Resources
    BY <1>1, <1>3 DEF Steps, Early, Full, Closing, Migrating, Resources, Drivers
  <2>. QED  BY <1>2, <1>14, <2>1, <2>2
<1>15. CASE pc[s] = "verify" /\ Move(s, "clean up probe", open[s], stuck[s])
  <2>1. HeldAt(s, "clean up probe", open[s], stuck[s])
    BY <1>1, <1>3, <1>4, <1>15, Arrivals
  <2>2. "clean up probe" \in Steps /\ open[s] \in SUBSET Resources /\ stuck[s] \in SUBSET Resources
    BY <1>1, <1>3 DEF Steps, Early, Full, Closing, Migrating, Resources, Drivers
  <2>. QED  BY <1>2, <1>15, <2>1, <2>2
<1>16. CASE pc[s] = "verify" /\ s \in ReaderRole /\ Move(s, "build", open[s], stuck[s])
  <2>1. HeldAt(s, "build", open[s], stuck[s])
    BY <1>1, <1>3, <1>4, <1>16, Arrivals
  <2>2. "build" \in Steps /\ open[s] \in SUBSET Resources /\ stuck[s] \in SUBSET Resources
    BY <1>1, <1>3 DEF Steps, Early, Full, Closing, Migrating, Resources, Drivers
  <2>. QED  BY <1>2, <1>16, <2>1, <2>2
<1>17. CASE pc[s] = "build" /\ Move(s, "serving", open[s], stuck[s])
  <2>1. HeldAt(s, "serving", open[s], stuck[s])
    BY <1>1, <1>3, <1>4, <1>17, Arrivals
  <2>2. "serving" \in Steps /\ open[s] \in SUBSET Resources /\ stuck[s] \in SUBSET Resources
    BY <1>1, <1>3 DEF Steps, Early, Full, Closing, Migrating, Resources, Drivers
  <2>. QED  BY <1>2, <1>17, <2>1, <2>2
<1>18. CASE pc[s] \in Full /\ Move(s, "close reader", open[s], stuck[s])
  <2>1. HeldAt(s, "close reader", open[s], stuck[s])
    BY <1>1, <1>3, <1>4, <1>18, Arrivals
  <2>2. "close reader" \in Steps /\ open[s] \in SUBSET Resources /\ stuck[s] \in SUBSET Resources
    BY <1>1, <1>3 DEF Steps, Early, Full, Closing, Migrating, Resources, Drivers
  <2>. QED  BY <1>2, <1>18, <2>1, <2>2
<1>19. CASE pc[s] = "close reader" /\ Move(s, "close pools", open[s] \ {"reader"}, stuck[s])
  <2>1. HeldAt(s, "close pools", open[s] \ {"reader"}, stuck[s])
    BY <1>1, <1>3, <1>4, <1>19, Arrivals
  <2>2. "close pools" \in Steps /\ (open[s] \ {"reader"}) \in SUBSET Resources /\ stuck[s] \in SUBSET Resources
    BY <1>1, <1>3 DEF Steps, Early, Full, Closing, Migrating, Resources, Drivers
  <2>. QED  BY <1>2, <1>19, <2>1, <2>2
<1>20. CASE pc[s] = "close reader" /\ Move(s, "close pools", open[s], stuck[s] \cup ({"reader"} \cap open[s]))
  <2>1. HeldAt(s, "close pools", open[s], stuck[s] \cup ({"reader"} \cap open[s]))
    BY <1>1, <1>3, <1>4, <1>20, Arrivals
  <2>2. "close pools" \in Steps /\ open[s] \in SUBSET Resources /\ (stuck[s] \cup ({"reader"} \cap open[s])) \in SUBSET Resources
    BY <1>1, <1>3 DEF Steps, Early, Full, Closing, Migrating, Resources, Drivers
  <2>. QED  BY <1>2, <1>20, <2>1, <2>2
<1>21. CASE pc[s] = "close pools" /\ Move(s, "close write pool", open[s] \ {"read pool"}, stuck[s])
  <2>1. HeldAt(s, "close write pool", open[s] \ {"read pool"}, stuck[s])
    BY <1>1, <1>3, <1>4, <1>21, Arrivals
  <2>2. "close write pool" \in Steps /\ (open[s] \ {"read pool"}) \in SUBSET Resources /\ stuck[s] \in SUBSET Resources
    BY <1>1, <1>3 DEF Steps, Early, Full, Closing, Migrating, Resources, Drivers
  <2>. QED  BY <1>2, <1>21, <2>1, <2>2
<1>22. CASE pc[s] = "close pools" /\ Move(s, "close driver", open[s], stuck[s] \cup ({"read pool"} \cap open[s]))
  <2>1. HeldAt(s, "close driver", open[s], stuck[s] \cup ({"read pool"} \cap open[s]))
    BY <1>1, <1>3, <1>4, <1>22, Arrivals
  <2>2. "close driver" \in Steps /\ open[s] \in SUBSET Resources /\ (stuck[s] \cup ({"read pool"} \cap open[s])) \in SUBSET Resources
    BY <1>1, <1>3 DEF Steps, Early, Full, Closing, Migrating, Resources, Drivers
  <2>. QED  BY <1>2, <1>22, <2>1, <2>2
<1>23. CASE pc[s] = "close write pool" /\ Move(s, "close driver", open[s] \ {"write pool"}, stuck[s])
  <2>1. HeldAt(s, "close driver", open[s] \ {"write pool"}, stuck[s])
    BY <1>1, <1>3, <1>4, <1>23, Arrivals
  <2>2. "close driver" \in Steps /\ (open[s] \ {"write pool"}) \in SUBSET Resources /\ stuck[s] \in SUBSET Resources
    BY <1>1, <1>3 DEF Steps, Early, Full, Closing, Migrating, Resources, Drivers
  <2>. QED  BY <1>2, <1>23, <2>1, <2>2
<1>24. CASE pc[s] = "close write pool" /\ Move(s, "close driver", open[s], stuck[s] \cup ({"write pool"} \cap open[s]))
  <2>1. HeldAt(s, "close driver", open[s], stuck[s] \cup ({"write pool"} \cap open[s]))
    BY <1>1, <1>3, <1>4, <1>24, Arrivals
  <2>2. "close driver" \in Steps /\ open[s] \in SUBSET Resources /\ (stuck[s] \cup ({"write pool"} \cap open[s])) \in SUBSET Resources
    BY <1>1, <1>3 DEF Steps, Early, Full, Closing, Migrating, Resources, Drivers
  <2>. QED  BY <1>2, <1>24, <2>1, <2>2
<1>25. CASE pc[s] = "close driver" /\ Move(s, "stop log", open[s] \ {"driver"}, stuck[s])
  <2>1. HeldAt(s, "stop log", open[s] \ {"driver"}, stuck[s])
    BY <1>1, <1>3, <1>4, <1>25, Arrivals
  <2>2. "stop log" \in Steps /\ (open[s] \ {"driver"}) \in SUBSET Resources /\ stuck[s] \in SUBSET Resources
    BY <1>1, <1>3 DEF Steps, Early, Full, Closing, Migrating, Resources, Drivers
  <2>. QED  BY <1>2, <1>25, <2>1, <2>2
<1>26. CASE pc[s] = "close driver" /\ Move(s, "stopped", open[s], stuck[s] \cup ({"driver"} \cap open[s]))
  <2>1. HeldAt(s, "stopped", open[s], stuck[s] \cup ({"driver"} \cap open[s]))
    BY <1>1, <1>3, <1>4, <1>26, Arrivals
  <2>2. "stopped" \in Steps /\ open[s] \in SUBSET Resources /\ (stuck[s] \cup ({"driver"} \cap open[s])) \in SUBSET Resources
    BY <1>1, <1>3 DEF Steps, Early, Full, Closing, Migrating, Resources, Drivers
  <2>. QED  BY <1>2, <1>26, <2>1, <2>2
<1>27. CASE pc[s] = "stop log" /\ Move(s, "stopped", open[s] \ {"log"}, stuck[s])
  <2>1. HeldAt(s, "stopped", open[s] \ {"log"}, stuck[s])
    BY <1>1, <1>3, <1>4, <1>27, Arrivals
  <2>2. "stopped" \in Steps /\ (open[s] \ {"log"}) \in SUBSET Resources /\ stuck[s] \in SUBSET Resources
    BY <1>1, <1>3 DEF Steps, Early, Full, Closing, Migrating, Resources, Drivers
  <2>. QED  BY <1>2, <1>27, <2>1, <2>2
<1>28. CASE Move(s, "stopped", {}, {})
  <2>1. HeldAt(s, "stopped", {}, {})
    BY <1>1, <1>3, <1>4, <1>28, Arrivals
  <2>2. "stopped" \in Steps /\ {} \in SUBSET Resources /\ {} \in SUBSET Resources
    BY <1>1, <1>3 DEF Steps, Early, Full, Closing, Migrating, Resources, Drivers
  <2>. QED  BY <1>2, <1>28, <2>1, <2>2
<1>. QED  BY <1>5, <1>6, <1>7, <1>8, <1>9, <1>10, <1>11, <1>12, <1>13, <1>14, <1>15, <1>16, <1>17, <1>18, <1>19, <1>20, <1>21, <1>22, <1>23, <1>24, <1>25, <1>26, <1>27, <1>28 DEF Moves

LEMMA StepsAreMoves ==
  ASSUME Held, ServerNext
  PROVE  \E s \in Servers : Moves(s) \/ Move(s, pc[s], open[s], stuck[s])
<1>1. PICK s \in Servers :
        \/ Startup(s) \/ bootstrap_postgres(s)
        \/ Lock(s) \/ Select(s) \/ Execute(s) \/ Unlock(s) \/ Commit(s) \/ ConnectionLost(s)
        \/ open_pool(s) \/ get_reader_driver(s) \/ verify_reader_is_read_only(s)
        \/ CleanUpProbe(s) \/ Build(s) \/ Shutdown(s)
        \/ CloseReader(s) \/ ClosePool(s) \/ CloseDriver(s) \/ StopLog(s) \/ Exit(s)
  BY DEF ServerNext
<1>2. /\ open = [open EXCEPT ![s] = open[s]]
      /\ stuck = [stuck EXCEPT ![s] = stuck[s]]
      /\ pc = [pc EXCEPT ![s] = pc[s]]
  BY HeldNow
<1>3. CASE Startup(s)
  BY <1>2, <1>3, ZenonT(30) DEF Startup, Goto, Gets, Moves, Move
<1>4. CASE bootstrap_postgres(s)
  BY <1>2, <1>4 DEF bootstrap_postgres, Early, Migrating, Goto, Moves, Move
<1>5. CASE Lock(s)
  BY <1>2, <1>5 DEF Lock, Early, Migrating, Goto, Moves, Move
<1>6. CASE Select(s)
  BY <1>2, <1>6 DEF Select, Early, Migrating, Goto, Moves, Move
<1>7. CASE Execute(s)
  BY <1>2, <1>7 DEF Execute, Early, Migrating, Goto, Moves, Move
<1>8. CASE Unlock(s)
  BY <1>2, <1>8 DEF Unlock, Early, Migrating, Goto, Moves, Move
<1>9. CASE Commit(s)
  BY <1>2, <1>9 DEF Commit, Early, Migrating, Goto, Moves, Move
<1>10. CASE ConnectionLost(s)
  BY <1>2, <1>10 DEF ConnectionLost, Early, Goto, Moves, Move
<1>11. CASE open_pool(s)
  BY <1>2, <1>11 DEF open_pool, Early, Goto, Gets, Moves, Move
<1>12. CASE get_reader_driver(s)
  BY <1>2, <1>12 DEF get_reader_driver, Goto, Gets, Moves, Move
<1>13. CASE verify_reader_is_read_only(s)
  BY <1>2, <1>13 DEF verify_reader_is_read_only, Full, Goto, Moves, Move
<1>14. CASE CleanUpProbe(s)
  BY <1>2, <1>14 DEF CleanUpProbe, Full, Goto, Moves, Move
<1>15. CASE Build(s)
  BY <1>2, <1>15 DEF Build, Full, Goto, Moves, Move
<1>16. CASE Shutdown(s)
  BY <1>2, <1>16 DEF Shutdown, Full, Goto, Moves, Move
<1>17. CASE CloseReader(s)
  BY <1>2, <1>17 DEF CloseReader, Closes, Sticks, Goto, Moves, Move
<1>18. CASE ClosePool(s)
  BY <1>2, <1>18 DEF ClosePool, Closes, Sticks, Goto, Moves, Move
<1>19. CASE CloseDriver(s)
  BY <1>2, <1>19 DEF CloseDriver, Closes, Sticks, Goto, Moves, Move
<1>20. CASE StopLog(s)
  BY <1>2, <1>20 DEF StopLog, Closes, Goto, Moves, Move
<1>21. CASE Exit(s)
  BY <1>2, <1>21 DEF Exit, Goto, Moves, Move
<1>. QED  BY <1>1, <1>3, <1>4, <1>5, <1>6, <1>7, <1>8, <1>9, <1>10, <1>11, <1>12, <1>13, <1>14, <1>15, <1>16, <1>17, <1>18, <1>19, <1>20, <1>21

LEMMA StutterKeepsHeld == Held /\ UNCHANGED serverVars => Held'
BY DEF Held, serverVars

(***************************************************************************)
(* What each step of lifespan holds, up to serving and down again, is      *)
(* what HeldAt says (main.py, lifespan).                                   *)
(***************************************************************************)
THEOREM ResourcesHeld == ServerSpec => []Held
<1>1. Held /\ ServerNext => Held'
  <2>1. SUFFICES ASSUME Held, ServerNext  PROVE Held'
    OBVIOUS
  <2>2. PICK s \in Servers : Moves(s) \/ Move(s, pc[s], open[s], stuck[s])
    BY <2>1, StepsAreMoves
  <2>3. CASE Moves(s)
    BY <2>1, <2>3, MovesKeepHeld
  <2>4. CASE Move(s, pc[s], open[s], stuck[s])
    BY <2>1, <2>4, HeldNow, MoveKeepsHeld DEF Move
  <2>. QED  BY <2>2, <2>3, <2>4
<1>. QED  BY InitHeld, StutterKeepsHeld, <1>1, PTL DEF ServerSpec

(***************************************************************************)
(* A stopped server keeps no Neo4j driver that could be closed, whichever  *)
(* step of the start failed and whichever close raised (main.py, the       *)
(* finally blocks).                                                        *)
(***************************************************************************)
THEOREM DriversGivenBack == ServerSpec => []DriversReleased
<1>1. Held => DriversReleased
  BY ZenonT(30) DEF Held, HeldAt, DriversReleased, Closing, Pools, Drivers
<1>. QED  BY ResourcesHeld, <1>1, PTL

-----------------------------------------------------------------------------
(***************************************************************************)
(* Migrations: what the open transaction of a server has written, and what *)
(* of its list is committed, at each step of apply_migrations.             *)
(***************************************************************************)
Looking == Migrating \ {"lock"}

Ready == {"read pool", "write pool", "reader", "verify", "clean up probe", "build",
          "serving"}

\* The i-th migration of s is in a table of migrations with its own checksum.
RecordedIn(table, s, i) ==
  Files[s][i].name \in DOMAIN table /\ table[Files[s][i].name] = Files[s][i].sha256

\* at is the index the server looks at, mine what its transaction has written.
MigratedAt(s, step, at, mine, table) ==
  /\ step \notin Looking => DOMAIN mine = {}
  /\ step \in Looking => \A i \in DOMAIN Files[s] :
       i < at => RecordedIn(table, s, i) \/ RecordedIn(mine, s, i)
  /\ \A n \in DOMAIN mine : \E i \in DOMAIN Files[s] : i < at /\ n = Files[s][i].name
  /\ step = "execute" => at \in DOMAIN Files[s]
  /\ step \in {"unlock", "commit"} => at > Len(Files[s])
  /\ step \in Ready => \A i \in DOMAIN Files[s] : RecordedIn(table, s, i)

\* No two open transactions have written the same row, nor one that is
\* committed already.
Apart ==
  \A s \in Servers :
    /\ DOMAIN pending[s] \cap DOMAIN rows = {}
    /\ \A t \in Servers \ {s} : DOMAIN pending[s] \cap DOMAIN pending[t] = {}

Migrated ==
  /\ pc \in [Servers -> Steps]
  /\ file \in [Servers -> Nat \ {0}]
  /\ pending = [s \in Servers |-> pending[s]]
  /\ \A s \in Servers : MigratedAt(s, pc[s], file[s], pending[s], rows)
  /\ Apart
  /\ SchemaIsPrefix

LEMMA FilesFacts ==
  ASSUME NEW s \in Servers
  PROVE  /\ Len(Files[s]) \in Nat /\ DOMAIN Files[s] = 1 .. Len(Files[s])
         /\ \A t \in Servers : \A i \in DOMAIN Files[s], k \in DOMAIN Files[t] :
              Files[s][i].name = Files[t][k].name <=> i = k
<1>1. Files[s] \in Seq([name : STRING, sha256 : STRING])
  BY FilesAssumption
<1>2. Len(Files[s]) \in Nat /\ DOMAIN Files[s] = 1 .. Len(Files[s])
  BY <1>1
<1>. QED  BY <1>2, FilesAssumption

LEMMA InitMigrated == ServerInit => Migrated
<1>1. SUFFICES ASSUME ServerInit PROVE Migrated
  OBVIOUS
<1>2. DOMAIN NoRows = {}
  BY DEF NoRows
<1>3. pending = [s \in Servers |-> pending[s]] /\ \A s \in Servers : pending[s] = NoRows
  BY <1>1 DEF ServerInit
<1>4. Apart /\ SchemaIsPrefix
  BY <1>1, <1>2, <1>3 DEF ServerInit, Apart, SchemaIsPrefix
<1>5. ASSUME NEW s \in Servers
      PROVE  MigratedAt(s, pc[s], file[s], pending[s], rows)
  BY <1>1, <1>2, <1>3 DEF ServerInit, MigratedAt, Looking, Migrating, Ready
<1>6. pc \in [Servers -> Steps] /\ file \in [Servers -> Nat \ {0}]
  BY <1>1 DEF ServerInit, Steps, Closing
<1>. QED  BY <1>3, <1>4, <1>5, <1>6 DEF Migrated

\* A step of s that commits nothing only has to be looked at where s arrives,
\* and what it writes must be apart from the others.
LEMMA StepKeepsMigrated ==
  ASSUME Migrated, NEW s \in Servers, NEW step \in Steps, NEW at \in Nat \ {0}, NEW mine,
         pc' = [pc EXCEPT ![s] = step],
         file' = [file EXCEPT ![s] = at],
         pending' = [pending EXCEPT ![s] = mine],
         rows' = rows,
         MigratedAt(s, step, at, mine, rows),
         DOMAIN mine \cap DOMAIN rows = {},
         \A t \in Servers \ {s} : DOMAIN mine \cap DOMAIN pending[t] = {}
  PROVE  Migrated'
<1>1. /\ pc' \in [Servers -> Steps] /\ file' \in [Servers -> Nat \ {0}]
      /\ pending' = [t \in Servers |-> pending'[t]]
  BY DEF Migrated
<1>2. pc'[s] = step /\ file'[s] = at /\ pending'[s] = mine
  BY DEF Migrated
<1>3. ASSUME NEW t \in Servers \ {s}
      PROVE  pc'[t] = pc[t] /\ file'[t] = file[t] /\ pending'[t] = pending[t]
  BY DEF Migrated
<1>4. \A t \in Servers : MigratedAt(t, pc'[t], file'[t], pending'[t], rows')
  <2>1. SUFFICES ASSUME NEW t \in Servers
                 PROVE  MigratedAt(t, pc'[t], file'[t], pending'[t], rows')
    OBVIOUS
  <2>2. CASE t = s
    BY <1>2, <2>2
  <2>3. CASE t # s
    <3>1. pc'[t] = pc[t] /\ file'[t] = file[t] /\ pending'[t] = pending[t]
      BY <1>3, <2>3
    <3>2. MigratedAt(t, pc[t], file[t], pending[t], rows)
      BY DEF Migrated
    <3>. QED  BY <3>1, <3>2
  <2>. QED  BY <2>2, <2>3
<1>5. Apart'
  <2>1. SUFFICES ASSUME NEW t \in Servers
                 PROVE  /\ DOMAIN pending'[t] \cap DOMAIN rows' = {}
                        /\ \A u \in Servers \ {t} : DOMAIN pending'[t] \cap DOMAIN pending'[u] = {}
    BY DEF Apart
  <2>2. CASE t = s
    BY <1>2, <1>3, <2>2
  <2>3. CASE t # s
    BY <1>2, <1>3, <2>3 DEF Migrated, Apart
  <2>. QED  BY <2>2, <2>3
<1>6. SchemaIsPrefix'
  BY DEF Migrated, SchemaIsPrefix
<1>. QED  BY <1>1, <1>4, <1>5, <1>6 DEF Migrated

\* The server at s now.
LEMMA MigratedNow ==
  ASSUME Migrated, NEW s \in Servers
  PROVE  /\ pc[s] \in Steps /\ file[s] \in Nat \ {0}
         /\ MigratedAt(s, pc[s], file[s], pending[s], rows)
         /\ DOMAIN pending[s] \cap DOMAIN rows = {}
         /\ \A t \in Servers \ {s} : DOMAIN pending[s] \cap DOMAIN pending[t] = {}
         /\ pc = [pc EXCEPT ![s] = pc[s]]
         /\ file = [file EXCEPT ![s] = file[s]]
         /\ pending = [pending EXCEPT ![s] = pending[s]]
BY DEF Migrated, Apart

\* A step that leaves the database alone.
LEMMA MoveKeepsMigrated ==
  ASSUME Migrated, NEW s \in Servers, NEW step \in Steps,
         pc' = [pc EXCEPT ![s] = step], UNCHANGED database,
         MigratedAt(s, step, file[s], pending[s], rows)
  PROVE  Migrated'
<1>1. file' = file /\ pending' = pending /\ rows' = rows
  BY DEF database
<1>2. /\ file' = [file EXCEPT ![s] = file[s]]
      /\ pending' = [pending EXCEPT ![s] = pending[s]]
  BY <1>1, MigratedNow
<1>3. /\ file[s] \in Nat \ {0}
      /\ DOMAIN pending[s] \cap DOMAIN rows = {}
      /\ \A t \in Servers \ {s} : DOMAIN pending[s] \cap DOMAIN pending[t] = {}
  BY MigratedNow
<1>. DEFINE mine == pending[s]
            at == file[s]
<1>4. /\ pending' = [pending EXCEPT ![s] = mine] /\ file' = [file EXCEPT ![s] = at]
      /\ MigratedAt(s, step, at, mine, rows) /\ at \in Nat \ {0}
  BY <1>2, <1>3
<1>5. /\ DOMAIN mine \cap DOMAIN rows = {}
      /\ \A t \in Servers \ {s} : DOMAIN mine \cap DOMAIN pending[t] = {}
  BY <1>3
<1>. HIDE DEF mine, at
<1>. QED  BY <1>1, <1>4, <1>5, StepKeepsMigrated

\* A transaction that is rolled back.
LEMMA RollbackKeepsMigrated ==
  ASSUME Migrated, NEW s \in Servers, NEW step \in {"close driver", "stopped"},
         pc' = [pc EXCEPT ![s] = step], UNCHANGED <<rows, file>>,
         pending' = [pending EXCEPT ![s] = NoRows]
  PROVE  Migrated'
<1>1. DOMAIN NoRows = {}
  BY DEF NoRows
<1>2. MigratedAt(s, step, file[s], NoRows, rows)
  BY <1>1 DEF MigratedAt, Looking, Migrating, Ready
<1>3. step \in Steps
  BY DEF Steps, Closing
<1>4. file[s] \in Nat \ {0} /\ file' = [file EXCEPT ![s] = file[s]] /\ rows' = rows
  BY MigratedNow
<1>5. /\ DOMAIN NoRows \cap DOMAIN rows = {}
      /\ \A t \in Servers \ {s} : DOMAIN NoRows \cap DOMAIN pending[t] = {}
  BY <1>1
<1>. QED  BY <1>2, <1>3, <1>4, <1>5, StepKeepsMigrated

\* Outside apply_migrations only a server that was ready stays ready.
LEMMA OutsideKeepsMigrated ==
  ASSUME Migrated, NEW s \in Servers, NEW step \in Steps,
         pc' = [pc EXCEPT ![s] = step], UNCHANGED database,
         pc[s] \notin Looking, step \notin Looking, step \in Ready => pc[s] \in Ready
  PROVE  Migrated'
<1>1. MigratedAt(s, pc[s], file[s], pending[s], rows)
  BY MigratedNow
<1>2. MigratedAt(s, step, file[s], pending[s], rows)
  BY <1>1 DEF MigratedAt, Looking, Migrating
<1>. QED  BY <1>2, MoveKeepsMigrated

\* The steps of lifespan around apply_migrations.
LEMMA LifespanKeepsMigrated ==
  ASSUME Migrated, NEW s \in Servers,
         \/ Startup(s) \/ bootstrap_postgres(s) \/ open_pool(s) \/ get_reader_driver(s)
         \/ verify_reader_is_read_only(s) \/ CleanUpProbe(s) \/ Build(s) \/ Shutdown(s)
         \/ CloseReader(s) \/ ClosePool(s) \/ CloseDriver(s) \/ StopLog(s)
  PROVE  Migrated'
<1>1. pc[s] \in Steps /\ pc = [pc EXCEPT ![s] = pc[s]]
  BY MigratedNow
<1>2. UNCHANGED database
  BY DEF Startup, bootstrap_postgres, open_pool, get_reader_driver, verify_reader_is_read_only,
         CleanUpProbe, Build, Shutdown, CloseReader, ClosePool, CloseDriver, StopLog
<1>3. \E step \in Steps : /\ pc' = [pc EXCEPT ![s] = step]
                          /\ pc[s] \notin Looking /\ step \notin Looking
                          /\ step \in Ready => pc[s] \in Ready
  <2>1. CASE Startup(s)
    BY <1>1, <2>1 DEF Startup, Goto, Gets, Looking, Ready, Steps, Early, Full, Closing, Migrating
  <2>2. CASE bootstrap_postgres(s)
    BY <1>1, <2>2 DEF bootstrap_postgres, Goto, Looking, Ready, Steps, Early, Full, Closing, Migrating
  <2>3. CASE open_pool(s)
    BY <1>1, <2>3 DEF open_pool, Goto, Looking, Ready, Steps, Early, Full, Closing, Migrating
  <2>4. CASE get_reader_driver(s)
    BY <1>1, <2>4 DEF get_reader_driver, Goto, Looking, Ready, Steps, Early, Full, Closing, Migrating
  <2>5. CASE verify_reader_is_read_only(s)
    BY <1>1, <2>5 DEF verify_reader_is_read_only, Goto, Looking, Ready, Steps, Early, Full, Closing, Migrating
  <2>6. CASE CleanUpProbe(s)
    BY <1>1, <2>6 DEF CleanUpProbe, Goto, Looking, Ready, Steps, Early, Full, Closing, Migrating
  <2>7. CASE Build(s)
    BY <1>1, <2>7 DEF Build, Goto, Looking, Ready, Steps, Early, Full, Closing, Migrating
  <2>8. CASE Shutdown(s)
    BY <1>1, <2>8 DEF Shutdown, Goto, Looking, Ready, Steps, Early, Full, Closing, Migrating
  <2>9. CASE CloseReader(s)
    <3>1. pc[s] = "close reader" /\ pc' = [pc EXCEPT ![s] = "close pools"]
      BY <2>9 DEF CloseReader, Goto
    <3>2. "close pools" \in Steps
      BY DEF Steps, Closing
    <3>3. pc[s] \notin Looking /\ "close pools" \notin Looking /\ "close pools" \notin Ready
      BY <3>1 DEF Looking, Ready, Migrating
    <3>. QED  BY <3>1, <3>2, <3>3
  <2>10. CASE ClosePool(s)
    BY <1>1, <2>10 DEF ClosePool, Goto, Looking, Ready, Steps, Early, Full, Closing, Migrating
  <2>11. CASE CloseDriver(s)
    BY <1>1, <2>11 DEF CloseDriver, Goto, Looking, Ready, Steps, Early, Full, Closing, Migrating
  <2>12. CASE StopLog(s)
    BY <1>1, <2>12 DEF StopLog, Goto, Looking, Ready, Steps, Early, Full, Closing, Migrating
  <2>. QED  BY <2>1, <2>2, <2>3, <2>4, <2>5, <2>6, <2>7, <2>8, <2>9, <2>10, <2>11, <2>12
<1>. QED  BY <1>2, <1>3, OutsideKeepsMigrated

LEMMA LockKeepsMigrated ==
  ASSUME Migrated, NEW s \in Servers, Lock(s)
  PROVE  Migrated'
<1>1. /\ pc' = [pc EXCEPT ![s] = "select"] /\ file' = [file EXCEPT ![s] = 1]
      /\ pending' = pending /\ rows' = rows /\ pc[s] = "lock"
  BY DEF Lock, Goto
<1>. DEFINE mine == pending[s]
<1>2. DOMAIN mine = {}
  BY <1>1, MigratedNow DEF MigratedAt, Looking
<1>3. pending' = [pending EXCEPT ![s] = mine]
  BY <1>1, MigratedNow
<1>4. MigratedAt(s, "select", 1, mine, rows)
  BY <1>2, FilesFacts DEF MigratedAt, Looking, Migrating, Ready
<1>5. "select" \in Steps /\ 1 \in Nat \ {0}
  BY DEF Steps, Early, Migrating
<1>6. /\ DOMAIN mine \cap DOMAIN rows = {}
      /\ \A t \in Servers \ {s} : DOMAIN mine \cap DOMAIN pending[t] = {}
  BY <1>2
<1>. HIDE DEF mine
<1>. QED  BY <1>1, <1>3, <1>4, <1>5, <1>6, StepKeepsMigrated

LEMMA SelectKeepsMigrated ==
  ASSUME Migrated, NEW s \in Servers, Select(s)
  PROVE  Migrated'
<1>. DEFINE mine == pending[s]
            f == Files[s][file[s]]
<1>1. pc[s] = "select" /\ pending' = pending /\ rows' = rows
  BY DEF Select
<1>2. /\ MigratedAt(s, "select", file[s], mine, rows) /\ file[s] \in Nat \ {0}
      /\ DOMAIN mine \cap DOMAIN rows = {}
      /\ \A t \in Servers \ {s} : DOMAIN mine \cap DOMAIN pending[t] = {}
      /\ pending' = [pending EXCEPT ![s] = mine]
  BY <1>1, MigratedNow
<1>3. {"select", "execute", "unlock", "unlock, failed"} \subseteq Steps
  BY DEF Steps, Early, Migrating
<1>4. ASSUME NEW step \in {"unlock", "unlock, failed", "execute"},
             pc' = [pc EXCEPT ![s] = step], file' = file,
             step = "unlock" => file[s] > Len(Files[s]),
             step = "execute" => file[s] \in DOMAIN Files[s]
      PROVE  Migrated'
  <2>1. MigratedAt(s, step, file[s], mine, rows)
    BY <1>2, <1>4 DEF MigratedAt, Looking, Migrating, Ready
  <2>2. file' = [file EXCEPT ![s] = file[s]]
    BY <1>4, MigratedNow
  <2>3. step \in Steps /\ pc' = [pc EXCEPT ![s] = step]
    BY <1>3, <1>4
  <2>. DEFINE at == file[s]
  <2>4. /\ at \in Nat \ {0} /\ file' = [file EXCEPT ![s] = at]
        /\ MigratedAt(s, step, at, mine, rows)
    BY <1>2, <2>1, <2>2
  <2>. HIDE DEF mine, at
  <2>. QED  BY <1>1, <1>2, <2>3, <2>4, StepKeepsMigrated
<1>5. ASSUME pc' = pc, file' = [file EXCEPT ![s] = file[s] + 1],
             file[s] \in DOMAIN Files[s], RecordedIn(rows, s, file[s])
      PROVE  Migrated'
  <2>1. DOMAIN Files[s] \subseteq Nat
    BY FilesFacts
  <2>2. MigratedAt(s, "select", file[s] + 1, mine, rows)
    BY <1>2, <1>5, <2>1 DEF MigratedAt, Looking, Migrating, Ready
  <2>3. pc' = [pc EXCEPT ![s] = "select"] /\ file[s] + 1 \in Nat \ {0}
    BY <1>1, <1>2, <1>5, MigratedNow
  <2>. HIDE DEF mine
  <2>. QED  BY <1>1, <1>2, <1>3, <1>5, <2>2, <2>3, StepKeepsMigrated
<1>6. CASE file[s] > Len(Files[s])
  <2>1. pc' = [pc EXCEPT ![s] = "unlock"] /\ file' = file
    BY <1>6 DEF Select, Goto
  <2>. QED  BY <1>4, <1>6, <2>1
<1>7. CASE ~(file[s] > Len(Files[s]))
  <2>1. file[s] \in DOMAIN Files[s]
    BY <1>2, <1>7, FilesFacts
  <2>2. \/ pc' = [pc EXCEPT ![s] = "execute"] /\ file' = file
        \/ pc' = [pc EXCEPT ![s] = "unlock, failed"] /\ file' = file
        \/ pc' = pc /\ file' = [file EXCEPT ![s] = file[s] + 1] /\ RecordedIn(rows, s, file[s])
    BY <1>7 DEF Select, Goto, RecordedIn
  <2>. QED  BY <1>4, <1>5, <2>1, <2>2
<1>. QED  BY <1>6, <1>7

LEMMA ExecuteKeepsMigrated ==
  ASSUME Migrated, NEW s \in Servers, Execute(s)
  PROVE  Migrated'
<1>. DEFINE mine == pending[s]
            at == file[s]
            f == Files[s][at]
            more == [n \in DOMAIN mine \cup {f.name} |-> IF n = f.name THEN f.sha256 ELSE mine[n]]
<1>1. /\ pc[s] = "execute" /\ rows' = rows
      /\ \A t \in Servers \ {s} : f.name \notin DOMAIN pending[t]
  BY DEF Execute
<1>2. /\ MigratedAt(s, "execute", at, mine, rows) /\ at \in Nat \ {0}
      /\ DOMAIN mine \cap DOMAIN rows = {}
      /\ \A t \in Servers \ {s} : DOMAIN mine \cap DOMAIN pending[t] = {}
  BY <1>1, MigratedNow
<1>3. at \in DOMAIN Files[s] /\ DOMAIN Files[s] \subseteq Nat
  BY <1>2, FilesFacts DEF MigratedAt
<1>4. {"select", "unlock, failed"} \subseteq Steps
  BY DEF Steps, Early, Migrating
<1>5. CASE f.name \in DOMAIN rows \/ f.sha256 \in Failing
  <2>1. pc' = [pc EXCEPT ![s] = "unlock, failed"] /\ file' = file /\ pending' = pending
    BY <1>5 DEF Execute, Goto
  <2>2. file' = [file EXCEPT ![s] = at] /\ pending' = [pending EXCEPT ![s] = mine]
    BY <2>1, MigratedNow
  <2>3. MigratedAt(s, "unlock, failed", at, mine, rows)
    BY <1>2 DEF MigratedAt, Looking, Migrating, Ready
  <2>. HIDE DEF mine, at
  <2>. QED  BY <1>1, <1>2, <1>4, <2>1, <2>2, <2>3, StepKeepsMigrated
<1>6. CASE ~(f.name \in DOMAIN rows \/ f.sha256 \in Failing)
  <2>1. /\ pc' = [pc EXCEPT ![s] = "select"] /\ file' = [file EXCEPT ![s] = at + 1]
        /\ pending' = [pending EXCEPT ![s] = more]
    BY <1>6 DEF Execute, Goto
  <2>2. DOMAIN more = DOMAIN mine \cup {f.name}
    OBVIOUS
  <2>3. /\ DOMAIN more \cap DOMAIN rows = {}
        /\ \A t \in Servers \ {s} : DOMAIN more \cap DOMAIN pending[t] = {}
    BY <1>1, <1>2, <1>6, <2>2
  <2>4. \A i \in DOMAIN Files[s] : i < at + 1 => RecordedIn(rows, s, i) \/ RecordedIn(more, s, i)
    <3>1. SUFFICES ASSUME NEW i \in DOMAIN Files[s], i < at + 1
                   PROVE  RecordedIn(rows, s, i) \/ RecordedIn(more, s, i)
      OBVIOUS
    <3>2. CASE i = at
      BY <3>2 DEF RecordedIn
    <3>3. CASE i # at
      <4>1. i < at
        BY <1>2, <1>3, <3>1, <3>3
      <4>2. RecordedIn(rows, s, i) \/ RecordedIn(mine, s, i)
        BY <1>2, <4>1 DEF MigratedAt, Looking, Migrating
      <4>3. Files[s][i].name # f.name
        BY <1>3, <3>3, FilesFacts
      <4>. QED  BY <4>2, <4>3 DEF RecordedIn
    <3>. QED  BY <3>2, <3>3
  <2>5. \A n \in DOMAIN more : \E i \in DOMAIN Files[s] : i < at + 1 /\ n = Files[s][i].name
    <3>1. SUFFICES ASSUME NEW n \in DOMAIN more
                   PROVE  \E i \in DOMAIN Files[s] : i < at + 1 /\ n = Files[s][i].name
      OBVIOUS
    <3>2. CASE n = f.name
      BY <1>2, <1>3, <3>2
    <3>3. CASE n \in DOMAIN mine
      <4>1. PICK i \in DOMAIN Files[s] : i < at /\ n = Files[s][i].name
        BY <1>2, <3>3 DEF MigratedAt
      <4>. QED  BY <1>2, <1>3, <4>1
    <3>. QED  BY <2>2, <3>2, <3>3
  <2>6. MigratedAt(s, "select", at + 1, more, rows)
    BY <2>4, <2>5 DEF MigratedAt, Looking, Migrating, Ready
  <2>7. at + 1 \in Nat \ {0}
    BY <1>2
  <2>. HIDE DEF more, at
  <2>. QED  BY <1>1, <1>4, <2>1, <2>3, <2>6, <2>7, StepKeepsMigrated
<1>. QED  BY <1>5, <1>6

LEMMA UnlockKeepsMigrated ==
  ASSUME Migrated, NEW s \in Servers, Unlock(s)
  PROVE  Migrated'
<1>. DEFINE mine == pending[s]
            at == file[s]
            step == IF pc[s] = "unlock" THEN "commit" ELSE "commit, failed"
<1>1. /\ pc[s] \in {"unlock", "unlock, failed"} /\ rows' = rows
      /\ pc' = [pc EXCEPT ![s] = step] /\ file' = file /\ pending' = pending
  BY DEF Unlock, Goto
<1>2. /\ MigratedAt(s, pc[s], at, mine, rows) /\ at \in Nat \ {0}
      /\ DOMAIN mine \cap DOMAIN rows = {}
      /\ \A t \in Servers \ {s} : DOMAIN mine \cap DOMAIN pending[t] = {}
  BY <1>1, MigratedNow
<1>3. file' = [file EXCEPT ![s] = at] /\ pending' = [pending EXCEPT ![s] = mine]
  BY <1>1, MigratedNow
<1>4. MigratedAt(s, step, at, mine, rows)
  BY <1>1, <1>2 DEF MigratedAt, Looking, Migrating, Ready
<1>5. step \in Steps
  BY DEF Steps, Early, Migrating
<1>. HIDE DEF mine, at, step
<1>. QED  BY <1>1, <1>2, <1>3, <1>4, <1>5, StepKeepsMigrated

LEMMA CommitKeepsMigrated ==
  ASSUME Migrated, NEW s \in Servers, Commit(s)
  PROVE  Migrated'
<1>. DEFINE mine == pending[s]
            at == file[s]
            all == WithRows(s)
            step == IF pc[s] = "commit" THEN "read pool" ELSE "close driver"
<1>1. /\ pc[s] \in {"commit", "commit, failed"} /\ rows' = all /\ file' = file
      /\ pc' = [pc EXCEPT ![s] = step] /\ pending' = [pending EXCEPT ![s] = NoRows]
  BY DEF Commit, Goto
<1>2. /\ MigratedAt(s, pc[s], at, mine, rows) /\ at \in Nat \ {0}
      /\ DOMAIN mine \cap DOMAIN rows = {}
      /\ \A t \in Servers \ {s} : DOMAIN mine \cap DOMAIN pending[t] = {}
  BY MigratedNow
<1>3. DOMAIN all = DOMAIN rows \cup DOMAIN mine
  BY DEF WithRows
<1>4. ASSUME NEW n \in DOMAIN rows PROVE all[n] = rows[n]
  BY <1>2, <1>4 DEF WithRows
<1>5. ASSUME NEW n \in DOMAIN mine PROVE all[n] = mine[n]
  BY <1>5 DEF WithRows
<1>6. DOMAIN NoRows = {}
  BY DEF NoRows
<1>7. /\ pc' \in [Servers -> Steps] /\ file' \in [Servers -> Nat \ {0}]
      /\ pending' = [t \in Servers |-> pending'[t]]
  <2>1. step \in Steps
    BY DEF Steps, Early, Closing
  <2>. HIDE DEF step
  <2>. QED  BY <1>1, <2>1 DEF Migrated
<1>8. pc'[s] = step /\ file'[s] = at /\ pending'[s] = NoRows
  BY <1>1 DEF Migrated
<1>9. ASSUME NEW t \in Servers \ {s}
      PROVE  pc'[t] = pc[t] /\ file'[t] = file[t] /\ pending'[t] = pending[t]
  BY <1>1 DEF Migrated
<1>10. \A t \in Servers : \A i : RecordedIn(rows, t, i) => RecordedIn(all, t, i)
  BY <1>3, <1>4 DEF RecordedIn
<1>11. \A i : RecordedIn(mine, s, i) => RecordedIn(all, s, i)
  BY <1>3, <1>5 DEF RecordedIn
<1>12. MigratedAt(s, step, at, NoRows, all)
  <2>1. pc[s] = "commit" => \A i \in DOMAIN Files[s] : RecordedIn(all, s, i)
    <3>1. SUFFICES ASSUME pc[s] = "commit", NEW i \in DOMAIN Files[s]
                   PROVE  RecordedIn(all, s, i)
      OBVIOUS
    <3>2. at > Len(Files[s]) /\ (i < at => RecordedIn(rows, s, i) \/ RecordedIn(mine, s, i))
      BY <1>2, <3>1 DEF MigratedAt, Looking, Migrating
    <3>3. i < at
      BY <1>2, <3>2, FilesFacts
    <3>. QED  BY <1>10, <1>11, <3>2, <3>3
  <2>2. step \notin Looking /\ step \notin {"execute", "unlock", "commit"}
    BY DEF Looking, Migrating
  <2>3. step \in Ready => pc[s] = "commit"
    BY DEF Ready
  <2>. HIDE DEF step, all
  <2>. QED  BY <1>6, <2>1, <2>2, <2>3 DEF MigratedAt
<1>13. \A t \in Servers : MigratedAt(t, pc'[t], file'[t], pending'[t], rows')
  <2>1. SUFFICES ASSUME NEW t \in Servers
                 PROVE  MigratedAt(t, pc'[t], file'[t], pending'[t], rows')
    OBVIOUS
  <2>2. CASE t = s
    BY <1>1, <1>8, <1>12, <2>2
  <2>3. CASE t # s
    <3>1. pc'[t] = pc[t] /\ file'[t] = file[t] /\ pending'[t] = pending[t]
      BY <1>9, <2>3
    <3>2. MigratedAt(t, pc[t], file[t], pending[t], rows)
      BY DEF Migrated
    <3>3. MigratedAt(t, pc[t], file[t], pending[t], all)
      BY <1>10, <3>2 DEF MigratedAt
    <3>. QED  BY <1>1, <3>1, <3>3
  <2>. QED  BY <2>2, <2>3
<1>14. Apart'
  <2>1. SUFFICES ASSUME NEW t \in Servers
                 PROVE  /\ DOMAIN pending'[t] \cap DOMAIN rows' = {}
                        /\ \A u \in Servers \ {t} : DOMAIN pending'[t] \cap DOMAIN pending'[u] = {}
    BY DEF Apart
  <2>2. CASE t = s
    BY <1>6, <1>8, <2>2
  <2>3. CASE t # s
    <3>1. pending'[t] = pending[t]
      BY <1>9, <2>3
    <3>2. /\ DOMAIN pending[t] \cap DOMAIN rows = {} /\ DOMAIN pending[t] \cap DOMAIN mine = {}
          /\ \A u \in Servers \ {t} : DOMAIN pending[t] \cap DOMAIN pending[u] = {}
      BY <2>3 DEF Migrated, Apart
    <3>3. DOMAIN pending'[t] \cap DOMAIN rows' = {}
      BY <1>1, <1>3, <3>1, <3>2
    <3>4. \A u \in Servers \ {t} : DOMAIN pending'[t] \cap DOMAIN pending'[u] = {}
      BY <1>6, <1>8, <1>9, <3>1, <3>2
    <3>. QED  BY <3>3, <3>4
  <2>. QED  BY <2>2, <2>3
<1>15. SchemaIsPrefix'
  <2>1. SUFFICES ASSUME NEW t \in Servers, NEW i \in DOMAIN Files[t], NEW k \in DOMAIN Files[t],
                        i < k, Files[t][k].name \in DOMAIN all
                 PROVE  Files[t][i].name \in DOMAIN all
    BY <1>1 DEF SchemaIsPrefix
  <2>2. CASE Files[t][k].name \in DOMAIN rows
    BY <1>3, <2>1, <2>2 DEF Migrated, SchemaIsPrefix
  <2>3. CASE Files[t][k].name \in DOMAIN mine
    <3>1. PICK j \in DOMAIN Files[s] : j < at /\ Files[t][k].name = Files[s][j].name
      BY <1>2, <2>3 DEF MigratedAt
    <3>2. k = j
      BY <3>1, FilesFacts
    <3>3. i \in DOMAIN Files[s] /\ i < at
      BY <1>2, <2>1, <3>1, <3>2, FilesFacts
    <3>4. Files[t][i].name = Files[s][i].name
      BY <3>3, FilesFacts
    <3>5. RecordedIn(rows, s, i) \/ RecordedIn(mine, s, i)
      BY <1>1, <1>2, <3>3 DEF MigratedAt, Looking, Migrating
    <3>. QED  BY <1>3, <3>4, <3>5 DEF RecordedIn
  <2>. QED  BY <1>3, <2>1, <2>2, <2>3
<1>. QED  BY <1>7, <1>13, <1>14, <1>15 DEF Migrated

LEMMA NextKeepsMigrated == Migrated /\ ServerNext => Migrated'
<1>1. SUFFICES ASSUME Migrated, ServerNext PROVE Migrated'
  OBVIOUS
<1>2. PICK s \in Servers :
        \/ Startup(s) \/ bootstrap_postgres(s)
        \/ Lock(s) \/ Select(s) \/ Execute(s) \/ Unlock(s) \/ Commit(s) \/ ConnectionLost(s)
        \/ open_pool(s) \/ get_reader_driver(s) \/ verify_reader_is_read_only(s)
        \/ CleanUpProbe(s) \/ Build(s) \/ Shutdown(s)
        \/ CloseReader(s) \/ ClosePool(s) \/ CloseDriver(s) \/ StopLog(s) \/ Exit(s)
  BY <1>1 DEF ServerNext
<1>3. CASE Lock(s)
  BY <1>1, <1>3, LockKeepsMigrated
<1>4. CASE Select(s)
  BY <1>1, <1>4, SelectKeepsMigrated
<1>5. CASE Execute(s)
  BY <1>1, <1>5, ExecuteKeepsMigrated
<1>6. CASE Unlock(s)
  BY <1>1, <1>6, UnlockKeepsMigrated
<1>7. CASE Commit(s)
  BY <1>1, <1>7, CommitKeepsMigrated
<1>8. CASE ConnectionLost(s)
  BY <1>1, <1>8, RollbackKeepsMigrated DEF ConnectionLost, Goto
<1>9. CASE Exit(s)
  BY <1>1, <1>9, RollbackKeepsMigrated DEF Exit, Goto
<1>. QED  BY <1>1, <1>2, <1>3, <1>4, <1>5, <1>6, <1>7, <1>8, <1>9, LifespanKeepsMigrated

LEMMA StutterKeepsMigrated == Migrated /\ UNCHANGED serverVars => Migrated'
BY DEF Migrated, Apart, SchemaIsPrefix, serverVars

(***************************************************************************)
(* What an open transaction has written stays apart from the others and    *)
(* from the committed rows until it is committed (migrations.py).          *)
(***************************************************************************)
THEOREM MigrationsApplied == ServerSpec => []Migrated
BY InitMigrated, NextKeepsMigrated, StutterKeepsMigrated, PTL DEF ServerSpec

(***************************************************************************)
(* Any number of servers that start, fail or die while they migrate one    *)
(* database leave no gap in the list of any of them, although the advisory *)
(* lock is given away before the transaction is committed (migrations.py,  *)
(* apply_migrations).                                                      *)
(***************************************************************************)
THEOREM NoGapInSchema == ServerSpec => []SchemaIsPrefix
<1>1. Migrated => SchemaIsPrefix
  BY DEF Migrated
<1>. QED  BY MigrationsApplied, <1>1, PTL

(***************************************************************************)
(* A serving server holds all its resources and finds all its migrations   *)
(* committed with its own checksums, for any number of servers and         *)
(* releases (main.py, lifespan).                                           *)
(***************************************************************************)
THEOREM ServingIsReady == ServerSpec => []ServingReady
<1>1. Held /\ Migrated => ServingReady
  BY DEF Held, HeldAt, Full, Migrated, MigratedAt, Ready, RecordedIn, ServingReady
<1>. QED  BY ResourcesHeld, MigrationsApplied, <1>1, PTL

-----------------------------------------------------------------------------
(***************************************************************************)
(* The refresh, for any number of jobs, sessions and seconds, any dumps,   *)
(* any extracted rows and retries of any name.  Databases says which       *)
(* PostgreSQL names can exist and what a restore works on; Connections     *)
(* that nobody is connected to a name that is gone; Checked who may still  *)
(* swap which database; Graphs the same of the graph databases; Claims     *)
(* which of them can have been stopped.                                    *)
(***************************************************************************)
RestoreNames == {<<"restore", t>> : t \in 0..MaxNow}
PreviousNames == {<<"previous", t>> : t \in 0..MaxNow}

Filling == {"connect", "restore"}
Swapping == {"swap", "idle", "terminate", "confirm"}

(* A restore on the way to swap its own database, not a --retry-swap.      *)
Own(r) == r.dump # NoName /\ r.pc \in Filling \cup Swapping

(* One restore: it works on a database it named itself, unless it is a     *)
(* retry, and moves the live one to a name of its own.                     *)
RestoreSound(r) ==
  /\ DOMAIN r = DOMAIN NoRestore
  /\ r.pc = "free" => r.dump = NoName
  /\ r.pc \in Filling => r.dump \in Dumps
  /\ Own(r) => r.new \in RestoreNames
  /\ r.pc \in Swapping \ {"swap"} => r.prev \in PreviousNames

(* The names of the databases and the state of every restore.              *)
Databases ==
  /\ now \in 0..MaxNow
  /\ Live \in DOMAIN pg
  /\ DOMAIN pg \subseteq {Live} \cup RestoreNames \cup PreviousNames
  /\ DOMAIN restore = Jobs
  /\ \A j \in Jobs : RestoreSound(restore[j])

LEMMA DatabasesInit == Init => Databases
<1> SUFFICES ASSUME Init PROVE Databases
  OBVIOUS
<1>1. now = 0 /\ 0 \in 0..MaxNow
  BY ClockAssumption DEF Init, PgInit
<1>2. DOMAIN pg = {Live}
  BY DEF Init, PgInit
<1>3. \A j \in Jobs : restore[j] = NoRestore
  BY DEF Init, PgInit
<1>4. RestoreSound(NoRestore)
  BY DEF RestoreSound, NoRestore, Swapping, Filling, Own
<1> QED
  BY <1>1, <1>2, <1>3, <1>4 DEF Init, PgInit, Databases

(* Ending a job, or moving it on without a new database, keeps it sound.   *)
Turned(r, s) ==
  /\ DOMAIN s = DOMAIN r
  /\ \/ s.pc \in {"exit", "race", "in_use", "ok", "crashed"} \/ s.pc = r.pc
     \/ r.pc \in Filling /\ s.pc \in Filling \cup {"swap"}
     \/ r.pc \in Swapping \ {"swap"} /\ s.pc \in Swapping \ {"swap"}
  /\ s.new = r.new /\ s.prev = r.prev /\ s.dump = r.dump

LEMMA TurnedSound ==
  ASSUME NEW r, RestoreSound(r), NEW s, Turned(r, s)
  PROVE  RestoreSound(s)
BY DEF RestoreSound, Turned, Swapping, Filling, Own

(* A step on the tables: what happens to the databases and to a job.       *)
LEMMA DatabasesKept ==
  ASSUME Databases, NEW j \in Jobs, NEW r,
         now' \in 0..MaxNow, restore' = [restore EXCEPT ![j] = r], RestoreSound(r),
         Live \in DOMAIN pg', DOMAIN pg' \subseteq {Live} \cup RestoreNames \cup PreviousNames
  PROVE  Databases'
<1>1. DOMAIN restore' = Jobs /\ \A k \in Jobs : restore'[k] = IF k = j THEN r ELSE restore[k]
  BY DEF Databases
<1> QED
  BY <1>1 DEF Databases

LEMMA EndKeeps ==
  ASSUME Databases, NEW j \in Jobs, NEW step \in {"exit", "race", "in_use", "ok", "crashed"}, End(j, step)
  PROVE  LET r == [restore[j] EXCEPT !.pc = step] IN
         restore' = [restore EXCEPT ![j] = r] /\ RestoreSound(r)
<1>1. Turned(restore[j], [restore[j] EXCEPT !.pc = step])
  BY DEF Turned, Databases, RestoreSound, NoRestore
<1> QED
  BY <1>1, TurnedSound DEF End, Databases

LEMMA RestoreStartKeeps ==
  ASSUME Databases, NEW j \in Jobs, NEW dump \in Dumps, NEW yes \in BOOLEAN,
         RestoreStart(j, dump, yes)
  PROVE  Databases'
<1> DEFINE new == build_new_database_name
<1>1. new \in RestoreNames
  BY DEF Databases, build_new_database_name, RestoreNames
<1>2. CASE End(j, "exit") /\ UNCHANGED <<now, pg>>
  BY <1>2, EndKeeps, DatabasesKept DEF Databases
<1>3. CASE /\ pg' = With(pg, new, {}) /\ now' = now
           /\ restore' = [restore EXCEPT ![j] =
                [NoRestore EXCEPT !.pc = "connect", !.dump = dump, !.new = new, !.yes = yes]]
  <2> DEFINE r == [NoRestore EXCEPT !.pc = "connect", !.dump = dump, !.new = new, !.yes = yes]
  <2>1. DOMAIN pg' = DOMAIN pg \cup {new}
    BY <1>3 DEF With
  <2>2. RestoreSound(r)
    BY <1>1, <1>3 DEF RestoreSound, NoRestore, Swapping, Filling, Own
  <2> HIDE DEF new, r
  <2>3. restore' = [restore EXCEPT ![j] = r]
    BY <1>3 DEF r
  <2> QED
    BY <1>1, <1>3, <2>1, <2>2, <2>3, DatabasesKept DEF Databases
<1> QED
  BY <1>2, <1>3 DEF RestoreStart

LEMMA RestoreConnectKeeps ==
  ASSUME Databases, NEW j \in Jobs, RestoreConnect(j)
  PROVE  Databases'
<1> DEFINE r == [restore[j] EXCEPT !.pc = "restore"]
<1>1. Turned(restore[j], r)
  BY DEF Turned, Databases, RestoreSound, NoRestore, RestoreConnect, Filling
<1>2. RestoreSound(r)
  BY <1>1, TurnedSound DEF Databases
<1>3. restore' = [restore EXCEPT ![j] = r] /\ UNCHANGED <<now, pg>>
  BY DEF RestoreConnect, Databases
<1> HIDE DEF r
<1> QED
  BY <1>2, <1>3, DatabasesKept DEF Databases

LEMMA RestoreBatchKeeps ==
  ASSUME Databases, NEW j \in Jobs, RestoreBatch(j)
  PROVE  Databases'
<1> DEFINE r == [restore[j] EXCEPT !.done = @ + 1]
<1>1. Turned(restore[j], r)
  BY DEF Turned, Databases, RestoreSound, NoRestore
<1>2. RestoreSound(r)
  BY <1>1, TurnedSound DEF Databases
<1>3. restore' = [restore EXCEPT ![j] = r]
  BY DEF RestoreBatch, Databases
<1>4. DOMAIN pg' = DOMAIN pg /\ now' = now
  BY DEF RestoreBatch
<1> HIDE DEF r
<1> QED
  BY <1>2, <1>3, <1>4, DatabasesKept DEF Databases

LEMMA RestoreValidateKeeps ==
  ASSUME Databases, NEW j \in Jobs, RestoreValidate(j)
  PROVE  Databases'
<1>1. CASE End(j, "exit") /\ UNCHANGED <<now, pg>>
  BY <1>1, EndKeeps, DatabasesKept DEF Databases
<1>2. CASE End(j, "swap") /\ UNCHANGED <<now, pg>>
  <2> DEFINE r == [restore[j] EXCEPT !.pc = "swap"]
  <2>1. Turned(restore[j], r)
    BY DEF RestoreValidate, Turned, Databases, RestoreSound, NoRestore, Filling
  <2>2. RestoreSound(r)
    BY <2>1, TurnedSound DEF Databases
  <2>3. restore' = [restore EXCEPT ![j] = r]
    BY <1>2 DEF End, Databases
  <2> HIDE DEF r
  <2> QED
    BY <1>2, <2>2, <2>3, DatabasesKept DEF Databases
<1> QED
  BY <1>1, <1>2 DEF RestoreValidate

LEMMA RetrySwapKeeps ==
  ASSUME Databases, NEW j \in Jobs, NEW name, NEW yes \in BOOLEAN, RetrySwap(j, name, yes)
  PROVE  Databases'
<1> DEFINE r == [NoRestore EXCEPT !.pc = "swap", !.new = name, !.yes = yes]
<1>1. RestoreSound(r)
  BY DEF RestoreSound, NoRestore, Swapping, Filling, Own
<1>2. restore' = [restore EXCEPT ![j] = r] /\ UNCHANGED <<now, pg>>
  BY DEF RetrySwap
<1> HIDE DEF r
<1> QED
  BY <1>1, <1>2, DatabasesKept DEF Databases

LEMMA SwapPrepareKeeps ==
  ASSUME Databases, NEW j \in Jobs, SwapPrepare(j)
  PROVE  Databases'
<1>1. CASE End(j, "exit") /\ UNCHANGED <<now, pg>>
  BY <1>1, EndKeeps, DatabasesKept DEF Databases
<1>2. CASE Exists(restore[j].new)
  <2> DEFINE r == [restore[j] EXCEPT !.pc = "idle", !.targets = <<Live, restore[j].new>>,
                                     !.prev = build_previous_database_name]
  <2>1. build_previous_database_name \in PreviousNames
    BY DEF Databases, build_previous_database_name, PreviousNames
  <2>2. RestoreSound(r)
    BY <2>1 DEF SwapPrepare, Databases, RestoreSound, NoRestore, Swapping, Filling, Own
  <2>3. restore' = [restore EXCEPT ![j] = r] /\ UNCHANGED <<now, pg>>
    BY <1>2 DEF SwapPrepare, Databases, Exists
  <2> HIDE DEF r
  <2> QED
    BY <2>2, <2>3, DatabasesKept DEF Databases
<1> QED
  BY <1>1, <1>2 DEF SwapPrepare

(* Looking for idle connections and terminating them only moves the job.   *)
LEMMA IdleTurns ==
  ASSUME Databases, NEW j \in Jobs, FindIdle(j) \/ TerminateIdle(j)
  PROVE  /\ restore[j].pc \in Swapping \ {"swap"} /\ restore'[j].pc \in Swapping \ {"swap"}
         /\ Turned(restore[j], restore'[j]) /\ restore' = [restore EXCEPT ![j] = restore'[j]]
         /\ UNCHANGED <<now, pg, history>>
<1> DEFINE o == restore[j]
<1>1. CASE FindIdle(j)
  <2> DEFINE found == find_idle_connections(Head(o.targets))
             r == IF o.targets = <<>> THEN [o EXCEPT !.pc = "confirm"]
                  ELSE IF found = {} THEN [o EXCEPT !.targets = Tail(@)]
                  ELSE [o EXCEPT !.idle = found, !.pc = "terminate"]
  <2>1. restore' = [restore EXCEPT ![j] = r] /\ UNCHANGED <<now, pg, history>> /\ o.pc = "idle"
    BY <1>1 DEF FindIdle
  <2> HIDE DEF found
  <2>2. Turned(o, r) /\ r.pc \in Swapping \ {"swap"}
    BY <2>1 DEF Turned, Databases, RestoreSound, NoRestore, Swapping
  <2> HIDE DEF r
  <2>3. restore'[j] = r
    BY <2>1 DEF Databases
  <2> QED
    BY <2>1, <2>2, <2>3 DEF Swapping
<1>2. CASE TerminateIdle(j)
  <2> DEFINE r == [o EXCEPT !.pc = "idle", !.idle = {}, !.targets = Tail(@)]
  <2>1. restore' = [restore EXCEPT ![j] = r] /\ UNCHANGED <<now, pg, history>> /\ o.pc = "terminate"
    BY <1>2 DEF TerminateIdle, Databases
  <2>2. Turned(o, r) /\ r.pc = "idle"
    BY <2>1 DEF Turned, Databases, RestoreSound, NoRestore, Swapping
  <2> HIDE DEF r
  <2>3. restore'[j] = r
    BY <2>1 DEF Databases
  <2> QED
    BY <2>1, <2>2, <2>3 DEF Swapping
<1> QED
  BY <1>1, <1>2

LEMMA IdleKeeps ==
  ASSUME Databases, NEW j \in Jobs, FindIdle(j) \/ TerminateIdle(j)
  PROVE  Databases'
<1>1. RestoreSound(restore'[j])
  BY IdleTurns, TurnedSound DEF Databases
<1> QED
  BY <1>1, IdleTurns, DatabasesKept DEF Databases

LEMMA NamesDiffer ==
  /\ Live \notin RestoreNames \cup PreviousNames
  /\ RestoreNames \cap PreviousNames = {}
  /\ NoName \notin RestoreNames \cup PreviousNames
<1>1. \A t \in 0..MaxNow : /\ <<"restore", t>> # NoName /\ <<"previous", t>> # NoName
  BY ClockAssumption
<1> QED
  BY <1>1 DEF Live, RestoreNames, PreviousNames

(* A swap that commits.                                                    *)
Swapped(new, prev) ==
  /\ new \in DOMAIN pg \ {Live} /\ prev \in PreviousNames \ DOMAIN pg
  /\ ConnectedTo(new) = {}
  /\ pg' = Renamed(pg, Live, new, prev)
  /\ verified' = Renamed(verified, Live, new, prev)
  /\ restoredAs' = new

(* What becomes of the databases, and of what was checked of them.         *)
Moved(new, prev) ==
  /\ DOMAIN pg' = (DOMAIN pg \ {new}) \cup {prev}
  /\ pg'[Live] = pg[new] /\ pg'[prev] = pg[Live]
  /\ \A n \in DOMAIN pg \ {Live, new} : pg'[n] = pg[n]

MovedChecks(new, prev) ==
  /\ DOMAIN verified' = (DOMAIN verified \ {Live, new}) \cup {n \in {Live} : new \in DOMAIN verified}
                                                        \cup {n \in {prev} : Live \in DOMAIN verified}
  /\ new \in DOMAIN verified => verified'[Live] = verified[new]
  /\ Live \in DOMAIN verified => verified'[prev] = verified[Live]
  /\ \A n \in DOMAIN verified \ {Live, new} : verified'[n] = verified[n]

LEMMA SwappedMoves ==
  ASSUME Databases, NEW new, NEW prev, Swapped(new, prev)
  PROVE  Moved(new, prev)
<1> DEFINE S == {m \in (DOMAIN pg \cup {Live, prev}) \ {new} : OldName(m, Live, new, prev) \in DOMAIN pg}
<1>1. prev # Live /\ prev # new /\ new # Live /\ prev \notin DOMAIN pg
  BY NamesDiffer DEF Swapped
<1>2. new \in DOMAIN pg /\ Live \in DOMAIN pg
  BY DEF Swapped, Databases
<1>3. S = (DOMAIN pg \ {new}) \cup {prev}
  BY <1>1, <1>2 DEF OldName
<1>4. pg' = [n \in S |-> pg[OldName(n, Live, new, prev)]]
  BY DEF Swapped, Renamed
<1> HIDE DEF S
<1>5. DOMAIN pg' = S /\ \A n \in S : pg'[n] = pg[OldName(n, Live, new, prev)]
  BY <1>4
<1> QED
  BY <1>1, <1>2, <1>3, <1>5 DEF Moved, OldName

LEMMA SwappedChecks ==
  ASSUME NEW new, NEW prev, Swapped(new, prev), DOMAIN verified \subseteq DOMAIN pg
  PROVE  MovedChecks(new, prev)
<1> DEFINE S == {m \in (DOMAIN verified \cup {Live, prev}) \ {new} :
                   OldName(m, Live, new, prev) \in DOMAIN verified}
<1>1. prev # Live /\ prev # new /\ new # Live /\ prev \notin DOMAIN verified
  BY NamesDiffer DEF Swapped
<1>2. S = (DOMAIN verified \ {Live, new}) \cup {n \in {Live} : new \in DOMAIN verified}
                                          \cup {n \in {prev} : Live \in DOMAIN verified}
  BY <1>1 DEF OldName
<1>3. verified' = [n \in S |-> verified[OldName(n, Live, new, prev)]]
  BY DEF Swapped, Renamed
<1> HIDE DEF S
<1>4. DOMAIN verified' = S /\ \A n \in S : verified'[n] = verified[OldName(n, Live, new, prev)]
  BY <1>3
<1> QED
  BY <1>1, <1>2, <1>4 DEF MovedChecks, OldName

LEMMA SwapOutcome ==
  ASSUME Databases, NEW j \in Jobs, SwapConfirmed(j)
  PROVE  /\ restore[j].pc = "confirm" /\ UNCHANGED <<now, conns>>
         /\ \/ /\ End(j, "ok") /\ Swapped(restore[j].new, restore[j].prev)
            \/ /\ \E step \in {"exit", "race", "in_use"} : End(j, step)
               /\ UNCHANGED <<pg, history>>
<1> DEFINE new == restore[j].new
           prev == restore[j].prev
           result == swap_databases(Live, new, prev)
<1>1. restore[j].pc = "confirm" /\ UNCHANGED <<now, conns>>
  BY DEF SwapConfirmed
<1>2. CASE End(j, "exit") /\ UNCHANGED <<pg, history>>
  BY <1>1, <1>2
<1>3. CASE End(j, result) /\ result # "ok" /\ UNCHANGED <<pg, history>>
  <2>1. result \in {"race", "in_use"}
    BY <1>3 DEF swap_databases
  <2> HIDE DEF result
  <2> QED
    BY <1>1, <1>3, <2>1
<1>4. CASE /\ End(j, result) /\ result = "ok" /\ pg' = Renamed(pg, Live, new, prev)
           /\ verified' = Renamed(verified, Live, new, prev) /\ restoredAs' = new
  <2>1. prev \in PreviousNames
    BY <1>1 DEF Databases, RestoreSound, Swapping
  <2>2. prev # NoName
    BY <2>1, NamesDiffer
  <2>3. prev \notin DOMAIN pg /\ new \in DOMAIN pg \ {Live} /\ ConnectedTo(new) = {}
    BY <1>4, <2>2 DEF swap_databases, Exists
  <2> QED
    BY <1>1, <1>4, <2>1, <2>3 DEF Swapped
<1> QED
  BY <1>2, <1>3, <1>4 DEF SwapConfirmed

LEMMA SwapConfirmedKeeps ==
  ASSUME Databases, NEW j \in Jobs, SwapConfirmed(j)
  PROVE  Databases'
<1>1. CASE (\E step \in {"exit", "race", "in_use"} : End(j, step)) /\ UNCHANGED <<pg, history>>
  BY <1>1, SwapOutcome, EndKeeps, DatabasesKept DEF Databases
<1>2. CASE End(j, "ok") /\ Swapped(restore[j].new, restore[j].prev)
  <2>1. Moved(restore[j].new, restore[j].prev)
    BY <1>2, SwappedMoves
  <2>2. Live \in DOMAIN pg' /\ DOMAIN pg' \subseteq {Live} \cup RestoreNames \cup PreviousNames
    BY <1>2, <2>1 DEF Databases, Swapped, Moved
  <2>3. now' = now
    BY SwapOutcome
  <2> QED
    BY <1>2, <2>2, <2>3, EndKeeps, DatabasesKept DEF Databases
<1> QED
  BY <1>1, <1>2, SwapOutcome

(* The steps of the restores, and all the others.                          *)
RestoreMoves(j) ==
  \/ \E d \in Dumps, yes \in BOOLEAN : RestoreStart(j, d, yes)
  \/ \E n \in DOMAIN pg \cup {NoSuch}, yes \in BOOLEAN : RetrySwap(j, n, yes)
  \/ RestoreStep(j) \/ RestoreCrash(j)

LEMMA StepsOfRestores ==
  [Next]_vars => UNCHANGED <<pg, restore, history>> \/ \E j \in Jobs : RestoreMoves(j)
<1> DEFINE Others == UNCHANGED <<pg, restore, history>>
<1> SUFFICES ASSUME [Next]_vars PROVE Others \/ \E j \in Jobs : RestoreMoves(j)
  OBVIOUS
<1>1. ASSUME NEW j \in Jobs, Begin(j) PROVE Others \/ RestoreMoves(j)
  <2>1. CASE prepare_pg_connection(j) \/ \E n \in DOMAIN graphs \cup {NoSuch} : RetryPromote(j, n)
    BY <2>1 DEF prepare_pg_connection, RetryPromote, Stays
  <2> HIDE DEF Others
  <2> QED
    BY <1>1, <2>1 DEF Begin, RestoreMoves
<1>2. ASSUME NEW j \in Jobs, SyncStep(j) \/ SyncCrash(j) PROVE Others
  BY <1>2 DEF SyncStep, SyncCrash, prepare_sync_context, SyncExtract, load_rows, SyncValidate,
     PromoteRead, PromoteCheckActive, PromoteStop, PromoteSet, Stays
<1>3. ASSUME NEW c \in Clients, ClientStep(c) PROVE Others
  BY <1>3 DEF ClientStep, ClientConnect, ClientToggle, ClientClose
<1>4. ASSUME NEW j \in Jobs, RestoreStep(j) \/ RestoreCrash(j) PROVE RestoreMoves(j)
  BY <1>4 DEF RestoreMoves
<1>5. CASE Tick \/ UNCHANGED vars
  BY <1>5 DEF Tick, vars, pgVars
<1> QED
  BY <1>1, <1>2, <1>3, <1>4, <1>5 DEF Next

LEMMA NowStep == Databases /\ [Next]_vars => now' \in 0..MaxNow
<1> SUFFICES ASSUME Databases, [Next]_vars PROVE now' \in 0..MaxNow
  OBVIOUS
<1>1. CASE Tick
  BY <1>1, ClockAssumption DEF Databases, Tick
<1>2. CASE now' = now
  BY <1>2 DEF Databases
<1>3. ASSUME NEW j \in Jobs, Begin(j) PROVE now' = now
  BY <1>3 DEF Begin, RestoreStart, RetrySwap, prepare_pg_connection, RetryPromote, Stays
<1>4. ASSUME NEW j \in Jobs, RestoreStep(j) \/ RestoreCrash(j) PROVE now' = now
  BY <1>4 DEF RestoreStep, RestoreCrash, RestoreConnect, RestoreBatch, RestoreFails, RestoreValidate,
     SwapPrepare, FindIdle, TerminateIdle, SwapConfirmed
<1>5. ASSUME NEW j \in Jobs, SyncStep(j) \/ SyncCrash(j) PROVE now' = now
  BY <1>5 DEF SyncStep, SyncCrash, prepare_sync_context, SyncExtract, load_rows, SyncValidate,
     PromoteRead, PromoteCheckActive, PromoteStop, PromoteSet, Stays
<1>6. ASSUME NEW c \in Clients, ClientStep(c) PROVE now' = now
  BY <1>6 DEF ClientStep, ClientConnect, ClientToggle, ClientClose
<1>7. CASE UNCHANGED vars
  BY <1>2, <1>7 DEF vars, pgVars
<1> QED
  BY <1>1, <1>2, <1>3, <1>4, <1>5, <1>6, <1>7 DEF Next

(* Every step leaves the databases and the restores sound.                 *)
LEMMA DatabasesStep == Databases /\ [Next]_vars => Databases'
<1> SUFFICES ASSUME Databases, [Next]_vars PROVE Databases'
  OBVIOUS
<1>1. CASE UNCHANGED <<pg, restore, history>>
  BY <1>1, NowStep DEF Databases
<1>2. ASSUME NEW j \in Jobs, RestoreMoves(j) PROVE Databases'
  <2>1. CASE RestoreFails(j)
    BY <2>1, EndKeeps, DatabasesKept DEF RestoreFails, Databases
  <2>2. CASE RestoreCrash(j)
    BY <2>2, EndKeeps, DatabasesKept DEF RestoreCrash, Databases
  <2> QED
    BY <1>2, <2>1, <2>2, RestoreStartKeeps, RetrySwapKeeps, RestoreConnectKeeps, RestoreBatchKeeps,
       RestoreValidateKeeps, SwapPrepareKeeps, IdleKeeps, SwapConfirmedKeeps DEF RestoreMoves, RestoreStep
<1> QED
  BY <1>1, <1>2, StepsOfRestores

(* The names of the databases and the state of every restore               *)
(* (postgres_restore.py, main and retry_swap) keep this shape: the         *)
(* inductive invariant the other results rest on.                          *)
THEOREM DatabasesInvariant == Spec => []Databases
BY DatabasesInit, DatabasesStep, PTL DEF Spec

----------------------------------------------------------------------------
LEMMA SameNamesKept ==
  ASSUME Databases, DOMAIN pg \subseteq DOMAIN pg', pg'[Live] = pg[Live],
         \A n \in DOMAIN pg : pg[n] \subseteq pg'[n]
  PROVE  Kept
BY DEF Kept

LEMMA KeptStep == Databases /\ [Next]_vars => [Kept]_vars
<1> SUFFICES ASSUME Databases, [Next]_vars PROVE Kept
  OBVIOUS
<1>1. CASE UNCHANGED pg
  BY <1>1, SameNamesKept DEF Databases
<1>2. ASSUME NEW j \in Jobs, RestoreMoves(j) PROVE Kept
  <2>1. ASSUME NEW dump \in Dumps, NEW yes \in BOOLEAN, RestoreStart(j, dump, yes) PROVE Kept
    <3> DEFINE new == build_new_database_name
    <3>1. CASE ~Exists(new) /\ pg' = With(pg, new, {})
      <4> HIDE DEF new
      <4>1. DOMAIN pg' = DOMAIN pg \cup {new} /\ \A n \in DOMAIN pg : pg'[n] = pg[n]
        BY <3>1 DEF With, Exists
      <4> QED
        BY <4>1, SameNamesKept DEF Databases
    <3> QED
      BY <1>1, <2>1, <3>1 DEF RestoreStart
  <2>2. CASE RestoreBatch(j)
    <3>1. restore[j].new # Live
      BY <2>2, NamesDiffer, ClockAssumption DEF RestoreBatch, Databases, RestoreSound, Own, Filling
    <3>2. DOMAIN pg' = DOMAIN pg /\ \A n \in DOMAIN pg : pg[n] \subseteq pg'[n]
      BY <2>2 DEF RestoreBatch
    <3>3. pg'[Live] = pg[Live]
      BY <2>2, <3>1 DEF RestoreBatch, Databases
    <3> QED
      BY <3>2, <3>3, SameNamesKept
  <2>3. CASE SwapConfirmed(j) /\ pg' # pg
    <3> DEFINE new == restore[j].new
               prev == restore[j].prev
    <3>1. Swapped(new, prev) /\ Moved(new, prev)
      BY <2>3, SwapOutcome, SwappedMoves
    <3> HIDE DEF new, prev
    <3>2. DOMAIN pg \ DOMAIN pg' = {new} /\ prev \in DOMAIN pg' \ DOMAIN pg
      BY <3>1 DEF Swapped, Moved
    <3>3. prev[1] = "previous"
      BY <3>1 DEF Swapped, PreviousNames
    <3>4. \A n \in DOMAIN pg \cap DOMAIN pg' : n # Live => pg[n] \subseteq pg'[n]
      BY <3>1 DEF Swapped, Moved
    <3>5. new \in DOMAIN pg /\ pg'[Live] = pg[new] /\ pg'[prev] = pg[Live]
      BY <3>1 DEF Swapped, Moved
    <3> QED
      BY <3>2, <3>3, <3>4, <3>5 DEF Kept
  <2>4. CASE \E n \in DOMAIN pg \cup {NoSuch}, yes \in BOOLEAN : RetrySwap(j, n, yes)
    BY <1>1, <2>4 DEF RetrySwap
  <2>5. CASE RestoreConnect(j) \/ RestoreFails(j) \/ RestoreValidate(j) \/ SwapPrepare(j) \/ FindIdle(j)
             \/ TerminateIdle(j) \/ RestoreCrash(j)
    BY <2>5, <1>1 DEF RestoreConnect, RestoreFails, RestoreValidate, SwapPrepare, FindIdle,
       TerminateIdle, RestoreCrash
  <2> QED
    BY <1>1, <1>2, <2>1, <2>2, <2>3, <2>4, <2>5 DEF RestoreMoves, RestoreStep
<1> QED
  BY <1>1, <1>2, StepsOfRestores

(* No step of a restore, a swap or a retry loses a database: each keeps    *)
(* its name and content until it is swapped in, and what it replaces is    *)
(* kept whole under a name of its own (postgres_restore.py,                *)
(* swap_databases), for any number of concurrent jobs and whatever name a  *)
(* retry is given.                                                         *)
THEOREM NothingDroppedCorrect == Spec => NothingDropped
<1>1. Spec => []Databases
  BY DatabasesInvariant
<1> QED
  BY <1>1, KeptStep, PTL DEF Spec, NothingDropped

----------------------------------------------------------------------------
(* Nobody is connected to a database that has lost its name, and a restore *)
(* to no other database than its own.                                      *)
Connections ==
  /\ \A w \in DOMAIN conns : conns[w].db \in DOMAIN pg
  /\ \A j \in Jobs : restore[j].pc = "restore" /\ j \in DOMAIN conns => conns[j].db = restore[j].new

LEMMA ConnectionsInit == Init => Connections
BY DEF Init, PgInit, Connections

(* Connections are only closed, or stay where they are.                    *)
OnlyCloses == DOMAIN conns' \subseteq DOMAIN conns /\ \A w \in DOMAIN conns' : conns'[w].db = conns[w].db

LEMMA ConnectionsClosed ==
  ASSUME Databases, Connections, OnlyCloses, DOMAIN pg \subseteq DOMAIN pg',
         \A j \in Jobs : restore'[j].pc = "restore" =>
            restore[j].pc = "restore" /\ restore'[j].new = restore[j].new
  PROVE  Connections'
BY DEF Connections, OnlyCloses

LEMMA OthersStay ==
  ASSUME Databases, NEW j \in Jobs, NEW step, End(j, step), step # "restore"
  PROVE  \A k \in Jobs : restore'[k].pc = "restore" => k # j /\ restore'[k] = restore[k]
BY DEF End, Databases, RestoreSound, NoRestore

LEMMA SessionOpened ==
  ASSUME Databases, Connections, NEW j \in Jobs, Session(j), restore[j].new \in DOMAIN pg,
         DOMAIN pg' = DOMAIN pg, restore'[j].new = restore[j].new,
         \A k \in Jobs \ {j} : restore'[k] = restore[k]
  PROVE  Connections'
<1>1. PICK state \in {"idle", "active"} :
        conns' = With(conns, j, [db |-> restore[j].new, state |-> state])
  BY DEF Session
<1>2. /\ DOMAIN conns' = DOMAIN conns \cup {j} /\ conns'[j].db = restore[j].new
      /\ \A w \in DOMAIN conns \ {j} : conns'[w] = conns[w]
  BY <1>1 DEF With
<1> QED
  BY <1>2 DEF Connections

LEMMA LiveOpened ==
  ASSUME Databases, Connections, NEW w, conns' = With(conns, w, [db |-> Live, state |-> "idle"]),
         UNCHANGED <<pg, restore>>, \A j \in Jobs : restore[j].pc = "restore" => j # w
  PROVE  Connections'
<1>1. /\ DOMAIN conns' = DOMAIN conns \cup {w} /\ conns'[w].db = Live
      /\ \A v \in DOMAIN conns \ {w} : conns'[v] = conns[v]
  BY DEF With
<1> QED
  BY <1>1 DEF Connections, Databases

LEMMA SwapConfirmedConnections ==
  ASSUME Databases, Connections, NEW j \in Jobs, SwapConfirmed(j)
  PROVE  Connections'
<1>1. CASE (\E step \in {"exit", "race", "in_use"} : End(j, step)) /\ UNCHANGED <<pg, history>>
  BY <1>1, SwapOutcome, OthersStay, ConnectionsClosed DEF OnlyCloses
<1>2. CASE End(j, "ok") /\ Swapped(restore[j].new, restore[j].prev)
  <2> DEFINE new == restore[j].new
  <2>1. Moved(new, restore[j].prev) /\ conns' = conns
    BY <1>2, SwappedMoves, SwapOutcome
  <2>2. \A w \in DOMAIN conns : conns[w].db # new
    BY <1>2 DEF Swapped, ConnectedTo
  <2>3. \A k \in Jobs : restore'[k].pc = "restore" => restore'[k] = restore[k]
    BY <1>2, OthersStay
  <2> HIDE DEF new
  <2> QED
    BY <2>1, <2>2, <2>3 DEF Connections, Moved
<1> QED
  BY <1>1, <1>2, SwapOutcome

LEMMA WithoutCloses ==
  ASSUME NEW ws, conns' = Without(conns, ws)
  PROVE  OnlyCloses
BY DEF OnlyCloses, Without

LEMMA RestoreMovesConnections ==
  ASSUME Databases, Connections, NEW j \in Jobs,
         RestoreMoves(j), (\E d \in Dumps, yes \in BOOLEAN : RestoreStart(j, d, yes)) => conns' = conns,
         (\E n \in DOMAIN pg \cup {NoSuch}, yes \in BOOLEAN : RetrySwap(j, n, yes)) => conns' = conns
  PROVE  Connections'
<1>0. conns' = conns => OnlyCloses
  BY DEF OnlyCloses
<1>1. ASSUME NEW d \in Dumps, NEW yes \in BOOLEAN, RestoreStart(j, d, yes) PROVE Connections'
  <2>1. DOMAIN pg \subseteq DOMAIN pg'
    BY <1>1 DEF RestoreStart, With
  <2>2. \A k \in Jobs : restore'[k].pc = "restore" => restore'[k] = restore[k]
    BY <1>1, OthersStay DEF RestoreStart, Databases, NoRestore
  <2> QED
    BY <1>0, <1>1, <2>1, <2>2, ConnectionsClosed DEF RestoreStart
<1>2. ASSUME NEW n, NEW yes \in BOOLEAN, RetrySwap(j, n, yes) PROVE Connections'
  <2>1. \A k \in Jobs : restore'[k].pc = "restore" => restore'[k] = restore[k]
    BY <1>2 DEF RetrySwap, Databases, NoRestore
  <2> QED
    BY <1>0, <1>2, <2>1, ConnectionsClosed DEF RetrySwap
<1>3. CASE RestoreConnect(j)
  <2>1. restore'[j].new = restore[j].new /\ \A k \in Jobs \ {j} : restore'[k] = restore[k]
    BY <1>3 DEF RestoreConnect, Databases, RestoreSound, NoRestore
  <2> QED
    BY <1>3, <2>1, SessionOpened DEF RestoreConnect, Exists
<1>4. CASE RestoreBatch(j)
  <2>1. restore'[j].new = restore[j].new /\ \A k \in Jobs \ {j} : restore'[k] = restore[k]
    BY <1>4 DEF RestoreBatch, Databases, RestoreSound, NoRestore
  <2>2. restore[j].new \in DOMAIN pg /\ DOMAIN pg' = DOMAIN pg
    BY <1>4 DEF RestoreBatch, Connections
  <2> QED
    BY <1>4, <2>1, <2>2, SessionOpened DEF RestoreBatch
<1>5. CASE RestoreFails(j) \/ RestoreCrash(j)
  BY <1>5, OthersStay, WithoutCloses, ConnectionsClosed DEF RestoreFails, RestoreCrash
<1>6. CASE RestoreValidate(j)
  <2>1. End(j, "exit") \/ End(j, "swap")
    BY <1>6 DEF RestoreValidate
  <2> QED
    BY <1>6, <2>1, OthersStay, WithoutCloses, ConnectionsClosed DEF RestoreValidate
<1>7. CASE SwapPrepare(j)
  <2>1. \A k \in Jobs : restore'[k].pc = "restore" => restore'[k] = restore[k]
    BY <1>7 DEF SwapPrepare, End, Databases, RestoreSound, NoRestore
  <2> QED
    BY <1>0, <1>7, <2>1, ConnectionsClosed DEF SwapPrepare
<1>8. CASE FindIdle(j) \/ TerminateIdle(j)
  <2>1. UNCHANGED pg /\ \A k \in Jobs : restore'[k].pc = "restore" => restore'[k] = restore[k]
    BY <1>8, IdleTurns DEF Swapping, Databases
  <2>2. OnlyCloses
    BY <1>0, <1>8, WithoutCloses DEF FindIdle, TerminateIdle
  <2> QED
    BY <2>1, <2>2, ConnectionsClosed
<1> QED
  BY <1>1, <1>2, <1>3, <1>4, <1>5, <1>6, <1>7, <1>8, SwapConfirmedConnections DEF RestoreMoves, RestoreStep

LEMMA ConnectionsStep == Databases /\ Connections /\ [Next]_vars => Connections'
<1> SUFFICES ASSUME Databases, Connections, [Next]_vars PROVE Connections'
  OBVIOUS
<1>1. CASE UNCHANGED <<pg, restore>> /\ OnlyCloses
  BY <1>1, ConnectionsClosed
<1>2. conns' = conns => OnlyCloses
  BY DEF OnlyCloses
<1>3. ASSUME NEW j \in Jobs, Begin(j) PROVE Connections'
  <2>1. CASE prepare_pg_connection(j)
    <3>1. restore[j].pc # "restore"
      BY <1>3 DEF Begin, Free
    <3> QED
      BY <1>1, <1>2, <2>1, <3>1, LiveOpened DEF prepare_pg_connection, Stays
  <2>2. CASE \E n \in DOMAIN graphs \cup {NoSuch} : RetryPromote(j, n)
    BY <1>1, <1>2, <2>2 DEF RetryPromote, Stays
  <2>3. CASE RestoreMoves(j) /\ conns' = conns
    BY <2>3, RestoreMovesConnections
  <2>4. ASSUME NEW d \in Dumps, NEW yes \in BOOLEAN, RestoreStart(j, d, yes) PROVE conns' = conns
    BY <2>4 DEF RestoreStart
  <2>5. ASSUME NEW n, NEW yes \in BOOLEAN, RetrySwap(j, n, yes) PROVE conns' = conns
    BY <2>5 DEF RetrySwap
  <2> QED
    BY <1>3, <2>1, <2>2, <2>3, <2>4, <2>5 DEF Begin, RestoreMoves
<1>4. ASSUME NEW j \in Jobs, RestoreStep(j) \/ RestoreCrash(j) PROVE Connections'
  <2>1. RestoreMoves(j)
    BY <1>4 DEF RestoreMoves
  <2>2. ASSUME NEW d \in Dumps, NEW yes \in BOOLEAN, RestoreStart(j, d, yes) PROVE conns' = conns
    BY <2>2 DEF RestoreStart
  <2>3. ASSUME NEW n, NEW yes \in BOOLEAN, RetrySwap(j, n, yes) PROVE conns' = conns
    BY <2>3 DEF RetrySwap
  <2> QED
    BY <2>1, <2>2, <2>3, RestoreMovesConnections
<1>5. ASSUME NEW j \in Jobs, SyncStep(j) \/ SyncCrash(j) PROVE Connections'
  <2>1. UNCHANGED <<pg, restore>>
    BY <1>5 DEF SyncStep, SyncCrash, prepare_sync_context, SyncExtract, load_rows, SyncValidate,
       PromoteRead, PromoteCheckActive, PromoteStop, PromoteSet, Stays
  <2>2. CASE prepare_sync_context(j)
    <3>1. CASE conns' = [conns EXCEPT ![j].state = "active"]
      <4>1. DOMAIN conns' = DOMAIN conns /\ \A w \in DOMAIN conns \ {j} : conns'[w] = conns[w]
        BY <3>1
      <4>2. j \in DOMAIN conns => conns'[j] = [conns[j] EXCEPT !.state = "active"]
        BY <3>1
      <4>3. [conns[j] EXCEPT !.state = "active"].db = conns[j].db
        OBVIOUS
      <4> QED
        BY <1>1, <2>1, <4>1, <4>2, <4>3 DEF OnlyCloses
    <3> QED
      BY <1>1, <2>1, <2>2, <3>1, WithoutCloses DEF prepare_sync_context, SyncExit
  <2>3. CASE \E extract \in Extracts : SyncExtract(j, extract)
    BY <1>1, <1>2, <2>1, <2>3, WithoutCloses DEF SyncExtract, SyncExit
  <2>4. CASE load_rows(j) \/ SyncValidate(j) \/ PromoteRead(j) \/ PromoteCheckActive(j)
             \/ PromoteStop(j) \/ PromoteSet(j) \/ SyncCrash(j)
    BY <1>1, <1>2, <2>1, <2>4, WithoutCloses DEF load_rows, SyncValidate, PromoteRead, PromoteCheckActive,
       PromoteStop, PromoteSet, SyncCrash, SyncExit
  <2> QED
    BY <1>5, <2>2, <2>3, <2>4 DEF SyncStep
<1>6. ASSUME NEW c \in Clients, ClientStep(c) PROVE Connections'
  <2>1. UNCHANGED <<pg, restore>> /\ c \notin Jobs
    BY <1>6, ActorsAssumption DEF ClientStep, ClientConnect, ClientToggle, ClientClose
  <2>2. CASE ClientConnect(c)
    BY <2>1, <2>2, LiveOpened DEF ClientConnect
  <2>3. CASE ClientToggle(c)
    <3> DEFINE state == IF conns[c].state = "idle" THEN "active" ELSE "idle"
    <3>1. c \in DOMAIN conns /\ conns' = [conns EXCEPT ![c] = [conns[c] EXCEPT !.state = state]]
      BY <2>3 DEF ClientToggle
    <3> HIDE DEF state
    <3>2. [conns[c] EXCEPT !.state = state].db = conns[c].db
      OBVIOUS
    <3>3. DOMAIN conns' = DOMAIN conns /\ \A w \in DOMAIN conns : conns'[w].db = conns[w].db
      BY <3>1, <3>2
    <3> QED
      BY <1>1, <2>1, <3>3 DEF OnlyCloses
  <2>4. CASE ClientClose(c)
    BY <1>1, <2>1, <2>4, WithoutCloses DEF ClientClose
  <2> QED
    BY <1>6, <2>2, <2>3, <2>4 DEF ClientStep
<1>7. CASE UNCHANGED <<pg, restore, conns>>
  BY <1>1, <1>2, <1>7
<1> QED
  BY <1>3, <1>4, <1>5, <1>6, <1>7 DEF Next, vars, pgVars, Tick

----------------------------------------------------------------------------
(* What the application and the restores may rely on.  A verified database *)
(* holds what it was verified for; a restore that is about to swap has     *)
(* verified the database of that name, and nobody else works on the name,  *)
(* unless a --retry-swap took it away in between.                          *)
ByHand(rs, n) == \E k \in Jobs : rs[k].dump = NoName /\ rs[k].pc = "ok" /\ rs[k].new = n

Checked ==
  /\ DOMAIN verified \subseteq DOMAIN pg
  /\ \A n \in DOMAIN verified : Fixtures \cup verified[n] \subseteq pg[n]
  /\ Live \in DOMAIN verified \/ ByHand(restore, restoredAs)
  /\ \A j \in Jobs : Own(restore[j]) =>
       restore[j].new \in DOMAIN pg \/ ByHand(restore, restore[j].new)
  /\ \A j \in Jobs : Own(restore[j]) /\ restore[j].pc \in Swapping =>
       restore[j].new \in DOMAIN verified \/ ByHand(restore, restore[j].new)
  /\ \A j, k \in Jobs : Own(restore[j]) /\ Own(restore[k]) /\ restore[j].new = restore[k].new =>
       j = k \/ ByHand(restore, restore[j].new)

LEMMA CheckedInit == Init => Checked
BY LiveAssumption DEF Init, PgInit, Checked, NoRestore, Own, Filling, Swapping

LEMMA ByHandStays ==
  ASSUME Databases, NEW j \in Jobs, NEW r, restore' = [restore EXCEPT ![j] = r], restore[j].pc # "ok"
  PROVE  /\ \A k \in Jobs : restore'[k] = IF k = j THEN r ELSE restore[k]
         /\ \A n : ByHand(restore, n) => ByHand(restore', n)
<1>1. \A k \in Jobs : restore'[k] = IF k = j THEN r ELSE restore[k]
  BY DEF Databases
<1> QED
  BY <1>1 DEF ByHand

(* A step of one job that takes no name away.                              *)
LEMMA CheckedKept ==
  ASSUME Databases, Checked, NEW j \in Jobs, NEW r, restore' = [restore EXCEPT ![j] = r],
         restore[j].pc # "ok", restoredAs' = restoredAs, DOMAIN pg \subseteq DOMAIN pg',
         DOMAIN verified \subseteq DOMAIN verified', DOMAIN verified' \subseteq DOMAIN pg',
         \A n \in DOMAIN verified' : Fixtures \cup verified'[n] \subseteq pg'[n],
         Own(r) => \/ Own(restore[j]) /\ r.new = restore[j].new
                   \/ r.new \in DOMAIN pg' \ DOMAIN pg,
         Own(r) /\ r.pc \in Swapping =>
            \/ r.new \in DOMAIN verified'
            \/ Own(restore[j]) /\ restore[j].pc \in Swapping /\ r.new = restore[j].new
  PROVE  Checked'
<1>1. \A k \in Jobs : restore'[k] = IF k = j THEN r ELSE restore[k]
  BY ByHandStays
<1>2. \A n : ByHand(restore, n) => ByHand(restore', n)
  BY ByHandStays
<1>3. Live \in DOMAIN verified' \/ ByHand(restore', restoredAs')
  BY <1>2 DEF Checked
<1>4. \A k \in Jobs : Own(restore'[k]) =>
        restore'[k].new \in DOMAIN pg' \/ ByHand(restore', restore'[k].new)
  BY <1>1, <1>2 DEF Checked
<1>5. \A k \in Jobs : Own(restore'[k]) /\ restore'[k].pc \in Swapping =>
        restore'[k].new \in DOMAIN verified' \/ ByHand(restore', restore'[k].new)
  <2> SUFFICES ASSUME NEW k \in Jobs, Own(restore'[k]), restore'[k].pc \in Swapping
               PROVE  restore'[k].new \in DOMAIN verified' \/ ByHand(restore', restore'[k].new)
    OBVIOUS
  <2>1. CASE k # j
    BY <1>1, <1>2, <2>1 DEF Checked
  <2>2. CASE k = j /\ restore[j].pc \in Swapping
    <3>1. restore'[k] = r
      BY <1>1, <2>2
    <3> QED
      BY <1>2, <2>2, <3>1 DEF Checked
  <2> QED
    BY <1>1, <2>1, <2>2
<1>6. \A i, k \in Jobs : Own(restore'[i]) /\ Own(restore'[k]) /\ restore'[i].new = restore'[k].new =>
        i = k \/ ByHand(restore', restore'[i].new)
  <2>1. \A k \in Jobs \ {j} : Own(r) /\ Own(restore[k]) /\ r.new = restore[k].new => ByHand(restore, r.new)
    BY DEF Checked
  <2>2. \A i, k \in Jobs \ {j} : Own(restore[i]) /\ Own(restore[k]) /\ restore[i].new = restore[k].new =>
          i = k \/ ByHand(restore, restore[i].new)
    BY DEF Checked
  <2> SUFFICES ASSUME NEW i \in Jobs, NEW k \in Jobs, i # k, Own(restore'[i]), Own(restore'[k]),
                      restore'[i].new = restore'[k].new
               PROVE  ByHand(restore, restore'[i].new)
    BY <1>2
  <2>3. CASE i = j
    BY <1>1, <2>1, <2>3
  <2>4. CASE k = j
    BY <1>1, <2>1, <2>4
  <2>5. CASE i # j /\ k # j
    BY <1>1, <2>2, <2>5
  <2> QED
    BY <2>3, <2>4, <2>5
<1> QED
  BY <1>3, <1>4, <1>5, <1>6 DEF Checked

(* Ending a job, or moving it on without a new database.                   *)
LEMMA CheckedTurned ==
  ASSUME Databases, Checked, NEW j \in Jobs, NEW r, restore' = [restore EXCEPT ![j] = r],
         restore[j].pc # "ok", UNCHANGED <<pg, history>>, Turned(restore[j], r),
         r.pc = "swap" => restore[j].pc = "swap"
  PROVE  Checked'
<1>1. Own(r) => Own(restore[j]) /\ r.new = restore[j].new
  BY DEF Turned, Own, Filling, Swapping
<1>2. r.pc \in Swapping => restore[j].pc \in Swapping
  BY DEF Turned, Swapping, Filling
<1>3. UNCHANGED <<verified, restoredAs>>
  BY DEF history
<1> QED
  BY <1>1, <1>2, <1>3, CheckedKept DEF Checked

LEMMA CheckedEnds ==
  ASSUME Databases, Checked, NEW j \in Jobs, NEW step \in {"exit", "race", "in_use", "ok", "crashed"},
         End(j, step), restore[j].pc # "ok", UNCHANGED <<pg, history>>
  PROVE  Checked'
<1> DEFINE r == [restore[j] EXCEPT !.pc = step]
<1>1. Turned(restore[j], r) /\ r.pc # "swap"
  BY DEF Turned, Databases, RestoreSound, NoRestore
<1>2. restore' = [restore EXCEPT ![j] = r]
  BY DEF End, Databases
<1> HIDE DEF r
<1> QED
  BY <1>1, <1>2, CheckedTurned

LEMMA RestoreStartChecked ==
  ASSUME Databases, Checked, NEW j \in Jobs, NEW dump \in Dumps, NEW yes \in BOOLEAN,
         RestoreStart(j, dump, yes)
  PROVE  Checked'
<1> DEFINE new == build_new_database_name
           r == [NoRestore EXCEPT !.pc = "connect", !.dump = dump, !.new = new, !.yes = yes]
<1>1. restore[j].pc = "free" /\ UNCHANGED history
  BY DEF RestoreStart
<1>2. CASE End(j, "exit") /\ UNCHANGED pg
  BY <1>1, <1>2, CheckedEnds
<1>3. CASE ~Exists(new) /\ pg' = With(pg, new, {}) /\ restore' = [restore EXCEPT ![j] = r]
  <2>1. r.pc = "connect" /\ r.new = new
    BY DEF NoRestore
  <2> HIDE DEF r, new
  <2>2. DOMAIN pg' = DOMAIN pg \cup {new} /\ \A n \in DOMAIN pg : pg'[n] = pg[n]
    BY <1>3 DEF With, Exists
  <2>3. new \in DOMAIN pg' \ DOMAIN pg
    BY <1>3, <2>2 DEF Exists
  <2>4. \A n \in DOMAIN verified : Fixtures \cup verified[n] \subseteq pg'[n]
    BY <2>2 DEF Checked
  <2>5. UNCHANGED <<verified, restoredAs>> /\ r.pc \notin Swapping
    BY <1>1, <2>1 DEF history, Swapping
  <2>6. DOMAIN verified \subseteq DOMAIN pg'
    BY <2>2 DEF Checked
  <2> QED
    BY <1>1, <1>3, <2>1, <2>2, <2>3, <2>4, <2>5, <2>6, CheckedKept
<1> QED
  BY <1>2, <1>3 DEF RestoreStart

LEMMA RetrySwapChecked ==
  ASSUME Databases, Checked, NEW j \in Jobs, NEW name, NEW yes \in BOOLEAN, RetrySwap(j, name, yes)
  PROVE  Checked'
<1> DEFINE r == [NoRestore EXCEPT !.pc = "swap", !.new = name, !.yes = yes]
<1>1. restore' = [restore EXCEPT ![j] = r] /\ restore[j].pc = "free" /\ UNCHANGED <<pg, verified, restoredAs>>
  BY DEF RetrySwap, history
<1>2. ~Own(r)
  BY DEF Own, NoRestore
<1> HIDE DEF r
<1> QED
  BY <1>1, <1>2, CheckedKept DEF Checked

LEMMA RestoreConnectChecked ==
  ASSUME Databases, Checked, NEW j \in Jobs, RestoreConnect(j)
  PROVE  Checked'
<1> DEFINE r == [restore[j] EXCEPT !.pc = "restore"]
<1>1. Turned(restore[j], r) /\ r.pc # "swap"
  BY DEF Turned, Databases, RestoreSound, NoRestore, RestoreConnect, Filling
<1>2. restore' = [restore EXCEPT ![j] = r] /\ UNCHANGED <<pg, history>> /\ restore[j].pc = "connect"
  BY DEF RestoreConnect, Databases
<1> HIDE DEF r
<1> QED
  BY <1>1, <1>2, CheckedTurned

LEMMA RestoreBatchChecked ==
  ASSUME Databases, Checked, NEW j \in Jobs, RestoreBatch(j)
  PROVE  Checked'
<1> DEFINE r == [restore[j] EXCEPT !.done = @ + 1]
<1>1. r.pc = "restore" /\ r.new = restore[j].new /\ r.dump = restore[j].dump /\ restore[j].pc = "restore"
  BY DEF Databases, RestoreSound, NoRestore, RestoreBatch
<1>2. restore' = [restore EXCEPT ![j] = r] /\ UNCHANGED <<verified, restoredAs>>
  BY DEF RestoreBatch, Databases, history
<1>3. DOMAIN pg' = DOMAIN pg /\ \A n \in DOMAIN pg : pg[n] \subseteq pg'[n]
  BY DEF RestoreBatch
<1> HIDE DEF r
<1>4. \A n \in DOMAIN verified : Fixtures \cup verified[n] \subseteq pg'[n]
  BY <1>3 DEF Checked
<1>5. (Own(r) => Own(restore[j])) /\ r.pc \notin Swapping
  BY <1>1 DEF Own, Swapping
<1>6. DOMAIN verified \subseteq DOMAIN pg'
  BY <1>3 DEF Checked
<1> QED
  BY <1>1, <1>2, <1>3, <1>4, <1>5, <1>6, CheckedKept

LEMMA RestoreValidateChecked ==
  ASSUME Databases, Connections, Checked, NEW j \in Jobs, RestoreValidate(j)
  PROVE  Checked'
<1> DEFINE new == restore[j].new
           declared == restore[j].dump.declared
           r == [restore[j] EXCEPT !.pc = "swap"]
<1>1. restore[j].pc = "restore" /\ UNCHANGED <<pg, restoredAs>>
  BY DEF RestoreValidate
<1>2. CASE End(j, "exit") /\ UNCHANGED verified
  BY <1>1, <1>2, CheckedEnds DEF history
<1>3. CASE RestoreValidated(restore[j]) /\ verified' = With(verified, new, declared) /\ End(j, "swap")
  <2>1. new \in DOMAIN pg
    BY <1>1 DEF RestoreValidate, Connections
  <2>2. declared \subseteq pg[new] /\ Fixtures \subseteq pg[new]
    BY <1>3 DEF RestoreValidated, find_missing_tables, run_fixture_checks
  <2>3. restore' = [restore EXCEPT ![j] = r] /\ r.new = new /\ r.dump = restore[j].dump
    BY <1>3 DEF End, Databases, RestoreSound, NoRestore
  <2> HIDE DEF r, new, declared
  <2>4. /\ DOMAIN verified' = DOMAIN verified \cup {new} /\ verified'[new] = declared
        /\ \A n \in DOMAIN verified \ {new} : verified'[n] = verified[n]
    BY <1>3 DEF With
  <2>5. \A n \in DOMAIN verified' : Fixtures \cup verified'[n] \subseteq pg'[n]
    BY <1>1, <2>2, <2>4 DEF Checked
  <2>6. Own(r) => Own(restore[j])
    BY <1>1, <2>3 DEF Own, Filling
  <2>7. DOMAIN verified' \subseteq DOMAIN pg'
    BY <1>1, <2>1, <2>4 DEF Checked
  <2>8. r.new = restore[j].new /\ r.new \in DOMAIN verified'
    BY <2>3, <2>4 DEF new
  <2> QED
    BY <1>1, <2>3, <2>4, <2>5, <2>6, <2>7, <2>8, CheckedKept
<1> QED
  BY <1>2, <1>3 DEF RestoreValidate

LEMMA SwapPrepareChecked ==
  ASSUME Databases, Checked, NEW j \in Jobs, SwapPrepare(j)
  PROVE  Checked'
<1>1. restore[j].pc = "swap" /\ UNCHANGED <<pg, history>>
  BY DEF SwapPrepare
<1>2. CASE End(j, "exit")
  BY <1>1, <1>2, CheckedEnds
<1>3. CASE Exists(restore[j].new)
  <2> DEFINE r == [restore[j] EXCEPT !.pc = "idle", !.targets = <<Live, restore[j].new>>,
                                     !.prev = build_previous_database_name]
  <2>1. restore' = [restore EXCEPT ![j] = r]
    BY <1>3 DEF SwapPrepare, Databases, Exists
  <2>2. r.pc = "idle" /\ r.new = restore[j].new /\ r.dump = restore[j].dump
    BY DEF Databases, RestoreSound, NoRestore
  <2> HIDE DEF r
  <2>3. (Own(r) => Own(restore[j])) /\ restore[j].pc \in Swapping
    BY <1>1, <2>2 DEF Own, Swapping
  <2>4. UNCHANGED <<pg, verified, restoredAs>>
    BY <1>1 DEF history
  <2> QED
    BY <1>1, <2>1, <2>2, <2>3, <2>4, CheckedKept DEF Checked
<1> QED
  BY <1>2, <1>3 DEF SwapPrepare

(* The swap takes a name away: whoever works on it besides has lost it to  *)
(* a --retry-swap, this one or an earlier one.                             *)
LEMMA SwapConfirmedChecked ==
  ASSUME Databases, Checked, NEW j \in Jobs, SwapConfirmed(j)
  PROVE  Checked'
<1> DEFINE new == restore[j].new
           prev == restore[j].prev
           r == [restore[j] EXCEPT !.pc = "ok"]
<1>1. restore[j].pc = "confirm"
  BY SwapOutcome
<1>2. CASE (\E step \in {"exit", "race", "in_use"} : End(j, step)) /\ UNCHANGED <<pg, history>>
  BY <1>1, <1>2, CheckedEnds
<1>3. CASE End(j, "ok") /\ Swapped(new, prev)
  <2>1. Moved(new, prev) /\ MovedChecks(new, prev)
    BY <1>3, SwappedMoves, SwappedChecks DEF Checked
  <2>2. restore' = [restore EXCEPT ![j] = r] /\ r.pc = "ok" /\ r.new = new /\ r.dump = restore[j].dump
    BY <1>3 DEF End, Databases, RestoreSound, NoRestore
  <2>3. \A k \in Jobs : restore'[k] = IF k = j THEN r ELSE restore[k]
    BY <1>1, <2>2, ByHandStays
  <2>4. \A n : ByHand(restore, n) => ByHand(restore', n)
    BY <1>1, <2>2, ByHandStays
  <2>5. restore[j].dump = NoName => ByHand(restore', new)
    BY <2>2, <2>3 DEF ByHand
  <2>6. restore[j].dump # NoName => Own(restore[j])
    BY <1>1 DEF Own, Swapping
  <2>7. \A k \in Jobs \ {j} : Own(restore[k]) /\ restore[k].new = new => ByHand(restore', new)
    BY <2>4, <2>5, <2>6 DEF Checked
  <2>8. ~Own(r)
    BY <2>2 DEF Own, Filling, Swapping
  <2>9. \A k \in Jobs : Own(restore[k]) => restore[k].new \in RestoreNames
    BY DEF Databases, RestoreSound
  <2>10. new \in DOMAIN verified \/ ByHand(restore', new)
    BY <1>1, <2>4, <2>5, <2>6 DEF Checked, Swapping
  <2> HIDE DEF r, new, prev
  <2>11. Live \in DOMAIN verified' \/ ByHand(restore', restoredAs')
    BY <1>3, <2>1, <2>10 DEF MovedChecks, Swapped
  <2>12. \A k \in Jobs : Own(restore'[k]) =>
           restore'[k].new \in DOMAIN pg' \/ ByHand(restore', restore'[k].new)
    BY <2>1, <2>3, <2>4, <2>7, <2>8 DEF Moved, Checked
  <2>13. \A k \in Jobs : Own(restore'[k]) /\ restore'[k].pc \in Swapping =>
           restore'[k].new \in DOMAIN verified' \/ ByHand(restore', restore'[k].new)
    BY <2>1, <2>3, <2>4, <2>7, <2>8, <2>9, NamesDiffer DEF MovedChecks, Checked
  <2>14. \A i, k \in Jobs : Own(restore'[i]) /\ Own(restore'[k]) /\ restore'[i].new = restore'[k].new =>
           i = k \/ ByHand(restore', restore'[i].new)
    BY <2>3, <2>4, <2>8 DEF Checked
  <2>15. prev \notin DOMAIN pg /\ new \in DOMAIN pg /\ new # Live /\ prev # new
    BY <1>3 DEF Swapped
  <2>16. DOMAIN verified' \subseteq DOMAIN pg'
    BY <2>1, <2>15 DEF Moved, MovedChecks, Checked, Databases
  <2>17. \A n \in DOMAIN verified' : Fixtures \cup verified'[n] \subseteq pg'[n]
    <3> TAKE n \in DOMAIN verified'
    <3>0. prev # Live
      BY <1>3, NamesDiffer DEF Swapped
    <3>1. CASE n = Live
      BY <2>1, <2>15, <3>0, <3>1 DEF Moved, MovedChecks, Checked
    <3>2. CASE n = prev
      BY <2>1, <2>15, <3>0, <3>2 DEF Moved, MovedChecks, Checked
    <3>3. CASE n \notin {Live, prev}
      BY <2>1, <2>15, <3>0, <3>3 DEF Moved, MovedChecks, Checked
    <3> QED
      BY <3>1, <3>2, <3>3
  <2> QED
    BY <2>11, <2>12, <2>13, <2>14, <2>16, <2>17 DEF Checked
<1> QED
  BY <1>2, <1>3, SwapOutcome

LEMMA CheckedStep == Databases /\ Connections /\ Checked /\ [Next]_vars => Checked'
<1> SUFFICES ASSUME Databases, Connections, Checked, [Next]_vars PROVE Checked'
  OBVIOUS
<1>1. CASE UNCHANGED <<pg, restore, history>>
  BY <1>1 DEF Checked, history
<1>2. ASSUME NEW j \in Jobs, RestoreMoves(j) PROVE Checked'
  <2>1. CASE RestoreFails(j) \/ RestoreCrash(j)
    BY <2>1, CheckedEnds DEF RestoreFails, RestoreCrash
  <2>2. CASE FindIdle(j) \/ TerminateIdle(j)
    BY <2>2, IdleTurns, CheckedTurned DEF Swapping
  <2> QED
    BY <1>2, <2>1, <2>2, RestoreStartChecked, RetrySwapChecked, RestoreConnectChecked, RestoreBatchChecked,
       RestoreValidateChecked, SwapPrepareChecked, SwapConfirmedChecked DEF RestoreMoves, RestoreStep
<1> QED
  BY <1>1, <1>2, StepsOfRestores

(* Whatever the restores and retries do, a verified database holds what it *)
(* was verified for, and an unverified one reaches the live name only      *)
(* through a --retry-swap of that name (postgres_restore.py, main and      *)
(* retry_swap): the invariant behind LiveCompleteCorrect.                  *)
THEOREM CheckedInvariant == Spec => []Checked
<1>1. Spec => []Databases
  BY DatabasesInvariant
<1>2. Spec => []Connections
  BY <1>1, ConnectionsInit, ConnectionsStep, PTL DEF Spec
<1> QED
  BY <1>1, <1>2, CheckedInit, CheckedStep, PTL DEF Spec

----------------------------------------------------------------------------
GraphNames == {<<"mvpgraph", t>> : t \in 0..MaxNow}
Promoting == {"active", "stop", "set"}

(* A graph with everything of the rows it was built from.                  *)
Whole(g) ==
  /\ g.nodes = Range(g.of.nodes) \ {NoName}
  /\ g.rels = Range(g.of.rels) /\ g.rels # {}
  /\ FixtureNodes \subseteq g.nodes
  /\ \A r \in g.rels : {r.from, r.to} \subseteq g.nodes

(* A graph that is being loaded.                                           *)
Part(g, extract) ==
  /\ g.of = extract
  /\ g.nodes \subseteq Range(extract.nodes)
  /\ g.rels \subseteq Range(extract.rels)
  /\ \A r \in g.rels : {r.from, r.to} \subseteq g.nodes

(* One synchronisation: it loads checked rows into a database nobody else  *)
(* loads and, unless it is a --retry-promote, promotes only what passed    *)
(* the checks after the load.                                              *)
SyncSound(s, gs, ps) ==
  /\ DOMAIN s = DOMAIN NoSync /\ s.done \in Nat
  /\ s.new \in DOMAIN gs \cup {NoName, NoSuch}
  /\ s.pc = "free" => s.expected = NoName
  /\ s.pc = "load" =>
       /\ s.new \in GraphNames \ ps /\ s.new \in DOMAIN gs
       /\ s.rows \in Extracts /\ validate_before_write(s.rows)
       /\ Part(gs[s.new], s.rows)
  /\ s.pc \in {"promote"} \cup Promoting => s.new \in ps \/ s.expected = NoName
  /\ s.pc \in Promoting => s.new \in DOMAIN gs /\ s.actual \in DOMAIN gs

(* A graph database may be the default if it passed the checks, or by the  *)
(* hand of an operator.                                                    *)
HandMade(ss, n) ==
  \E k \in Jobs : ss[k].expected = NoName /\ ss[k].pc \in {"done", "closed"} /\ ss[k].new = n

Vouched(ss, ps, n) == n \in {First} \cup ps \/ HandMade(ss, n)

(* The graph databases and the state of every synchronisation.             *)
Graphs ==
  /\ First \in DOMAIN graphs /\ DOMAIN graphs \subseteq {First} \cup GraphNames
  /\ \A n \in DOMAIN graphs : DOMAIN graphs[n] = {"online", "nodes", "rels", "of"}
  /\ passed \subseteq GraphNames \cap DOMAIN graphs
  /\ default \in DOMAIN graphs /\ Vouched(sync, passed, default)
  /\ \A n \in {First} \cup passed : Whole(graphs[n])
  /\ DOMAIN sync = Jobs
  /\ \A j \in Jobs : SyncSound(sync[j], graphs, passed)
  /\ \A j, k \in Jobs :
       sync[j].pc = "load" /\ sync[k].pc = "load" /\ sync[j].new = sync[k].new => j = k

LEMMA GraphNamesDiffer ==
  /\ First \notin GraphNames /\ NoSuch \notin {First} \cup GraphNames
  /\ NoName \notin GraphNames
<1>1. \A t \in 0..MaxNow : <<"mvpgraph", t>> # NoName /\ t # MaxNow + 1
  BY ClockAssumption
<1>2. NoSuch \notin GraphNames
  BY <1>1 DEF NoSuch, GraphNames
<1> QED
  BY <1>1, <1>2 DEF First, NoSuch, GraphNames

(* What the checks before the first write let through.                     *)
LEMMA ValidatedRows ==
  ASSUME NEW extract, validate_before_write(extract)
  PROVE  /\ NoName \notin Range(extract.nodes)
         /\ Range(extract.rels) # {}
         /\ \A r \in Range(extract.rels) : {r.from, r.to} \subseteq Range(extract.nodes)
<1>1. find_rows_with_null_key(extract.nodes) = {}
  BY DEF validate_before_write
<1>2. NoName \notin Range(extract.nodes)
  BY <1>1 DEF find_rows_with_null_key, Range
<1>3. KeysOf(extract.rels) # <<>>
  BY DEF validate_before_write
<1>4. DOMAIN extract.rels # {}
  BY <1>3 DEF KeysOf
<1>5. Range(extract.rels) # {}
  BY <1>4 DEF Range
<1>6. find_dangling_relationship_rows(extract.rels, Range(extract.nodes)) = {}
  BY DEF validate_before_write
<1>7. \A i \in DOMAIN extract.rels : {extract.rels[i].from, extract.rels[i].to} \subseteq Range(extract.nodes)
  BY <1>6 DEF find_dangling_relationship_rows
<1>8. \A r \in Range(extract.rels) : {r.from, r.to} \subseteq Range(extract.nodes)
  BY <1>7 DEF Range
<1> QED
  BY <1>2, <1>5, <1>8

LEMMA GraphsInit == Init => Graphs
<1> SUFFICES ASSUME Init PROVE Graphs
  OBVIOUS
<1>2. /\ DOMAIN graphs = {First} /\ passed = {} /\ default = First
      /\ graphs[First] = [online |-> TRUE, nodes |-> Range(FirstGraph.nodes),
                          rels |-> Range(FirstGraph.rels), of |-> FirstGraph]
  BY DEF Init, GraphInit
<1>3. Whole(graphs[First])
  BY <1>2, ExtractsAssumption, ValidatedRows DEF Whole
<1>4. SyncSound(NoSync, graphs, passed)
  BY DEF SyncSound, NoSync, Promoting
<1>5. DOMAIN sync = Jobs /\ \A j \in Jobs : sync[j] = NoSync
  BY DEF Init, GraphInit
<1>6. NoSync.pc # "load"
  BY DEF NoSync
<1>7. DOMAIN graphs[First] = {"online", "nodes", "rels", "of"}
  BY <1>2
<1>8. \A j \in Jobs : SyncSound(sync[j], graphs, passed)
  BY <1>4, <1>5
<1>9. \A j \in Jobs : sync[j].pc # "load"
  BY <1>5, <1>6
<1>10. default \in DOMAIN graphs /\ Vouched(sync, passed, default)
  BY <1>2 DEF Vouched
<1> QED
  BY <1>2, <1>3, <1>5, <1>7, <1>8, <1>9, <1>10 DEF Graphs

(* A count equal to the number of rows means that every row is there.      *)
LEMMA CountedAll ==
  ASSUME NEW s, s \in Seq(Range(s)), NEW T, T \subseteq Range(s), Cardinality(T) = Len(s)
  PROVE  T = Range(s)
<1> DEFINE R == Range(s)
<1>1. Len(s) \in Nat /\ DOMAIN s = 1..Len(s)
  OBVIOUS
<1>2. s \in Surjection(1..Len(s), R)
  BY <1>1 DEF Surjection, Range
<1>3. ExistsSurjection(1..Len(s), R)
  BY <1>2 DEF ExistsSurjection
<1>4. Cardinality(R) <= Len(s)
  BY <1>1, <1>3, FS_SurjCardinalityBound
<1>5. IsFiniteSet(1..Len(s))
  BY <1>1, FS_Interval
<1>6. IsFiniteSet(R)
  BY <1>2, <1>5, FS_Surjection
<1> HIDE DEF R
<1>7. Cardinality(T) <= Cardinality(R) /\ (Cardinality(R) = Cardinality(T) => R = T)
  BY <1>6, FS_Subset DEF R
<1>8. Cardinality(R) \in Nat
  BY <1>6, FS_CardinalityType
<1> QED
  BY <1>1, <1>4, <1>7, <1>8 DEF R

LEMMA PartIsWhole ==
  ASSUME NEW extract \in Extracts, validate_before_write(extract), NEW g, Part(g, extract),
         validate_after_load(g, extract)
  PROVE  Whole(g)
<1>1. g.nodes = Range(extract.nodes)
  BY CountedAll, ExtractsAssumption DEF Part, validate_after_load
<1>2. g.rels = Range(extract.rels)
  BY CountedAll, ExtractsAssumption DEF Part, validate_after_load
<1> QED
  BY <1>1, <1>2, ValidatedRows DEF Whole, Part, validate_after_load

(* Past the nodes, the next row is a relationship.                         *)
LEMMA SecondPart ==
  ASSUME NEW a \in Nat, NEW b \in Nat, NEW d \in Nat, d < a + b, ~(d + 1 <= a)
  PROVE  (d + 1) - a \in 1..b
OBVIOUS

LEMMA MergedPart ==
  ASSUME NEW extract \in Extracts, NEW g, DOMAIN g = {"online", "nodes", "rels", "of"}, Part(g, extract),
         NEW done \in Nat, done < RowCount(extract)
  PROVE  /\ Part(Merged(g, extract, done + 1), extract)
         /\ DOMAIN Merged(g, extract, done + 1) = DOMAIN g
         /\ Merged(g, extract, done + 1).online = g.online
<1> DEFINE n == done + 1
<1>1. extract.nodes \in Seq(Range(extract.nodes)) /\ extract.rels \in Seq(Range(extract.rels))
  BY ExtractsAssumption
<1>2. Len(extract.nodes) \in Nat /\ Len(extract.rels) \in Nat
  BY <1>1
<1>3. CASE n <= Len(extract.nodes)
  <2>1. extract.nodes[n] \in Range(extract.nodes)
    BY <1>1, <1>2, <1>3
  <2> QED
    BY <1>3, <2>1 DEF Merged, Part
<1>4. CASE ~(n <= Len(extract.nodes))
  <2> DEFINE i == n - Len(extract.nodes)
             rel == extract.rels[i]
  <2>1. i \in 1..Len(extract.rels)
    BY <1>2, <1>4, SecondPart DEF RowCount
  <2> HIDE DEF i
  <2>2. rel \in Range(extract.rels)
    BY <1>1, <2>1
  <2> USE DEF i
  <2> HIDE DEF n
  <2>3. Merged(g, extract, n) = IF {rel.from, rel.to} \subseteq g.nodes
                             THEN [g EXCEPT !.rels = @ \cup {rel}] ELSE g
    BY <1>4 DEF Merged
  <2> HIDE DEF rel
  <2>4. Part(Merged(g, extract, n), extract) /\ DOMAIN Merged(g, extract, n) = DOMAIN g /\ Merged(g, extract, n).online = g.online
    BY <2>2, <2>3 DEF Part
  <2> QED
    BY <2>4 DEF n
<1> QED
  BY <1>3, <1>4

(* What was vouched for stays so.                                          *)
LEMMA VouchedStays ==
  ASSUME Graphs, NEW j \in Jobs, NEW s, sync' = [sync EXCEPT ![j] = s],
         sync[j].pc \notin {"done", "closed"}, passed \subseteq passed'
  PROVE  Vouched(sync', passed', default)
<1>1. \A k \in Jobs : sync'[k] = IF k = j THEN s ELSE sync[k]
  BY DEF Graphs
<1>2. HandMade(sync, default) => HandMade(sync', default)
  BY <1>1 DEF HandMade
<1> QED
  BY <1>2 DEF Graphs, Vouched

(* A step of one job that leaves the graph databases alone.                *)
LEMMA GraphsKept ==
  ASSUME Graphs, NEW j \in Jobs, NEW s, sync' = [sync EXCEPT ![j] = s],
         UNCHANGED <<graphs, passed>>, default' \in DOMAIN graphs, Vouched(sync', passed, default'),
         SyncSound(s, graphs, passed),
         s.pc = "load" => sync[j].pc = "load" /\ s.new = sync[j].new
  PROVE  Graphs'
<1>1. DOMAIN sync' = Jobs /\ \A k \in Jobs : sync'[k] = IF k = j THEN s ELSE sync[k]
  BY DEF Graphs
<1>2. \A k \in Jobs : SyncSound(sync'[k], graphs', passed')
  BY <1>1 DEF Graphs
<1>3. \A k, l \in Jobs :
        sync'[k].pc = "load" /\ sync'[l].pc = "load" /\ sync'[k].new = sync'[l].new => k = l
  BY <1>1 DEF Graphs
<1> QED
  BY <1>1, <1>2, <1>3 DEF Graphs

(* ... and only moves the job on, or ends it.                              *)
LEMMA ToKeeps ==
  ASSUME Graphs, NEW j \in Jobs, NEW step \in {"exit", "crashed", "halfway", "context"} \cup Promoting,
         step \in Promoting => sync[j].pc \in Promoting, sync[j].pc \notin {"done", "closed"},
         To(j, step), UNCHANGED <<graphs, passed, default>>
  PROVE  Graphs'
<1> DEFINE s == [sync[j] EXCEPT !.pc = step]
<1>1. DOMAIN sync[j] = DOMAIN NoSync
  BY DEF Graphs, SyncSound
<1>2. /\ DOMAIN s = DOMAIN NoSync /\ s.pc = step /\ s.new = sync[j].new /\ s.actual = sync[j].actual
      /\ s.done = sync[j].done /\ s.expected = sync[j].expected
  BY <1>1 DEF NoSync
<1>3. sync' = [sync EXCEPT ![j] = s]
  BY DEF To, Graphs
<1> HIDE DEF s
<1>4. SyncSound(s, graphs, passed) /\ s.pc # "load"
  BY <1>2 DEF SyncSound, Graphs, Promoting
<1> QED
  BY <1>3, <1>4, VouchedStays, GraphsKept DEF Graphs

LEMMA ContextKeeps ==
  ASSUME Graphs, NEW j \in Jobs, prepare_sync_context(j)
  PROVE  Graphs'
<1>1. CASE To(j, "exit")
  BY <1>1, ToKeeps DEF prepare_sync_context, Promoting
<1>2. CASE sync' = [sync EXCEPT ![j].pc = "extract", ![j].expected = default]
  <2> DEFINE s == [sync[j] EXCEPT !.pc = "extract", !.expected = default]
  <2>1. sync' = [sync EXCEPT ![j] = s]
    BY <1>2 DEF Graphs
  <2>2. SyncSound(s, graphs, passed) /\ s.pc # "load"
    BY DEF SyncSound, Graphs, Promoting, NoSync
  <2> HIDE DEF s
  <2> QED
    BY <2>1, <2>2, VouchedStays, GraphsKept DEF prepare_sync_context, Graphs
<1> QED
  BY <1>1, <1>2 DEF prepare_sync_context, SyncExit

LEMMA RetryPromoteKeeps ==
  ASSUME Graphs, NEW j \in Jobs, NEW name \in DOMAIN graphs \cup {NoSuch}, RetryPromote(j, name)
  PROVE  Graphs'
<1> DEFINE s == [sync[j] EXCEPT !.pc = "promote", !.new = name]
<1>1. sync' = [sync EXCEPT ![j] = s]
  BY DEF RetryPromote, Graphs
<1>2. DOMAIN s = DOMAIN NoSync /\ s.pc = "promote" /\ s.new = name /\ s.done \in Nat
      /\ s.expected = NoName
  BY DEF Graphs, SyncSound, NoSync, RetryPromote
<1> HIDE DEF s
<1>3. SyncSound(s, graphs, passed) /\ s.pc # "load"
  BY <1>2 DEF SyncSound, Graphs, Promoting
<1>4. sync[j].pc = "free" /\ UNCHANGED <<graphs, default, passed>>
  BY DEF RetryPromote
<1>5. default \in DOMAIN graphs
  BY DEF Graphs
<1>6. Vouched(sync', passed', default)
  BY <1>1, <1>4, VouchedStays
<1> QED
  BY <1>1, <1>3, <1>4, <1>5, <1>6, GraphsKept

LEMMA PromoteReadKeeps ==
  ASSUME Graphs, NEW j \in Jobs, PromoteRead(j)
  PROVE  Graphs'
<1>1. CASE To(j, "exit")
  BY <1>1, ToKeeps DEF PromoteRead, Promoting
<1>2. CASE sync[j].new \in DOMAIN graphs /\ sync' = [sync EXCEPT ![j].pc = "active", ![j].actual = default]
  <2> DEFINE s == [sync[j] EXCEPT !.pc = "active", !.actual = default]
  <2>1. sync' = [sync EXCEPT ![j] = s]
    BY <1>2 DEF Graphs
  <2>2. /\ DOMAIN s = DOMAIN NoSync /\ s.pc = "active" /\ s.new = sync[j].new /\ s.actual = default
        /\ s.done \in Nat /\ s.expected = sync[j].expected
    BY DEF Graphs, SyncSound, NoSync
  <2> HIDE DEF s
  <2>3. sync[j].new \in passed \/ sync[j].expected = NoName
    BY DEF PromoteRead, Graphs, SyncSound
  <2>4. SyncSound(s, graphs, passed) /\ s.pc # "load"
    BY <1>2, <2>2, <2>3 DEF SyncSound, Graphs, Promoting
  <2> QED
    BY <2>1, <2>4, VouchedStays, GraphsKept DEF PromoteRead, Graphs
<1> QED
  BY <1>1, <1>2 DEF PromoteRead, SyncExit

LEMMA PromoteSetKeeps ==
  ASSUME Graphs, NEW j \in Jobs, PromoteSet(j)
  PROVE  Graphs'
<1> DEFINE new == sync[j].new
<1>1. sync[j].pc = "set" /\ UNCHANGED <<graphs, passed>>
  BY DEF PromoteSet
<1>2. CASE To(j, "exit") /\ UNCHANGED default
  BY <1>1, <1>2, ToKeeps DEF Promoting
<1>3. ASSUME NEW step \in {"done", "closed"}, To(j, step), default' = new, new \in DOMAIN graphs
      PROVE  Graphs'
  <2> DEFINE s == [sync[j] EXCEPT !.pc = step]
  <2>1. /\ sync' = [sync EXCEPT ![j] = s] /\ s.pc = step /\ s.new = new /\ s.expected = sync[j].expected
        /\ DOMAIN s = DOMAIN NoSync /\ s.done \in Nat
    BY <1>3 DEF To, Graphs, SyncSound, NoSync
  <2> HIDE DEF s
  <2>2. SyncSound(s, graphs, passed) /\ s.pc # "load"
    BY <1>3, <2>1 DEF SyncSound, Graphs, Promoting
  <2>3. sync'[j] = s
    BY <2>1 DEF Graphs
  <2>4. Vouched(sync', passed, new)
    BY <1>1, <2>1, <2>3 DEF Vouched, HandMade, Graphs, SyncSound, Promoting
  <2> HIDE DEF new
  <2> QED
    BY <1>1, <1>3, <2>1, <2>2, <2>4, GraphsKept
<1> QED
  BY <1>2, <1>3 DEF PromoteSet, SyncExit

LEMMA SyncValidateKeeps ==
  ASSUME Graphs, NEW j \in Jobs, SyncValidate(j)
  PROVE  Graphs'
<1> DEFINE new == sync[j].new
<1>1. CASE To(j, "exit") /\ UNCHANGED passed
  BY <1>1, ToKeeps DEF SyncValidate, Promoting
<1>2. CASE validate_after_load(graphs[new], sync[j].rows) /\ To(j, "promote") /\ passed' = passed \cup {new}
  <2> DEFINE s == [sync[j] EXCEPT !.pc = "promote"]
  <2>1. /\ new \in GraphNames \ passed /\ new \in DOMAIN graphs /\ sync[j].pc = "load"
        /\ sync[j].rows \in Extracts /\ validate_before_write(sync[j].rows)
        /\ Part(graphs[new], sync[j].rows)
    BY DEF SyncValidate, Graphs, SyncSound
  <2>2. Whole(graphs[new])
    BY <1>2, <2>1, PartIsWhole
  <2>3. DOMAIN sync' = Jobs /\ \A k \in Jobs : sync'[k] = IF k = j THEN s ELSE sync[k]
    BY <1>2 DEF To, Graphs
  <2>4. DOMAIN s = DOMAIN NoSync /\ s.pc = "promote" /\ s.new = new /\ s.done \in Nat
    BY DEF Graphs, SyncSound, NoSync
  <2>5. UNCHANGED <<graphs, default>>
    BY DEF SyncValidate
  <2> HIDE DEF s
  <2>6. \A k \in Jobs : SyncSound(sync'[k], graphs', passed')
    <3> TAKE k \in Jobs
    <3>1. CASE k = j
      BY <1>2, <2>1, <2>3, <2>4, <2>5, <3>1 DEF SyncSound, Promoting
    <3>2. CASE k # j
      <4>1. sync[k].pc = "load" => sync[k].new # new
        BY <2>1, <3>2 DEF Graphs
      <4> HIDE DEF new
      <4> QED
        BY <1>2, <2>3, <2>5, <3>2, <4>1 DEF Graphs, SyncSound
    <3> QED
      BY <3>1, <3>2
  <2>7. \A k, l \in Jobs :
          sync'[k].pc = "load" /\ sync'[l].pc = "load" /\ sync'[k].new = sync'[l].new => k = l
    BY <2>3, <2>4 DEF Graphs
  <2>8. sync' = [sync EXCEPT ![j] = s]
    BY <1>2 DEF To, Graphs, s
  <2>9. Vouched(sync', passed', default)
    BY <1>2, <2>1, <2>8, VouchedStays
  <2> HIDE DEF new
  <2> QED
    BY <1>2, <2>1, <2>2, <2>3, <2>5, <2>6, <2>7, <2>9 DEF Graphs
<1> QED
  BY <1>1, <1>2 DEF SyncValidate, SyncExit

(* A step that touches a graph database: the jobs that load another one do *)
(* not notice.                                                             *)
LEMMA SyncSoundElsewhere ==
  ASSUME NEW r, NEW gs, NEW hs, NEW ps, SyncSound(r, gs, ps), DOMAIN gs \subseteq DOMAIN hs,
         r.pc = "load" => Part(hs[r.new], r.rows)
  PROVE  SyncSound(r, hs, ps)
BY DEF SyncSound

LEMMA GraphsTouched ==
  ASSUME Graphs, NEW j \in Jobs, NEW s, sync' = [sync EXCEPT ![j] = s], UNCHANGED <<default, passed>>,
         DOMAIN graphs \subseteq DOMAIN graphs', DOMAIN graphs' \subseteq {First} \cup GraphNames,
         \A n \in DOMAIN graphs' : DOMAIN graphs'[n] = {"online", "nodes", "rels", "of"},
         \A n \in {First} \cup passed : Whole(graphs'[n]),
         \A k \in Jobs \ {j} : sync[k].pc = "load" =>
            Part(graphs'[sync[k].new], sync[k].rows) /\ (s.pc = "load" => s.new # sync[k].new),
         SyncSound(s, graphs', passed), sync[j].pc \notin {"done", "closed"}
  PROVE  Graphs'
<1>1. DOMAIN sync' = Jobs /\ \A k \in Jobs : sync'[k] = IF k = j THEN s ELSE sync[k]
  BY DEF Graphs
<1>2. \A k \in Jobs \ {j} : SyncSound(sync[k], graphs', passed)
  BY SyncSoundElsewhere DEF Graphs
<1>3. \A k \in Jobs : SyncSound(sync'[k], graphs', passed')
  BY <1>1, <1>2
<1>4. \A k, l \in Jobs :
        sync'[k].pc = "load" /\ sync'[l].pc = "load" /\ sync'[k].new = sync'[l].new => k = l
  BY <1>1 DEF Graphs
<1>5. Vouched(sync', passed', default)
  BY VouchedStays
<1> QED
  BY <1>1, <1>3, <1>4, <1>5 DEF Graphs

LEMMA SyncExtractKeeps ==
  ASSUME Databases, Graphs, NEW j \in Jobs, NEW extract \in Extracts, SyncExtract(j, extract)
  PROVE  Graphs'
<1> DEFINE new == generate_database_name
<1>1. new \in GraphNames
  BY DEF Databases, generate_database_name, GraphNames
<1>2. CASE To(j, "exit") /\ UNCHANGED graphs
  BY <1>2, ToKeeps DEF SyncExtract, Promoting
<1>3. CASE /\ validate_before_write(extract) /\ new \notin DOMAIN graphs
           /\ graphs' = With(graphs, new, [online |-> TRUE, nodes |-> {}, rels |-> {}, of |-> extract])
           /\ sync' = [sync EXCEPT ![j].pc = "load", ![j].new = new, ![j].rows = extract]
  <2> DEFINE s == [sync[j] EXCEPT !.pc = "load", !.new = new, !.rows = extract]
             g == [online |-> TRUE, nodes |-> {}, rels |-> {}, of |-> extract]
  <2>1. sync' = [sync EXCEPT ![j] = s]
    BY <1>3 DEF Graphs
  <2>2. sync[j].done \in Nat
    BY DEF Graphs, SyncSound
  <2>3. DOMAIN s = DOMAIN NoSync /\ s.pc = "load" /\ s.new = new /\ s.rows = extract /\ s.done \in Nat
    BY <2>2 DEF Graphs, SyncSound, NoSync
  <2>4. Part(g, extract) /\ DOMAIN g = {"online", "nodes", "rels", "of"}
    BY DEF Part
  <2>5. UNCHANGED <<default, passed>> /\ sync[j].pc = "extract"
    BY DEF SyncExtract
  <2> HIDE DEF new, s, g
  <2>6. /\ DOMAIN graphs' = DOMAIN graphs \cup {new} /\ graphs'[new] = g
        /\ \A n \in DOMAIN graphs : graphs'[n] = graphs[n]
    BY <1>3 DEF With, g
  <2>7. SyncSound(s, graphs', passed)
    BY <1>1, <1>3, <2>3, <2>4, <2>6 DEF SyncSound, Promoting, Graphs
  <2>8. \A k \in Jobs : sync[k].pc = "load" => sync[k].new \in DOMAIN graphs /\ Part(graphs[sync[k].new], sync[k].rows)
    BY DEF Graphs, SyncSound
  <2>9. \A n \in {First} \cup passed : Whole(graphs'[n])
    BY <2>6 DEF Graphs
  <2>10. \A k \in Jobs \ {j} : sync[k].pc = "load" =>
           Part(graphs'[sync[k].new], sync[k].rows) /\ (s.pc = "load" => s.new # sync[k].new)
    BY <1>3, <2>3, <2>6, <2>8
  <2>11. DOMAIN graphs \subseteq DOMAIN graphs' /\ DOMAIN graphs' \subseteq {First} \cup GraphNames
    BY <1>1, <2>6 DEF Graphs
  <2>12. \A n \in DOMAIN graphs' : DOMAIN graphs'[n] = {"online", "nodes", "rels", "of"}
    BY <2>4, <2>6 DEF Graphs
  <2> QED
    BY <2>1, <2>5, <2>7, <2>9, <2>10, <2>11, <2>12, GraphsTouched
<1> QED
  BY <1>2, <1>3 DEF SyncExtract, SyncExit

LEMMA LoadRowsKeeps ==
  ASSUME Graphs, NEW j \in Jobs, load_rows(j)
  PROVE  Graphs'
<1> DEFINE new == sync[j].new
           extract == sync[j].rows
           n == sync[j].done + 1
           s == [sync[j] EXCEPT !.done = n]
           g == Merged(graphs[new], extract, n)
<1>1. /\ new \in GraphNames \ passed /\ new \in DOMAIN graphs /\ sync[j].pc = "load"
      /\ extract \in Extracts /\ Part(graphs[new], extract)
      /\ sync[j].done \in Nat /\ sync[j].done < RowCount(extract)
  BY DEF load_rows, Graphs, SyncSound
<1>2. UNCHANGED <<default, passed>>
  BY DEF load_rows
<1>3. CASE To(j, "exit") /\ UNCHANGED graphs
  BY <1>1, <1>2, <1>3, ToKeeps DEF Promoting
<1>4. DOMAIN s = DOMAIN NoSync /\ s.done = n /\ n \in Nat
      /\ s.pc = "load" /\ s.new = new /\ s.rows = extract
  BY <1>1 DEF Graphs, SyncSound, NoSync
<1>5. sync' = [sync EXCEPT ![j].done = n] => sync' = [sync EXCEPT ![j] = s]
  BY DEF Graphs
<1>6. validate_before_write(extract)
  BY <1>1 DEF Graphs, SyncSound
<1>7. CASE sync' = [sync EXCEPT ![j].done = n] /\ UNCHANGED graphs
  <2>1. SyncSound(s, graphs, passed)
    BY <1>1, <1>4, <1>6 DEF SyncSound, Promoting
  <2> HIDE DEF s, new, extract, n
  <2>2. s.new = sync[j].new
    BY <1>4 DEF new
  <2> QED
    BY <1>1, <1>2, <1>5, <1>7, <2>1, <2>2, VouchedStays, GraphsKept DEF Graphs
<1>8. CASE sync' = [sync EXCEPT ![j].done = n] /\ graphs' = [graphs EXCEPT ![new] = g]
  <2>1. Part(g, extract) /\ DOMAIN g = {"online", "nodes", "rels", "of"}
    BY <1>1, MergedPart DEF Graphs
  <2>2. \A k \in Jobs \ {j} : sync[k].pc = "load" =>
          /\ sync[k].new # new /\ sync[k].new \in DOMAIN graphs
          /\ Part(graphs[sync[k].new], sync[k].rows)
    BY <1>1 DEF Graphs, SyncSound
  <2> HIDE DEF s, new, extract, n, g
  <2>3. DOMAIN graphs' = DOMAIN graphs /\ graphs'[new] = g /\ \A m \in DOMAIN graphs \ {new} : graphs'[m] = graphs[m]
    BY <1>1, <1>8
  <2>4. SyncSound(s, graphs', passed)
    BY <1>1, <1>4, <1>6, <2>1, <2>3 DEF SyncSound, Promoting
  <2>5. \A m \in {First} \cup passed : Whole(graphs'[m])
    BY <1>1, <2>3, GraphNamesDiffer DEF Graphs
  <2>6. \A m \in DOMAIN graphs' : DOMAIN graphs'[m] = {"online", "nodes", "rels", "of"}
    BY <2>1, <2>3 DEF Graphs
  <2>7. \A k \in Jobs \ {j} : sync[k].pc = "load" =>
          Part(graphs'[sync[k].new], sync[k].rows) /\ (s.pc = "load" => s.new # sync[k].new)
    BY <1>4, <2>2, <2>3
  <2>8. DOMAIN graphs \subseteq DOMAIN graphs' /\ DOMAIN graphs' \subseteq {First} \cup GraphNames
    BY <2>3 DEF Graphs
  <2> QED
    BY <1>1, <1>2, <1>5, <1>8, <2>4, <2>5, <2>6, <2>7, <2>8, GraphsTouched
<1> QED
  BY <1>3, <1>7, <1>8 DEF load_rows, SyncExit

LEMMA PromoteStopKeeps ==
  ASSUME Graphs, NEW j \in Jobs, PromoteStop(j)
  PROVE  Graphs'
<1> DEFINE old == sync[j].actual
           s == [sync[j] EXCEPT !.pc = "set"]
           g == [graphs[old] EXCEPT !.online = FALSE]
<1>1. old \in DOMAIN graphs /\ sync[j].pc = "stop"
  BY DEF PromoteStop, Graphs, SyncSound, Promoting
<1>2. DOMAIN graphs[old] = {"online", "nodes", "rels", "of"}
  BY <1>1 DEF Graphs
<1>3. /\ DOMAIN g = {"online", "nodes", "rels", "of"}
      /\ g.nodes = graphs[old].nodes /\ g.rels = graphs[old].rels /\ g.of = graphs[old].of
  BY <1>2
<1>4. /\ DOMAIN s = DOMAIN NoSync /\ s.pc = "set" /\ s.new = sync[j].new /\ s.actual = sync[j].actual
      /\ s.done = sync[j].done /\ s.expected = sync[j].expected
  BY DEF Graphs, SyncSound, NoSync
<1>5. sync' = [sync EXCEPT ![j] = s] /\ UNCHANGED <<default, passed>>
  BY DEF PromoteStop, To, Graphs
<1>6. graphs' = [graphs EXCEPT ![old] = g]
  BY DEF PromoteStop
<1> HIDE DEF s, g
<1>7. DOMAIN graphs' = DOMAIN graphs /\ \A m \in DOMAIN graphs : graphs'[m] = IF m = old THEN g ELSE graphs[m]
  BY <1>1, <1>6
<1>8. SyncSound(s, graphs', passed)
  BY <1>1, <1>4, <1>7 DEF SyncSound, Promoting, Graphs
<1>9. \A m \in {First} \cup passed : Whole(graphs'[m])
  BY <1>3, <1>7 DEF Graphs, Whole
<1>10. \A m \in DOMAIN graphs' : DOMAIN graphs'[m] = {"online", "nodes", "rels", "of"}
  BY <1>3, <1>7 DEF Graphs
<1>11. \A k \in Jobs : sync[k].pc = "load" =>
         sync[k].new \in DOMAIN graphs /\ Part(graphs[sync[k].new], sync[k].rows)
  BY DEF Graphs, SyncSound
<1>12. \A k \in Jobs \ {j} : sync[k].pc = "load" =>
         Part(graphs'[sync[k].new], sync[k].rows) /\ (s.pc = "load" => s.new # sync[k].new)
  BY <1>3, <1>4, <1>7, <1>11 DEF Part
<1>13. DOMAIN graphs \subseteq DOMAIN graphs' /\ DOMAIN graphs' \subseteq {First} \cup GraphNames
  BY <1>7 DEF Graphs
<1> QED
  BY <1>1, <1>5, <1>8, <1>9, <1>10, <1>12, <1>13, GraphsTouched

LEMMA SyncCrashKeeps ==
  ASSUME Graphs, NEW j \in Jobs, SyncCrash(j)
  PROVE  Graphs'
<1>1. UNCHANGED <<graphs, passed, default>> /\ sync[j].pc \notin {"done", "closed"}
  BY DEF SyncCrash
<1>2. To(j, "halfway") \/ To(j, "crashed")
  BY DEF SyncCrash, SyncExit
<1> QED
  BY <1>1, <1>2, ToKeeps DEF Promoting

LEMMA CheckActiveKeeps ==
  ASSUME Graphs, NEW j \in Jobs, PromoteCheckActive(j)
  PROVE  Graphs'
<1>1. UNCHANGED <<graphs, passed, default>> /\ sync[j].pc = "active"
  BY DEF PromoteCheckActive
<1>2. To(j, "exit") \/ To(j, "stop")
  BY DEF PromoteCheckActive, SyncExit
<1> QED
  BY <1>1, <1>2, ToKeeps DEF Promoting

LEMMA ConnectKeeps ==
  ASSUME Graphs, NEW j \in Jobs, prepare_pg_connection(j)
  PROVE  Graphs'
<1>1. UNCHANGED <<graphs, passed, default>> /\ sync[j].pc = "free"
  BY DEF prepare_pg_connection
<1>2. To(j, "exit") \/ To(j, "context")
  BY DEF prepare_pg_connection
<1> QED
  BY <1>1, <1>2, ToKeeps DEF Promoting

LEMMA GraphsStep == Databases /\ Graphs /\ [Next]_vars => Graphs'
<1> SUFFICES ASSUME Databases, Graphs, [Next]_vars PROVE Graphs'
  OBVIOUS
<1>1. CASE UNCHANGED <<graphs, default, sync, passed>>
  BY <1>1 DEF Graphs
<1>2. ASSUME NEW j \in Jobs, Begin(j) PROVE Graphs'
  BY <1>1, <1>2, ConnectKeeps, RetryPromoteKeeps DEF Begin, graphVars
<1>3. ASSUME NEW j \in Jobs, SyncStep(j) \/ SyncCrash(j) PROVE Graphs'
  BY <1>3, ContextKeeps, SyncExtractKeeps, LoadRowsKeeps, SyncValidateKeeps, PromoteReadKeeps,
     CheckActiveKeeps, PromoteStopKeeps, PromoteSetKeeps, SyncCrashKeeps DEF SyncStep
<1>4. ASSUME NEW g \in GraphClients, GraphBegin(g) \/ GraphEnd(g) PROVE Graphs'
  BY <1>1, <1>4 DEF GraphBegin, GraphEnd
<1> QED
  BY <1>1, <1>2, <1>3, <1>4 DEF Next, vars, graphVars

(* The graph databases and the state of every synchronisation              *)
(* (run_structured_mvp_sync.py, retry_promote) keep this shape: what       *)
(* passed step 5 holds every row of its extraction, because load_rows only *)
(* adds rows of that extraction and the counts agree, and only what passed *)
(* or was named by a --retry-promote becomes the default.                  *)
THEOREM GraphsInvariant == Spec => []Graphs
<1>1. Spec => []Databases
  BY DatabasesInvariant
<1> QED
  BY <1>1, GraphsInit, GraphsStep, PTL DEF Spec

----------------------------------------------------------------------------
LEMMA CompleteFromInvariants == Databases /\ Graphs /\ Checked => LiveComplete
<1> SUFFICES ASSUME Databases, Graphs, Checked PROVE LiveComplete
  OBVIOUS
<1>1. default \in {First} \cup passed => Whole(graphs[default])
  BY DEF Graphs
<1>2. default \notin {First} \cup passed => PromotedByHand(default)
  BY DEF Graphs, Vouched, HandMade, PromotedByHand
<1>3. Exists(Live)
  BY DEF Databases, Exists
<1>4. Live \in DOMAIN verified => Fixtures \cup verified[Live] \subseteq pg[Live]
  BY DEF Checked
<1>5. Live \notin DOMAIN verified => SwappedByHand(restoredAs)
  BY DEF Checked, ByHand, SwappedByHand
<1> QED
  BY <1>1, <1>2, <1>3, <1>4, <1>5 DEF LiveComplete, Whole

(* Whatever dumps and rows the jobs meet, wherever they fail or are killed *)
(* and whatever names a retry is given, the application reads a complete   *)
(* PostgreSQL database and a complete default graph, unless an operator    *)
(* put an unchecked one in service by --retry-swap or --retry-promote      *)
(* (postgres_restore.py, retry_swap; structured_mvp_load.py,               *)
(* retry_promote).                                                         *)
THEOREM LiveCompleteCorrect == Spec => []LiveComplete
BY DatabasesInvariant, GraphsInvariant, CheckedInvariant, CompleteFromInvariants, PTL

----------------------------------------------------------------------------
(* A graph database that is or was the default.                            *)
Past(ss, n) ==
  n = First \/ \E k \in Jobs : ss[k].pc \in {"done", "closed"} /\ ss[k].new = n

(* A synchronisation that created a database of its own.                   *)
Creator(s) == s.expected # NoName /\ s.new # NoName

(* Only what was the default is ever stopped, and a database is created by *)
(* one synchronisation, which is the only one to promote it but for a      *)
(* --retry-promote.                                                        *)
Claims ==
  /\ Past(sync, default)
  /\ \A n \in DOMAIN graphs : ~graphs[n].online => Past(sync, n)
  /\ \A j \in Jobs : sync[j].pc \in Promoting => Past(sync, sync[j].actual)
  /\ \A j \in Jobs : sync[j].pc \in {"free", "context", "extract"} => sync[j].new = NoName
  /\ \A j \in Jobs : Creator(sync[j]) =>
       /\ sync[j].new \in GraphNames
       /\ \A k \in Jobs \ {j} : Creator(sync[k]) => sync[k].new # sync[j].new
  /\ DefaultRuns

LEMMA ClaimsInit == Init => Claims
<1> SUFFICES ASSUME Init PROVE Claims
  OBVIOUS
<1>1. DOMAIN graphs = {First} /\ graphs[First].online /\ default = First
  BY DEF Init, GraphInit
<1>2. \A j \in Jobs : sync[j].pc = "free" /\ sync[j].new = NoName
  BY DEF Init, GraphInit, NoSync
<1> QED
  BY <1>1, <1>2 DEF Claims, Past, DefaultRuns, DefaultKeptRunning, Creator, Promoting

(* A step of one job that neither promotes nor stops a database.           *)
LEMMA ClaimsStay ==
  ASSUME Graphs, Claims, NEW j \in Jobs, NEW s, sync' = [sync EXCEPT ![j] = s],
         default' = default, graphs[default].online => graphs'[default].online,
         \A n \in DOMAIN graphs' : ~graphs'[n].online => n \in DOMAIN graphs /\ ~graphs[n].online,
         sync[j].pc \notin {"done", "closed", "halfway"},
         sync[j].pc = "set" =>
           (graphs[default].online \/ (s.pc = "halfway" /\ s.actual = sync[j].actual)),
         s.pc \in Promoting => Past(sync, s.actual),
         s.pc \in {"free", "context", "extract"} => s.new = NoName,
         Creator(s) =>
           \/ Creator(sync[j]) /\ s.new = sync[j].new
           \/ s.new \in GraphNames /\ \A k \in Jobs : sync[k].new # s.new
  PROVE  Claims'
<1>0. \A k \in Jobs : sync'[k] = IF k = j THEN s ELSE sync[k]
  BY DEF Graphs
<1>1. \A n : Past(sync, n) => Past(sync', n)
  BY <1>0 DEF Past
<1>2. Past(sync', default') /\ \A n \in DOMAIN graphs' : ~graphs'[n].online => Past(sync', n)
  BY <1>1 DEF Claims
<1>3. \A i \in Jobs : sync'[i].pc \in Promoting => Past(sync', sync'[i].actual)
  BY <1>0, <1>1, ZenonT(30) DEF Claims
<1>4. \A i \in Jobs : sync'[i].pc \in {"free", "context", "extract"} => sync'[i].new = NoName
  BY <1>0 DEF Claims
<1>5. \A i \in Jobs : Creator(sync'[i]) =>
        /\ sync'[i].new \in GraphNames
        /\ \A k \in Jobs \ {i} : Creator(sync'[k]) => sync'[k].new # sync'[i].new
  BY <1>0 DEF Claims
<1>6. DefaultRuns'
  <2>1. CASE graphs[default].online
    BY <2>1 DEF DefaultRuns, DefaultKeptRunning
  <2>2. CASE \E i \in Jobs : sync[i].pc \in {"set", "halfway"} /\ sync[i].actual = default
    <3>1. PICK i \in Jobs : sync[i].pc \in {"set", "halfway"} /\ sync[i].actual = default
      BY <2>2
    <3>2. CASE i = j
      BY <1>0, <2>1, <3>1, <3>2 DEF DefaultRuns, DefaultKeptRunning
    <3>3. CASE i # j
      BY <1>0, <3>1, <3>3 DEF DefaultRuns, DefaultKeptRunning
    <3> QED
      BY <3>2, <3>3
  <2>3. CASE PromotedByHand(default) /\ \E i \in Jobs : sync[i].pc = "closed" /\ sync[i].new = default
    <3>1. PICK i \in Jobs : sync[i].pc = "closed" /\ sync[i].new = default
      BY <2>3
    <3>2. PICK k \in Jobs : sync[k].expected = NoName /\ sync[k].pc \in {"done", "closed"} /\ sync[k].new = default
      BY <2>3 DEF PromotedByHand
    <3>3. sync'[i] = sync[i] /\ sync'[k] = sync[k]
      BY <1>0, <3>1, <3>2
    <3> QED
      BY <3>1, <3>2, <3>3 DEF DefaultRuns, PromotedByHand
  <2> QED
    BY <2>1, <2>2, <2>3 DEF Claims, DefaultRuns, DefaultKeptRunning
<1> QED
  BY <1>2, <1>3, <1>4, <1>5, <1>6 DEF Claims

(* Ending a job, or moving it on.                                          *)
LEMMA ToClaims ==
  ASSUME Graphs, Claims, NEW j \in Jobs, NEW step, To(j, step), UNCHANGED <<graphs, default>>,
         sync[j].pc \notin {"done", "closed", "halfway"},
         sync[j].pc = "set" => (graphs[default].online \/ step = "halfway"),
         step \in Promoting => sync[j].pc \in Promoting,
         step \in {"free", "context", "extract"} => sync[j].pc \in {"free", "context"}
  PROVE  Claims'
<1> DEFINE s == [sync[j] EXCEPT !.pc = step]
<1>1. /\ s.pc = step /\ s.new = sync[j].new /\ s.actual = sync[j].actual /\ s.expected = sync[j].expected
      /\ sync' = [sync EXCEPT ![j] = s]
  BY DEF To, Graphs, SyncSound, NoSync
<1> HIDE DEF s
<1>2. s.pc \in Promoting => Past(sync, s.actual)
  BY <1>1 DEF Claims
<1>3. s.pc \in {"free", "context", "extract"} => s.new = NoName
  BY <1>1 DEF Claims
<1>4. Creator(s) => Creator(sync[j]) /\ s.new = sync[j].new
  BY <1>1 DEF Creator
<1> QED
  BY <1>1, <1>2, <1>3, <1>4, ClaimsStay

LEMMA ConnectClaims ==
  ASSUME Graphs, Claims, NEW j \in Jobs, prepare_pg_connection(j)
  PROVE  Claims'
<1>1. UNCHANGED <<graphs, default>> /\ sync[j].pc = "free"
  BY DEF prepare_pg_connection
<1>2. To(j, "exit") \/ To(j, "context")
  BY DEF prepare_pg_connection
<1> QED
  BY <1>1, <1>2, ToClaims DEF Promoting

LEMMA ContextClaims ==
  ASSUME Graphs, Claims, NEW j \in Jobs, prepare_sync_context(j)
  PROVE  Claims'
<1>1. UNCHANGED <<graphs, default>> /\ sync[j].pc = "context"
  BY DEF prepare_sync_context
<1>2. CASE To(j, "exit")
  BY <1>1, <1>2, ToClaims DEF Promoting
<1>3. CASE sync' = [sync EXCEPT ![j].pc = "extract", ![j].expected = default]
  <2> DEFINE s == [sync[j] EXCEPT !.pc = "extract", !.expected = default]
  <2>1. sync' = [sync EXCEPT ![j] = s] /\ s.pc = "extract" /\ s.new = NoName
    BY <1>1, <1>3 DEF Graphs, SyncSound, NoSync, Claims
  <2> HIDE DEF s
  <2>2. s.pc \notin Promoting /\ ~Creator(s)
    BY <2>1 DEF Promoting, Creator
  <2> QED
    BY <1>1, <2>1, <2>2, ClaimsStay
<1> QED
  BY <1>2, <1>3 DEF prepare_sync_context, SyncExit

LEMMA SyncExtractClaims ==
  ASSUME Databases, Graphs, Claims, NEW j \in Jobs, NEW extract \in Extracts, SyncExtract(j, extract)
  PROVE  Claims'
<1> DEFINE new == generate_database_name
<1>1. default' = default /\ sync[j].pc = "extract"
  BY DEF SyncExtract
<1>2. CASE To(j, "exit") /\ UNCHANGED graphs
  BY <1>1, <1>2, ToClaims DEF Promoting
<1>3. CASE /\ new \notin DOMAIN graphs
           /\ graphs' = With(graphs, new, [online |-> TRUE, nodes |-> {}, rels |-> {}, of |-> extract])
           /\ sync' = [sync EXCEPT ![j].pc = "load", ![j].new = new, ![j].rows = extract]
  <2> DEFINE s == [sync[j] EXCEPT !.pc = "load", !.new = new, !.rows = extract]
  <2>1. new \in GraphNames
    BY DEF Databases, generate_database_name, GraphNames
  <2>2. sync' = [sync EXCEPT ![j] = s] /\ s.pc = "load" /\ s.new = new
    BY <1>3 DEF Graphs, SyncSound, NoSync
  <2> HIDE DEF s, new
  <2>3. /\ DOMAIN graphs' = DOMAIN graphs \cup {new} /\ graphs'[new].online
        /\ \A n \in DOMAIN graphs : graphs'[n] = graphs[n]
    BY <1>3 DEF With
  <2>4. \A k \in Jobs : sync[k].new # s.new
    BY <1>3, <2>1, <2>2, GraphNamesDiffer DEF Graphs, SyncSound
  <2>5. s.pc \notin Promoting
    BY <2>2 DEF Promoting
  <2>6. graphs[default].online => graphs'[default].online
    BY <2>3 DEF Graphs
  <2>7. \A n \in DOMAIN graphs' : ~graphs'[n].online => n \in DOMAIN graphs /\ ~graphs[n].online
    BY <2>3
  <2> QED
    BY <1>1, <2>1, <2>2, <2>4, <2>5, <2>6, <2>7, ClaimsStay
<1> QED
  BY <1>2, <1>3 DEF SyncExtract, SyncExit

LEMMA LoadRowsClaims ==
  ASSUME Graphs, Claims, NEW j \in Jobs, load_rows(j)
  PROVE  Claims'
<1> DEFINE new == sync[j].new
           extract == sync[j].rows
           n == sync[j].done + 1
           s == [sync[j] EXCEPT !.done = n]
           g == Merged(graphs[new], extract, n)
<1>1. /\ new \in DOMAIN graphs /\ sync[j].pc = "load"
      /\ extract \in Extracts /\ Part(graphs[new], extract)
      /\ sync[j].done \in Nat /\ sync[j].done < RowCount(extract)
  BY DEF load_rows, Graphs, SyncSound
<1>2. default' = default
  BY DEF load_rows
<1>3. CASE To(j, "exit") /\ UNCHANGED graphs
  BY <1>1, <1>2, <1>3, ToClaims DEF Promoting
<1>4. CASE sync' = [sync EXCEPT ![j].done = n] /\ (UNCHANGED graphs \/ graphs' = [graphs EXCEPT ![new] = g])
  <2>1. s.pc = "load" /\ s.new = new /\ s.expected = sync[j].expected /\ sync' = [sync EXCEPT ![j] = s]
    BY <1>1, <1>4 DEF Graphs, SyncSound, NoSync
  <2>2. g.online = graphs[new].online
    BY <1>1, MergedPart DEF Graphs
  <2> HIDE DEF g, s
  <2>3. DOMAIN graphs' = DOMAIN graphs /\ \A m \in DOMAIN graphs : graphs'[m].online = graphs[m].online
    BY <1>1, <1>4, <2>2
  <2>4. default \in DOMAIN graphs
    BY DEF Graphs
  <2>5. s.pc \notin Promoting \cup {"free", "context", "extract"}
    BY <2>1 DEF Promoting
  <2>6. Creator(s) => Creator(sync[j]) /\ s.new = sync[j].new
    BY <2>1 DEF Creator
  <2>7. graphs[default].online => graphs'[default].online
    BY <2>3, <2>4
  <2>8. \A m \in DOMAIN graphs' : ~graphs'[m].online => m \in DOMAIN graphs /\ ~graphs[m].online
    BY <2>3
  <2> QED
    BY <1>1, <1>2, <2>1, <2>5, <2>6, <2>7, <2>8, ClaimsStay
<1> QED
  BY <1>3, <1>4 DEF load_rows, SyncExit

LEMMA SyncValidateClaims ==
  ASSUME Graphs, Claims, NEW j \in Jobs, SyncValidate(j)
  PROVE  Claims'
<1>1. UNCHANGED <<graphs, default>> /\ sync[j].pc = "load"
  BY DEF SyncValidate
<1>2. To(j, "exit") \/ To(j, "promote")
  BY DEF SyncValidate, SyncExit
<1> QED
  BY <1>1, <1>2, ToClaims DEF Promoting

LEMMA RetryPromoteClaims ==
  ASSUME Graphs, Claims, NEW j \in Jobs, NEW name \in DOMAIN graphs \cup {NoSuch},
         RetryPromote(j, name)
  PROVE  Claims'
<1> DEFINE s == [sync[j] EXCEPT !.pc = "promote", !.new = name]
<1>1. sync' = [sync EXCEPT ![j] = s] /\ UNCHANGED <<graphs, default>> /\ sync[j].pc = "free"
  BY DEF RetryPromote, Graphs
<1>2. s.pc = "promote" /\ s.expected = NoName
  BY <1>1 DEF Graphs, SyncSound, NoSync
<1> HIDE DEF s
<1>3. s.pc \notin Promoting /\ ~Creator(s)
  BY <1>2 DEF Promoting, Creator
<1> QED
  BY <1>1, <1>2, <1>3, ClaimsStay

LEMMA PromoteReadClaims ==
  ASSUME Graphs, Claims, NEW j \in Jobs, PromoteRead(j)
  PROVE  Claims'
<1>1. UNCHANGED <<graphs, default>> /\ sync[j].pc = "promote"
  BY DEF PromoteRead
<1>2. CASE To(j, "exit")
  BY <1>1, <1>2, ToClaims DEF Promoting
<1>3. CASE sync' = [sync EXCEPT ![j].pc = "active", ![j].actual = default]
  <2> DEFINE s == [sync[j] EXCEPT !.pc = "active", !.actual = default]
  <2>1. /\ sync' = [sync EXCEPT ![j] = s] /\ s.pc = "active" /\ s.new = sync[j].new
        /\ s.actual = default /\ s.expected = sync[j].expected
    BY <1>3 DEF Graphs, SyncSound, NoSync
  <2> HIDE DEF s
  <2>2. Past(sync, s.actual)
    BY <2>1 DEF Claims
  <2>3. Creator(s) => Creator(sync[j]) /\ s.new = sync[j].new
    BY <2>1 DEF Creator
  <2> QED
    BY <1>1, <2>1, <2>2, <2>3, ClaimsStay
<1> QED
  BY <1>2, <1>3 DEF PromoteRead, SyncExit

LEMMA CheckActiveClaims ==
  ASSUME Graphs, Claims, NEW j \in Jobs, PromoteCheckActive(j)
  PROVE  Claims'
<1>1. UNCHANGED <<graphs, default>> /\ sync[j].pc = "active"
  BY DEF PromoteCheckActive
<1>2. To(j, "exit") \/ To(j, "stop")
  BY DEF PromoteCheckActive, SyncExit
<1> QED
  BY <1>1, <1>2, ToClaims DEF Promoting

LEMMA SyncCrashClaims ==
  ASSUME Graphs, Claims, NEW j \in Jobs, SyncCrash(j)
  PROVE  Claims'
<1>1. UNCHANGED <<graphs, default>> /\ sync[j].pc \notin {"done", "closed", "halfway"}
  BY DEF SyncCrash
<1>2. (To(j, "crashed") /\ sync[j].pc # "set") \/ To(j, "halfway")
  BY DEF SyncCrash, SyncExit
<1> QED
  BY <1>1, <1>2, ToClaims DEF Promoting

LEMMA PromoteStopClaims ==
  ASSUME Graphs, Claims, NEW j \in Jobs, PromoteStop(j)
  PROVE  Claims'
<1> DEFINE old == sync[j].actual
           s == [sync[j] EXCEPT !.pc = "set"]
<1>1. sync[j].pc = "stop" /\ default' = default
  BY DEF PromoteStop
<1>2. Past(sync, old)
  BY <1>1 DEF Claims, Promoting
<1>3. /\ sync' = [sync EXCEPT ![j] = s] /\ s.pc = "set" /\ s.new = sync[j].new /\ s.actual = old
      /\ s.expected = sync[j].expected
  BY DEF PromoteStop, To, Graphs, SyncSound, NoSync
<1>4. \A k \in Jobs : sync'[k] = IF k = j THEN s ELSE sync[k]
  BY <1>3 DEF Graphs
<1>5. DOMAIN graphs' = DOMAIN graphs /\ \A m \in DOMAIN graphs \ {old} : graphs'[m] = graphs[m]
  BY DEF PromoteStop
<1> HIDE DEF s, old
<1>6. \A n : Past(sync, n) => Past(sync', n)
  BY <1>1, <1>4 DEF Past
<1>7. Past(sync', default') /\ \A n \in DOMAIN graphs' : ~graphs'[n].online => Past(sync', n)
  BY <1>1, <1>2, <1>5, <1>6 DEF Claims
<1>8. \A i \in Jobs : sync'[i].pc \in Promoting => Past(sync', sync'[i].actual)
  BY <1>2, <1>3, <1>4, <1>6 DEF Claims
<1>9. \A i \in Jobs : sync'[i].pc \in {"free", "context", "extract"} => sync'[i].new = NoName
  BY <1>3, <1>4 DEF Claims
<1>10. \A i \in Jobs : Creator(sync'[i]) =>
         /\ sync'[i].new \in GraphNames
         /\ \A k \in Jobs \ {i} : Creator(sync'[k]) => sync'[k].new # sync'[i].new
  <2>1. \A k \in Jobs : sync'[k].new = sync[k].new /\ sync'[k].expected = sync[k].expected
    BY <1>3, <1>4
  <2> QED
    BY <2>1 DEF Claims, Creator
<1>11. DefaultRuns'
  <2>1. CASE old = default
    BY <1>1, <1>3, <1>4, <2>1 DEF DefaultRuns, DefaultKeptRunning
  <2>2. CASE old # default
    <3>1. graphs'[default] = graphs[default]
      BY <1>5, <2>2 DEF Graphs
    <3>2. \A k \in Jobs : sync[k].pc \in {"set", "halfway", "done", "closed"} => sync'[k] = sync[k]
      BY <1>1, <1>4
    <3>3. DefaultKeptRunning => DefaultKeptRunning'
      BY <1>1, <3>1, <3>2 DEF DefaultKeptRunning
    <3>4. HandMade(sync, default) => HandMade(sync', default)
      BY <3>2 DEF HandMade
    <3>5. (\E k \in Jobs : sync[k].pc = "closed" /\ sync[k].new = default)
            => \E k \in Jobs : sync'[k].pc = "closed" /\ sync'[k].new = default
      BY <3>2
    <3> QED
      BY <1>1, <3>3, <3>4, <3>5 DEF DefaultRuns, Claims, PromotedByHand, HandMade
  <2> QED
    BY <2>1, <2>2
<1> QED
  BY <1>7, <1>8, <1>9, <1>10, <1>11 DEF Claims

(* A stopped database is made the default only with the help of a          *)
(* --retry-promote: the synchronisation that created it promotes it once.  *)
LEMMA StoppedAgain ==
  ASSUME Graphs, Claims, NEW j \in Jobs, sync[j].pc = "set", ~graphs[sync[j].new].online
  PROVE  sync[j].expected = NoName \/ HandMade(sync, sync[j].new)
<1> DEFINE new == sync[j].new
<1>1. new \in DOMAIN graphs
  BY DEF Graphs, SyncSound, Promoting
<1>2. Past(sync, new)
  BY <1>1 DEF Claims
<1> SUFFICES ASSUME sync[j].expected # NoName PROVE HandMade(sync, new)
  OBVIOUS
<1>3. new # NoName
  <2>1. First # NoName
    BY ClockAssumption DEF First
  <2> QED
    BY <1>1, <2>1, GraphNamesDiffer DEF Graphs
<1>4. Creator(sync[j])
  BY <1>3 DEF Creator
<1>5. new # First
  BY <1>4, GraphNamesDiffer DEF Claims
<1>6. PICK k \in Jobs : sync[k].pc \in {"done", "closed"} /\ sync[k].new = new
  BY <1>2, <1>5 DEF Past
<1>7. k # j
  BY <1>6
<1>8. sync[k].expected = NoName
  BY <1>3, <1>4, <1>6, <1>7 DEF Claims, Creator
<1> QED
  BY <1>6, <1>8 DEF HandMade

LEMMA PromoteSetClaims ==
  ASSUME Graphs, Claims, NEW j \in Jobs, PromoteSet(j)
  PROVE  Claims'
<1> DEFINE new == sync[j].new
           step == IF graphs[new].online THEN "done" ELSE "closed"
           s == [sync[j] EXCEPT !.pc = step]
<1>1. sync[j].pc = "set" /\ UNCHANGED graphs
  BY DEF PromoteSet
<1>2. new \in DOMAIN graphs
  BY <1>1 DEF Graphs, SyncSound, Promoting
<1>3. CASE To(j, "exit") /\ graphs[default].online /\ UNCHANGED default
  BY <1>1, <1>3, ToClaims DEF Promoting
<1>4. CASE To(j, step) /\ default' = new
  <2>1. /\ sync' = [sync EXCEPT ![j] = s] /\ s.pc = step /\ s.new = new
        /\ s.expected = sync[j].expected
    BY <1>4 DEF To, Graphs, SyncSound, NoSync
  <2>2. \A k \in Jobs : sync'[k] = IF k = j THEN s ELSE sync[k]
    BY <2>1 DEF Graphs
  <2>3. step \in {"done", "closed"} /\ (step = "closed" \/ graphs[new].online)
    OBVIOUS
  <2>4. step = "closed" => sync[j].expected = NoName \/ HandMade(sync, new)
    BY <1>1, StoppedAgain
  <2> HIDE DEF s, new, step
  <2>5. Past(sync', new) /\ \A n : Past(sync, n) => Past(sync', n)
    BY <1>1, <2>1, <2>2, <2>3 DEF Past
  <2>6. \A n \in DOMAIN graphs' : ~graphs'[n].online => Past(sync', n)
    BY <1>1, <2>5 DEF Claims
  <2>7. \A i \in Jobs : sync'[i].pc \in Promoting => Past(sync', sync'[i].actual)
    BY <2>1, <2>2, <2>3, <2>5 DEF Claims, Promoting
  <2>8. \A i \in Jobs : sync'[i].pc \in {"free", "context", "extract"} => sync'[i].new = NoName
    BY <2>1, <2>2, <2>3 DEF Claims
  <2>9. \A i \in Jobs : Creator(sync'[i]) =>
          /\ sync'[i].new \in GraphNames
          /\ \A k \in Jobs \ {i} : Creator(sync'[k]) => sync'[k].new # sync'[i].new
    <3>1. \A k \in Jobs : sync'[k].new = sync[k].new /\ sync'[k].expected = sync[k].expected
      BY <2>1, <2>2 DEF new
    <3> QED
      BY <3>1 DEF Claims, Creator
  <2>10. DefaultRuns'
    <3>1. CASE graphs[new].online
      BY <1>1, <1>4, <3>1 DEF DefaultRuns, DefaultKeptRunning
    <3>2. CASE step = "closed"
      <4>1. sync'[j].pc = "closed" /\ sync'[j].new = new
        BY <2>1, <2>2, <3>2
      <4>2. HandMade(sync', new)
        BY <1>1, <2>1, <2>2, <2>4, <3>2, <4>1 DEF HandMade
      <4> QED
        BY <1>4, <4>1, <4>2 DEF DefaultRuns, PromotedByHand, HandMade
    <3> QED
      BY <2>3, <3>1, <3>2
  <2> QED
    BY <1>4, <2>5, <2>6, <2>7, <2>8, <2>9, <2>10 DEF Claims
<1> QED
  BY <1>2, <1>3, <1>4 DEF PromoteSet, SyncExit

LEMMA ClaimsStep == Databases /\ Graphs /\ Claims /\ [Next]_vars => Claims'
<1> SUFFICES ASSUME Databases, Graphs, Claims, [Next]_vars PROVE Claims'
  OBVIOUS
<1>1. CASE UNCHANGED <<graphs, default, sync>>
  BY <1>1 DEF Claims, Past, DefaultRuns, DefaultKeptRunning, PromotedByHand
<1>2. ASSUME NEW j \in Jobs, Begin(j) PROVE Claims'
  BY <1>1, <1>2, ConnectClaims, RetryPromoteClaims DEF Begin, graphVars
<1>3. ASSUME NEW j \in Jobs, SyncStep(j) \/ SyncCrash(j) PROVE Claims'
  BY <1>3, ContextClaims, SyncExtractClaims, LoadRowsClaims, SyncValidateClaims, PromoteReadClaims,
     CheckActiveClaims, PromoteStopClaims, PromoteSetClaims, SyncCrashClaims DEF SyncStep
<1>4. ASSUME NEW g \in GraphClients, GraphBegin(g) \/ GraphEnd(g) PROVE Claims'
  BY <1>1, <1>4 DEF GraphBegin, GraphEnd
<1> QED
  BY <1>1, <1>2, <1>3, <1>4 DEF Next, vars, graphVars

(* For any number of synchronisations and retries at once, the default     *)
(* graph database runs unless the very promotion that stopped it is        *)
(* between its two commands or was killed there, or a --retry-promote has  *)
(* named a database that was the default before (structured_mvp_load.py,   *)
(* retry_promote).                                                         *)
THEOREM DefaultRunsCorrect == Spec => []DefaultRuns
<1>1. Spec => []Databases /\ []Graphs
  BY DatabasesInvariant, GraphsInvariant
<1>2. Claims => DefaultRuns
  BY DEF Claims
<1> QED
  BY <1>1, <1>2, ClaimsInit, ClaimsStep, PTL DEF Spec

-----------------------------------------------------------------------------
(***************************************************************************)
(* The two loops of an evaluation.                                         *)
(***************************************************************************)
JobFields ==
  {"pc", "selected", "runs", "mode", "gold", "dirty", "model", "snapshot", "compared",
   "records", "at", "run"}

RecordStatuses == {"PASS", "FAIL", "ERROR", "GOLD_VALIDATED"}

\* Some record is of this case and run.
Recorded(records, c, n) == \E i \in DOMAIN records : records[i].case = c /\ records[i].run = n

\* What holds of a job whatever its records are.
JobOptions(j) ==
  /\ DOMAIN j = JobFields
  /\ Len(j.selected) \in Nat /\ DOMAIN j.selected = 1 .. Len(j.selected)
  /\ j.runs \in Nat /\ j.runs >= 1 /\ j.gold \in BOOLEAN

\* The records are those of every earlier case, and of the earlier runs of
\* the current one, and there are no others.
JobRecords(j) ==
  /\ j.at \in 1 .. (Len(j.selected) + 1) /\ j.run \in 1 .. Repeats(j)
  /\ j.at = Len(j.selected) + 1 => j.run = 1
  /\ j.records \in Seq([case : Elems(j.selected), run : Nat, status : RecordStatuses])
  /\ Len(j.records) = (j.at - 1) * Repeats(j) + (j.run - 1)
  /\ \A k \in 1 .. Len(j.selected), n \in 1 .. Repeats(j) :
       k < j.at \/ (k = j.at /\ n < j.run) => Recorded(j.records, j.selected[k], n)

JobInv == job # NoJob => JobOptions(job) /\ JobRecords(job)

LEMMA NextRow ==
  ASSUME NEW k \in Nat, NEW n \in Nat, NEW len \in Nat, len = (k - 1) * n + (n - 1)
  PROVE  len + 1 = k * n
<1>1. (k - 1) * n = k * n - n
  OBVIOUS
<1>. QED BY <1>1

LEMMA RecordedMore ==
  ASSUME NEW S, NEW records \in Seq(S), NEW r \in S
  PROVE  /\ Recorded(Append(records, r), r.case, r.run)
         /\ \A c, n : Recorded(records, c, n) => Recorded(Append(records, r), c, n)
<1>. DEFINE more == Append(records, r)
<1>1. /\ DOMAIN more = 1 .. (Len(records) + 1) /\ more[Len(records) + 1] = r
      /\ \A i \in DOMAIN records : i \in DOMAIN more /\ more[i] = records[i]
      /\ Len(records) \in Nat
  OBVIOUS
<1>. HIDE DEF more
<1>2. Len(records) + 1 \in DOMAIN more
  BY <1>1
<1>3. /\ Recorded(more, r.case, r.run)
      /\ \A c, n : Recorded(records, c, n) => Recorded(more, c, n)
  BY <1>1, <1>2 DEF Recorded
<1>. QED BY <1>3 DEF more

LEMMA RecordKeeps ==
  ASSUME NEW j, JobOptions(j), JobRecords(j), TrialLeft(j), NEW s \in RecordStatuses
  PROVE  JobOptions(Record(j, s)) /\ JobRecords(Record(j, s))
<1>. DEFINE r == [case |-> CaseAt(j), run |-> j.run, status |-> s]
            h == Record(j, s)
            R == [case : Elems(j.selected), run : Nat, status : RecordStatuses]
<1>0. Repeats(j) \in Nat /\ Repeats(j) >= 1
  BY DEF JobOptions, Repeats
<1>1. r \in R
  BY <1>0 DEF JobOptions, JobRecords, TrialLeft, CaseAt, Elems
<1>2. /\ DOMAIN h = DOMAIN j
      /\ h.records = Append(j.records, r)
      /\ h.at = IF j.run = Repeats(j) THEN j.at + 1 ELSE j.at
      /\ h.run = IF j.run = Repeats(j) THEN 1 ELSE j.run + 1
      /\ h.selected = j.selected /\ h.runs = j.runs /\ h.gold = j.gold
  BY DEF Record, JobOptions, JobFields
<1>3. Repeats(h) = Repeats(j)
  BY <1>2 DEF Repeats
<1>4. JobOptions(h)
  BY <1>2 DEF JobOptions
<1>. HIDE DEF h, R, r
<1>5. h.records \in Seq(R) /\ Len(h.records) = Len(j.records) + 1 /\ Len(j.records) \in Nat
  BY <1>1, <1>2 DEF JobRecords, R
<1>6. /\ h.at \in 1 .. (Len(h.selected) + 1) /\ h.run \in 1 .. Repeats(h)
      /\ h.at = Len(h.selected) + 1 => h.run = 1
  <2>1. /\ Len(j.selected) \in Nat /\ j.at \in 1 .. (Len(j.selected) + 1)
        /\ j.at <= Len(j.selected) /\ j.run \in 1 .. Repeats(j)
    BY DEF JobOptions, JobRecords, TrialLeft
  <2>2. CASE j.run = Repeats(j)
    BY <2>1, <2>2, <1>0, <1>2, <1>3
  <2>3. CASE j.run # Repeats(j)
    BY <2>1, <2>3, <1>0, <1>2, <1>3
  <2>. QED BY <2>2, <2>3
<1>7. Len(h.records) = (h.at - 1) * Repeats(h) + (h.run - 1)
  <2>1. CASE j.run = Repeats(j)
    <3>1. Len(h.records) = j.at * Repeats(j)
      BY <2>1, <1>0, <1>5, NextRow DEF JobOptions, JobRecords
    <3>2. h.at = j.at + 1 /\ h.run = 1
      BY <2>1, <1>2
    <3>3. j.at \in Nat
      BY DEF JobRecords, JobOptions
    <3>4. h.at - 1 = j.at /\ h.run - 1 = 0
      BY <3>2, <3>3
    <3>. QED BY <3>1, <3>3, <3>4, <1>0, <1>3
  <2>2. CASE j.run # Repeats(j)
    <3>1. h.at = j.at /\ h.run = j.run + 1
      BY <2>2, <1>2
    <3>2. Len(j.records) = (j.at - 1) * Repeats(j) + (j.run - 1)
      BY DEF JobRecords
    <3>3. (j.at - 1) * Repeats(j) \in Int /\ j.run \in Int
      BY <1>0 DEF JobRecords, JobOptions
    <3>. QED BY <3>1, <3>2, <3>3, <1>3, <1>5
  <2>. QED BY <2>1, <2>2
<1>8. \A k \in 1 .. Len(h.selected), n \in 1 .. Repeats(h) :
        k < h.at \/ (k = h.at /\ n < h.run) => Recorded(h.records, h.selected[k], n)
  <2>. SUFFICES ASSUME NEW k \in 1 .. Len(h.selected), NEW n \in 1 .. Repeats(h),
                       k < h.at \/ (k = h.at /\ n < h.run)
                PROVE  Recorded(h.records, h.selected[k], n)
    OBVIOUS
  <2>1. k < j.at \/ (k = j.at /\ n < j.run) \/ (k = j.at /\ n = j.run)
    BY <1>0, <1>2, <1>3, SMTT(30) DEF JobOptions, JobRecords
  <2>2. Recorded(Append(j.records, r), r.case, r.run)
    BY <1>1, RecordedMore DEF JobRecords, R
  <2>3. \A c, m : Recorded(j.records, c, m) => Recorded(Append(j.records, r), c, m)
    BY <1>1, RecordedMore DEF JobRecords, R
  <2>4. CASE k = j.at /\ n = j.run
    BY <2>2, <2>4, <1>2 DEF r, CaseAt
  <2>5. CASE k < j.at \/ (k = j.at /\ n < j.run)
    <3>1. Recorded(j.records, j.selected[k], n)
      BY <2>5, <1>2, <1>3 DEF JobRecords
    <3>. QED BY <3>1, <2>3, <1>2
  <2>. QED BY <2>1, <2>4, <2>5
<1>9. h.records \in Seq([case : Elems(h.selected), run : Nat, status : RecordStatuses])
  BY <1>2, <1>5 DEF R
<1>10. JobRecords(h)
  BY <1>6, <1>7, <1>8, <1>9 DEF JobRecords
<1>. QED BY <1>4, <1>10 DEF h

LEMMA SelectedSeq ==
  ASSUME NEW s \in _select_cases
  PROVE  Len(s) \in Nat /\ DOMAIN s = 1 .. Len(s)
<1>1. PICK ids \in SUBSET Cases : s = Selected(ids)
  BY DEF _select_cases
<1>. DEFINE at == {p \in DOMAIN Manifest : Manifest[p] \in ids}
            pick(k) == Manifest[CHOOSE p \in at : Cardinality({q \in at : q <= p}) = k]
<1>2. IsFiniteSet(at)
  <2>1. DOMAIN Manifest = 1 .. Len(Manifest) /\ Len(Manifest) \in Int
    BY ManifestAssumption
  <2>2. IsFiniteSet(1 .. Len(Manifest))
    BY <2>1, FS_Interval
  <2>. QED BY <2>1, <2>2, FS_Subset
<1>3. Cardinality(at) \in Nat
  BY <1>2, FS_CardinalityType
<1>4. s = [k \in 1 .. Cardinality(at) |-> pick(k)]
  BY <1>1 DEF Selected
<1>. HIDE DEF at, pick
<1>. QED BY <1>3, <1>4

LEMMA JobInit == EvaluationInit => JobInv
BY DEF EvaluationInit, JobInv

LEMMA JobStep == JobInv /\ [EvaluationNext]_evaluationVars => JobInv'
<1>. SUFFICES ASSUME JobInv, [EvaluationNext]_evaluationVars PROVE JobInv'
  OBVIOUS
<1>1. ASSUME NEW s \in _select_cases, NEW n \in RunCounts, NEW m \in Modes,
             NEW gold \in BOOLEAN, NEW dirty \in BOOLEAN, NEW compared \in BOOLEAN,
             NEW model \in Models, Start(s, n, m, gold, dirty, model, compared)
      PROVE  JobInv'
  <2>1. CASE job' = NoJob
    BY <2>1 DEF JobInv
  <2>2. CASE job' # NoJob
    <3>1. /\ job' = [pc |-> "connect", selected |-> s, runs |-> n, mode |-> m,
                     gold |-> gold, dirty |-> dirty, model |-> model,
                     snapshot |-> BadSnapshot, compared |-> compared, records |-> <<>>,
                     at |-> 1, run |-> 1]
          /\ n >= 1
      BY <1>1, <2>2 DEF Start, Abort
    <3>2. n \in Nat
      BY RunsAssumption
    <3>3. Len(s) \in Nat /\ DOMAIN s = 1 .. Len(s)
      BY SelectedSeq
    <3>4. JobOptions(job')
      BY <3>1, <3>2, <3>3 DEF JobOptions, JobFields
    <3>5. Repeats(job') \in Nat /\ Repeats(job') >= 1
      BY <3>4 DEF JobOptions, Repeats
    <3>6. s # <<>>
      BY <1>1, <2>2 DEF Start, Abort
    <3>7. Len(s) >= 1
      <4>1. Len(s) = 0 => s = <<>>
        BY <3>3
      <4>. QED BY <4>1, <3>3, <3>6
    <3>8. JobRecords(job')
      <4>1. /\ job'.records = <<>> /\ job'.at = 1 /\ job'.run = 1 /\ job'.selected = s
        BY <3>1
      <4>2. (1 - 1) * Repeats(job') + (1 - 1) = 0
        BY <3>5
      <4>. QED BY <4>1, <4>2, <3>3, <3>5, <3>7 DEF JobRecords
    <3>. QED BY <3>4, <3>8 DEF JobInv
  <2>. QED BY <2>1, <2>2
<1>2. CASE Connect
  <2>1. CASE job' = [job EXCEPT !.pc = "snapshot"]
    BY <1>2, <2>1 DEF Connect, JobInv, JobOptions, JobRecords, JobFields, Repeats
  <2>. QED BY <1>2, <2>1 DEF Connect, Abort, JobInv
<1>3. CASE validate_snapshot
  <2>1. CASE job' = [job EXCEPT !.pc = "trials", !.snapshot = data]
    BY <1>3, <2>1 DEF validate_snapshot, JobInv, JobOptions, JobRecords, JobFields, Repeats
  <2>. QED BY <1>3, <2>1 DEF validate_snapshot, Abort, JobInv
<1>4. ASSUME NEW status \in {"PASS", "FAIL", "ERROR"}, NEW right \in BOOLEAN,
             Trial([status |-> status, right |-> right])
      PROVE  JobInv'
  <2>1. /\ job # NoJob /\ TrialLeft(job) /\ job' = Record(job, status)
    BY <1>4 DEF Trial
  <2>2. JobOptions(job) /\ JobRecords(job) /\ status \in RecordStatuses
    BY <2>1 DEF JobInv, RecordStatuses
  <2>3. JobOptions(Record(job, status)) /\ JobRecords(Record(job, status))
    BY <2>1, <2>2, RecordKeeps
  <2>. QED BY <2>1, <2>3 DEF JobInv
<1>5. CASE GoldTrial
  <2>1. CASE job' = Record(job, "GOLD_VALIDATED")
    <3>1. job # NoJob /\ TrialLeft(job)
      BY <1>5 DEF GoldTrial
    <3>2. JobOptions(job) /\ JobRecords(job) /\ "GOLD_VALIDATED" \in RecordStatuses
      BY <3>1 DEF JobInv, RecordStatuses
    <3>3. /\ JobOptions(Record(job, "GOLD_VALIDATED"))
          /\ JobRecords(Record(job, "GOLD_VALIDATED"))
      BY <3>1, <3>2, RecordKeeps
    <3>. QED BY <2>1, <3>3 DEF JobInv
  <2>. QED BY <1>5, <2>1 DEF GoldTrial, Abort, JobInv
<1>6. CASE Finish \/ TrialRaises
  BY <1>6 DEF Finish, TrialRaises, Abort, JobInv
<1>7. CASE write_stability_policy
  BY <1>7 DEF write_stability_policy, JobInv
<1>8. CASE Accept
  BY <1>8 DEF Accept, JobInv
<1>9. CASE Refresh
  BY <1>9 DEF Refresh, JobInv
<1>10. CASE UNCHANGED evaluationVars
  BY <1>10 DEF evaluationVars, JobInv
<1>11. ASSUME \E s \in _select_cases, n \in RunCounts, m \in Modes,
                 gold, dirty, compared \in BOOLEAN, model \in Models :
                Start(s, n, m, gold, dirty, model, compared)
       PROVE  JobInv'
  BY <1>1, <1>11
<1>12. ASSUME \E status \in {"PASS", "FAIL", "ERROR"}, right \in BOOLEAN :
                Trial([status |-> status, right |-> right])
       PROVE  JobInv'
  BY <1>4, <1>12
<1>. QED BY <1>2, <1>3, <1>5, <1>6, <1>7, <1>8, <1>9, <1>10, <1>11, <1>12
         DEF EvaluationNext

-----------------------------------------------------------------------------
(***************************************************************************)
(* Which actions write the policy, the baseline and the verdict.           *)
(***************************************************************************)
AnyTrial ==
  \E status \in {"PASS", "FAIL", "ERROR"}, right \in BOOLEAN :
    Trial([status |-> status, right |-> right])

LEMMA Writers ==
  ASSUME [EvaluationNext]_evaluationVars
  PROVE  /\ policy' = policy \/ write_stability_policy
         /\ ratchet' = ratchet \/ Accept
         /\ sound' = sound \/ AnyTrial
<1>1. ASSUME \E s \in _select_cases, n \in RunCounts, m \in Modes,
               gold, dirty, compared \in BOOLEAN, model \in Models :
               Start(s, n, m, gold, dirty, model, compared)
      PROVE  policy' = policy /\ ratchet' = ratchet /\ sound' = sound
  BY <1>1 DEF Start
<1>2. ASSUME AnyTrial PROVE policy' = policy /\ ratchet' = ratchet
  BY <1>2 DEF AnyTrial, Trial
<1>3. ASSUME Connect \/ validate_snapshot \/ TrialRaises \/ GoldTrial \/ Finish \/ Refresh
      PROVE  policy' = policy /\ ratchet' = ratchet /\ sound' = sound
  BY <1>3 DEF Connect, validate_snapshot, TrialRaises, GoldTrial, Finish, Refresh
<1>4. write_stability_policy => ratchet' = ratchet /\ sound' = sound
  BY DEF write_stability_policy
<1>5. Accept => policy' = policy /\ sound' = sound
  BY DEF Accept
<1>6. CASE UNCHANGED evaluationVars
  BY <1>6 DEF evaluationVars
<1>. QED BY <1>1, <1>2, <1>3, <1>4, <1>5, <1>6 DEF EvaluationNext, AnyTrial

-----------------------------------------------------------------------------
(***************************************************************************)
(* The artifact.                                                           *)
(***************************************************************************)

\* Every step leaves the artifact alone, discards it, writes the empty one of
\* a job that could not run, or is Finish.
LEMMA ArtifactChanges ==
  ASSUME EvaluationNext
  PROVE  \/ artifact' = artifact
         \/ artifact' = NoArtifact
         \/ artifact'.infra /\ artifact'.kind = "error"
         \/ Finish
<1>1. ASSUME NEW j, Abort(j) PROVE artifact'.infra /\ artifact'.kind = "error"
  BY <1>1 DEF Abort, Written
<1>2. ASSUME \E s \in _select_cases, n \in RunCounts, m \in Modes,
               gold, dirty, compared \in BOOLEAN, model \in Models :
               Start(s, n, m, gold, dirty, model, compared)
      PROVE  artifact' = NoArtifact \/ (artifact'.infra /\ artifact'.kind = "error")
  BY <1>1, <1>2 DEF Start
<1>3. CASE Connect
  BY <1>1, <1>3 DEF Connect
<1>4. CASE validate_snapshot
  BY <1>1, <1>4 DEF validate_snapshot
<1>5. ASSUME \E status \in {"PASS", "FAIL", "ERROR"}, right \in BOOLEAN :
               Trial([status |-> status, right |-> right])
      PROVE  artifact' = artifact
  BY <1>5 DEF Trial
<1>6. CASE GoldTrial \/ TrialRaises
  BY <1>1, <1>6 DEF GoldTrial, TrialRaises
<1>. QED BY <1>2, <1>3, <1>4, <1>5, <1>6
         DEF EvaluationNext, write_stability_policy, Accept, Refresh

LEMMA FinishComplete ==
  ASSUME JobInv, Finish PROVE ArtifactComplete'
<1>. DEFINE a == artifact'
            repeats == IF a.kind = "gold" THEN 1 ELSE a.runs
            at(c, n) == {i \in DOMAIN a.records : a.records[i].case = c /\ a.records[i].run = n}
<1>. SUFFICES ASSUME ~a.infra
              PROVE  /\ Len(a.records) = Len(a.selected) * repeats
                     /\ \A c \in Elems(a.selected), n \in 1 .. repeats :
                          /\ at(c, n) # {}
                          /\ \A i \in at(c, n) : a.records[i].status # "ERROR"
  BY DEF ArtifactComplete
<1>1. /\ job # NoJob /\ ~TrialLeft(job)
      /\ a.kind = IF job.gold THEN "gold" ELSE "run"
      /\ a.records = job.records /\ a.selected = job.selected /\ a.runs = job.runs
      /\ a.infra = InfrastructureError(job.records)
  BY DEF Finish, Written
<1>2. JobOptions(job) /\ JobRecords(job)
  BY <1>1 DEF JobInv
<1>3. repeats = Repeats(job) /\ Repeats(job) \in Nat
  BY <1>1, <1>2 DEF Repeats, JobOptions
<1>4. job.at = Len(job.selected) + 1 /\ job.run = 1 /\ Len(job.selected) \in Nat
  BY <1>1, <1>2 DEF TrialLeft, JobOptions, JobRecords
<1>5. Len(job.records) = Len(job.selected) * Repeats(job)
  <2>1. Len(job.records) = (job.at - 1) * Repeats(job) + (job.run - 1)
    BY <1>2 DEF JobRecords
  <2>2. job.at - 1 = Len(job.selected) /\ job.run - 1 = 0
    BY <1>4
  <2>. QED BY <2>1, <2>2, <1>3, <1>4
<1>6. \A i \in DOMAIN job.records : job.records[i].status # "ERROR"
  BY <1>1 DEF InfrastructureError
<1>7. ASSUME NEW c \in Elems(job.selected), NEW n \in 1 .. Repeats(job)
      PROVE  Recorded(job.records, c, n)
  <2>1. PICK k \in 1 .. Len(job.selected) : job.selected[k] = c
    BY <1>2 DEF Elems, JobOptions
  <2>. QED BY <2>1, <1>2, <1>4 DEF JobRecords
<1>. HIDE DEF a, repeats
<1>. QED BY <1>1, <1>3, <1>5, <1>6, <1>7 DEF Recorded

LEMMA ArtifactStep ==
  JobInv /\ ArtifactComplete /\ [EvaluationNext]_evaluationVars => ArtifactComplete'
<1>. SUFFICES ASSUME JobInv, ArtifactComplete, [EvaluationNext]_evaluationVars
              PROVE  ArtifactComplete'
  OBVIOUS
<1>1. CASE Finish
  BY <1>1, FinishComplete
<1>2. CASE artifact' = artifact
  BY <1>2 DEF ArtifactComplete
<1>3. CASE artifact' = NoArtifact \/ artifact'.infra
  BY <1>3 DEF ArtifactComplete
<1>. QED BY <1>1, <1>2, <1>3, ArtifactChanges DEF evaluationVars

(***************************************************************************)
(* An evaluation.json without an infrastructure error is complete, for     *)
(* every manifest, selection and number of runs (runner.py, run).          *)
(***************************************************************************)
THEOREM ArtifactsComplete == EvaluationSpec => []ArtifactComplete
<1>1. EvaluationInit => ArtifactComplete
  BY DEF EvaluationInit, ArtifactComplete
<1>. QED BY <1>1, JobInit, JobStep, ArtifactStep, PTL DEF EvaluationSpec

-----------------------------------------------------------------------------
(***************************************************************************)
(* The gate and the ratchet.                                               *)
(***************************************************************************)
Passed(records) == {c \in CasesOf(records) : Statuses(records, c) = {"PASS"}}

\* What the gate has found of an artifact it passed, of the policy and the
\* baseline as they are now.
Judged(a, p, r) ==
  /\ ~a.dirty /\ a.mode = "orchestrator"
  /\ CasesOf(a.records) = DOMAIN p.cases
  /\ \A c \in DOMAIN p.cases : p.cases[c] = "CONSISTENT_PASS" => c \in Passed(a.records)
  /\ a.compared /\ r # NoRatchet => r.passed \subseteq Passed(a.records)

GateInv ==
  /\ policy # NoPolicy => policy.mode = "orchestrator"
  /\ ratchet # NoRatchet => ratchet.passed \subseteq ratchet.cases
  /\ artifact # NoArtifact /\ artifact.kind = "run" /\ artifact.gate = "PASS" =>
       Judged(artifact, policy, ratchet)

LEMMA NoFailures ==
  ASSUME NEW S, NEW records \in Seq(S), NEW c \in CasesOf(records),
         ~(Failures(records, c) > 0)
  PROVE  c \in Passed(records)
<1>. DEFINE F == {i \in Trials(records, c) : records[i].status # "PASS"}
<1>1. IsFiniteSet(F)
  <2>1. DOMAIN records = 1 .. Len(records) /\ Len(records) \in Int
    OBVIOUS
  <2>2. IsFiniteSet(1 .. Len(records))
    BY <2>1, FS_Interval
  <2>3. F \in SUBSET (1 .. Len(records))
    BY <2>1 DEF Trials
  <2>. QED BY <2>2, <2>3, FS_Subset
<1>2. F = {}
  <2>1. Cardinality(F) \in Nat
    BY <1>1, FS_CardinalityType
  <2>2. Cardinality(F) = 0
    BY <2>1 DEF Failures
  <2>. QED BY <1>1, <2>2, FS_EmptySet
<1>3. PICK i \in DOMAIN records : records[i].case = c
  BY DEF CasesOf
<1>4. Statuses(records, c) = {"PASS"}
  BY <1>2, <1>3 DEF Statuses, Trials
<1>. QED BY <1>4 DEF Passed

LEMMA FinishJudged ==
  ASSUME JobInv, GateInv, Finish, artifact'.kind = "run", artifact'.gate = "PASS"
  PROVE  Judged(artifact', policy, ratchet)
<1>. DEFINE base == IF job.compared THEN ratchet ELSE NoRatchet
            S == [case : Elems(job.selected), run : Nat, status : RecordStatuses]
<1>1. /\ job # NoJob /\ ~job.gold
      /\ artifact'.records = job.records /\ artifact'.dirty = job.dirty
      /\ artifact'.mode = job.mode /\ artifact'.compared = job.compared
      /\ build_change_regression_gate(job, policy, base) = "PASS"
  BY DEF Finish, Written
<1>2. job.records \in Seq(S)
  BY <1>1 DEF JobInv, JobRecords
<1>. HIDE DEF base, S
<1>3. /\ policy # NoPolicy /\ ~PolicyErrors(job, policy)
      /\ base # NoRatchet => ~RatchetErrors(job, base)
      /\ \A c \in CasesOf(job.records) :
           ~Regressed(job.records, c,
                      IF c \in DOMAIN policy.cases THEN policy.cases[c] ELSE "none",
                      c \in (IF base = NoRatchet THEN {} ELSE base.passed))
  BY <1>1 DEF build_change_regression_gate
<1>4. ~job.dirty /\ job.mode = "orchestrator" /\ CasesOf(job.records) = DOMAIN policy.cases
  BY <1>3 DEF PolicyErrors, GateInv
<1>5. ASSUME NEW c \in DOMAIN policy.cases, policy.cases[c] = "CONSISTENT_PASS"
      PROVE  c \in Passed(job.records)
  <2>1. ~(Failures(job.records, c) > 0)
    BY <1>3, <1>4, <1>5 DEF Regressed
  <2>. QED BY <2>1, <1>2, <1>4, NoFailures
<1>6. ASSUME job.compared, ratchet # NoRatchet, NEW c \in ratchet.passed
      PROVE  c \in Passed(job.records)
  <2>1. base = ratchet
    BY <1>6 DEF base
  <2>2. c \in CasesOf(job.records)
    BY <1>3, <1>6, <2>1 DEF RatchetErrors, GateInv
  <2>3. ~(Failures(job.records, c) > 0)
    BY <1>3, <1>6, <2>1, <2>2 DEF Regressed
  <2>. QED BY <2>2, <2>3, <1>2, NoFailures
<1>. QED BY <1>1, <1>4, <1>5, <1>6 DEF Judged

LEMMA GateStep ==
  JobInv /\ GateInv /\ [EvaluationNext]_evaluationVars => GateInv'
<1>. SUFFICES ASSUME JobInv, GateInv, [EvaluationNext]_evaluationVars PROVE GateInv'
  OBVIOUS
<1>1. CASE Finish
  <2>1. policy' = policy /\ ratchet' = ratchet
    BY <1>1 DEF Finish
  <2>. QED BY <1>1, <2>1, FinishJudged DEF GateInv
<1>2. CASE write_stability_policy
  <2>1. /\ policy' = build_stability_policy(artifact) /\ PolicyPossible(artifact)
        /\ artifact' = artifact /\ ratchet' = ratchet
    BY <1>2 DEF write_stability_policy
  <2>2. /\ policy'.mode = "orchestrator" /\ artifact.mode = "orchestrator" /\ ~artifact.dirty
        /\ policy'.cases = [c \in CasesOf(artifact.records) |->
                              Outcome(Statuses(artifact.records, c))]
    BY <2>1 DEF build_stability_policy, PolicyPossible
  <2>3. \A c \in CasesOf(artifact.records) :
          policy'.cases[c] = "CONSISTENT_PASS" => c \in Passed(artifact.records)
    BY <2>2 DEF Outcome, Passed
  <2>. QED BY <2>1, <2>2, <2>3 DEF GateInv, Judged
<1>3. CASE Accept
  <2>1. /\ ratchet' = _load_ratchet_baseline(artifact)
        /\ artifact' = artifact /\ policy' = policy
    BY <1>3 DEF Accept
  <2>2. ratchet'.passed = Passed(artifact.records) /\ ratchet'.cases = CasesOf(artifact.records)
    BY <2>1 DEF _load_ratchet_baseline, Passed
  <2>3. ratchet'.passed \subseteq ratchet'.cases
    BY <2>2 DEF Passed
  <2>. QED BY <2>1, <2>2, <2>3 DEF GateInv, Judged
<1>4. CASE /\ policy' = policy /\ ratchet' = ratchet
           /\ artifact' = artifact \/ artifact' = NoArtifact \/ artifact'.kind = "error"
  BY <1>4 DEF GateInv
<1>5. CASE UNCHANGED evaluationVars
  BY <1>4, <1>5 DEF evaluationVars
<1>. QED BY <1>1, <1>2, <1>3, <1>4, <1>5, Writers, ArtifactChanges

LEMMA RatchetStep ==
  ASSUME GateInv, [EvaluationNext]_evaluationVars, ratchet' # ratchet
  PROVE  /\ ratchet # NoRatchet => ratchet.passed \subseteq ratchet'.passed
         /\ ~ratchet'.dirty /\ ratchet'.mode = "orchestrator"
         /\ ratchet'.cases = DOMAIN policy.cases
         /\ \A c \in DOMAIN policy.cases :
              policy.cases[c] = "CONSISTENT_PASS" => c \in ratchet'.passed
<1>1. Accept
  BY Writers
<1>2. /\ artifact # NoArtifact /\ artifact.kind = "run" /\ artifact.gate = "PASS"
      /\ artifact.compared \/ ratchet = NoRatchet
      /\ ratchet' = _load_ratchet_baseline(artifact)
  BY <1>1 DEF Accept
<1>3. Judged(artifact, policy, ratchet)
  BY <1>2 DEF GateInv
<1>4. /\ ratchet'.passed = Passed(artifact.records)
      /\ ratchet'.cases = CasesOf(artifact.records)
      /\ ratchet'.dirty = artifact.dirty /\ ratchet'.mode = artifact.mode
  BY <1>2 DEF _load_ratchet_baseline, Passed
<1>. QED BY <1>2, <1>3, <1>4 DEF Judged

(***************************************************************************)
(* Over every sequence of accepted candidates a case that passed goes on   *)
(* passing, whatever was selected, refreshed or made the policy in between *)
(* (gates.py, build_change_regression_gate).                               *)
(***************************************************************************)
THEOREM RatchetOneWay == EvaluationSpec => RatchetTurnsOneWay
<1>1. EvaluationInit => GateInv
  BY DEF EvaluationInit, GateInv
<1>2. GateInv /\ [EvaluationNext]_evaluationVars =>
        [ ratchet' # ratchet =>
            /\ ratchet # NoRatchet => ratchet.passed \subseteq ratchet'.passed
            /\ ~ratchet'.dirty /\ ratchet'.mode = "orchestrator"
            /\ ratchet'.cases = DOMAIN policy.cases
            /\ \A c \in DOMAIN policy.cases :
                 policy.cases[c] = "CONSISTENT_PASS" => c \in ratchet'.passed
        ]_evaluationVars
  BY RatchetStep
<1>. QED BY <1>1, <1>2, JobInit, JobStep, GateStep, PTL DEF EvaluationSpec, RatchetTurnsOneWay

-----------------------------------------------------------------------------
(***************************************************************************)
(* Induction over the naturals, on sets.                                   *)
(***************************************************************************)
LEMMA LeastNatural ==
  ASSUME NEW T \in SUBSET Nat, T # {}
  PROVE  \E x \in T : \A y \in T : x <= y
<1>. DEFINE R == OpToRel(<, Nat)
<1>1. IsWellFoundedOn(R, Nat)
  BY NatLessThanWellFounded
<1>2. \A x, y \in Nat : y < x => <<y, x>> \in R
  BY DEF OpToRel
<1>. HIDE DEF R
<1>3. \E x \in T : \A y \in T : ~(<<y, x>> \in R)
  BY <1>1, WFMin
<1>4. PICK x \in T : \A y \in T : ~(<<y, x>> \in R)
  BY <1>3
<1>5. \A y \in T : ~(y < x)
  BY <1>2, <1>4
<1>. QED BY <1>5

LEMMA SetInduction ==
  ASSUME NEW S \in SUBSET Nat, 0 \in S, \A n \in S : n + 1 \in S
  PROVE  \A n \in Nat : n \in S
<1>. SUFFICES ASSUME Nat \ S # {} PROVE FALSE
  OBVIOUS
<1>1. PICK x \in Nat \ S : \A y \in Nat \ S : x <= y
  BY LeastNatural
<1>2. x # 0 /\ x - 1 \in Nat
  BY <1>1
<1>3. x - 1 \in S
  BY <1>1, <1>2
<1>. QED BY <1>1, <1>2, <1>3

-----------------------------------------------------------------------------
(***************************************************************************)
(* The two loops over a contract's subqueries.                             *)
(***************************************************************************)
MapLoop(contract, subs, g, k) ==
  IF k = 0 THEN [e \in {} |-> ""] ELSE MapOne(subs, g[k - 1], contract.subs[k])

LEMMA MappingDefined ==
  ASSUME NEW contract, Len(contract.subs) \in Nat, NEW subs
  PROVE  \E g : /\ g = [k \in 0 .. Len(contract.subs) |-> MapLoop(contract, subs, g, k)]
                /\ IdMapping(contract, subs) = g[Len(contract.subs)]
<1>. DEFINE n == Len(contract.subs)
            Good == {m \in Nat : \E g : \A k \in 0 .. n :
                       k <= m => g[k] = MapLoop(contract, subs, g, k)}
<1>1. 0 \in Good
  <2>1. \A k \in 0 .. n : k <= 0 => [i \in 0 .. n |-> [e \in {} |-> ""]][k] =
                             MapLoop(contract, subs, [i \in 0 .. n |-> [e \in {} |-> ""]], k)
    BY DEF MapLoop
  <2>. QED BY <2>1
<1>2. \A m \in Good : m + 1 \in Good
  <2>. SUFFICES ASSUME NEW m \in Good PROVE m + 1 \in Good
    OBVIOUS
  <2>1. PICK g : \A k \in 0 .. n : k <= m => g[k] = MapLoop(contract, subs, g, k)
    OBVIOUS
  <2>. DEFINE h == [k \in 0 .. n |-> MapLoop(contract, subs, g, k)]
  <2>2. ASSUME NEW k \in 0 .. n, k <= m + 1
        PROVE  h[k] = MapLoop(contract, subs, h, k)
    <3>1. h[k] = MapLoop(contract, subs, g, k)
      OBVIOUS
    <3>2. CASE k = 0
      BY <3>1, <3>2 DEF MapLoop
    <3>3. CASE k # 0
      <4>1. k - 1 \in 0 .. n /\ k - 1 <= m
        BY <2>2, <3>3
      <4>2. h[k - 1] = g[k - 1]
        BY <2>1, <4>1
      <4>. QED BY <3>1, <3>3, <4>2 DEF MapLoop
    <3>. QED BY <3>2, <3>3
  <2>3. \E f : \A k \in 0 .. n : k <= m + 1 => f[k] = MapLoop(contract, subs, f, k)
    <3>. HIDE DEF h
    <3>. QED BY <2>2
  <2>. QED BY <2>3
<1>3. n \in Good
  <2>. HIDE DEF Good, n
  <2>1. Good \in SUBSET Nat
    BY DEF Good
  <2>2. n \in Nat
    BY DEF n
  <2>. QED BY <1>1, <1>2, <2>1, <2>2, SetInduction
<1>4. PICK g : \A k \in 0 .. n : k <= n => g[k] = MapLoop(contract, subs, g, k)
  BY <1>3
<1>. DEFINE f == [k \in 0 .. n |-> g[k]]
<1>5. f = [k \in 0 .. n |-> MapLoop(contract, subs, f, k)]
  <2>1. \A k \in 0 .. n : g[k] = MapLoop(contract, subs, g, k)
    BY <1>4
  <2>2. \A k \in 0 .. n : MapLoop(contract, subs, g, k) = MapLoop(contract, subs, f, k)
    BY DEF MapLoop
  <2>. QED BY <2>1, <2>2
<1>. DEFINE c == CHOOSE u : u = [k \in 0 .. n |-> MapLoop(contract, subs, u, k)]
<1>6. c = [k \in 0 .. n |-> MapLoop(contract, subs, c, k)]
  <2>. HIDE DEF f
  <2>. QED BY <1>5
<1>7. IdMapping(contract, subs) = c[n]
  BY DEF IdMapping, MapLoop
<1>. QED BY <1>6, <1>7

ScoreLoop(contract, o, mapping, g, k) ==
  IF k = 0 THEN [e \in {} |-> Blocked]
  ELSE EvaluateSubquery(o, mapping, g[k - 1], contract.subs[k])

LEMMA SubqueriesDefined ==
  ASSUME NEW contract, Len(contract.subs) \in Nat, NEW o, NEW mapping
  PROVE  \E g : /\ g = [k \in 0 .. Len(contract.subs) |-> ScoreLoop(contract, o, mapping, g, k)]
                /\ _evaluate_subqueries(contract, o, mapping) = g[Len(contract.subs)]
<1>. DEFINE n == Len(contract.subs)
            Good == {m \in Nat : \E g : \A k \in 0 .. n :
                       k <= m => g[k] = ScoreLoop(contract, o, mapping, g, k)}
<1>1. 0 \in Good
  <2>1. \A k \in 0 .. n : k <= 0 => [i \in 0 .. n |-> [e \in {} |-> Blocked]][k] =
                             ScoreLoop(contract, o, mapping, [i \in 0 .. n |-> [e \in {} |-> Blocked]], k)
    BY DEF ScoreLoop
  <2>. QED BY <2>1
<1>2. \A m \in Good : m + 1 \in Good
  <2>. SUFFICES ASSUME NEW m \in Good PROVE m + 1 \in Good
    OBVIOUS
  <2>1. PICK g : \A k \in 0 .. n : k <= m => g[k] = ScoreLoop(contract, o, mapping, g, k)
    OBVIOUS
  <2>. DEFINE h == [k \in 0 .. n |-> ScoreLoop(contract, o, mapping, g, k)]
  <2>2. ASSUME NEW k \in 0 .. n, k <= m + 1
        PROVE  h[k] = ScoreLoop(contract, o, mapping, h, k)
    <3>1. h[k] = ScoreLoop(contract, o, mapping, g, k)
      OBVIOUS
    <3>2. CASE k = 0
      BY <3>1, <3>2 DEF ScoreLoop
    <3>3. CASE k # 0
      <4>1. k - 1 \in 0 .. n /\ k - 1 <= m
        BY <2>2, <3>3
      <4>2. h[k - 1] = g[k - 1]
        BY <2>1, <4>1
      <4>. QED BY <3>1, <3>3, <4>2 DEF ScoreLoop
    <3>. QED BY <3>2, <3>3
  <2>3. \E f : \A k \in 0 .. n : k <= m + 1 => f[k] = ScoreLoop(contract, o, mapping, f, k)
    <3>. HIDE DEF h
    <3>. QED BY <2>2
  <2>. QED BY <2>3
<1>3. n \in Good
  <2>. HIDE DEF Good, n
  <2>1. Good \in SUBSET Nat
    BY DEF Good
  <2>2. n \in Nat
    BY DEF n
  <2>. QED BY <1>1, <1>2, <2>1, <2>2, SetInduction
<1>4. PICK g : \A k \in 0 .. n : k <= n => g[k] = ScoreLoop(contract, o, mapping, g, k)
  BY <1>3
<1>. DEFINE f == [k \in 0 .. n |-> g[k]]
<1>5. f = [k \in 0 .. n |-> ScoreLoop(contract, o, mapping, f, k)]
  <2>1. \A k \in 0 .. n : g[k] = ScoreLoop(contract, o, mapping, g, k)
    BY <1>4
  <2>2. \A k \in 0 .. n : ScoreLoop(contract, o, mapping, g, k) = ScoreLoop(contract, o, mapping, f, k)
    BY DEF ScoreLoop
  <2>. QED BY <2>1, <2>2
<1>. DEFINE c == CHOOSE u : u = [k \in 0 .. n |-> ScoreLoop(contract, o, mapping, u, k)]
<1>6. c = [k \in 0 .. n |-> ScoreLoop(contract, o, mapping, c, k)]
  <2>. HIDE DEF f
  <2>. QED BY <1>5
<1>7. _evaluate_subqueries(contract, o, mapping) = c[n]
  BY DEF _evaluate_subqueries, ScoreLoop
<1>. QED BY <1>6, <1>7

-----------------------------------------------------------------------------
(***************************************************************************)
(* Finding a subquery by its id.                                           *)
(***************************************************************************)
IsList(s) == Len(s) \in Nat /\ DOMAIN s = 1 .. Len(s)

LEMMA LargestIndex ==
  ASSUME NEW n \in Nat, NEW T \in SUBSET (1 .. n), T # {}
  PROVE  \E x \in T : \A y \in T : y <= x
<1>. DEFINE U == {u \in Nat : n - u \in T}
<1>1. U # {}
  <2>1. PICK t \in T : TRUE
    OBVIOUS
  <2>2. n - t \in Nat /\ n - (n - t) = t
    BY <2>1
  <2>. QED BY <2>1, <2>2
<1>2. PICK u \in U : \A v \in U : u <= v
  <2>1. U \in SUBSET Nat
    OBVIOUS
  <2>. HIDE DEF U
  <2>. QED BY <1>1, <2>1, LeastNatural
<1>3. ASSUME NEW y \in T PROVE y <= n - u
  <2>1. n - y \in U
    OBVIOUS
  <2>2. u <= n - y /\ u \in Nat
    BY <1>2, <2>1
  <2>. QED BY <2>2
<1>. QED BY <1>2, <1>3

LEMMA ByIdFinds ==
  ASSUME NEW subs, IsList(subs), NEW id \in Elems(IdsOf(subs))
  PROVE  \E k \in DOMAIN subs : ById(subs, id) = subs[k] /\ subs[k].id = id
<1>. DEFINE at == {i \in DOMAIN subs : subs[i].id = id}
<1>1. at # {}
  BY DEF Elems, IdsOf
<1>2. at \in SUBSET (1 .. Len(subs)) /\ Len(subs) \in Nat
  BY DEF IsList
<1>. HIDE DEF at
<1>3. \E x \in at : \A y \in at : y <= x
  BY <1>1, <1>2, LargestIndex
<1>. DEFINE x == CHOOSE i \in at : \A k \in at : k <= i
<1>4. x \in at
  BY <1>3
<1>5. ById(subs, id) = subs[x]
  BY DEF ById, at
<1>. HIDE DEF x
<1>. QED BY <1>4, <1>5 DEF at

LEMMA DistinctIds ==
  ASSUME NEW subs, IsList(subs), Distinct(IdsOf(subs))
  PROVE  \A i, j \in DOMAIN subs : subs[i].id = subs[j].id => i = j
<1>. DEFINE ids == IdsOf(subs)
<1>1. DOMAIN ids = 1 .. Len(subs) /\ ids = [i \in 1 .. Len(subs) |-> subs[i].id]
  BY DEF IdsOf, IsList
<1>2. Len(ids) = Len(subs)
  BY <1>1 DEF IsList
<1>3. Cardinality(Elems(ids)) = Len(subs)
  BY <1>2 DEF Distinct
<1>. HIDE DEF ids
<1>4. ids \in Surjection(1 .. Len(subs), Elems(ids))
  BY <1>1 DEF Surjection, Elems
<1>5. IsFiniteSet(1 .. Len(subs)) /\ Cardinality(1 .. Len(subs)) = Len(subs)
  <2>1. Len(subs) \in Nat /\ Len(subs) \in Int /\ 1 \in Int
    BY DEF IsList
  <2>2. /\ IsFiniteSet(1 .. Len(subs))
        /\ Cardinality(1 .. Len(subs)) = IF 1 > Len(subs) THEN 0 ELSE Len(subs) - 1 + 1
    BY <2>1, FS_Interval
  <2>. QED BY <2>1, <2>2
<1>6. ids \in Injection(1 .. Len(subs), Elems(ids))
  BY <1>3, <1>4, <1>5, FS_SurjSameCardinalityImpliesInj
<1>7. \A i, j \in 1 .. Len(subs) : ids[i] = ids[j] => i = j
  BY <1>6 DEF Injection, IsInjective
<1>. QED BY <1>1, <1>7

-----------------------------------------------------------------------------
(***************************************************************************)
(* What an expected subquery is mapped to.                                 *)
(***************************************************************************)

\* Itself, if there is one of its id, and otherwise one of its tool.
Target(subs, expected, id) ==
  \/ expected.id \in Elems(IdsOf(subs)) /\ id = expected.id
  \/ /\ expected.id \notin Elems(IdsOf(subs))
     /\ \E k \in DOMAIN subs : subs[k].id = id /\ subs[k].tool = expected.tool

\* A contract that load_manifest accepts.
IsContract(contract) ==
  /\ IsList(contract.subs) /\ contract.subs # <<>>
  /\ \A i, j \in DOMAIN contract.subs :
       contract.subs[i].id = contract.subs[j].id => i = j
  /\ contract.tools = {contract.subs[i].tool : i \in DOMAIN contract.subs}

MappedUpTo(contract, subs, mapping, n) ==
  /\ \A e \in DOMAIN mapping : \E i \in 1 .. n : contract.subs[i].id = e
  /\ \A i \in 1 .. n :
       contract.subs[i].id \in DOMAIN mapping =>
         Target(subs, contract.subs[i], mapping[contract.subs[i].id])

Extended(mapping, expected, id) ==
  [e \in DOMAIN mapping \cup {expected.id} |-> IF e = expected.id THEN id ELSE mapping[e]]

LEMMA MapOneTarget ==
  ASSUME NEW subs, IsList(subs), NEW mapping, NEW expected
  PROVE  \/ MapOne(subs, mapping, expected) = mapping
         \/ \E id : /\ Target(subs, expected, id)
                    /\ MapOne(subs, mapping, expected) = Extended(mapping, expected, id)
<1>. DEFINE used == {mapping[e] : e \in DOMAIN mapping}
            candidates == {i \in DOMAIN subs :
                             subs[i].tool = expected.tool /\ subs[i].id \notin used}
            k == CHOOSE i \in candidates : TRUE
<1>1. MapOne(subs, mapping, expected) =
        IF expected.id \in Elems(IdsOf(subs)) THEN Extended(mapping, expected, expected.id)
        ELSE IF Cardinality(candidates) = 1 THEN Extended(mapping, expected, subs[k].id)
        ELSE mapping
  BY DEF MapOne, Extended
<1>2. CASE expected.id \in Elems(IdsOf(subs))
  <2>1. Target(subs, expected, expected.id)
    BY <1>2 DEF Target
  <2>. QED BY <1>1, <1>2, <2>1
<1>3. CASE expected.id \notin Elems(IdsOf(subs)) /\ Cardinality(candidates) = 1
  <2>1. candidates # {}
    <3>. HIDE DEF candidates
    <3>. QED BY <1>3, FS_EmptySet
  <2>2. k \in candidates
    <3>. HIDE DEF candidates
    <3>. QED BY <2>1
  <2>3. k \in DOMAIN subs /\ subs[k].tool = expected.tool
    BY <2>2
  <2>. HIDE DEF k, candidates
  <2>4. Target(subs, expected, subs[k].id)
    BY <1>3, <2>3 DEF Target
  <2>. QED BY <1>1, <1>3, <2>4
<1>4. CASE expected.id \notin Elems(IdsOf(subs)) /\ Cardinality(candidates) # 1
  BY <1>1, <1>4
<1>. QED BY <1>2, <1>3, <1>4

LEMMA MappedStep ==
  ASSUME NEW contract, IsContract(contract), NEW subs, IsList(subs), NEW mapping,
         NEW n \in Nat, n + 1 <= Len(contract.subs),
         MappedUpTo(contract, subs, mapping, n)
  PROVE  MappedUpTo(contract, subs, MapOne(subs, mapping, contract.subs[n + 1]), n + 1)
<1>. DEFINE e == contract.subs[n + 1]
            after == MapOne(subs, mapping, e)
<1>1. /\ \A i \in 1 .. n : i \in 1 .. (n + 1) /\ contract.subs[i].id # e.id
      /\ n + 1 \in 1 .. (n + 1)
      /\ \A i \in 1 .. (n + 1) : i \in 1 .. n \/ i = n + 1
  BY DEF IsContract, IsList
<1>2. \A x \in DOMAIN mapping : x # e.id
  BY <1>1 DEF MappedUpTo
<1>3. CASE after = mapping
  BY <1>1, <1>2, <1>3 DEF MappedUpTo
<1>4. ASSUME NEW id, Target(subs, e, id), after = Extended(mapping, e, id)
      PROVE  MappedUpTo(contract, subs, after, n + 1)
  <2>. HIDE DEF after
  <2>. USE DEF Extended
  <2>1. \A x \in DOMAIN after : \E i \in 1 .. (n + 1) : contract.subs[i].id = x
    BY <1>1, <1>4 DEF MappedUpTo
  <2>2. ASSUME NEW i \in 1 .. (n + 1), contract.subs[i].id \in DOMAIN after
        PROVE  Target(subs, contract.subs[i], after[contract.subs[i].id])
    <3>1. CASE i = n + 1
      BY <1>4, <3>1
    <3>2. CASE i \in 1 .. n
      <4>1. /\ contract.subs[i].id \in DOMAIN mapping
            /\ after[contract.subs[i].id] = mapping[contract.subs[i].id]
        BY <1>1, <1>4, <2>2, <3>2
      <4>. QED BY <3>2, <4>1 DEF MappedUpTo
    <3>. QED BY <1>1, <3>1, <3>2
  <2>. QED BY <2>1, <2>2 DEF MappedUpTo
<1>5. \/ after = mapping
      \/ \E id : Target(subs, e, id) /\ after = Extended(mapping, e, id)
  BY MapOneTarget
<1>. QED BY <1>3, <1>4, <1>5

LEMMA MappingSound ==
  ASSUME NEW contract, IsContract(contract), NEW subs, IsList(subs)
  PROVE  MappedUpTo(contract, subs, IdMapping(contract, subs), Len(contract.subs))
<1>. DEFINE n == Len(contract.subs)
<1>0. n \in Nat
  BY DEF IsContract, IsList
<1>1. PICK g : /\ g = [k \in 0 .. n |-> MapLoop(contract, subs, g, k)]
               /\ IdMapping(contract, subs) = g[n]
  BY <1>0, MappingDefined
<1>. DEFINE Good == {m \in Nat : m <= n => MappedUpTo(contract, subs, g[m], m)}
<1>2. 0 \in Good
  <2>1. g[0] = [e \in {} |-> ""]
    BY <1>0, <1>1 DEF MapLoop
  <2>. QED BY <2>1 DEF MappedUpTo
<1>3. \A m \in Good : m + 1 \in Good
  <2>. SUFFICES ASSUME NEW m \in Good, m + 1 <= n
                PROVE  MappedUpTo(contract, subs, g[m + 1], m + 1)
    OBVIOUS
  <2>1. MappedUpTo(contract, subs, g[m], m) /\ m \in Nat
    BY <1>0
  <2>2. g[m + 1] = MapOne(subs, g[m], contract.subs[m + 1])
    BY <1>0, <1>1, <2>1 DEF MapLoop
  <2>3. MappedUpTo(contract, subs, MapOne(subs, g[m], contract.subs[m + 1]), m + 1)
    BY <2>1, MappedStep
  <2>. QED BY <2>2, <2>3
<1>4. n \in Good
  <2>. HIDE DEF Good, n
  <2>1. Good \in SUBSET Nat
    BY DEF Good
  <2>. QED BY <1>0, <1>2, <1>3, <2>1, SetInduction
<1>. QED BY <1>1, <1>4

-----------------------------------------------------------------------------
(***************************************************************************)
(* The plan: every step of the contract is a step of it, of the same tool. *)
(***************************************************************************)

\* What route_query and plan_outputs keep of the drafted steps.
StepsKept(o) ==
  /\ IsList(o.raw) /\ IsList(o.draft) /\ IsList(o.subs)
  /\ \A s \in Elems(o.draft) \cup Elems(o.subs) :
       \E r \in Elems(o.raw) : r.id = s.id /\ r.tool = s.tool

\* Where the plan has the step.
Planned(o, mapping, e) ==
  e.id \in DOMAIN mapping /\ mapping[e.id] \in Elems(IdsOf(o.subs))

LEMMA ToolKept ==
  ASSUME NEW contract, IsContract(contract), NEW o, StepsKept(o),
         compare_execution_contract(contract, o.tools, o.raw, o.transform).split,
         NEW i \in DOMAIN contract.subs,
         Planned(o, IdMapping(contract, o.draft), contract.subs[i])
  PROVE  ById(o.subs, IdMapping(contract, o.draft)[contract.subs[i].id]).tool
           = contract.subs[i].tool
<1>. DEFINE e == contract.subs[i]
            raw == IdMapping(contract, o.raw)
            mapping == IdMapping(contract, o.draft)
            m == mapping[e.id]
<1>1. Distinct(IdsOf(o.raw)) /\ StepPasses(contract, raw, o.raw, e)
  BY DEF compare_execution_contract
<1>2. e.id \in DOMAIN raw /\ ById(o.raw, raw[e.id]).tool = e.tool
  BY <1>1 DEF StepPasses
<1>3. IsList(o.raw) /\ IsList(o.draft) /\ IsList(o.subs) /\ i \in 1 .. Len(contract.subs)
  BY DEF StepsKept, IsContract, IsList
<1>4. MappedUpTo(contract, o.raw, raw, Len(contract.subs))
  BY <1>3, MappingSound
<1>5. MappedUpTo(contract, o.draft, mapping, Len(contract.subs))
  BY <1>3, MappingSound
<1>6. e.id \in DOMAIN mapping /\ m \in Elems(IdsOf(o.subs))
  BY DEF Planned
<1>. HIDE DEF raw, mapping
<1>7. Target(o.raw, e, raw[e.id])
  BY <1>2, <1>3, <1>4 DEF MappedUpTo
<1>8. Target(o.draft, e, m)
  BY <1>3, <1>5, <1>6 DEF MappedUpTo
<1>9. \A x, y \in DOMAIN o.raw : o.raw[x].id = o.raw[y].id => x = y
  BY <1>1, <1>3, DistinctIds
<1>. HIDE DEF m, e
<1>10. PICK k \in DOMAIN o.subs : ById(o.subs, m) = o.subs[k] /\ o.subs[k].id = m
  BY <1>3, <1>6, ByIdFinds
<1>11. PICK r \in DOMAIN o.raw : o.raw[r].id = m /\ o.raw[r].tool = o.subs[k].tool
  BY <1>10 DEF StepsKept, Elems
<1>12. CASE m = e.id
  <2>1. raw[e.id] = e.id
    BY <1>7, <1>11, <1>12 DEF Target, Elems, IdsOf
  <2>2. e.id \in Elems(IdsOf(o.raw))
    BY <1>11, <1>12 DEF Elems, IdsOf
  <2>3. PICK x \in DOMAIN o.raw : ById(o.raw, e.id) = o.raw[x] /\ o.raw[x].id = e.id
    BY <1>3, <2>2, ByIdFinds
  <2>4. x = r
    BY <1>9, <1>11, <1>12, <2>3
  <2>. QED BY <1>2, <1>10, <1>11, <2>1, <2>3, <2>4 DEF e, m, mapping
<1>13. CASE m # e.id
  <2>1. PICK d \in DOMAIN o.draft : o.draft[d].id = m /\ o.draft[d].tool = e.tool
    BY <1>8, <1>13 DEF Target
  <2>2. PICK x \in DOMAIN o.raw : o.raw[x].id = m /\ o.raw[x].tool = e.tool
    BY <2>1 DEF StepsKept, Elems
  <2>3. x = r
    BY <1>9, <1>11, <2>2
  <2>. QED BY <1>10, <1>11, <2>2, <2>3 DEF e, m, mapping
<1>. QED BY <1>12, <1>13

\* The plan gives the step of the contract what it needs.
Served(contract, o) ==
  \A e \in Elems(contract.subs) : \E a \in Elems(o.subs) :
    a.tool = e.tool /\ Elems(e.outputs) \subseteq Elems(a.outputs)
    /\ DOMAIN a.bindings = DOMAIN e.bindings

LEMMA PlanServes ==
  ASSUME NEW contract, IsContract(contract), NEW o, StepsKept(o), NEW mapping,
         compare_execution_plan_contract(contract, o.subs, mapping).outputs,
         compare_execution_plan_contract(contract, o.subs, mapping).bindings,
         \A i \in DOMAIN contract.subs :
           Planned(o, mapping, contract.subs[i]) =>
             ById(o.subs, mapping[contract.subs[i].id]).tool = contract.subs[i].tool
  PROVE  Served(contract, o)
<1>. SUFFICES ASSUME NEW e \in Elems(contract.subs)
              PROVE  \E a \in Elems(o.subs) :
                       a.tool = e.tool /\ Elems(e.outputs) \subseteq Elems(a.outputs)
                       /\ DOMAIN a.bindings = DOMAIN e.bindings
  BY DEF Served
<1>0. PICK i \in DOMAIN contract.subs : e = contract.subs[i]
  BY DEF Elems
<1>. DEFINE a == ById(o.subs, mapping[e.id])
<1>1. Planned(o, mapping, e)
  BY <1>0 DEF compare_execution_plan_contract, Planned
<1>2. OutputsPass(e, a) /\ BindingsPass(e, a, mapping)
  BY <1>0 DEF compare_execution_plan_contract
<1>3. a.tool = e.tool
  BY <1>0, <1>1
<1>4. a \in Elems(o.subs)
  <2>1. IsList(o.subs) /\ mapping[e.id] \in Elems(IdsOf(o.subs))
    BY <1>1 DEF StepsKept, Planned
  <2>2. \E k \in DOMAIN o.subs : a = o.subs[k] /\ o.subs[k].id = mapping[e.id]
    BY <2>1, ByIdFinds
  <2>. QED BY <2>2 DEF Elems
<1>. HIDE DEF a
<1>. QED BY <1>2, <1>3, <1>4 DEF OutputsPass, BindingsPass

-----------------------------------------------------------------------------
(***************************************************************************)
(* Source mode.                                                            *)
(***************************************************************************)
LEMMA CandidatePasses ==
  ASSUME NEW kind, Candidate(kind).status = "PASS"
  PROVE  kind = "gold"
<1>1. CASE kind \in {"unsafe", "invalid", "timeout", "failing"}
  BY <1>1 DEF Candidate, Unreached
<1>2. CASE kind = "unreachable"
  BY <1>2 DEF Candidate, Unreached
<1>3. CASE kind \notin {"unsafe", "invalid", "timeout", "failing", "unreachable"}
  BY <1>3 DEF Candidate, Scored
<1>. QED BY <1>1, <1>2, <1>3

\* The step was planned with its own tool, and its rows were the Gold's.
Earned(o, mapping, e) ==
  /\ Planned(o, mapping, e) /\ ById(o.subs, mapping[e.id]).tool = e.tool
  /\ o.candidate[e.tool] = "gold"

ScoredUpTo(contract, o, mapping, done, n) ==
  /\ DOMAIN done = {contract.subs[i].id : i \in 1 .. n}
  /\ \A i \in 1 .. n :
       done[contract.subs[i].id].status = "PASS" => Earned(o, mapping, contract.subs[i])

LEMMA ScoredStep ==
  ASSUME NEW contract, IsContract(contract), NEW o, NEW mapping, NEW done,
         NEW n \in Nat, n + 1 <= Len(contract.subs),
         ScoredUpTo(contract, o, mapping, done, n)
  PROVE  ScoredUpTo(contract, o, mapping,
                    EvaluateSubquery(o, mapping, done, contract.subs[n + 1]), n + 1)
<1>. DEFINE e == contract.subs[n + 1]
            after == EvaluateSubquery(o, mapping, done, e)
            blocked == \E d \in Elems(e.deps) : d \notin DOMAIN done \/ done[d].status # "PASS"
            record == IF blocked THEN Blocked
                      ELSE IF ~Planned(o, mapping, e) \/ ById(o.subs, mapping[e.id]).tool # e.tool
                           THEN Unreached("F", "N", "N")
                           ELSE Candidate(o.candidate[e.tool])
<1>1. /\ \A i \in 1 .. n : i \in 1 .. (n + 1) /\ contract.subs[i].id # e.id
      /\ n + 1 \in 1 .. (n + 1)
      /\ \A i \in 1 .. (n + 1) : i \in 1 .. n \/ i = n + 1
  BY DEF IsContract, IsList
<1>2. after = [x \in DOMAIN done \cup {e.id} |-> IF x = e.id THEN record ELSE done[x]]
  BY DEF EvaluateSubquery, Planned
<1>3. record.status = "PASS" => Earned(o, mapping, e)
  <2>1. Blocked.status # "PASS" /\ Unreached("F", "N", "N").status # "PASS"
    BY DEF Blocked, Unreached
  <2>2. Candidate(o.candidate[e.tool]).status = "PASS" => o.candidate[e.tool] = "gold"
    BY CandidatePasses
  <2>. QED BY <2>1, <2>2 DEF Earned
<1>. HIDE DEF record, after
<1>4. DOMAIN after = {contract.subs[i].id : i \in 1 .. (n + 1)}
  <2>1. DOMAIN after = {contract.subs[i].id : i \in 1 .. n} \cup {contract.subs[n + 1].id}
    BY <1>2 DEF ScoredUpTo
  <2>. QED BY <1>1, <2>1
<1>5. ASSUME NEW i \in 1 .. (n + 1), after[contract.subs[i].id].status = "PASS"
      PROVE  Earned(o, mapping, contract.subs[i])
  <2>1. CASE i = n + 1
    BY <1>2, <1>3, <1>5, <2>1
  <2>2. CASE i \in 1 .. n
    <3>1. contract.subs[i].id \in DOMAIN done
      BY <2>2 DEF ScoredUpTo
    <3>2. after[contract.subs[i].id] = done[contract.subs[i].id]
      BY <1>1, <1>2, <2>2, <3>1
    <3>. QED BY <1>5, <2>2, <3>2 DEF ScoredUpTo
  <2>. QED BY <1>1, <2>1, <2>2
<1>6. ScoredUpTo(contract, o, mapping, after, n + 1)
  BY <1>4, <1>5 DEF ScoredUpTo
<1>. QED BY <1>6 DEF after

LEMMA ScoresSound ==
  ASSUME NEW contract, IsContract(contract), NEW o, NEW mapping
  PROVE  ScoredUpTo(contract, o, mapping, _evaluate_subqueries(contract, o, mapping),
                    Len(contract.subs))
<1>. DEFINE n == Len(contract.subs)
<1>0. n \in Nat
  BY DEF IsContract, IsList
<1>1. PICK g : /\ g = [k \in 0 .. n |-> ScoreLoop(contract, o, mapping, g, k)]
               /\ _evaluate_subqueries(contract, o, mapping) = g[n]
  BY <1>0, SubqueriesDefined
<1>. DEFINE Good == {m \in Nat : m <= n => ScoredUpTo(contract, o, mapping, g[m], m)}
<1>2. 0 \in Good
  <2>1. g[0] = [e \in {} |-> Blocked]
    BY <1>0, <1>1 DEF ScoreLoop
  <2>. QED BY <2>1 DEF ScoredUpTo
<1>3. \A m \in Good : m + 1 \in Good
  <2>. SUFFICES ASSUME NEW m \in Good, m + 1 <= n
                PROVE  ScoredUpTo(contract, o, mapping, g[m + 1], m + 1)
    OBVIOUS
  <2>1. ScoredUpTo(contract, o, mapping, g[m], m) /\ m \in Nat
    BY <1>0
  <2>2. g[m + 1] = EvaluateSubquery(o, mapping, g[m], contract.subs[m + 1])
    BY <1>0, <1>1, <2>1 DEF ScoreLoop
  <2>3. ScoredUpTo(contract, o, mapping,
                   EvaluateSubquery(o, mapping, g[m], contract.subs[m + 1]), m + 1)
    BY <2>1, ScoredStep
  <2>. QED BY <2>2, <2>3
<1>4. n \in Good
  <2>. HIDE DEF Good, n
  <2>1. Good \in SUBSET Nat
    BY DEF Good
  <2>. QED BY <1>0, <1>2, <1>3, <2>1, SetInduction
<1>. QED BY <1>1, <1>4

LEMMA SourcePassRight ==
  ASSUME NEW contract, IsContract(contract), NEW o, StepsKept(o), ~o.raised,
         _evaluate_case_source(contract, o).pass
  PROVE  Right("source", contract, o)
<1>. DEFINE mapping == IdMapping(contract, o.draft)
            subs == _evaluate_subqueries(contract, o, mapping)
            plan == compare_execution_plan_contract(contract, o.subs, mapping)
<1>1. /\ entity_matches(contract.entities, o.entity)
      /\ compare_execution_contract(contract, o.tools, o.raw, o.transform).routing
      /\ plan.outputs /\ plan.bindings
      /\ \A e \in DOMAIN subs : subs[e].status = "PASS"
  BY DEF _evaluate_case_source, compare_execution_contract
<1>2. ScoredUpTo(contract, o, mapping, subs, Len(contract.subs))
  BY ScoresSound
<1>. HIDE DEF mapping, subs
<1>3. ASSUME NEW i \in DOMAIN contract.subs PROVE Earned(o, mapping, contract.subs[i])
  <2>1. i \in 1 .. Len(contract.subs)
    BY DEF IsContract, IsList
  <2>. QED BY <1>1, <1>2, <2>1 DEF ScoredUpTo
<1>4. Served(contract, o)
  BY <1>1, <1>3, PlanServes DEF Earned
<1>5. \A t \in contract.tools : o.candidate[t] = "gold"
  BY <1>3 DEF IsContract, Earned
<1>6. Elems(o.tools) = contract.tools
  BY <1>1 DEF compare_execution_contract
<1>. QED BY <1>1, <1>4, <1>5, <1>6 DEF Right, Served

-----------------------------------------------------------------------------
(***************************************************************************)
(* Orchestrator mode.                                                      *)
(***************************************************************************)
LEMMA NoStageFailed ==
  ASSUME NEW tests, IsList(tests), \A i \in DOMAIN tests : tests[i][1] # "none",
         FailureStage(tests) = "none"
  PROVE  \A i \in DOMAIN tests : ~tests[i][2]
<1>. DEFINE failed == {i \in DOMAIN tests : tests[i][2]}
<1>. SUFFICES ASSUME failed # {} PROVE FALSE
  OBVIOUS
<1>1. failed \in SUBSET Nat
  BY DEF IsList
<1>. DEFINE first == CHOOSE i \in failed : \A k \in failed : i <= k
<1>2. \E i \in failed : \A k \in failed : i <= k
  <2>. HIDE DEF failed
  <2>. QED BY <1>1, LeastNatural
<1>3. first \in failed
  <2>. HIDE DEF failed
  <2>. QED BY <1>2
<1>4. FailureStage(tests) = tests[first][1]
  BY DEF FailureStage
<1>. HIDE DEF first
<1>. QED BY <1>3, <1>4

LEMMA TogetherTrue ==
  ASSUME NEW values, Together(values) = "T"
  PROVE  values = {"T"}
BY DEF Together

\* A source whose result check is reached and true has the Gold's rows.
LEMMA SourceResultTrue ==
  ASSUME NEW e, NEW o, NEW mapping,
         _evaluate_orchestrator_source(e, o, mapping).result = "T"
  PROVE  /\ Planned(o, mapping, e) /\ o.results[e.tool] # NoSource
         /\ o.results[e.tool].rows = "gold"
<1>. DEFINE src == o.results[e.tool]
            written == IF src = NoSource THEN "F" ELSE Check(src.query)
            safe == Check("unsafe" \notin Elems(src.attempts))
<1>1. _evaluate_orchestrator_source(e, o, mapping) =
        IF ~Planned(o, mapping, e) \/ src = NoSource THEN Unreached(written, "N", "F")
        ELSE IF src.rows = "error"
             THEN Unreached(Check(src.query), safe, "F")
             ELSE [Scored(src.rows, safe) EXCEPT !.generation = Check(src.query)]
  BY DEF _evaluate_orchestrator_source, Planned
<1>. HIDE DEF written, safe, src
<1>2. \A g, s, x : Unreached(g, s, x).result = "N"
  BY DEF Unreached
<1>3. \A kept, s, g : [Scored(kept, s) EXCEPT !.generation = g].result = ResultCheck(kept)
  BY DEF Scored
<1>4. Planned(o, mapping, e) /\ src # NoSource /\ ResultCheck(src.rows) = "T"
  BY <1>1, <1>2, <1>3
<1>. QED BY <1>4 DEF ResultCheck, Check, src

LEMMA OrchestratorPassRight ==
  ASSUME NEW contract, IsContract(contract), NEW o, StepsKept(o), ~o.raised,
         _evaluate_case_orchestrator(contract, o).pass
  PROVE  Right("orchestrator", contract, o)
<1>. DEFINE comparison == compare_execution_contract(contract, o.tools, o.raw, o.transform)
            mapping == IdMapping(contract, o.draft)
            plan == compare_execution_plan_contract(contract, o.subs, mapping)
            subs == OrchestratorSources(contract, o, mapping)
            results == {subs[i].result : i \in DOMAIN subs}
            source == Together(results)
            composes == o.composed # NoComposed /\ o.composed.rows # "error"
            evaluated == contract.final # NoFinal \/ contract.full
            final == IF contract.final # NoFinal
                     THEN _score_final_result(contract.final, o.composed)
                     ELSE IF evaluated /\ composes THEN source ELSE "N"
            tests == StageTests(contract, o, comparison, plan, subs)
<1>1. FailureStage(tests) = "none"
  BY DEF _evaluate_case_orchestrator, compare_execution_contract
<1>2. /\ IsList(tests) /\ DOMAIN tests = 1 .. 10
      /\ \A i \in DOMAIN tests : tests[i][1] # "none"
  <2>. HIDE DEF comparison, plan, subs
  <2>. QED BY DEF StageTests, IsList
<1>3. /\ tests[1][2] = ~entity_matches(contract.entities, o.entity)
      /\ tests[2][2] = ~comparison.routing
      /\ tests[3][2] = ~(comparison.split /\ plan.outputs /\ plan.bindings)
      /\ tests[8][2] = ~composes
      /\ tests[10][2] = (source # "T" \/ (evaluated /\ final # "T"))
  <2>. HIDE DEF comparison, plan, subs
  <2>. QED BY DEF StageTests
<1>4. \A i \in 1 .. 10 : ~tests[i][2]
  <2>. HIDE DEF tests
  <2>. QED BY <1>1, <1>2, NoStageFailed
<1>. HIDE DEF tests
<1>5. /\ entity_matches(contract.entities, o.entity)
      /\ comparison.routing /\ comparison.split /\ plan.outputs /\ plan.bindings
      /\ composes /\ source = "T" /\ (evaluated => final = "T")
  <2>. HIDE DEF comparison, plan, composes, source, final, evaluated
  <2>1. ~tests[1][2] /\ ~tests[2][2] /\ ~tests[3][2] /\ ~tests[8][2] /\ ~tests[10][2]
    BY <1>4
  <2>. QED BY <1>3, <2>1
<1>6. results = {"T"}
  <2>. HIDE DEF results
  <2>. QED BY <1>5, TogetherTrue
<1>7. ASSUME NEW i \in DOMAIN contract.subs
      PROVE  /\ o.results[contract.subs[i].tool] # NoSource
             /\ o.results[contract.subs[i].tool].rows = "gold"
  <2>1. subs[i].result = "T"
    BY <1>6 DEF OrchestratorSources
  <2>2. _evaluate_orchestrator_source(contract.subs[i], o, mapping).result = "T"
    BY <2>1 DEF OrchestratorSources
  <2>. HIDE DEF mapping
  <2>. QED BY <2>2, SourceResultTrue
<1>8. Served(contract, o)
  <2>1. \A i \in DOMAIN contract.subs :
          Planned(o, mapping, contract.subs[i]) =>
            ById(o.subs, mapping[contract.subs[i].id]).tool = contract.subs[i].tool
    BY <1>5, ToolKept
  <2>. HIDE DEF mapping
  <2>. QED BY <1>5, <2>1, PlanServes, ZenonT(30)
<1>9. \A t \in contract.tools : o.results[t] # NoSource /\ o.results[t].rows = "gold"
  BY <1>7 DEF IsContract
<1>10. Elems(o.tools) = contract.tools
  BY <1>5 DEF compare_execution_contract
<1>11. contract.final # NoFinal =>
         /\ o.composed.rows = "gold" /\ o.composed.whole
         /\ o.composed.transform = contract.final.transform
  <2>1. contract.final # NoFinal => _score_final_result(contract.final, o.composed) = "T"
    BY <1>5
  <2>. QED BY <2>1 DEF _score_final_result, Check
<1>. QED BY <1>5, <1>8, <1>9, <1>10, <1>11 DEF Right, Served

-----------------------------------------------------------------------------
(***************************************************************************)
(* A trial that passed was right.                                          *)
(***************************************************************************)
LEMMA CaseAssumptions ==
  ASSUME NEW c \in Cases, NEW o \in Observations[c]
  PROVE  IsContract(Contracts[c]) /\ StepsKept(o)
<1>1. \A s, S : s \in Seq(S) => IsList(s)
  BY DEF IsList
<1>2. IsContract(Contracts[c])
  BY <1>1, ContractsAssumption DEF IsContract
<1>3. StepsKept(o)
  BY <1>1, ObservationsAssumption DEF StepsKept
<1>. QED BY <1>2, <1>3

LEMMA VerdictRight ==
  ASSUME NEW m \in Modes, NEW c \in Cases, NEW v \in Verdicts[m][c], v.status = "PASS"
  PROVE  v.right
<1>1. PICK o \in Observations[c] :
        v = [status |-> StatusOf(_evaluate_case(m, Contracts[c], o)),
             right |-> Right(m, Contracts[c], o)]
  BY DEF Verdicts
<1>2. IsContract(Contracts[c]) /\ StepsKept(o)
  BY CaseAssumptions
<1>3. _evaluate_case(m, Contracts[c], o).pass /\ ~_evaluate_case(m, Contracts[c], o).error
  BY <1>1 DEF StatusOf
<1>4. ~o.raised
  BY <1>3 DEF _evaluate_case
<1>5. CASE m = "orchestrator"
  <2>1. _evaluate_case_orchestrator(Contracts[c], o).pass
    BY <1>3, <1>4, <1>5 DEF _evaluate_case
  <2>. QED BY <1>1, <1>2, <1>4, <1>5, <2>1, OrchestratorPassRight
<1>6. CASE m = "source"
  <2>1. _evaluate_case_source(Contracts[c], o).pass
    BY <1>3, <1>4, <1>6 DEF _evaluate_case
  <2>. QED BY <1>1, <1>2, <1>4, <1>6, <2>1, SourcePassRight
<1>. QED BY <1>5, <1>6 DEF Modes

\* The k-th of the chosen positions.
LEMMA PositionExists ==
  ASSUME NEW at \in SUBSET Nat, IsFiniteSet(at), NEW k \in 1 .. Cardinality(at)
  PROVE  \E p \in at : Cardinality({q \in at : q <= p}) = k
<1>0. Cardinality(at) \in Nat
  BY FS_CardinalityType
<1>. DEFINE upTo(p) == {q \in at : q <= p}
            Closed(B) == \A b \in B, q \in at : q <= b => q \in B
            Good == {n \in Nat : n <= Cardinality(at) =>
                       \E B \in SUBSET at :
                         /\ Closed(B) /\ Cardinality(B) = n
                         /\ n # 0 => \E p \in at : B = upTo(p)}
<1>1. 0 \in Good
  <2>1. Closed({}) /\ Cardinality({}) = 0 /\ {} \in SUBSET at
    BY FS_EmptySet
  <2>. HIDE DEF Closed
  <2>. QED BY <2>1
<1>2. \A n \in Good : n + 1 \in Good
  <2>. SUFFICES ASSUME NEW n \in Good, n + 1 <= Cardinality(at)
                PROVE  \E B \in SUBSET at :
                         /\ Closed(B) /\ Cardinality(B) = n + 1
                         /\ n + 1 # 0 => \E p \in at : B = upTo(p)
    OBVIOUS
  <2>0. n \in Nat /\ n <= Cardinality(at)
    BY <1>0
  <2>1. PICK B \in SUBSET at : Closed(B) /\ Cardinality(B) = n
    BY <2>0
  <2>2. IsFiniteSet(B)
    BY FS_Subset
  <2>3. at \ B # {}
    <3>1. at # B
      BY <1>0, <2>0, <2>1
    <3>. QED BY <3>1
  <2>4. at \ B \in SUBSET Nat
    OBVIOUS
  <2>5. PICK p \in at \ B : \A q \in at \ B : p <= q
    BY <2>3, <2>4, LeastNatural
  <2>6. B \cup {p} = upTo(p)
    <3>1. ASSUME NEW b \in B PROVE b <= p
      <4>1. ~(p <= b)
        BY <2>1, <2>5
      <4>. QED BY <4>1, <2>5
    <3>2. ASSUME NEW q \in at, q <= p, q \notin B PROVE q = p
      BY <2>5, <3>2
    <3>. QED BY <2>5, <3>1, <3>2
  <2>7. Cardinality(B \cup {p}) = n + 1
    BY <2>1, <2>2, <2>5, FS_AddElement
  <2>8. Closed(upTo(p))
    <3>. SUFFICES ASSUME NEW b \in upTo(p), NEW q \in at, q <= b PROVE q \in upTo(p)
      OBVIOUS
    <3>1. b \in Nat /\ b <= p /\ q \in Nat /\ p \in Nat
      BY <2>5
    <3>. QED BY <3>1
  <2>9. upTo(p) \in SUBSET at /\ p \in at
    BY <2>5
  <2>. HIDE DEF upTo, Closed
  <2>. QED BY <2>6, <2>7, <2>8, <2>9
<1>3. k \in Good
  <2>. HIDE DEF Good
  <2>1. Good \in SUBSET Nat
    BY DEF Good
  <2>2. k \in Nat
    BY <1>0
  <2>. QED BY <1>1, <1>2, <2>1, <2>2, SetInduction
<1>4. k \in Nat /\ k <= Cardinality(at) /\ k # 0
  BY <1>0
<1>5. PICK B \in SUBSET at : Cardinality(B) = k /\ \E p \in at : B = upTo(p)
  <2>. HIDE DEF Closed, upTo
  <2>. QED BY <1>3, <1>4
<1>. QED BY <1>5

LEMMA SelectedCases ==
  ASSUME NEW s \in _select_cases, NEW k \in DOMAIN s
  PROVE  s[k] \in Cases
<1>1. PICK ids \in SUBSET Cases : s = Selected(ids)
  BY DEF _select_cases
<1>. DEFINE at == {p \in DOMAIN Manifest : Manifest[p] \in ids}
            pos(n) == CHOOSE p \in at : Cardinality({q \in at : q <= p}) = n
<1>2. at \in SUBSET Nat /\ IsFiniteSet(at)
  <2>1. DOMAIN Manifest = 1 .. Len(Manifest) /\ Len(Manifest) \in Int
    BY ManifestAssumption
  <2>2. IsFiniteSet(1 .. Len(Manifest))
    BY <2>1, FS_Interval
  <2>. QED BY <2>1, <2>2, FS_Subset
<1>3. s = [n \in 1 .. Cardinality(at) |-> Manifest[pos(n)]]
  BY <1>1 DEF Selected
<1>4. k \in 1 .. Cardinality(at) /\ s[k] = Manifest[pos(k)]
  <2>. HIDE DEF at, pos
  <2>. QED BY <1>3
<1>5. \E p \in at : Cardinality({q \in at : q <= p}) = k
  <2>. HIDE DEF at
  <2>. QED BY <1>2, <1>4, PositionExists
<1>6. pos(k) \in at
  <2>. HIDE DEF at
  <2>. QED BY <1>5
<1>. HIDE DEF pos
<1>. QED BY <1>4, <1>6 DEF Cases, Elems

\* A job evaluates cases of the manifest, in one of the two modes.
JobCases ==
  job # NoJob =>
    /\ DOMAIN job = JobFields
    /\ job.mode \in Modes
    /\ \A k \in DOMAIN job.selected : job.selected[k] \in Cases

LEMMA JobCasesStep == JobCases /\ [EvaluationNext]_evaluationVars => JobCases'
<1>. SUFFICES ASSUME JobCases, [EvaluationNext]_evaluationVars PROVE JobCases'
  OBVIOUS
<1>1. ASSUME NEW s \in _select_cases, NEW n \in RunCounts, NEW m \in Modes,
             NEW gold \in BOOLEAN, NEW dirty \in BOOLEAN, NEW compared \in BOOLEAN,
             NEW model \in Models, Start(s, n, m, gold, dirty, model, compared)
      PROVE  JobCases'
  <2>1. CASE job' = NoJob
    BY <2>1 DEF JobCases
  <2>2. CASE job' # NoJob
    <3>1. job' = [pc |-> "connect", selected |-> s, runs |-> n, mode |-> m,
                  gold |-> gold, dirty |-> dirty, model |-> model,
                  snapshot |-> BadSnapshot, compared |-> compared, records |-> <<>>,
                  at |-> 1, run |-> 1]
      BY <1>1, <2>2 DEF Start, Abort
    <3>2. \A k \in DOMAIN s : s[k] \in Cases
      BY SelectedCases
    <3>. QED BY <3>1, <3>2 DEF JobCases, JobFields
  <2>. QED BY <2>1, <2>2
<1>2. ASSUME job # NoJob, NEW s, job' = Record(job, s) PROVE JobCases'
  BY <1>2 DEF JobCases, Record, JobFields
<1>3. CASE job' = NoJob \/ job' = job
  BY <1>3 DEF JobCases
<1>4. CASE Connect
  BY <1>3, <1>4 DEF Connect, Abort, JobCases, JobFields
<1>5. CASE validate_snapshot
  BY <1>3, <1>5 DEF validate_snapshot, Abort, JobCases, JobFields
<1>6. ASSUME \E s \in _select_cases, n \in RunCounts, m \in Modes,
               gold, dirty, compared \in BOOLEAN, model \in Models :
               Start(s, n, m, gold, dirty, model, compared)
      PROVE  JobCases'
  BY <1>1, <1>6
<1>7. ASSUME \E status \in {"PASS", "FAIL", "ERROR"}, right \in BOOLEAN :
               Trial([status |-> status, right |-> right])
      PROVE  JobCases'
  BY <1>2, <1>7 DEF Trial
<1>8. CASE GoldTrial \/ TrialRaises
  BY <1>2, <1>3, <1>8 DEF GoldTrial, TrialRaises, Abort
<1>. QED BY <1>3, <1>4, <1>5, <1>6, <1>7, <1>8
         DEF EvaluationNext, Finish, write_stability_policy, Accept, Refresh, evaluationVars

LEMMA SoundStep ==
  JobInv /\ JobCases /\ PassMeansRight /\ [EvaluationNext]_evaluationVars => PassMeansRight'
<1>. SUFFICES ASSUME JobInv, JobCases, sound, [EvaluationNext]_evaluationVars PROVE sound'
  BY DEF PassMeansRight
<1>1. ASSUME NEW status \in {"PASS", "FAIL", "ERROR"}, NEW right \in BOOLEAN,
             Trial([status |-> status, right |-> right])
      PROVE  sound'
  <2>. DEFINE v == [status |-> status, right |-> right]
  <2>1. /\ job # NoJob /\ TrialLeft(job) /\ v \in Verdicts[job.mode][CaseAt(job)]
        /\ sound' = (sound /\ (v.status = "PASS" => v.right))
    BY <1>1 DEF Trial
  <2>2. job.mode \in Modes /\ CaseAt(job) \in Cases
    BY <2>1 DEF JobInv, JobOptions, JobRecords, JobCases, TrialLeft, CaseAt
  <2>. HIDE DEF v
  <2>3. v.status = "PASS" => v.right
    BY <2>1, <2>2, VerdictRight
  <2>. QED BY <2>1, <2>3
<1>2. ASSUME AnyTrial PROVE sound'
  BY <1>1, <1>2 DEF AnyTrial
<1>. QED BY <1>2, Writers

(***************************************************************************)
(* Whatever the contracts, the plans and the results: a trial that passes  *)
(* was right, in both modes (runner.py, _evaluate_case).                   *)
(***************************************************************************)
THEOREM PassesAreRight == EvaluationSpec => []PassMeansRight
<1>1. EvaluationInit => PassMeansRight /\ JobCases
  BY DEF EvaluationInit, PassMeansRight, JobCases
<1>. QED BY <1>1, JobInit, JobStep, JobCasesStep, SoundStep, PTL DEF EvaluationSpec
=============================================================================
