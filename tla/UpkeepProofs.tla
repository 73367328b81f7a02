---------------------------- MODULE UpkeepProofs ----------------------------
(***************************************************************************)
(* Proofs about Upkeep: one-time effects wait for construction, only due   *)
(* levels come into use, and a closed station is remembered by an event.   *)
(*                                                                         *)
(* A job reads first and writes when it commits.  What keeps the           *)
(* properties is what a job that has read may rely on: the rows of the     *)
(* upgrades that are being completed are locked, and only the scheduler    *)
(* removes the events that its own job has found due.  TypeInv adds the    *)
(* amounts each session has read: nobody spends what is not there.         *)
(***************************************************************************)
EXTENDS Upkeep, Sums

\* The rows the properties are about.
RowsTyped ==
    /\ upgrade \in [Stations -> [Types -> [level : 0 .. MaxLevel, status : Statuses, due : BOOLEAN]]]
    /\ effects \in [Stations -> [Types -> Nat]]
    /\ open \in [Stations -> BOOLEAN]
    /\ events \in [EventIds -> EventRows \cup {None}]
    /\ held = [w \in Sessions |-> held[w]]
    /\ job = [w \in Sessions |-> job[w]]

\* The levels that job j will open are due, and session w holds their rows.
CompleteSound(w, j) ==
    /\ w = Tick
    /\ j = [at |-> "complete", todo |-> j.todo, activated |-> j.activated]
    /\ \A s \in Stations, t \in Types : <<s, t>> \in j.activated =>
           /\ upgrade[s][t].status = "UNDER_CONSTRUCTION"
           /\ upgrade[s][t].due
           /\ UpgradeRow(s, t) \in held[w]

\* A closed station that job j will not open has an event that j will not remove.
ExpireSound(w, j) ==
    /\ w = Tick
    /\ \A i \in EventIds : i \in j.due => events[i] # None
    /\ \A s \in Stations : ~open[s] /\ s \notin j.stations =>
           \E i \in EventIds : i \notin j.due /\ events[i] # None /\ s \in events[i].stations

\* The fields of a job that goes on from one statement to the next.
JobShaped(j) ==
    /\ j.at = "station" => j = [at |-> "station", player |-> j.player,
                                station |-> j.station, type |-> j.type]
    /\ j.at \in {"station", "buy"} => j.station \in Stations /\ j.type \in Types
    /\ j.at = "stock" => j = [at |-> "stock", sold |-> j.sold, left |-> j.left,
                              owner |-> j.owner, price |-> j.price]
    /\ j.at = "inspect" => /\ j = [at |-> "inspect", todo |-> j.todo, fined |-> j.fined,
                                   owner |-> j.owner, copy |-> j.copy, fine |-> j.fine]
                           /\ j.todo \subseteq Stations
                           /\ j.fined \subseteq Stations

JobSound(w, j) ==
    /\ JobShaped(j)
    /\ j.at = "complete" => CompleteSound(w, j)
    /\ j.at = "expire" => ExpireSound(w, j)

JobOK(w) == job[w] # None => JobSound(w, job[w])

JobsSound == \A w \in Sessions : JobOK(w)

UInv == RowsTyped /\ EffectsAreBuilt /\ ClosedStationHasEvent /\ JobsSound

-----------------------------------------------------------------------------
(* Steps that write no row of these. *)

\* The rows and the other jobs stay; what job w may rely on is shown by the step.
LEMMA JobStep ==
    ASSUME UInv, NEW w \in Sessions, UNCHANGED upkeepVars,
           \E j : job' = [job EXCEPT ![w] = j],
           \/ UNCHANGED held
           \/ \E rows : Take(w, rows)
           \/ Release(w),
           JobOK(w)'
    PROVE  UInv'
<1>1. /\ \A v \in Sessions \ {w} : job'[v] = job[v] /\ held'[v] = held[v]
      /\ held' = [v \in Sessions |-> held'[v]]
      /\ job' = [v \in Sessions |-> job'[v]]
  BY DEF UInv, RowsTyped, Take, Release
<1>2. RowsTyped'
  BY <1>1 DEF UInv, RowsTyped, upkeepVars
<1>3. EffectsAreBuilt' /\ ClosedStationHasEvent'
  BY DEF UInv, EffectsAreBuilt, ClosedStationHasEvent, upkeepVars
<1>4. ASSUME NEW v \in Sessions \ {w}
      PROVE  JobOK(v)'
  <2>1. JobOK(v) /\ job'[v] = job[v] /\ held'[v] = held[v]
    BY <1>1 DEF UInv, JobsSound
  <2> QED
    BY <2>1 DEF JobOK, JobSound, JobShaped, CompleteSound, ExpireSound, UpgradeRow, upkeepVars
<1> QED
  BY <1>2, <1>3, <1>4 DEF UInv, JobsSound

\* A job that ends relies on nothing.
LEMMA EndStep ==
    ASSUME UInv, NEW w \in Sessions, UNCHANGED upkeepVars, Done(w)
    PROVE  UInv'
<1>1. JobOK(w)' /\ Release(w) /\ \E j : job' = [job EXCEPT ![w] = j]
  BY DEF Done, UInv, RowsTyped, JobOK
<1> QED
  BY <1>1, JobStep

\* Neither do steps that leave the jobs alone.
LEMMA QuietStep ==
    ASSUME UInv, UNCHANGED <<upkeepVars, job, held>>
    PROVE  UInv'
<1>1. RowsTyped' /\ EffectsAreBuilt' /\ ClosedStationHasEvent'
  BY DEF UInv, RowsTyped, EffectsAreBuilt, ClosedStationHasEvent, upkeepVars
<1>2. JobsSound'
  BY DEF UInv, JobsSound, JobOK, JobSound, JobShaped, CompleteSound, ExpireSound, UpgradeRow, upkeepVars
<1> QED
  BY <1>1, <1>2 DEF UInv

-----------------------------------------------------------------------------
(* Upgrades. *)

LEMMA UpgradeReads ==
    ASSUME UInv, NEW r \in Requests,
           \/ \E p \in Players, s \in Stations, t \in Types : UpgradeBegin(r, p, s, t)
           \/ UpgradeLockStation(r)
    PROVE  UInv'
<1>1. r \in Sessions
  BY DEF Sessions
<1>2. CASE \E p \in Players, s \in Stations, t \in Types : UpgradeBegin(r, p, s, t)
  <2>1. PICK p \in Players, s \in Stations, t \in Types : UpgradeBegin(r, p, s, t)
    BY <1>2
  <2>2. JobOK(r)'
    BY <1>1, <2>1 DEF UpgradeBegin, Continue, JobOK, JobSound, JobShaped, UInv, RowsTyped
  <2> QED
    BY <1>1, <2>1, <2>2, JobStep DEF UpgradeBegin, Continue, Lock
<1>3. CASE UpgradeLockStation(r)
  <2>1. JobShaped(job[r]) /\ job[r].at = "station"
    BY <1>1, <1>3 DEF UpgradeLockStation, At, UInv, JobsSound, JobOK, JobSound
  <2>2. job'[r] = [job[r] EXCEPT !.at = "buy"]
    BY <1>1, <1>3 DEF UpgradeLockStation, Continue, UInv, RowsTyped
  <2>3. JobOK(r)'
    BY <2>1, <2>2 DEF JobOK, JobSound, JobShaped
  <2> QED
    BY <1>1, <1>3, <2>3, JobStep DEF UpgradeLockStation, Continue, Lock
<1> QED
  BY <1>2, <1>3

\* The level that is bought is not one of those that are being completed: their rows
\* are locked.
LEMMA UpgradeCommits ==
    ASSUME UInv, NEW r \in Requests, UpgradeCommit(r)
    PROVE  UInv'
<1> DEFINE s == job[r].station
           t == job[r].type
<1>1. r \in Sessions /\ r # Tick
  BY StoreAssumption DEF Sessions
<1>2. s \in Stations /\ t \in Types
  BY <1>1 DEF UpgradeCommit, At, UInv, JobsSound, JobOK, JobSound, JobShaped
<1>3. /\ upgrade[s][t].level < MaxLevel
      /\ upgrade' = [upgrade EXCEPT ![s][t] =
             [level |-> upgrade[s][t].level + 1, status |-> "UNDER_CONSTRUCTION", due |-> FALSE]]
      /\ UNCHANGED <<effects, open, events>>
  BY DEF UpgradeCommit
<1>4. upgrade[s][t].level + 1 \in 0 .. MaxLevel
  BY <1>2, <1>3, UpkeepAssumption DEF UInv, RowsTyped
<1>5. /\ job' = [job EXCEPT ![r] = None]
      /\ held' = [held EXCEPT ![r] = {}]
  BY DEF UpgradeCommit, Done, Release
<1>6. RowsTyped'
  BY <1>2, <1>3, <1>4, <1>5 DEF UInv, RowsTyped, Statuses
<1>7. EffectsAreBuilt'
  <2> SUFFICES ASSUME NEW x \in Stations, NEW y \in Types
               PROVE  effects[x][y] + (IF upgrade'[x][y].status = "UNDER_CONSTRUCTION" THEN 1 ELSE 0)
                          <= upgrade'[x][y].level
    BY <1>3 DEF EffectsAreBuilt
  <2>1. effects[x][y] \in Nat /\ upgrade[x][y].level \in Nat
    BY UpkeepAssumption DEF UInv, RowsTyped
  <2>2. effects[x][y] <= upgrade[x][y].level
    BY <2>1 DEF UInv, EffectsAreBuilt
  <2>3. CASE x = s /\ y = t
    <3>1. upgrade'[x][y] = [level |-> upgrade[x][y].level + 1, status |-> "UNDER_CONSTRUCTION",
                            due |-> FALSE]
      BY <1>2, <1>3, <2>3 DEF UInv, RowsTyped
    <3> QED
      BY <2>1, <2>2, <3>1
  <2>4. CASE ~(x = s /\ y = t)
    <3>1. upgrade'[x][y] = upgrade[x][y]
      BY <1>2, <1>3, <2>4 DEF UInv, RowsTyped
    <3> QED
      BY <3>1 DEF UInv, EffectsAreBuilt
  <2> QED
    BY <2>3, <2>4
<1>8. ClosedStationHasEvent'
  BY <1>3 DEF UInv, ClosedStationHasEvent
<1>9. ASSUME NEW v \in Sessions
      PROVE  JobOK(v)'
  <2>1. CASE v = r
    BY <1>1, <1>5, <2>1 DEF JobOK, UInv, RowsTyped
  <2>2. CASE v # r
    <3>1. JobOK(v) /\ job'[v] = job[v] /\ held'[v] = held[v]
      BY <1>1, <1>5, <2>2 DEF UInv, JobsSound, RowsTyped
    <3>2. UpgradeRow(s, t) \notin held[v]
      BY <2>2 DEF UpgradeCommit, Free
    <3>3. ASSUME NEW x \in Stations, NEW y \in Types, UpgradeRow(x, y) \in held[v]
          PROVE  upgrade'[x][y] = upgrade[x][y]
      <4>1. ~(x = s /\ y = t)
        BY <3>2, <3>3
      <4> QED
        BY <1>2, <1>3, <4>1 DEF UInv, RowsTyped
    <3> QED
      BY <1>3, <3>1, <3>3 DEF JobOK, JobSound, JobShaped, CompleteSound, ExpireSound, UpgradeRow
  <2> QED
    BY <2>1, <2>2
<1> QED
  BY <1>6, <1>7, <1>8, <1>9 DEF UInv, JobsSound

LEMMA CompleteReads ==
    ASSUME UInv, CompleteLock \/ CompleteEffect
    PROVE  UInv'
<1>1. Tick \in Sessions
  BY DEF Sessions
<1>2. CASE CompleteLock
  <2>1. /\ job'[Tick] = [at |-> "complete", todo |-> Finished, activated |-> Finished]
        /\ held'[Tick] = held[Tick] \cup {UpgradeRow(x[1], x[2]) : x \in Bought}
    BY <1>1, <1>2 DEF CompleteLock, Continue, Take, UInv, RowsTyped
  <2>2. ASSUME NEW s \in Stations, NEW t \in Types, <<s, t>> \in Finished
        PROVE  /\ upgrade[s][t].status = "UNDER_CONSTRUCTION"
               /\ upgrade[s][t].due
               /\ UpgradeRow(s, t) \in held'[Tick]
    BY <2>1, <2>2 DEF Finished, Bought
  <2>3. CompleteSound(Tick, job[Tick])'
    BY <1>2, <2>1, <2>2 DEF CompleteSound, CompleteLock, upkeepVars, UpgradeRow
  <2>4. JobOK(Tick)'
    BY <2>1, <2>3 DEF JobOK, JobSound, JobShaped
  <2> QED
    BY <1>1, <1>2, <2>4, JobStep DEF CompleteLock, Continue
<1>3. CASE CompleteEffect
  <2>1. PICK x \in job[Tick].todo : /\ Take(Tick, {EffectRow(x)})
                                   /\ job' = [job EXCEPT ![Tick] = [job[Tick] EXCEPT !.todo = @ \ {x}]]
    BY <1>3 DEF CompleteEffect, Continue, Lock
  <2>2. CompleteSound(Tick, job[Tick]) /\ job[Tick].at = "complete"
    BY <1>1, <1>3 DEF CompleteEffect, At, UInv, JobsSound, JobOK, JobSound
  <2>3. /\ job'[Tick] = [at |-> "complete", todo |-> job[Tick].todo \ {x},
                         activated |-> job[Tick].activated]
        /\ held[Tick] \subseteq held'[Tick]
    BY <1>1, <2>1, <2>2 DEF UInv, RowsTyped, CompleteSound, Take
  <2>4. CompleteSound(Tick, job[Tick])'
    BY <1>3, <2>2, <2>3 DEF CompleteSound, CompleteEffect, upkeepVars, UpgradeRow
  <2>5. JobOK(Tick)'
    BY <2>3, <2>4 DEF JobOK, JobSound, JobShaped
  <2> QED
    BY <1>1, <1>3, <2>1, <2>5, JobStep DEF CompleteEffect
<1> QED
  BY <1>2, <1>3

LEMMA CompletedRow ==
    ASSUME NEW u \in [level : 0 .. MaxLevel, status : Statuses, due : BOOLEAN]
    PROVE  /\ Complete(u) = [level |-> u.level, status |-> "ACTIVE", due |-> FALSE]
           /\ Complete(u) \in [level : 0 .. MaxLevel, status : Statuses, due : BOOLEAN]
BY DEF Complete, Statuses

LEMMA CompleteCommits ==
    ASSUME UInv, CompleteCommit
    PROVE  UInv'
<1>1. Tick \in Sessions /\ CompleteSound(Tick, job[Tick])
  BY DEF Sessions, CompleteCommit, At, UInv, JobsSound, JobOK, JobSound
<1>2. /\ job' = [job EXCEPT ![Tick] = None]
      /\ held' = [held EXCEPT ![Tick] = {}]
      /\ UNCHANGED <<open, events>>
  BY DEF CompleteCommit, Done, Release
<1> DEFINE Now(s, t) == IF <<s, t>> \in job[Tick].activated
                        THEN Complete(upgrade[s][t]) ELSE upgrade[s][t]
           Effect(s, t) == IF <<s, t>> \in job[Tick].activated
                           THEN effects[s][t] + 1 ELSE effects[s][t]
<1>2a. upgrade' = [s \in Stations |-> [t \in Types |-> Now(s, t)]]
  BY DEF CompleteCommit
<1>2b. effects' = [s \in Stations |-> [t \in Types |-> Effect(s, t)]]
  BY DEF CompleteCommit, OneEffect
<1>3. ASSUME NEW s \in Stations, NEW t \in Types
      PROVE  upgrade'[s][t] = Now(s, t) /\ effects'[s][t] = Effect(s, t)
  <2> HIDE DEF Now, Effect
  <2> QED
    BY <1>2a, <1>2b
<1>4. ASSUME NEW s \in Stations, NEW t \in Types
      PROVE  /\ upgrade[s][t] \in [level : 0 .. MaxLevel, status : Statuses, due : BOOLEAN]
             /\ effects[s][t] \in Nat
             /\ Complete(upgrade[s][t]) = [level |-> upgrade[s][t].level, status |-> "ACTIVE",
                                          due |-> FALSE]
             /\ Complete(upgrade[s][t])
                    \in [level : 0 .. MaxLevel, status : Statuses, due : BOOLEAN]
  <2>1. /\ upgrade[s][t] \in [level : 0 .. MaxLevel, status : Statuses, due : BOOLEAN]
        /\ effects[s][t] \in Nat
    BY DEF UInv, RowsTyped
  <2> QED
    BY <2>1, CompletedRow
<1>5. RowsTyped'
  <2>1. ASSUME NEW s \in Stations, NEW t \in Types
        PROVE  /\ Now(s, t) \in [level : 0 .. MaxLevel, status : Statuses, due : BOOLEAN]
               /\ Effect(s, t) \in Nat
    <3>1. Now(s, t) = upgrade[s][t] \/ Now(s, t) = Complete(upgrade[s][t])
      OBVIOUS
    <3>2. effects[s][t] \in Nat /\ effects[s][t] + 1 \in Nat
      BY DEF UInv, RowsTyped
    <3>3. Effect(s, t) = effects[s][t] \/ Effect(s, t) = effects[s][t] + 1
      OBVIOUS
    <3> HIDE DEF Now, Effect
    <3> QED
      BY <1>4, <3>1, <3>2, <3>3
  <2>2. /\ upgrade' \in [Stations -> [Types -> [level : 0 .. MaxLevel, status : Statuses, due : BOOLEAN]]]
        /\ effects' \in [Stations -> [Types -> Nat]]
    <3> HIDE DEF Now, Effect
    <3> QED
      BY <1>2a, <1>2b, <2>1
  <2> QED
    BY <1>2, <2>2 DEF UInv, RowsTyped
<1>6. EffectsAreBuilt'
  <2> SUFFICES ASSUME NEW s \in Stations, NEW t \in Types
               PROVE  effects'[s][t] + (IF upgrade'[s][t].status = "UNDER_CONSTRUCTION" THEN 1 ELSE 0)
                          <= upgrade'[s][t].level
    BY DEF EffectsAreBuilt
  <2>1. effects[s][t] + (IF upgrade[s][t].status = "UNDER_CONSTRUCTION" THEN 1 ELSE 0)
            <= upgrade[s][t].level
    BY DEF UInv, EffectsAreBuilt
  <2>2. CASE <<s, t>> \in job[Tick].activated
    <3>1. upgrade[s][t].status = "UNDER_CONSTRUCTION"
      BY <1>1, <2>2 DEF CompleteSound
    <3>2. upgrade'[s][t] = Complete(upgrade[s][t]) /\ effects'[s][t] = effects[s][t] + 1
      BY <1>3, <2>2
    <3>3. upgrade'[s][t] = [level |-> upgrade[s][t].level, status |-> "ACTIVE", due |-> FALSE]
      BY <1>4, <3>2
    <3>4. upgrade'[s][t].status = "ACTIVE" /\ upgrade'[s][t].level = upgrade[s][t].level
      BY <3>3
    <3>5. effects[s][t] \in Nat /\ upgrade[s][t].level \in Nat
      BY UpkeepAssumption DEF UInv, RowsTyped
    <3> QED
      BY <2>1, <3>1, <3>2, <3>4, <3>5
  <2>3. CASE <<s, t>> \notin job[Tick].activated
    BY <1>3, <2>1, <2>3
  <2> QED
    BY <2>2, <2>3
<1>7. ClosedStationHasEvent'
  BY <1>2 DEF UInv, ClosedStationHasEvent
<1>8. ASSUME NEW v \in Sessions
      PROVE  JobOK(v)'
  <2>1. CASE v = Tick
    BY <1>1, <1>2, <2>1 DEF JobOK, UInv, RowsTyped
  <2>2. CASE v # Tick
    <3>1. JobOK(v) /\ job'[v] = job[v]
      BY <1>1, <1>2, <2>2 DEF UInv, JobsSound, RowsTyped
    <3> QED
      BY <1>2, <2>2, <3>1 DEF JobOK, JobSound, JobShaped, CompleteSound, ExpireSound
  <2> QED
    BY <2>1, <2>2
<1> QED
  BY <1>5, <1>6, <1>7, <1>8 DEF UInv, JobsSound

-----------------------------------------------------------------------------
(* The economic tick writes none of these rows. *)

LEMMA EconomicSteps ==
    ASSUME UInv, EconomicRead \/ EconomicStock \/ EconomicPlayers \/ EconomicCommit
    PROVE  UInv'
<1>1. Tick \in Sessions
  BY DEF Sessions
<1>2. CASE EconomicRead
  <2>1. PICK sold, price :
            job' = [job EXCEPT ![Tick] =
                       [at |-> "stock", sold |-> sold, left |-> [s \in Stations |-> liters[s] - sold[s]],
                        owner |-> owner, price |-> price]]
    BY <1>2 DEF EconomicRead, Continue
  <2>2. JobOK(Tick)'
    BY <1>1, <2>1 DEF JobOK, JobSound, JobShaped, UInv, RowsTyped
  <2> QED
    BY <1>1, <1>2, <2>1, <2>2, JobStep DEF EconomicRead, storeVars
<1>3. CASE EconomicStock
  <2>1. JobShaped(job[Tick]) /\ job[Tick].at = "stock"
    BY <1>1, <1>3 DEF EconomicStock, At, UInv, JobsSound, JobOK, JobSound
  <2>2. /\ \E rows : Take(Tick, rows)
        /\ job' = [job EXCEPT ![Tick] = [job[Tick] EXCEPT !.at = "players"]]
        /\ UNCHANGED upkeepVars
    BY <1>3 DEF EconomicStock, Continue
  <2>3. JobOK(Tick)'
    BY <1>1, <2>1, <2>2 DEF JobOK, JobSound, JobShaped, UInv, RowsTyped
  <2> QED
    BY <1>1, <2>2, <2>3, JobStep
<1>4. CASE EconomicPlayers
  <2>1. \E sellers, revenue :
            job' = [job EXCEPT ![Tick] =
                       [at |-> "pay", sold |-> job[Tick].sold, left |-> job[Tick].left,
                        sellers |-> sellers, revenue |-> revenue, copy |-> balance]]
    BY <1>4 DEF EconomicPlayers, Continue
  <2>2. JobOK(Tick)'
    BY <1>1, <2>1 DEF JobOK, JobSound, JobShaped, UInv, RowsTyped
  <2> QED
    BY <1>1, <1>4, <2>1, <2>2, JobStep DEF EconomicPlayers, storeVars
<1>5. CASE EconomicCommit
  <2>1. UNCHANGED upkeepVars /\ Done(Tick)
    BY <1>5 DEF EconomicCommit, upkeepVars
  <2> QED
    BY <1>1, <2>1, EndStep
<1> QED
  BY <1>2, <1>3, <1>4, <1>5

-----------------------------------------------------------------------------
(* Inspections. *)

LEMMA InspectReads ==
    ASSUME UInv, NEW w \in Sessions, InspectRead(w) \/ InspectSpare(w) \/ InspectFine(w)
    PROVE  UInv'
<1>1. CASE InspectRead(w)
  <2>1. PICK sample, copy, fine :
            /\ sample \subseteq Stations
            /\ job' = [job EXCEPT ![w] = [at |-> "inspect", todo |-> sample, fined |-> {},
                                          owner |-> owner, copy |-> copy, fine |-> fine]]
    BY <1>1 DEF InspectRead, Continue
  <2>2. JobOK(w)'
    BY <2>1 DEF JobOK, JobSound, JobShaped, UInv, RowsTyped
  <2> QED
    BY <1>1, <2>1, <2>2, JobStep DEF InspectRead, storeVars
<1>2. CASE InspectSpare(w)
  <2>1. JobShaped(job[w]) /\ job[w].at = "inspect"
    BY <1>2 DEF InspectSpare, At, UInv, JobsSound, JobOK, JobSound
  <2>2. PICK s \in job[w].todo : job' = [job EXCEPT ![w] = [job[w] EXCEPT !.todo = @ \ {s}]]
    BY <1>2 DEF InspectSpare, Continue
  <2>3. job'[w] = [at |-> "inspect", todo |-> job[w].todo \ {s}, fined |-> job[w].fined,
                   owner |-> job[w].owner, copy |-> job[w].copy, fine |-> job[w].fine]
    BY <2>1, <2>2 DEF JobShaped, UInv, RowsTyped
  <2>4. JobOK(w)'
    BY <2>1, <2>3 DEF JobOK, JobSound, JobShaped
  <2> QED
    BY <1>2, <2>2, <2>4, JobStep DEF InspectSpare, storeVars
<1>3. CASE InspectFine(w)
  <2>1. JobShaped(job[w]) /\ job[w].at = "inspect"
    BY <1>3 DEF InspectFine, At, UInv, JobsSound, JobOK, JobSound
  <2>2. PICK s \in job[w].todo :
            /\ Lock(w, PlayerRow(job[w].owner[s]))
            /\ \E copy, fine :
                   job' = [job EXCEPT ![w] =
                              [at |-> "inspect", todo |-> job[w].todo \ {s},
                               fined |-> job[w].fined \cup {s}, owner |-> job[w].owner,
                               copy |-> copy, fine |-> fine]]
    BY <1>3 DEF InspectFine, Continue
  <2>3. PICK copy, fine :
            job' = [job EXCEPT ![w] =
                       [at |-> "inspect", todo |-> job[w].todo \ {s},
                        fined |-> job[w].fined \cup {s}, owner |-> job[w].owner,
                        copy |-> copy, fine |-> fine]]
    BY <2>2
  <2>5. job'[w] = [at |-> "inspect", todo |-> job[w].todo \ {s},
                    fined |-> job[w].fined \cup {s}, owner |-> job[w].owner,
                    copy |-> copy, fine |-> fine]
    BY <2>3 DEF UInv, RowsTyped
  <2>4. JobOK(w)'
    BY <2>1, <2>5 DEF JobOK, JobSound, JobShaped
  <2> QED
    BY <1>3, <2>2, <2>3, <2>4, JobStep DEF InspectFine, Lock
<1> QED
  BY <1>1, <1>2, <1>3

\* The new event is not one of those that a job has found due, and it names the
\* stations that close.
LEMMA InspectCommits ==
    ASSUME UInv, NEW w \in Sessions, InspectCommit(w)
    PROVE  UInv'
<1> DEFINE closing == job[w].fined
<1>1. closing \subseteq Stations
  BY DEF InspectCommit, At, UInv, JobsSound, JobOK, JobSound, JobShaped
<1>2. PICK i \in EventIds : /\ events[i] = None
                            /\ events' = [events EXCEPT ![i] = [stations |-> closing, due |-> FALSE]]
  BY DEF InspectCommit, Record
<1>3. /\ open' = [s \in Stations |-> open[s] /\ s \notin closing]
      /\ job' = [job EXCEPT ![w] = None]
      /\ held' = [held EXCEPT ![w] = {}]
      /\ UNCHANGED <<upgrade, effects>>
  BY DEF InspectCommit, Done, Release
<1>4. /\ events'[i] = [stations |-> closing, due |-> FALSE]
      /\ events'[i] \in EventRows
      /\ \A k \in EventIds \ {i} : events'[k] = events[k]
  BY <1>1, <1>2 DEF UInv, RowsTyped, EventRows
<1>5. events'[i] # None /\ events'[i].stations = closing
  <2>1. events'[i] # None
    BY <1>4, NoneIsNoRow, Zenon
  <2>2. events'[i].stations = closing
    BY <1>4
  <2> QED
    BY <2>1, <2>2
<1>6. \A s \in Stations : ~open'[s] => ~open[s] \/ s \in closing
  BY <1>3
<1>7. RowsTyped'
  <2>1. open' \in [Stations -> BOOLEAN]
    BY <1>3
  <2>2. events' \in [EventIds -> EventRows \cup {None}]
    BY <1>2, <1>4 DEF UInv, RowsTyped
  <2> QED
    BY <1>3, <2>1, <2>2 DEF UInv, RowsTyped
<1>8. EffectsAreBuilt'
  BY <1>3 DEF UInv, EffectsAreBuilt
<1>9. ClosedStationHasEvent'
  <2> SUFFICES ASSUME NEW s \in Stations, ~open'[s]
               PROVE  \E k \in EventIds : events'[k] # None /\ s \in events'[k].stations
    BY DEF ClosedStationHasEvent
  <2>1. CASE s \in closing
    BY <1>5, <2>1
  <2>2. CASE ~open[s]
    <3>1. PICK k \in EventIds : events[k] # None /\ s \in events[k].stations
      BY <2>2 DEF UInv, ClosedStationHasEvent
    <3> QED
      BY <1>2, <1>4, <3>1
  <2> QED
    BY <1>6, <2>1, <2>2
<1>10. ASSUME NEW v \in Sessions
       PROVE  JobOK(v)'
  <2>1. CASE v = w
    BY <1>3, <2>1 DEF JobOK, UInv, RowsTyped
  <2>2. CASE v # w
    <3>1. JobOK(v) /\ job'[v] = job[v] /\ held'[v] = held[v]
      BY <1>3, <2>2 DEF UInv, JobsSound, RowsTyped
    <3>2. ASSUME ExpireSound(v, job[v])
          PROVE  ExpireSound(v, job[v])'
      <4>1. i \notin job[v].due
        BY <1>2, <3>2 DEF ExpireSound
      <4>2. \A k \in EventIds : k \in job[v].due => events'[k] # None
        BY <1>4, <3>2, <4>1 DEF ExpireSound
      <4>3. ASSUME NEW s \in Stations, ~open'[s], s \notin job[v].stations
            PROVE  \E k \in EventIds : /\ k \notin job[v].due
                                       /\ events'[k] # None /\ s \in events'[k].stations
        <5>1. CASE s \in closing
          BY <1>5, <4>1, <5>1
        <5>2. CASE ~open[s]
          <6>1. PICK k \in EventIds : /\ k \notin job[v].due
                                      /\ events[k] # None /\ s \in events[k].stations
            BY <3>2, <4>3, <5>2 DEF ExpireSound
          <6> QED
            BY <1>2, <1>4, <6>1
        <5> QED
          BY <1>6, <4>3, <5>1, <5>2
      <4> QED
        BY <3>1, <3>2, <4>2, <4>3 DEF ExpireSound
    <3>3. ASSUME CompleteSound(v, job[v])
          PROVE  CompleteSound(v, job[v])'
      BY <1>3, <3>1, <3>3 DEF CompleteSound
    <3> QED
      BY <3>1, <3>2, <3>3 DEF JobOK, JobSound, JobShaped
  <2> QED
    BY <2>1, <2>2
<1> QED
  BY <1>7, <1>8, <1>9, <1>10 DEF UInv, JobsSound

LEMMA ExpireReads ==
    ASSUME UInv, ExpireRead
    PROVE  UInv'
<1>1. Tick \in Sessions
  BY DEF Sessions
<1>2. /\ job'[Tick] = [at |-> "expire", due |-> DueEvents,
                       stations |-> {s \in StationsOf(DueEvents) : ~open[s]}]
      /\ UNCHANGED upkeepVars
  BY <1>1 DEF ExpireRead, Continue, UInv, RowsTyped
<1>3. ASSUME NEW s \in Stations, ~open[s], s \notin StationsOf(DueEvents)
      PROVE  \E i \in EventIds : i \notin DueEvents /\ events[i] # None /\ s \in events[i].stations
  BY <1>3 DEF UInv, ClosedStationHasEvent, StationsOf
<1>4. ExpireSound(Tick, job[Tick])'
  BY <1>2, <1>3 DEF ExpireSound, DueEvents, upkeepVars
<1>5. JobOK(Tick)'
  BY <1>2, <1>4 DEF JobOK, JobSound, JobShaped
<1> QED
  BY <1>1, <1>5, JobStep DEF ExpireRead, Continue, storeVars

\* What the job does not open has an event that it leaves.
LEMMA ExpireCommits ==
    ASSUME UInv, ExpireCommit
    PROVE  UInv'
<1>1. Tick \in Sessions /\ ExpireSound(Tick, job[Tick])
  BY DEF Sessions, ExpireCommit, At, UInv, JobsSound, JobOK, JobSound
<1>2. /\ open' = [s \in Stations |-> open[s] \/ s \in job[Tick].stations]
      /\ events' = [i \in EventIds |-> IF i \in job[Tick].due THEN None ELSE events[i]]
      /\ job' = [job EXCEPT ![Tick] = None]
      /\ held' = [held EXCEPT ![Tick] = {}]
      /\ UNCHANGED <<upgrade, effects>>
  BY DEF ExpireCommit, Done, Release
<1>3. RowsTyped'
  <2>1. open' \in [Stations -> BOOLEAN]
    BY <1>2
  <2>2. events' \in [EventIds -> EventRows \cup {None}]
    BY <1>2 DEF UInv, RowsTyped
  <2> QED
    BY <1>2, <2>1, <2>2 DEF UInv, RowsTyped
<1>4. EffectsAreBuilt'
  BY <1>2 DEF UInv, EffectsAreBuilt
<1>5. ClosedStationHasEvent'
  <2> SUFFICES ASSUME NEW s \in Stations, ~open'[s]
               PROVE  \E i \in EventIds : events'[i] # None /\ s \in events'[i].stations
    BY DEF ClosedStationHasEvent
  <2>1. ~open[s] /\ s \notin job[Tick].stations
    BY <1>2
  <2>2. PICK i \in EventIds : i \notin job[Tick].due /\ events[i] # None /\ s \in events[i].stations
    BY <1>1, <2>1 DEF ExpireSound
  <2> QED
    BY <1>2, <2>2
<1>6. ASSUME NEW v \in Sessions
      PROVE  JobOK(v)'
  <2>1. CASE v = Tick
    BY <1>1, <1>2, <2>1 DEF JobOK, UInv, RowsTyped
  <2>2. CASE v # Tick
    <3>1. JobOK(v) /\ job'[v] = job[v]
      BY <1>1, <1>2, <2>2 DEF UInv, JobsSound, RowsTyped
    <3> QED
      BY <2>2, <3>1 DEF JobOK, JobSound, JobShaped, CompleteSound, ExpireSound
  <2> QED
    BY <2>1, <2>2
<1> QED
  BY <1>3, <1>4, <1>5, <1>6 DEF UInv, JobsSound

-----------------------------------------------------------------------------
(* Time. *)

LEMMA UpgradesFallDue ==
    ASSUME UInv, NEW s \in Stations, NEW t \in Types, UpgradeFallsDue(s, t)
    PROVE  /\ UInv'
           /\ \A x \in Stations, y \in Types : upgrade'[x][y].status = upgrade[x][y].status
<1>1. /\ upgrade' = [upgrade EXCEPT ![s][t].due = TRUE]
      /\ UNCHANGED <<effects, open, events, job, held>>
  BY DEF UpgradeFallsDue, storeVars
<1>2. upgrade' \in [Stations -> [Types -> [level : 0 .. MaxLevel, status : Statuses, due : BOOLEAN]]]
  <2>1. upgrade[s][t] \in [level : 0 .. MaxLevel, status : Statuses, due : BOOLEAN]
    BY DEF UInv, RowsTyped
  <2>2. [upgrade[s][t] EXCEPT !.due = TRUE]
            \in [level : 0 .. MaxLevel, status : Statuses, due : BOOLEAN]
    BY <2>1
  <2>3. upgrade' = [upgrade EXCEPT ![s] =
            [upgrade[s] EXCEPT ![t] = [upgrade[s][t] EXCEPT !.due = TRUE]]]
    BY <1>1
  <2> QED
    BY <2>2, <2>3 DEF UInv, RowsTyped
<1>3. ASSUME NEW x \in Stations, NEW y \in Types
      PROVE  /\ upgrade'[x][y].level = upgrade[x][y].level
             /\ upgrade'[x][y].status = upgrade[x][y].status
             /\ upgrade[x][y].due => upgrade'[x][y].due
  BY <1>1 DEF UInv, RowsTyped
<1>4. RowsTyped'
  BY <1>1, <1>2 DEF UInv, RowsTyped
<1>5. EffectsAreBuilt' /\ ClosedStationHasEvent'
  BY <1>1, <1>3 DEF UInv, EffectsAreBuilt, ClosedStationHasEvent
<1>6. ASSUME NEW v \in Sessions
      PROVE  JobOK(v)'
  BY <1>1, <1>3 DEF UInv, JobsSound, JobOK, JobSound, JobShaped, CompleteSound, ExpireSound
<1> QED
  BY <1>3, <1>4, <1>5, <1>6 DEF UInv, JobsSound

LEMMA EventsFallDue ==
    ASSUME UInv, NEW i \in EventIds, EventFallsDue(i)
    PROVE  UInv'
<1>1. /\ events' = [events EXCEPT ![i].due = TRUE]
      /\ events[i] \in EventRows
      /\ UNCHANGED <<upgrade, effects, open, job, held>>
  BY DEF EventFallsDue, storeVars, UInv, RowsTyped
<1>2. /\ events'[i] \in EventRows
      /\ events'[i].stations = events[i].stations
      /\ \A k \in EventIds \ {i} : events'[k] = events[k]
      /\ events' \in [EventIds -> EventRows \cup {None}]
  BY <1>1 DEF UInv, RowsTyped, EventRows
<1>3. events[i] # None /\ events'[i] # None
  BY <1>1, <1>2, NoneIsNoRow, Zenon
<1>4. \A k \in EventIds : /\ events[k] # None <=> events'[k] # None
                          /\ events'[k].stations = events[k].stations
  BY <1>2, <1>3
<1>5. RowsTyped' /\ EffectsAreBuilt' /\ ClosedStationHasEvent'
  BY <1>1, <1>2, <1>4 DEF UInv, RowsTyped, EffectsAreBuilt, ClosedStationHasEvent
<1>6. ASSUME NEW v \in Sessions
      PROVE  JobOK(v)'
  BY <1>1, <1>4 DEF UInv, JobsSound, JobOK, JobSound, JobShaped, CompleteSound, ExpireSound
<1> QED
  BY <1>5, <1>6 DEF UInv, JobsSound

-----------------------------------------------------------------------------
(* The invariant. *)

LEMMA InitSound == UpkeepInit => UInv
<1> SUFFICES ASSUME UpkeepInit PROVE UInv
  OBVIOUS
<1>1. RowsTyped
  BY UpkeepAssumption DEF UpkeepInit, RowsTyped, NoUpgrade, Statuses
<1>2. EffectsAreBuilt
  BY NoneIsNoRow DEF UpkeepInit, EffectsAreBuilt, NoUpgrade
<1>3. ClosedStationHasEvent /\ JobsSound
  BY DEF UpkeepInit, ClosedStationHasEvent, JobsSound, JobOK
<1> QED
  BY <1>1, <1>2, <1>3 DEF UInv

LEMMA SchedulerKeeps ==
    ASSUME UInv, SchedulerStep
    PROVE  UInv'
<1>1. Tick \in Sessions
  BY DEF Sessions
<1>2. CASE EconomicRead \/ EconomicStock \/ EconomicPlayers \/ EconomicCommit
  BY <1>2, EconomicSteps
<1>3. CASE InspectRead(Tick) \/ InspectSpare(Tick) \/ InspectFine(Tick)
  BY <1>1, <1>3, InspectReads
<1>4. CASE InspectCommit(Tick)
  BY <1>1, <1>4, InspectCommits
<1>5. CASE CompleteLock \/ CompleteEffect
  BY <1>5, CompleteReads
<1>6. CASE CompleteCommit
  BY <1>6, CompleteCommits
<1>7. CASE ExpireRead
  BY <1>7, ExpireReads
<1>8. CASE ExpireCommit
  BY <1>8, ExpireCommits
<1>9. CASE Skip
  BY <1>9, QuietStep DEF Skip, storeVars
<1>10. CASE Abort(Tick)
  BY <1>1, <1>10, EndStep DEF Abort
<1> QED
  BY <1>2, <1>3, <1>4, <1>5, <1>6, <1>7, <1>8, <1>9, <1>10 DEF SchedulerStep

LEMMA RequestKeeps ==
    ASSUME UInv, NEW r \in Requests, RequestStep(r)
    PROVE  UInv'
<1>1. r \in Sessions
  BY DEF Sessions
<1>2. CASE (\E p \in Players, s \in Stations, t \in Types : UpgradeBegin(r, p, s, t))
               \/ UpgradeLockStation(r)
  BY <1>2, UpgradeReads
<1>3. CASE UpgradeCommit(r)
  BY <1>3, UpgradeCommits
<1>4. CASE InspectRead(r) \/ InspectSpare(r) \/ InspectFine(r)
  BY <1>1, <1>4, InspectReads
<1>5. CASE InspectCommit(r)
  BY <1>1, <1>5, InspectCommits
<1>6. CASE Abort(r)
  BY <1>1, <1>6, EndStep DEF Abort
<1> QED
  BY <1>2, <1>3, <1>4, <1>5, <1>6 DEF RequestStep

LEMMA StepKeeps == UInv /\ [UpkeepNext]_vars => UInv'
<1> SUFFICES ASSUME UInv, [UpkeepNext]_vars PROVE UInv'
  OBVIOUS
<1>1. CASE SchedulerStep
  BY <1>1, SchedulerKeeps
<1>2. CASE \E r \in Requests : RequestStep(r)
  BY <1>2, RequestKeeps
<1>3. CASE \E s \in Stations : StationChangesHands(s)
  BY <1>3, QuietStep DEF StationChangesHands
<1>4. CASE TimePasses
  BY <1>4, UpgradesFallDue, EventsFallDue DEF TimePasses
<1>5. CASE UNCHANGED vars
  BY <1>5, QuietStep DEF vars, upkeepVars
<1> QED
  BY <1>1, <1>2, <1>3, <1>4, <1>5 DEF UpkeepNext

\* The rows of upgrades and inspections, and what every open session has read of
\* them, agree in every reachable state, for every number of players, stations,
\* requests and events.
THEOREM UpkeepInductive == UpkeepSpec => []UInv
BY InitSound, StepKeeps, PTL DEF UpkeepSpec

\* No level takes effect twice or before it is built, whichever purchases, completions
\* and failed ticks overlap.
THEOREM EffectsBuilt == UpkeepSpec => []EffectsAreBuilt
<1>1. UInv => EffectsAreBuilt
  BY DEF UInv
<1> QED
  BY <1>1, UpkeepInductive, PTL

\* No station is closed and forgotten, however inspections and expiries overlap.
THEOREM ClosedStationsRemembered == UpkeepSpec => []ClosedStationHasEvent
<1>1. UInv => ClosedStationHasEvent
  BY DEF UInv
<1> QED
  BY <1>1, UpkeepInductive, PTL

DueLevel(s, t) ==
    upgrade[s][t].status # "ACTIVE" /\ upgrade'[s][t].status = "ACTIVE" => upgrade[s][t].due

LEMMA StepOpensDueLevels ==
    ASSUME UInv, UpkeepNext, NEW s \in Stations, NEW t \in Types
    PROVE  DueLevel(s, t)
<1>1. CASE UNCHANGED upgrade
  BY <1>1 DEF DueLevel
<1>2. CASE \E r \in Requests : UpgradeCommit(r)
  <2>1. PICK r \in Requests : UpgradeCommit(r)
    BY <1>2
  <2>2. \/ upgrade'[s][t] = upgrade[s][t]
        \/ upgrade'[s][t].status = "UNDER_CONSTRUCTION"
    BY <2>1 DEF UpgradeCommit, UInv, RowsTyped
  <2> QED
    BY <2>2 DEF DueLevel
<1>3. CASE CompleteCommit
  <2>1. CompleteSound(Tick, job[Tick])
    BY <1>3 DEF Sessions, CompleteCommit, At, UInv, JobsSound, JobOK, JobSound
  <2>2. CASE <<s, t>> \in job[Tick].activated
    BY <2>1, <2>2 DEF CompleteSound, DueLevel
  <2>3. CASE <<s, t>> \notin job[Tick].activated
    BY <1>3, <2>3 DEF CompleteCommit, DueLevel
  <2> QED
    BY <2>2, <2>3
<1>4. CASE \E x \in Stations, y \in Types : UpgradeFallsDue(x, y)
  BY <1>4, UpgradesFallDue DEF DueLevel
<1> QED
  BY <1>1, <1>2, <1>3, <1>4
  DEF UpkeepNext, SchedulerStep, RequestStep, TimePasses, upkeepVars, storeVars,
      EconomicRead, EconomicStock, EconomicPlayers, EconomicCommit, InspectRead, InspectSpare,
      InspectFine, InspectCommit, CompleteLock, CompleteEffect, ExpireRead, ExpireCommit, Skip,
      Abort, UpgradeBegin, UpgradeLockStation, EventFallsDue, StationChangesHands

\* Only levels whose time has passed come into use: a purchase between the reading
\* and the writing of a completion waits for its rows.
THEOREM DueLevelsOnly == UpkeepSpec => OnlyDueLevelsOpen
<1>1. UInv /\ [UpkeepNext]_vars => [\A s \in Stations, t \in Types : DueLevel(s, t)]_vars
  BY StepOpensDueLevels
<1>2. UpkeepSpec => [][\A s \in Stations, t \in Types : DueLevel(s, t)]_vars
  BY <1>1, UpkeepInductive, PTL DEF UpkeepSpec
<1>3. OnlyDueLevelsOpen <=> [][\A s \in Stations, t \in Types : DueLevel(s, t)]_vars
  BY DEF OnlyDueLevelsOpen, DueLevel
<1> QED
  BY <1>2, <1>3

-----------------------------------------------------------------------------
(* Types.  The rows that hold money and fuel keep their ranges because every *)
(* job writes amounts that were in range when it read them: what a job       *)
(* remembers does not depend on what others write meanwhile.                 *)

MoneyTyped ==
    /\ balance \in [Players -> Nat]
    /\ ledger \in [Players -> Int]
    /\ owner \in [Stations -> Players \cup {None}]
    /\ liters \in [Stations -> 0 .. Capacity]
    /\ turn \in DOMAIN After

\* The amounts that job j has read or computed.
MoneyRead(j) ==
    /\ j.at \in {"station", "buy"} => j.player \in Players
    /\ j.at \in {"stock", "players"} =>
           /\ j.sold \in [Stations -> 0 .. Capacity]
           /\ j.left \in [Stations -> 0 .. Capacity]
           /\ j.price \in Nat
    /\ j.at = "pay" => /\ j.left \in [Stations -> 0 .. Capacity]
                       /\ j.revenue \in [Players -> Nat]
                       /\ j.copy \in [Players -> Nat]
    /\ j.at = "inspect" =>
           /\ \A s \in j.todo \cup j.fined : j.owner[s] \in Players
           /\ j.copy \in [Players -> Nat \cup {None}]
           /\ j.fine \in [Players -> Nat]
           /\ \A s \in j.fined : j.copy[j.owner[s]] \in Nat

MoneyOK(w) == job[w] # None => MoneyRead(job[w])

TypeInv == UInv /\ MoneyTyped /\ \A w \in Sessions : MoneyOK(w)

LEMMA NextTurn == \A t \in DOMAIN After : After[t] \in DOMAIN After
BY DEF After

\* A statement that commits nothing.
LEMMA MoneyStays ==
    ASSUME TypeInv, NEW w \in Sessions, NEW j, MoneyRead(j), job' = [job EXCEPT ![w] = j],
           UNCHANGED <<balance, ledger, owner, liters, turn>>
    PROVE  MoneyTyped' /\ \A v \in Sessions : MoneyOK(v)'
<1>1. MoneyTyped'
  BY DEF TypeInv, MoneyTyped
<1>2. \A v \in Sessions : job'[v] = IF v = w THEN j ELSE job[v]
  BY DEF TypeInv, UInv, RowsTyped
<1> QED
  BY <1>1, <1>2 DEF TypeInv, MoneyOK

\* The end of a job, with or without a commit.
LEMMA JobEnds ==
    ASSUME TypeInv, NEW w \in Sessions, Done(w)
    PROVE  turn' \in DOMAIN After /\ \A v \in Sessions : MoneyOK(v)'
<1>1. \A v \in Sessions : job'[v] = IF v = w THEN None ELSE job[v]
  BY DEF Done, TypeInv, UInv, RowsTyped
<1>2. turn' \in DOMAIN After
  BY NextTurn DEF Done, TypeInv, MoneyTyped
<1> QED
  BY <1>1, <1>2 DEF TypeInv, MoneyOK

\* The jobs stay as they are.
LEMMA JobsStay ==
    ASSUME TypeInv, UNCHANGED job
    PROVE  \A v \in Sessions : MoneyOK(v)'
BY DEF TypeInv, MoneyOK

LEMMA JobFacts ==
    ASSUME TypeInv, NEW w \in Sessions, job[w] # None
    PROVE  MoneyRead(job[w]) /\ JobShaped(job[w])
BY DEF TypeInv, MoneyOK, UInv, JobsSound, JobOK, JobSound

LEMMA PurchaseMoney ==
    ASSUME TypeInv, NEW r \in Requests,
           \/ \E p \in Players, s \in Stations, t \in Types : UpgradeBegin(r, p, s, t)
           \/ UpgradeLockStation(r) \/ UpgradeCommit(r)
    PROVE  MoneyTyped' /\ \A v \in Sessions : MoneyOK(v)'
<1>0. r \in Sessions
  BY DEF Sessions
<1>1. ASSUME NEW p \in Players, NEW s \in Stations, NEW t \in Types, UpgradeBegin(r, p, s, t)
      PROVE  MoneyTyped' /\ \A v \in Sessions : MoneyOK(v)'
  <2>1. MoneyRead([at |-> "station", player |-> p, station |-> s, type |-> t])
    BY DEF MoneyRead
  <2> QED
    BY <1>0, <1>1, <2>1, MoneyStays DEF UpgradeBegin, Continue
<1>2. CASE UpgradeLockStation(r)
  <2>1. job[r] # None /\ job[r].at = "station"
    BY <1>2 DEF UpgradeLockStation, At
  <2>2. MoneyRead(job[r]) /\ job[r] = [at |-> "station", player |-> job[r].player,
                                       station |-> job[r].station, type |-> job[r].type]
    BY <1>0, <2>1, JobFacts DEF JobShaped
  <2>3. [job[r] EXCEPT !.at = "buy"] = [at |-> "buy", player |-> job[r].player,
                                        station |-> job[r].station, type |-> job[r].type]
    BY <2>2
  <2>4. MoneyRead([at |-> "buy", player |-> job[r].player,
                   station |-> job[r].station, type |-> job[r].type])
    BY <2>1, <2>2 DEF MoneyRead
  <2> QED
    BY <1>0, <1>2, <2>3, <2>4, MoneyStays DEF UpgradeLockStation, Continue
<1>3. CASE UpgradeCommit(r)
  <2> DEFINE s == job[r].station
             t == job[r].type
             p == job[r].player
             cost == Cost(upgrade[s][t].level)
  <2>1. job[r] # None /\ job[r].at = "buy"
    BY <1>3 DEF UpgradeCommit, At
  <2>2. p \in Players /\ s \in Stations /\ t \in Types
    BY <1>0, <2>1, JobFacts DEF MoneyRead, JobShaped
  <2>3. cost \in Nat
    <3>1. upgrade[s][t].level \in Nat
      BY <2>2, UpkeepAssumption DEF TypeInv, UInv, RowsTyped
    <3>2. \A a, b, c \in Nat : a + b * c \in Nat
      OBVIOUS
    <3> HIDE DEF s, t
    <3> QED
      BY <3>1, <3>2, UpkeepAssumption DEF Cost
  <2>4. /\ balance[p] >= cost
        /\ balance' = [balance EXCEPT ![p] = @ - cost]
        /\ ledger' = [ledger EXCEPT ![p] = @ + -cost]
        /\ Done(r)
        /\ UNCHANGED <<owner, liters>>
    BY <1>3 DEF UpgradeCommit, Post
  <2> HIDE DEF p, cost
  <2>5. balance' \in [Players -> Nat] /\ ledger' \in [Players -> Int]
    <3>1. balance[p] \in Nat /\ ledger[p] \in Int
      BY <2>2 DEF TypeInv, MoneyTyped
    <3>2. balance[p] - cost \in Nat /\ ledger[p] + -cost \in Int
      BY <2>3, <2>4, <3>1
    <3> QED
      BY <2>2, <2>4, <3>2 DEF TypeInv, MoneyTyped
  <2>6. owner' \in [Stations -> Players \cup {None}] /\ liters' \in [Stations -> 0 .. Capacity]
    BY <2>4 DEF TypeInv, MoneyTyped
  <2> QED
    BY <1>0, <2>4, <2>5, <2>6, JobEnds DEF MoneyTyped
<1> QED
  BY <1>1, <1>2, <1>3

LEMMA CompletionMoney ==
    ASSUME TypeInv, CompleteLock \/ CompleteEffect \/ CompleteCommit
    PROVE  MoneyTyped' /\ \A v \in Sessions : MoneyOK(v)'
<1>0. Tick \in Sessions
  BY DEF Sessions
<1>1. CASE CompleteLock
  <2>1. MoneyRead([at |-> "complete", todo |-> Finished, activated |-> Finished])
    BY DEF MoneyRead
  <2> QED
    BY <1>0, <1>1, <2>1, MoneyStays DEF CompleteLock, Continue
<1>2. CASE CompleteEffect
  <2>1. job[Tick] # None /\ job[Tick].at = "complete"
    BY <1>2 DEF CompleteEffect, At
  <2>2. job[Tick] = [at |-> "complete", todo |-> job[Tick].todo, activated |-> job[Tick].activated]
    BY <1>0, <2>1 DEF TypeInv, UInv, JobsSound, JobOK, JobSound, CompleteSound
  <2>3. PICK x : job' = [job EXCEPT ![Tick] = [job[Tick] EXCEPT !.todo = @ \ {x}]]
    BY <1>2 DEF CompleteEffect, Continue
  <2>4. [job[Tick] EXCEPT !.todo = @ \ {x}].at = "complete"
    BY <2>1, <2>2
  <2>5. MoneyRead([job[Tick] EXCEPT !.todo = @ \ {x}])
    BY <2>4 DEF MoneyRead
  <2> QED
    BY <1>0, <1>2, <2>3, <2>5, MoneyStays DEF CompleteEffect
<1>3. CASE CompleteCommit
  <2>1. UNCHANGED <<balance, ledger, owner, liters>> /\ Done(Tick)
    BY <1>3 DEF CompleteCommit
  <2> QED
    BY <1>0, <2>1, JobEnds DEF MoneyTyped, TypeInv
<1> QED
  BY <1>1, <1>2, <1>3

\* What a tick credits to a player is the sum of what the player's stations sold.
LEMMA RevenueType ==
    ASSUME NEW j, j.sold \in [Stations -> Nat], j.price \in Nat
    PROVE  Revenue(j) \in [Players -> Nat]
<1> SUFFICES ASSUME NEW p \in Players
             PROVE  FoldFunction(+, 0,
                      [s \in Stations |-> IF j.owner[s] = p THEN j.sold[s] * j.price ELSE 0]) \in Nat
  BY DEF Revenue
<1> DEFINE f == [s \in Stations |-> IF j.owner[s] = p THEN j.sold[s] * j.price ELSE 0]
<1>1. \A a, b \in Nat : a * b \in Nat
  OBVIOUS
<1>2. \A s \in Stations : j.sold[s] * j.price \in Nat
  BY <1>1
<1>3. f \in [Stations -> Nat]
  BY <1>2
<1> HIDE DEF f
<1>4. Sum(f) \in Nat
  BY <1>3, SumNat, UpkeepAssumption
<1>5. FoldFunction(+, 0, f) \in Nat
  BY <1>4, FoldIsSum, Zenon
<1> QED
  BY <1>5 DEF f

LEMMA EconomicMoney ==
    ASSUME TypeInv, EconomicRead \/ EconomicStock \/ EconomicPlayers \/ EconomicCommit
    PROVE  MoneyTyped' /\ \A v \in Sessions : MoneyOK(v)'
<1>0. Tick \in Sessions
  BY DEF Sessions
<1>1. CASE EconomicRead
  <2>1. PICK sold \in [Stations -> 0 .. Capacity], price \in Prices :
            /\ \A s \in Stations : sold[s] \in 0 .. liters[s]
            /\ job' = [job EXCEPT ![Tick] =
                   [at |-> "stock", sold |-> sold, left |-> [s \in Stations |-> liters[s] - sold[s]],
                    owner |-> owner, price |-> price]]
    BY <1>1 DEF EconomicRead, Continue, Sellable
  <2> DEFINE left == [s \in Stations |-> liters[s] - sold[s]]
  <2>2. left \in [Stations -> 0 .. Capacity]
    BY <2>1, StoreAssumption DEF TypeInv, MoneyTyped
  <2>3. price \in Nat
    BY UpkeepAssumption
  <2>4. MoneyRead([at |-> "stock", sold |-> sold, left |-> left, owner |-> owner, price |-> price])
    <3> HIDE DEF left
    <3> QED
      BY <2>2, <2>3 DEF MoneyRead
  <2> QED
    BY <1>0, <1>1, <2>1, <2>4, MoneyStays DEF EconomicRead, storeVars
<1>2. CASE EconomicStock
  <2> DEFINE j == job[Tick]
  <2>1. j # None /\ j.at = "stock"
    BY <1>2 DEF EconomicStock, At
  <2>2. MoneyRead(j) /\ j = [at |-> "stock", sold |-> j.sold, left |-> j.left,
                             owner |-> j.owner, price |-> j.price]
    BY <1>0, <2>1, JobFacts DEF JobShaped
  <2>3. [j EXCEPT !.at = "players"] = [at |-> "players", sold |-> j.sold, left |-> j.left,
                                       owner |-> j.owner, price |-> j.price]
    BY <2>2
  <2>4. MoneyRead([at |-> "players", sold |-> j.sold, left |-> j.left,
                   owner |-> j.owner, price |-> j.price])
    BY <2>1, <2>2 DEF MoneyRead
  <2> QED
    BY <1>0, <1>2, <2>3, <2>4, MoneyStays DEF EconomicStock, Continue
<1>3. CASE EconomicPlayers
  <2> DEFINE j == job[Tick]
             sellers == Sellers(j)
             revenue == Revenue(j)
  <2>1. j # None /\ j.at = "players"
    BY <1>3 DEF EconomicPlayers, At
  <2>2. MoneyRead(j)
    BY <1>0, <2>1, JobFacts
  <2>3. j.sold \in [Stations -> Nat] /\ j.price \in Nat /\ j.left \in [Stations -> 0 .. Capacity]
    BY <2>1, <2>2, StoreAssumption DEF MoneyRead
  <2>4. revenue \in [Players -> Nat]
    BY <2>3, RevenueType
  <2>5. job' = [job EXCEPT ![Tick] =
                  [at |-> "pay", sold |-> j.sold, left |-> j.left,
                   sellers |-> sellers, revenue |-> revenue, copy |-> balance]]
    BY <1>3 DEF EconomicPlayers, Continue
  <2> HIDE DEF sellers, revenue
  <2>6. MoneyRead([at |-> "pay", sold |-> j.sold, left |-> j.left,
                   sellers |-> sellers, revenue |-> revenue, copy |-> balance])
    BY <2>3, <2>4 DEF MoneyRead, TypeInv, MoneyTyped
  <2> QED
    BY <1>0, <1>3, <2>5, <2>6, MoneyStays DEF EconomicPlayers, storeVars
<1>4. CASE EconomicCommit
  <2> DEFINE j == job[Tick]
  <2>1. j # None /\ j.at = "pay"
    BY <1>4 DEF EconomicCommit, At
  <2>2. /\ j.left \in [Stations -> 0 .. Capacity]
        /\ j.revenue \in [Players -> Nat]
        /\ j.copy \in [Players -> Nat]
    BY <1>0, <2>1, JobFacts DEF MoneyRead
  <2>3. /\ liters' = [s \in Stations |-> IF j.sold[s] > 0 THEN j.left[s] ELSE liters[s]]
        /\ balance' = [p \in Players |->
               IF p \in j.sellers THEN j.copy[p] + j.revenue[p] ELSE balance[p]]
        /\ ledger' = [p \in Players |-> ledger[p] + j.revenue[p]]
        /\ owner' = owner
        /\ Done(Tick)
    BY <1>4 DEF EconomicCommit
  <2> HIDE DEF j
  <2>4. liters' \in [Stations -> 0 .. Capacity]
    BY <2>2, <2>3 DEF TypeInv, MoneyTyped
  <2>5. balance' \in [Players -> Nat]
    BY <2>2, <2>3 DEF TypeInv, MoneyTyped
  <2>6. ledger' \in [Players -> Int]
    BY <2>2, <2>3 DEF TypeInv, MoneyTyped
  <2> QED
    BY <1>0, <2>3, <2>4, <2>5, <2>6, JobEnds DEF MoneyTyped, TypeInv
<1> QED
  BY <1>1, <1>2, <1>3, <1>4

LEMMA FineRange == \A money \in Nat : FineOf(money) \in Nat /\ money - FineOf(money) \in Nat
BY UpkeepAssumption DEF FineOf

LEMMA InspectMoney ==
    ASSUME TypeInv, NEW w \in Sessions,
           InspectRead(w) \/ InspectSpare(w) \/ InspectFine(w) \/ InspectCommit(w)
    PROVE  MoneyTyped' /\ \A v \in Sessions : MoneyOK(v)'
<1> DEFINE j == job[w]
<1>1. CASE InspectRead(w)
  <2> DEFINE copy == [p \in Players |-> IF w # Tick /\ p = Admin THEN balance[p] ELSE None]
             fine == [p \in Players |-> 0]
  <2>1. PICK sample \in SUBSET {s \in Stations : owner[s] # None /\ open[s]} :
            job' = [job EXCEPT ![w] = [at |-> "inspect", todo |-> sample, fined |-> {},
                                       owner |-> owner, copy |-> copy, fine |-> fine]]
    BY <1>1 DEF InspectRead, Continue
  <2>2. copy \in [Players -> Nat \cup {None}] /\ fine \in [Players -> Nat]
    BY DEF TypeInv, MoneyTyped
  <2>3. \A s \in sample : owner[s] \in Players
    BY DEF TypeInv, MoneyTyped
  <2> HIDE DEF copy, fine
  <2>4. MoneyRead([at |-> "inspect", todo |-> sample, fined |-> {},
                   owner |-> owner, copy |-> copy, fine |-> fine])
    BY <2>2, <2>3 DEF MoneyRead
  <2> QED
    BY <1>1, <2>1, <2>4, MoneyStays DEF InspectRead, storeVars
<1>2. ASSUME InspectSpare(w) \/ InspectFine(w) \/ InspectCommit(w)
      PROVE  /\ j # None /\ j.at = "inspect" /\ MoneyRead(j)
             /\ j = [at |-> "inspect", todo |-> j.todo, fined |-> j.fined,
                     owner |-> j.owner, copy |-> j.copy, fine |-> j.fine]
             /\ \A s \in j.todo \cup j.fined : j.owner[s] \in Players
             /\ j.copy \in [Players -> Nat \cup {None}]
             /\ j.fine \in [Players -> Nat]
             /\ \A s \in j.fined : j.copy[j.owner[s]] \in Nat
  <2>1. j # None /\ j.at = "inspect"
    BY <1>2 DEF InspectSpare, InspectFine, InspectCommit, At
  <2>2. MoneyRead(j) /\ JobShaped(j)
    BY <2>1, JobFacts
  <2> HIDE DEF j
  <2> QED
    BY <2>1, <2>2 DEF MoneyRead, JobShaped
<1>3. CASE InspectSpare(w)
  <2>1. PICK s : job' = [job EXCEPT ![w] = [j EXCEPT !.todo = @ \ {s}]]
    BY <1>3 DEF InspectSpare, Continue
  <2>2. [j EXCEPT !.todo = @ \ {s}] = [at |-> "inspect", todo |-> j.todo \ {s}, fined |-> j.fined,
                                       owner |-> j.owner, copy |-> j.copy, fine |-> j.fine]
    <3>1. j = [at |-> "inspect", todo |-> j.todo, fined |-> j.fined,
               owner |-> j.owner, copy |-> j.copy, fine |-> j.fine]
      BY <1>2, <1>3
    <3> HIDE DEF j
    <3> QED
      BY <3>1
  <2>3. MoneyRead([at |-> "inspect", todo |-> j.todo \ {s}, fined |-> j.fined,
                   owner |-> j.owner, copy |-> j.copy, fine |-> j.fine])
    BY <1>2, <1>3 DEF MoneyRead
  <2> QED
    BY <1>3, <2>1, <2>2, <2>3, MoneyStays DEF InspectSpare, storeVars
<1>4. CASE InspectFine(w)
  <2>1. PICK s \in j.todo :
            LET p == j.owner[s]
                money == IF j.copy[p] = None THEN balance[p] ELSE j.copy[p]
            IN  job' = [job EXCEPT ![w] =
                   [at |-> "inspect", todo |-> j.todo \ {s},
                    fined |-> j.fined \cup {s}, owner |-> j.owner,
                    copy |-> [j.copy EXCEPT ![p] = money - FineOf(money)],
                    fine |-> [j.fine EXCEPT ![p] = @ + FineOf(money)]]]
    BY <1>4 DEF InspectFine, Continue
  <2> DEFINE p == j.owner[s]
             money == IF j.copy[p] = None THEN balance[p] ELSE j.copy[p]
             copy == [j.copy EXCEPT ![p] = money - FineOf(money)]
             fine == [j.fine EXCEPT ![p] = @ + FineOf(money)]
  <2>2. p \in Players
    BY <1>2, <1>4
  <2>3. money \in Nat
    BY <1>2, <1>4, <2>2 DEF TypeInv, MoneyTyped
  <2>4. FineOf(money) \in Nat /\ money - FineOf(money) \in Nat
    BY <2>3, FineRange
  <2>5. /\ copy \in [Players -> Nat \cup {None}] /\ copy[p] = money - FineOf(money)
        /\ \A q \in Players : q # p => copy[q] = j.copy[q]
        /\ fine \in [Players -> Nat]
    <3> HIDE DEF money, p
    <3> QED
      BY <1>2, <1>4, <2>2, <2>4
  <2>6. \A x \in j.fined \cup {s} : copy[j.owner[x]] \in Nat
    <3> HIDE DEF copy, fine, money
    <3> QED
      BY <1>2, <1>4, <2>4, <2>5
  <2> HIDE DEF copy, fine, money, p
  <2>7. MoneyRead([at |-> "inspect", todo |-> j.todo \ {s}, fined |-> j.fined \cup {s},
                   owner |-> j.owner, copy |-> copy, fine |-> fine])
    BY <1>2, <1>4, <2>5, <2>6 DEF MoneyRead
  <2>8. job' = [job EXCEPT ![w] =
                  [at |-> "inspect", todo |-> j.todo \ {s}, fined |-> j.fined \cup {s},
                   owner |-> j.owner, copy |-> copy, fine |-> fine]]
    BY <2>1 DEF copy, fine, money, p
  <2> QED
    BY <1>4, <2>7, <2>8, MoneyStays DEF InspectFine
<1>5. CASE InspectCommit(w)
  <2> DEFINE paying == {j.owner[s] : s \in j.fined}
  <2>1. /\ balance' = [p \in Players |-> IF p \in paying THEN j.copy[p] ELSE balance[p]]
        /\ ledger' = [p \in Players |-> ledger[p] - j.fine[p]]
        /\ UNCHANGED <<owner, liters>>
        /\ Done(w)
    BY <1>5 DEF InspectCommit
  <2>2. \A p \in paying : j.copy[p] \in Nat
    BY <1>2, <1>5
  <2> HIDE DEF paying
  <2>3. balance' \in [Players -> Nat]
    BY <2>1, <2>2 DEF TypeInv, MoneyTyped
  <2>4. ledger' \in [Players -> Int]
    BY <1>2, <1>5, <2>1 DEF TypeInv, MoneyTyped
  <2> QED
    BY <2>1, <2>3, <2>4, JobEnds DEF MoneyTyped, TypeInv
<1> QED
  BY <1>1, <1>3, <1>4, <1>5

LEMMA ExpiryMoney ==
    ASSUME TypeInv, ExpireRead \/ ExpireCommit
    PROVE  MoneyTyped' /\ \A v \in Sessions : MoneyOK(v)'
<1>0. Tick \in Sessions
  BY DEF Sessions
<1>1. CASE ExpireRead
  <2>1. \E stations : job' = [job EXCEPT ![Tick] =
                                [at |-> "expire", due |-> DueEvents, stations |-> stations]]
    BY <1>1 DEF ExpireRead, Continue
  <2>2. PICK stations : job' = [job EXCEPT ![Tick] =
                                  [at |-> "expire", due |-> DueEvents, stations |-> stations]]
    BY <2>1
  <2>3. MoneyRead([at |-> "expire", due |-> DueEvents, stations |-> stations])
    BY DEF MoneyRead
  <2> QED
    BY <1>0, <1>1, <2>2, <2>3, MoneyStays DEF ExpireRead, storeVars
<1>2. CASE ExpireCommit
  <2>1. UNCHANGED <<balance, ledger, owner, liters>> /\ Done(Tick)
    BY <1>2 DEF ExpireCommit
  <2> QED
    BY <1>0, <2>1, JobEnds DEF MoneyTyped, TypeInv
<1> QED
  BY <1>1, <1>2

LEMMA TypesStart == UpkeepInit => TypeInv
<1> SUFFICES ASSUME UpkeepInit PROVE TypeInv
  OBVIOUS
<1>1. MoneyTyped
  BY StoreAssumption DEF UpkeepInit, MoneyTyped, After
<1>2. \A w \in Sessions : MoneyOK(w)
  BY DEF UpkeepInit, MoneyOK
<1> QED
  BY <1>1, <1>2, InitSound DEF TypeInv

LEMMA TypesKept == TypeInv /\ [UpkeepNext]_vars => TypeInv'
<1> SUFFICES ASSUME TypeInv, [UpkeepNext]_vars PROVE TypeInv'
  OBVIOUS
<1>0. UInv'
  BY StepKeeps DEF TypeInv
<1>1. ASSUME NEW w \in Sessions, Abort(w)
      PROVE  MoneyTyped' /\ \A v \in Sessions : MoneyOK(v)'
  <2>1. UNCHANGED <<balance, ledger, owner, liters>> /\ Done(w)
    BY <1>1 DEF Abort
  <2> QED
    BY <2>1, JobEnds DEF MoneyTyped, TypeInv
<1>2. Tick \in Sessions /\ Requests \subseteq Sessions
  BY DEF Sessions
<1>3. CASE SchedulerStep
  <2>1. CASE Skip
    <3>1. UNCHANGED <<balance, ledger, owner, liters, job>> /\ turn' = After[turn]
      BY <2>1 DEF Skip, storeVars
    <3>2. MoneyTyped'
      BY <3>1, NextTurn DEF MoneyTyped, TypeInv
    <3> QED
      BY <1>0, <3>1, <3>2, JobsStay DEF TypeInv
  <2> QED
    BY <1>0, <1>1, <1>2, <1>3, <2>1, EconomicMoney, InspectMoney, CompletionMoney, ExpiryMoney
    DEF SchedulerStep, TypeInv
<1>4. ASSUME NEW r \in Requests, RequestStep(r)
      PROVE  TypeInv'
  BY <1>0, <1>1, <1>2, <1>4, PurchaseMoney, InspectMoney DEF RequestStep, TypeInv
<1>5. ASSUME NEW s \in Stations, StationChangesHands(s)
      PROVE  TypeInv'
  <2>1. PICK p \in Players : owner' = [owner EXCEPT ![s] = p]
    BY <1>5 DEF StationChangesHands
  <2>2. UNCHANGED <<balance, ledger, liters, turn, job>>
    BY <1>5 DEF StationChangesHands
  <2>3. MoneyTyped'
    BY <2>1, <2>2 DEF MoneyTyped, TypeInv
  <2> QED
    BY <1>0, <2>2, <2>3, JobsStay DEF TypeInv
<1>6. CASE TimePasses \/ UNCHANGED vars
  <2>1. UNCHANGED <<balance, ledger, owner, liters, turn, job>>
    BY <1>6 DEF TimePasses, UpgradeFallsDue, EventFallsDue, storeVars, vars
  <2>2. MoneyTyped'
    BY <2>1 DEF MoneyTyped, TypeInv
  <2> QED
    BY <1>0, <2>1, <2>2, JobsStay DEF TypeInv
<1> QED
  BY <1>3, <1>4, <1>5, <1>6 DEF UpkeepNext

\* No balance and no stock leaves its range, although the economic tick and the
\* admin's request write amounts that they read before others changed them.
THEOREM UpkeepTypesCorrect == UpkeepSpec => []UpkeepTypeOK
<1>1. TypeInv => UpkeepTypeOK
  BY DEF TypeInv, UInv, RowsTyped, MoneyTyped, UpkeepTypeOK
<1> QED
  BY <1>1, TypesStart, TypesKept, PTL DEF UpkeepSpec
=============================================================================
