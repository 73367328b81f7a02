------------------------------- MODULE Roads -------------------------------
(***************************************************************************)
(* Who closes, slows and reopens the road edges: game events               *)
(* (services/event_service.py, simulation/events.py), traffic accidents    *)
(* (simulation/accidents.py), the scheduler that rolls and ends both       *)
(* (simulation/scheduler.py), and the start of the process, which builds   *)
(* every edge anew (services/map_import_service.py).                       *)
(*                                                                         *)
(* road_edges belong to the map, not to a game: every game, and an admin's *)
(* trigger_event request beside the scheduler, writes the same rows.  A    *)
(* session reads first and writes when it commits, so each handler is a    *)
(* Start and a Commit, and may be aborted between them.  An UPDATE waits   *)
(* for the row lock of another and then writes its own value, so the order *)
(* of commits is all that the locks decide here.                           *)
(*                                                                         *)
(* An expired event and a deleted accident are never read again: a row is  *)
(* in the model while it is active, and its id may then be used once more. *)
(* The effects of events on stations and on refineries are in Upkeep and   *)
(* FuelOrders.                                                             *)
(***************************************************************************)
EXTENDS Naturals, Sequences, FiniteSets

CONSTANTS
    GameOrder,     \* the games, in the order the scheduler's query returns them
    Edges,         \* road_edges rows
    Reverse,       \* the edge between the same nodes the other way, or None
    Zones,         \* sets of edges that touch an event's region
    EventIds,      \* ids of ACTIVE game_events rows: bounds how many at once
    AccidentIds,   \* ids of road_accidents rows: bounds how many at once
    MaxPenalty,    \* bounds how often a coefficient is multiplied
    None           \* no row

Games == {GameOrder[i] : i \in DOMAIN GameOrder}

ASSUME RoadsAssumption ==
    /\ GameOrder \in Seq(Games)
    /\ Reverse \in [Edges -> Edges \cup {None}]
    /\ Zones \subseteq SUBSET Edges
    /\ MaxPenalty \in Nat
    /\ None \notin Edges

VARIABLES
    running,     \* games whose status is RUNNING
    closed,      \* road_edges.is_closed
    coef,        \* road_edges.traffic_coefficient: how often it was multiplied
    events,      \* ACTIVE game_events rows
    accidents,   \* road_accidents rows
    job,         \* the open transaction of the scheduler and of the admin's request
    pc,          \* the step of the tick cycle that is due, 0 before the cycle
    orphans      \* history: closed by an event of which the row does not name them

vars == <<running, closed, coef, events, accidents, job, pc, orphans>>

Workers == {"scheduler", "admin"}

Jobs == [at: {"reverse", "region", "event", "accidents", "endAccidents", "endEvents"},
         game: Games,
         edges: SUBSET Edges,                     \* that the commit will write
         named: SUBSET Edges,                     \* that the event's row will name
         rows: SUBSET (EventIds \cup AccidentIds)]   \* that it will end

EventRows == [game: Games, edges: SUBSET Edges, due: BOOLEAN]

AccidentRows == [game: Games, edge: Edges, severity: {"MINOR", "MAJOR"},
                 previous: 0 .. MaxPenalty, due: BOOLEAN]

ASSUME NoneIsNoRow == None \notin Jobs \cup EventRows \cup AccidentRows

Active(i) == events[i] # None

Exists(a) == accidents[a] # None

Init ==
    /\ running = Games
    /\ closed = [e \in Edges |-> FALSE]
    /\ coef = [e \in Edges |-> 0]
    /\ events = [i \in EventIds |-> None]
    /\ accidents = [a \in AccidentIds |-> None]
    /\ job = [w \in Workers |-> None]
    /\ pc = 0
    /\ orphans = {}

-----------------------------------------------------------------------------
(* The tick cycle: first an event roll for each game, then for each game   *)
(* the accident roll, the accidents' end and the events' end.              *)

Plan ==
    LET n == Len(GameOrder)
        steps == <<"accidents", "endAccidents", "endEvents">>
    IN  [k \in 1 .. 4 * n |->
            IF k <= n THEN <<"event", GameOrder[k]>>
            ELSE <<steps[((k - n - 1) % 3) + 1], GameOrder[((k - n - 1) \div 3) + 1]>>]

\* The scheduler is about to do this step for game g, which the cycle found running.
AtStep(step, g) ==
    /\ pc > 0
    /\ Plan[pc] = <<step, g>>
    /\ g \in running
    /\ job["scheduler"] = None

Advance == pc' = IF pc = Len(Plan) THEN 0 ELSE pc + 1

\* After its transaction the scheduler goes on; the admin's request is over.
Done(w) ==
    /\ job' = [job EXCEPT ![w] = None]
    /\ IF w = "scheduler" THEN Advance ELSE UNCHANGED pc

DueEvents(g) == {i \in EventIds : Active(i) /\ events[i].game = g /\ events[i].due}

\* Fault: only minor accidents are looked for.
DueMinorAccidents(g) ==
    {a \in AccidentIds : Exists(a) /\ accidents[a].game = g /\ accidents[a].due
                         /\ accidents[a].severity = "MINOR"}

DueAccidents(g) == {a \in AccidentIds : Exists(a) /\ accidents[a].game = g /\ accidents[a].due}

\* A cycle begins with the games whose duration has elapsed.
FinishGames ==
    /\ pc = 0
    /\ \E over \in SUBSET running : running' = running \ over
    /\ Advance
    /\ UNCHANGED <<closed, coef, events, accidents, job, orphans>>

\* A roll that starts nothing, an end that finds nothing due, a game that is over.
Pass ==
    /\ pc > 0
    /\ job["scheduler"] = None
    /\ LET step == Plan[pc][1]
           g == Plan[pc][2]
       IN  g \in running =>
               /\ step = "endAccidents" => DueAccidents(g) = {}
               /\ step = "endEvents" => DueEvents(g) = {}
    /\ Advance
    /\ UNCHANGED <<running, closed, coef, events, accidents, job, orphans>>

-----------------------------------------------------------------------------
(* create_event_for_game: the effect on the roads and the event's row are  *)
(* committed together.  Two settings of the event's definition decide what *)
(* it closes: a random edge with its way back, then the edges that touch a *)
(* region.  Either may be set, or both, or none.                           *)

Open == {e \in Edges : ~closed[e]}

Proceed(w, step, g, edges, named, rows) ==
    job' = [job EXCEPT ![w] =
               [at |-> step, game |-> g, edges |-> edges, named |-> named, rows |-> rows]]

Begin(w, step, g, edges, rows) == Proceed(w, step, g, edges, edges, rows)

\* An automatic event waits until no event of the game is active; an admin's does not.
MayCreate(w, g) ==
    \/ w = "scheduler" /\ AtStep("event", g) /\ \A i \in EventIds : Active(i) => events[i].game # g
    \/ w = "admin" /\ job["admin"] = None /\ g \in running

\* With the random edge, the region may be closed or not.
AfterWorks == {"region", "event"}

\* One open edge is chosen.  The session has copies of all that were open, so the
\* way back is closed too when it is one of them; a closed one is read once more.
StartRoadWorks(w, g) ==
    /\ MayCreate(w, g)
    /\ \E e \in Open :
        IF Reverse[e] \in Edges \ Open THEN Begin(w, "reverse", g, {e}, {})
        ELSE \E next \in AfterWorks : Begin(w, next, g, {e} \cup ({Reverse[e]} \cap Open), {})
    /\ UNCHANGED <<running, closed, coef, events, accidents, pc, orphans>>

FindReverse(w) ==
    /\ job[w] # None
    /\ job[w].at = "reverse"
    /\ \E e \in job[w].edges, next \in AfterWorks :
           Begin(w, next, job[w].game, {e} \cup ({Reverse[e]} \cap Open), {})
    /\ UNCHANGED <<running, closed, coef, events, accidents, pc, orphans>>

\* Both are set: the edges found open in the region replace, in what the row will
\* name, the random edge that is closed as well.
CloseRegion(w) ==
    /\ job[w] # None
    /\ job[w].at = "region"
    /\ \E zone \in Zones \cup {{}} :
        LET found == (zone \cap Open) \ job[w].edges
        IN  Proceed(w, "event", job[w].game, job[w].edges \cup found,
                    IF found = {} THEN job[w].edges ELSE found, {})
    /\ UNCHANGED <<running, closed, coef, events, accidents, pc, orphans>>

\* A checkpoint closes what is open in its region; other events close nothing.
StartCheckpoint(w, g) ==
    /\ MayCreate(w, g)
    /\ \E zone \in Zones \cup {{}} : Begin(w, "event", g, zone \cap Open, {})
    /\ UNCHANGED <<running, closed, coef, events, accidents, pc, orphans>>

\* Fault: the event forgets the edge it found last, the way back.
CommitOneWay(w) ==
    /\ job[w] # None
    /\ job[w].at = "event"
    /\ \E i \in EventIds, forgotten \in SUBSET job[w].named :
        /\ ~Active(i)
        /\ Cardinality(job[w].named \ forgotten) <= 1
        /\ events' = [events EXCEPT ![i] =
                         [game |-> job[w].game, edges |-> job[w].named \ forgotten, due |-> FALSE]]
    /\ closed' = [e \in Edges |-> closed[e] \/ e \in job[w].edges]
    /\ orphans' = orphans \cup (job[w].edges \ job[w].named)
    /\ Done(w)
    /\ UNCHANGED <<running, coef, accidents>>

CommitEvent(w) ==
    /\ job[w] # None
    /\ job[w].at = "event"
    /\ \E i \in EventIds :
        /\ ~Active(i)
        /\ events' = [events EXCEPT ![i] =
                         [game |-> job[w].game, edges |-> job[w].named, due |-> FALSE]]
    /\ closed' = [e \in Edges |-> closed[e] \/ e \in job[w].edges]
    /\ orphans' = orphans \cup (job[w].edges \ job[w].named)
    /\ Done(w)
    /\ UNCHANGED <<running, coef, accidents>>

-----------------------------------------------------------------------------
(* expire_due_events_for_game: an edge that is read as open is not written. *)

\* Fault: every closed edge is reopened, whoever closed it.
StartEndAll(g) ==
    /\ AtStep("endEvents", g)
    /\ DueEvents(g) # {}
    /\ Begin("scheduler", "endEvents", g, Edges \ Open, DueEvents(g))
    /\ UNCHANGED <<running, closed, coef, events, accidents, pc, orphans>>

StartEndEvents(g) ==
    /\ AtStep("endEvents", g)
    /\ DueEvents(g) # {}
    /\ Begin("scheduler", "endEvents", g,
             (UNION {events[i].edges : i \in DueEvents(g)}) \ Open, DueEvents(g))
    /\ UNCHANGED <<running, closed, coef, events, accidents, pc, orphans>>

CommitEndEvents ==
    /\ job["scheduler"] # None
    /\ job["scheduler"].at = "endEvents"
    /\ events' = [i \in EventIds |-> IF i \in job["scheduler"].rows THEN None ELSE events[i]]
    /\ closed' = [e \in Edges |-> closed[e] /\ e \notin job["scheduler"].edges]
    /\ orphans' = orphans \ job["scheduler"].edges
    /\ Done("scheduler")
    /\ UNCHANGED <<running, coef, accidents>>

-----------------------------------------------------------------------------
(* roll_accidents_for_game: on open edges where vehicles or trucks of the  *)
(* game are, any of them; one accident of the game at a time on an edge    *)
(* unless the earlier one is already due.                                  *)

StartAccidents(g) ==
    /\ AtStep("accidents", g)
    /\ LET free == {e \in Open : \A a \in AccidentIds :
                        Exists(a) /\ accidents[a].game = g /\ accidents[a].edge = e
                            => accidents[a].due}
       IN  \E hit \in (SUBSET free) \ {{}} : Begin("scheduler", "accidents", g, hit, {})
    /\ UNCHANGED <<running, closed, coef, events, accidents, pc, orphans>>

CommitAccidents ==
    /\ job["scheduler"] # None
    /\ job["scheduler"].at = "accidents"
    /\ \E row \in [job["scheduler"].edges -> {a \in AccidentIds : ~Exists(a)}],
          severity \in [job["scheduler"].edges -> {"MINOR", "MAJOR"}] :
        LET hit == job["scheduler"].edges
            minor == {e \in hit : severity[e] = "MINOR"}
        IN  /\ \A e, f \in hit : row[e] = row[f] => e = f
            /\ \A e \in minor : coef[e] < MaxPenalty
            /\ accidents' = [a \in AccidentIds |->
                   IF \E e \in hit : row[e] = a
                   THEN LET e == CHOOSE e \in hit : row[e] = a
                        IN  [game |-> job["scheduler"].game, edge |-> e, severity |-> severity[e],
                             previous |-> coef[e], due |-> FALSE]
                   ELSE accidents[a]]
            /\ closed' = [e \in Edges |-> closed[e] \/ e \in hit \ minor]
            /\ coef' = [e \in Edges |-> IF e \in minor THEN coef[e] + 1 ELSE coef[e]]
    /\ Done("scheduler")
    /\ UNCHANGED <<running, events, orphans>>

(* expire_due_accidents_for_game: in the order the query returns them, so  *)
(* any of the due MINOR accidents of an edge may be the last to restore    *)
(* its coefficient.                                                        *)

StartEndAccidents(g) ==
    /\ AtStep("endAccidents", g)
    /\ DueAccidents(g) # {}
    /\ Begin("scheduler", "endAccidents", g,
             {accidents[a].edge : a \in {b \in DueAccidents(g) : accidents[b].severity = "MAJOR"}}
                 \ Open,
             DueAccidents(g))
    /\ UNCHANGED <<running, closed, coef, events, accidents, pc, orphans>>

Restores(e) ==
    {accidents[a].previous : a \in {b \in job["scheduler"].rows :
        accidents[b].severity = "MINOR" /\ accidents[b].edge = e}}

CommitEndAccidents ==
    /\ job["scheduler"] # None
    /\ job["scheduler"].at = "endAccidents"
    /\ accidents' = [a \in AccidentIds |-> IF a \in job["scheduler"].rows THEN None ELSE accidents[a]]
    /\ closed' = [e \in Edges |-> closed[e] /\ e \notin job["scheduler"].edges]
    /\ coef' \in [Edges -> 0 .. MaxPenalty]
    /\ \A e \in Edges : IF Restores(e) = {} THEN coef'[e] = coef[e] ELSE coef'[e] \in Restores(e)
    /\ orphans' = orphans \ job["scheduler"].edges
    /\ Done("scheduler")
    /\ UNCHANGED <<running, events>>

-----------------------------------------------------------------------------
(* A session that fails rolls back: the request is over, the scheduler     *)
(* logs the exception and goes on with the next step.                      *)

Abort(w) ==
    /\ job[w] # None
    /\ Done(w)
    /\ UNCHANGED <<running, closed, coef, events, accidents, orphans>>

\* The process starts again: open transactions are rolled back, and the road
\* graph is built anew, every edge open, under a fresh id that no event's row
\* names.  An accident's row references its edge, so while there is one the edges
\* cannot be deleted and the process does not come up.
Restart ==
    /\ \A a \in AccidentIds : ~Exists(a)
    /\ closed' = [e \in Edges |-> FALSE]
    /\ coef' = [e \in Edges |-> 0]
    /\ events' = [i \in EventIds |->
                     IF Active(i) THEN [events[i] EXCEPT !.edges = {}] ELSE None]
    /\ job' = [w \in Workers |-> None]
    /\ pc' = 0
    /\ orphans' = {}
    /\ UNCHANGED <<running, accidents>>

\* ends_at passes.
EventFallsDue(i) ==
    /\ Active(i)
    /\ events' = [events EXCEPT ![i].due = TRUE]
    /\ UNCHANGED <<running, closed, coef, accidents, job, pc, orphans>>

AccidentFallsDue(a) ==
    /\ Exists(a)
    /\ accidents' = [accidents EXCEPT ![a].due = TRUE]
    /\ UNCHANGED <<running, closed, coef, events, job, pc, orphans>>

\* What the scheduler's task does, and what an admin's request does.
SchedulerStep ==
    \/ FinishGames
    \/ Pass
    \/ \E g \in Games : \/ StartRoadWorks("scheduler", g) \/ StartCheckpoint("scheduler", g)
                       \/ StartEndEvents(g) \/ StartAccidents(g) \/ StartEndAccidents(g)
    \/ FindReverse("scheduler") \/ CloseRegion("scheduler") \/ CommitEvent("scheduler") \/ Abort("scheduler")
    \/ CommitEndEvents \/ CommitAccidents \/ CommitEndAccidents

AdminStep ==
    \/ \E g \in Games : StartRoadWorks("admin", g) \/ StartCheckpoint("admin", g)
    \/ FindReverse("admin") \/ CloseRegion("admin") \/ CommitEvent("admin") \/ Abort("admin")

Next ==
    \/ SchedulerStep
    \/ AdminStep
    \/ Restart
    \/ \E i \in EventIds : EventFallsDue(i)
    \/ \E a \in AccidentIds : AccidentFallsDue(a)

Spec == Init /\ [][Next]_vars

\* The scheduler task keeps running, time passes, and a transaction that is
\* tried for one game again and again does not fail every time.  (A process that
\* is stopped comes up again: nobody stops it while there is an accident.)
Fairness ==
    /\ WF_vars(SchedulerStep)
    /\ \A g \in Games :
        /\ SF_vars(CommitEndEvents /\ job["scheduler"].game = g)
        /\ SF_vars(CommitEndAccidents /\ job["scheduler"].game = g)
    /\ \A i \in EventIds : WF_vars(EventFallsDue(i))
    /\ \A a \in AccidentIds : WF_vars(AccidentFallsDue(a))

FairSpec == Spec /\ Fairness

-----------------------------------------------------------------------------
(* Properties. *)

TypeOK ==
    /\ running \subseteq Games
    /\ closed \in [Edges -> BOOLEAN]
    /\ coef \in [Edges -> 0 .. MaxPenalty]
    /\ events \in [EventIds -> EventRows \cup {None}]
    /\ accidents \in [AccidentIds -> AccidentRows \cup {None}]
    /\ job \in [Workers -> Jobs \cup {None}]
    /\ pc \in 0 .. Len(Plan)
    /\ orphans \subseteq Edges

\* An active event, or a major accident, names the edge.
Cause(e) ==
    \/ \E i \in EventIds : Active(i) /\ e \in events[i].edges
    \/ \E a \in AccidentIds :
           Exists(a) /\ accidents[a].severity = "MAJOR" /\ accidents[a].edge = e

\* No road is closed without a row that will reopen it, although events of
\* several games, accidents and their ends read and write the same edges in
\* overlapping transactions any of which may fail: except the random edges of
\* events that close a region as well, the only ones that CommitEvent leaves
\* unnamed.
ClosedHasCause == \A e \in Edges : closed[e] => Cause(e) \/ e \in orphans

\* A road is reopened only by the end of an event that closed it or of an
\* accident on it: no other handler, of this or of another game, opens it.  (A
\* start of the process replaces them all.)
OnlyEndsReopen ==
    [][\A e \in Edges : closed[e] /\ closed'[e] = FALSE =>
           \/ \E i \in EventIds : Active(i) /\ e \in events[i].edges /\ events'[i] = None
           \/ \E a \in AccidentIds :
                  Exists(a) /\ accidents[a].edge = e /\ accidents'[a] = None
           \/ Restart]_vars

\* While its games run, a closed road that a row names is open again some time
\* later: every event and accident is ended by the cycle and takes its closures
\* with it.  (A game that finishes leaves the roads it closed closed: the cycle no
\* longer visits it.  A road in orphans waits for an accident on it, for another
\* event that names it or for a restart.)
RoadsReopen == \A e \in Edges : closed[e] ~> (~closed[e] \/ e \in orphans \/ running # Games)
=============================================================================
