---------------------------- MODULE RoadsProofs ----------------------------
(***************************************************************************)
(* Roads: types, the cause of every closure, and who reopens, for any      *)
(* games, edges, events and accidents.                                     *)
(*                                                                         *)
(* ClosedHasCause is not inductive: an end that was read before an admin's *)
(* event committed writes after it.  EndsSound adds what an open end still *)
(* relies on when it commits: its rows are there, its edges are theirs,    *)
(* and a closed edge that it will leave alone has a cause it will leave    *)
(* alone, or is in orphans.                                                *)
(***************************************************************************)
EXTENDS Roads, SequenceTheorems, TLAPS

\* An active event outside `rows` names the edge.
EventBeyond(rows, e) == \E i \in EventIds : Active(i) /\ i \notin rows /\ e \in events[i].edges

\* A major accident outside `rows` is on the edge.
AccidentBeyond(rows, e) ==
    \E a \in AccidentIds :
        Exists(a) /\ a \notin rows /\ accidents[a].severity = "MAJOR" /\ accidents[a].edge = e

\* What the scheduler's transaction that ends the events `rows`, and opens
\* `edges`, has read is still so.
EventsEndSound(edges, rows) ==
    /\ \A e \in edges : \E i \in rows \cap EventIds : Active(i) /\ e \in events[i].edges
    /\ \A i \in rows \cap EventIds : Active(i)
    /\ \A e \in Edges : closed[e] /\ e \notin edges =>
           EventBeyond(rows, e) \/ AccidentBeyond({}, e) \/ e \in orphans

AccidentsEndSound(edges, rows) ==
    /\ \A e \in edges : \E a \in rows \cap AccidentIds : Exists(a) /\ accidents[a].edge = e
    /\ \A a \in rows \cap AccidentIds : Exists(a)
    /\ \A e \in Edges : closed[e] /\ e \notin edges =>
           EventBeyond({}, e) \/ AccidentBeyond(rows, e) \/ e \in orphans

EndsSound ==
    LET j == job["scheduler"]
    IN  j # None =>
            /\ j.at = "endEvents" => EventsEndSound(j.edges, j.rows)
            /\ j.at = "endAccidents" => AccidentsEndSound(j.edges, j.rows)

IInv == TypeOK /\ ClosedHasCause /\ EndsSound

-----------------------------------------------------------------------------
LEMMA PlanLength == Len(Plan) \in Nat
<1> DEFINE n == Len(GameOrder)
           steps == <<"accidents", "endAccidents", "endEvents">>
           do(k) == IF k <= n THEN <<"event", GameOrder[k]>>
                    ELSE <<steps[((k - n - 1) % 3) + 1], GameOrder[((k - n - 1) \div 3) + 1]>>
<1>1. n \in Nat
  BY RoadsAssumption, LenProperties
<1>2. 4 * n \in Nat
  BY <1>1
<1>3. Plan = [k \in 1 .. 4 * n |-> do(k)]
  BY DEF Plan
<1> HIDE DEF do, n
<1>4. Plan \in Seq({do(k) : k \in 1 .. 4 * n})
  BY <1>2, <1>3
<1> QED
  BY <1>4, LenProperties

\* A step number stays one, whichever step follows.
LEMMA AdvanceOK ==
    ASSUME pc \in 0 .. Len(Plan), Advance
    PROVE  pc' \in 0 .. Len(Plan)
BY PlanLength DEF Advance

LEMMA DoneOK ==
    ASSUME TypeOK, NEW w \in Workers, Done(w)
    PROVE  /\ job' \in [Workers -> Jobs \cup {None}]
           /\ pc' \in 0 .. Len(Plan)
           /\ w = "scheduler" => job'["scheduler"] = None
           /\ w # "scheduler" => job'["scheduler"] = job["scheduler"]
<1>1. pc' \in 0 .. Len(Plan)
  BY AdvanceOK DEF Done, TypeOK
<1> QED
  BY <1>1 DEF Done, TypeOK, Workers
LEMMA ProceedOK ==
    ASSUME TypeOK, NEW w \in Workers, NEW step \in {"reverse", "region", "event",
           "accidents", "endAccidents", "endEvents"}, NEW g \in Games, NEW edges \in SUBSET Edges,
           NEW named \in SUBSET Edges, NEW rows \in SUBSET (EventIds \cup AccidentIds),
           Proceed(w, step, g, edges, named, rows)
    PROVE  /\ job' \in [Workers -> Jobs \cup {None}]
           /\ job'[w] = [at |-> step, game |-> g, edges |-> edges, named |-> named, rows |-> rows]
           /\ w # "scheduler" => job'["scheduler"] = job["scheduler"]
<1> DEFINE j == [at |-> step, game |-> g, edges |-> edges, named |-> named, rows |-> rows]
<1>1. j \in Jobs
  BY DEF Jobs
<1> QED
  BY <1>1 DEF Proceed, TypeOK, Workers

-----------------------------------------------------------------------------
(* Steps that write no road and no row. *)

RoadsUnchanged == UNCHANGED <<closed, coef, events, accidents, orphans>>

\* What the open end relies on is not about the steps and the other transaction.
LEMMA SoundStays ==
    ASSUME IInv, RoadsUnchanged,
           job'["scheduler"] \in {job["scheduler"], None}
    PROVE  EndsSound'
<1>1. CASE job'["scheduler"] = None
  BY <1>1 DEF EndsSound
<1>2. CASE job'["scheduler"] = job["scheduler"]
  BY <1>2 DEF IInv, EndsSound, EventsEndSound, AccidentsEndSound, EventBeyond, AccidentBeyond,
              RoadsUnchanged, Active, Exists
<1> QED
  BY <1>1, <1>2

LEMMA QuietStep ==
    ASSUME IInv, RoadsUnchanged, running' \subseteq running,
           job' \in [Workers -> Jobs \cup {None}], pc' \in 0 .. Len(Plan), EndsSound'
    PROVE  IInv'
<1>1. TypeOK'
  BY DEF IInv, TypeOK, RoadsUnchanged
<1>2. ClosedHasCause'
  BY DEF IInv, ClosedHasCause, Cause, RoadsUnchanged, Active, Exists
<1> QED
  BY <1>1, <1>2 DEF IInv

\* A transaction that has chosen what to close, and ends nothing.
LEMMA BeginCloses ==
    ASSUME IInv, RoadsUnchanged, UNCHANGED <<running, pc>>,
           NEW w \in Workers, NEW step \in {"reverse", "region", "event", "accidents"},
           NEW g \in Games, NEW edges \in SUBSET Edges, NEW named \in SUBSET Edges,
           Proceed(w, step, g, edges, named, {})
    PROVE  IInv'
<1>1. /\ job' \in [Workers -> Jobs \cup {None}]
      /\ job'[w] = [at |-> step, game |-> g, edges |-> edges, named |-> named, rows |-> {}]
      /\ w # "scheduler" => job'["scheduler"] = job["scheduler"]
  BY ProceedOK DEF IInv
<1>2. pc' \in 0 .. Len(Plan)
  BY DEF IInv, TypeOK
<1>3. EndsSound'
  <2>1. CASE w = "scheduler"
    BY <1>1, <2>1 DEF EndsSound
  <2>2. CASE w # "scheduler"
    BY <1>1, <2>2, SoundStays
  <2> QED
    BY <2>1, <2>2
<1> QED
  BY <1>1, <1>2, <1>3, QuietStep

LEMMA OpenEdges == Open \subseteq Edges
BY DEF Open

LEMMA StartRoadWorksOK ==
    ASSUME IInv, NEW w \in Workers, NEW g \in Games, StartRoadWorks(w, g)
    PROVE  IInv'
<1>1. PICK next \in {"reverse", "region", "event"}, edges \in SUBSET Edges :
          Begin(w, next, g, edges, {})
  <2>1. PICK e \in Open :
            \/ Begin(w, "reverse", g, {e}, {})
            \/ \E next \in AfterWorks : Begin(w, next, g, {e} \cup ({Reverse[e]} \cap Open), {})
    BY DEF StartRoadWorks
  <2>2. {e} \in SUBSET Edges /\ {e} \cup ({Reverse[e]} \cap Open) \in SUBSET Edges
    BY OpenEdges
  <2>3. CASE Begin(w, "reverse", g, {e}, {})
    BY <2>2, <2>3, Zenon
  <2>4. CASE \E next \in AfterWorks : Begin(w, next, g, {e} \cup ({Reverse[e]} \cap Open), {})
    <3>1. PICK next \in AfterWorks : Begin(w, next, g, {e} \cup ({Reverse[e]} \cap Open), {})
      BY <2>4
    <3>2. next \in {"reverse", "region", "event"}
      BY DEF AfterWorks
    <3> QED
      BY <2>2, <3>1, <3>2, Zenon
  <2> QED
    BY <2>1, <2>3, <2>4
<1> QED
  BY <1>1, BeginCloses DEF Begin, StartRoadWorks, RoadsUnchanged

LEMMA FindReverseOK ==
    ASSUME IInv, NEW w \in Workers, FindReverse(w)
    PROVE  IInv'
<1>1. job[w] \in Jobs
  BY DEF FindReverse, IInv, TypeOK
<1>2. PICK e \in job[w].edges, next \in {"region", "event"} :
          Begin(w, next, job[w].game, {e} \cup ({Reverse[e]} \cap Open), {})
  BY DEF FindReverse, AfterWorks
<1>3. {e} \cup ({Reverse[e]} \cap Open) \in SUBSET Edges /\ job[w].game \in Games
  BY <1>1, OpenEdges DEF Jobs
<1> QED
  BY <1>2, <1>3, BeginCloses DEF Begin, FindReverse, RoadsUnchanged

LEMMA CloseRegionOK ==
    ASSUME IInv, NEW w \in Workers, CloseRegion(w)
    PROVE  IInv'
<1>1. job[w] \in Jobs
  BY DEF CloseRegion, IInv, TypeOK
<1>2. PICK found \in SUBSET Edges :
          Proceed(w, "event", job[w].game, job[w].edges \cup found,
                  IF found = {} THEN job[w].edges ELSE found, {})
  BY OpenEdges DEF CloseRegion
<1>3. /\ job[w].game \in Games
      /\ job[w].edges \cup found \in SUBSET Edges
      /\ (IF found = {} THEN job[w].edges ELSE found) \in SUBSET Edges
  BY <1>1 DEF Jobs
<1>4. RoadsUnchanged /\ UNCHANGED <<running, pc>>
  BY DEF CloseRegion, RoadsUnchanged
<1> QED
  BY <1>2, <1>3, <1>4, BeginCloses

LEMMA StartCheckpointOK ==
    ASSUME IInv, NEW w \in Workers, NEW g \in Games, StartCheckpoint(w, g)
    PROVE  IInv'
<1>1. PICK zone \in Zones \cup {{}} : Begin(w, "event", g, zone \cap Open, {})
  BY DEF StartCheckpoint
<1>2. zone \cap Open \in SUBSET Edges
  BY OpenEdges
<1> QED
  BY <1>1, <1>2, BeginCloses DEF Begin, StartCheckpoint, RoadsUnchanged

LEMMA StartAccidentsOK ==
    ASSUME IInv, NEW g \in Games, StartAccidents(g)
    PROVE  IInv'
<1>1. PICK hit \in SUBSET Open : Begin("scheduler", "accidents", g, hit, {})
  BY DEF StartAccidents
<1>2. hit \in SUBSET Edges /\ "scheduler" \in Workers
  BY OpenEdges DEF Workers
<1> QED
  BY <1>1, <1>2, BeginCloses DEF Begin, StartAccidents, RoadsUnchanged
LEMMA FinishGamesOK == ASSUME IInv, FinishGames PROVE IInv'
<1>1. running' \subseteq running /\ RoadsUnchanged /\ job' = job /\ pc' \in 0 .. Len(Plan)
  BY AdvanceOK DEF FinishGames, RoadsUnchanged, IInv, TypeOK
<1> QED
  BY <1>1, SoundStays, QuietStep DEF IInv, TypeOK

LEMMA PassOK == ASSUME IInv, Pass PROVE IInv'
<1>1. running' = running /\ RoadsUnchanged /\ job' = job /\ pc' \in 0 .. Len(Plan)
  BY AdvanceOK DEF Pass, RoadsUnchanged, IInv, TypeOK
<1> QED
  BY <1>1, SoundStays, QuietStep DEF IInv, TypeOK

LEMMA AbortOK == ASSUME IInv, NEW w \in Workers, Abort(w) PROVE IInv'
<1>1. running' = running /\ RoadsUnchanged /\ Done(w)
  BY DEF Abort, RoadsUnchanged
<1>2. /\ job' \in [Workers -> Jobs \cup {None}]
      /\ pc' \in 0 .. Len(Plan)
      /\ job'["scheduler"] \in {job["scheduler"], None}
  BY <1>1, DoneOK DEF IInv
<1> QED
  BY <1>1, <1>2, SoundStays, QuietStep

-----------------------------------------------------------------------------
(* The ends: what they read makes their assumption true. *)

LEMMA StartEndEventsOK ==
    ASSUME IInv, NEW g \in Games, StartEndEvents(g)
    PROVE  IInv'
<1> DEFINE due == DueEvents(g)
           edges == (UNION {events[i].edges : i \in due}) \ Open
<1>1. \A i \in due : i \in EventIds /\ Active(i) /\ events[i] \in EventRows
  BY DEF DueEvents, Active, IInv, TypeOK
<1>2. edges \in SUBSET Edges
  BY <1>1 DEF EventRows
<1>3. due \in SUBSET (EventIds \cup AccidentIds) /\ "scheduler" \in Workers
  BY <1>1 DEF Workers
<1>4. Begin("scheduler", "endEvents", g, edges, due) /\ RoadsUnchanged /\ UNCHANGED <<running, pc>>
  BY DEF StartEndEvents, RoadsUnchanged
<1>5. /\ job' \in [Workers -> Jobs \cup {None}]
      /\ job'["scheduler"] = [at |-> "endEvents", game |-> g, edges |-> edges, named |-> edges,
                             rows |-> due]
  <2> HIDE DEF edges, due
  <2> QED
    BY <1>2, <1>3, <1>4, ProceedOK DEF Begin, IInv
<1>6. EventsEndSound(edges, due)
  <2>1. \A e \in edges : \E i \in due \cap EventIds : Active(i) /\ e \in events[i].edges
    BY <1>1
  <2>2. ASSUME NEW e \in Edges, closed[e], e \notin edges
        PROVE  EventBeyond(due, e) \/ AccidentBeyond({}, e) \/ e \in orphans
    <3>1. Cause(e) \/ e \in orphans
      BY <2>2 DEF IInv, ClosedHasCause
    <3>2. \A i \in due : e \notin events[i].edges
      BY <2>2 DEF Open
    <3> QED
      BY <3>1, <3>2 DEF Cause, EventBeyond, AccidentBeyond
  <2> QED
    BY <1>1, <2>1, <2>2 DEF EventsEndSound
<1>7. EventsEndSound(edges, due)'
  BY <1>4, <1>6 DEF RoadsUnchanged, EventsEndSound, EventBeyond, AccidentBeyond, Active, Exists,
                    DueEvents, Open
<1>8. EndsSound'
  BY <1>4, <1>5, <1>7 DEF EndsSound, EventsEndSound, RoadsUnchanged, DueEvents, Open, EventBeyond,
                          AccidentBeyond, Active, Exists
<1> QED
  BY <1>4, <1>5, <1>8, QuietStep DEF IInv, TypeOK

LEMMA StartEndAccidentsOK ==
    ASSUME IInv, NEW g \in Games, StartEndAccidents(g)
    PROVE  IInv'
<1> DEFINE due == DueAccidents(g)
           edges == {accidents[a].edge : a \in {b \in due : accidents[b].severity = "MAJOR"}} \ Open
<1>1. \A a \in due : a \in AccidentIds /\ Exists(a) /\ accidents[a] \in AccidentRows
  BY DEF DueAccidents, Exists, IInv, TypeOK
<1>2. edges \in SUBSET Edges
  BY <1>1 DEF AccidentRows
<1>3. due \in SUBSET (EventIds \cup AccidentIds) /\ "scheduler" \in Workers
  BY <1>1 DEF Workers
<1>4. Begin("scheduler", "endAccidents", g, edges, due) /\ RoadsUnchanged
      /\ UNCHANGED <<running, pc>>
  BY DEF StartEndAccidents, RoadsUnchanged
<1>5. /\ job' \in [Workers -> Jobs \cup {None}]
      /\ job'["scheduler"] = [at |-> "endAccidents", game |-> g, edges |-> edges, named |-> edges,
                             rows |-> due]
  <2> HIDE DEF edges, due
  <2> QED
    BY <1>2, <1>3, <1>4, ProceedOK DEF Begin, IInv
<1>6. AccidentsEndSound(edges, due)
  <2>1. \A e \in edges : \E a \in due \cap AccidentIds : Exists(a) /\ accidents[a].edge = e
    BY <1>1
  <2>2. ASSUME NEW e \in Edges, closed[e], e \notin edges
        PROVE  EventBeyond({}, e) \/ AccidentBeyond(due, e) \/ e \in orphans
    <3>1. Cause(e) \/ e \in orphans
      BY <2>2 DEF IInv, ClosedHasCause
    <3>2. \A a \in due : accidents[a].severity = "MAJOR" => accidents[a].edge # e
      BY <2>2 DEF Open
    <3> QED
      BY <3>1, <3>2 DEF Cause, EventBeyond, AccidentBeyond
  <2> QED
    BY <1>1, <2>1, <2>2 DEF AccidentsEndSound
<1>7. AccidentsEndSound(edges, due)'
  BY <1>4, <1>6 DEF RoadsUnchanged, AccidentsEndSound, EventBeyond, AccidentBeyond, Active, Exists,
                    DueAccidents, Open
<1>8. EndsSound'
  BY <1>4, <1>5, <1>7 DEF EndsSound, AccidentsEndSound, RoadsUnchanged, DueAccidents, Open,
                          EventBeyond, AccidentBeyond, Active, Exists
<1> QED
  BY <1>4, <1>5, <1>8, QuietStep DEF IInv, TypeOK
-----------------------------------------------------------------------------
(* The commits. *)

\* The new row has an id that no open end holds, and is a cause of what it closes.
LEMMA CommitEventOK ==
    ASSUME IInv, NEW w \in Workers, CommitEvent(w)
    PROVE  IInv'
<1> DEFINE row == [game |-> job[w].game, edges |-> job[w].named, due |-> FALSE]
<1>1. PICK i \in EventIds : ~Active(i) /\ events' = [events EXCEPT ![i] = row]
  BY DEF CommitEvent
<1>2. /\ closed' = [e \in Edges |-> closed[e] \/ e \in job[w].edges]
      /\ orphans' = orphans \cup (job[w].edges \ job[w].named)
      /\ UNCHANGED <<running, coef, accidents>>
      /\ job[w] \in Jobs /\ Done(w)
  BY DEF CommitEvent, IInv, TypeOK
<1>3. row \in EventRows /\ row # None /\ job[w].edges \subseteq Edges
  <2>1. /\ job[w].game \in Games /\ job[w].edges \in SUBSET Edges
        /\ job[w].named \in SUBSET Edges
    BY <1>2 DEF Jobs
  <2>2. row \in EventRows
    BY <2>1 DEF EventRows
  <2> QED
    BY <2>1, <2>2, NoneIsNoRow
<1>4. /\ job' \in [Workers -> Jobs \cup {None}]
      /\ pc' \in 0 .. Len(Plan)
      /\ w = "scheduler" => job'["scheduler"] = None
      /\ w # "scheduler" => job'["scheduler"] = job["scheduler"]
  BY <1>2, DoneOK DEF IInv
<1>5. TypeOK'
  BY <1>1, <1>2, <1>3, <1>4 DEF IInv, TypeOK
<1>6. \A k \in EventIds : events'[k] = IF k = i THEN row ELSE events[k]
  BY <1>1 DEF IInv, TypeOK
<1>7. Active(i)' /\ \A k \in EventIds : Active(k) => Active(k)' /\ events'[k] = events[k]
  BY <1>1, <1>3, <1>6 DEF Active
<1>8. /\ \A e \in Edges : closed'[e] => closed[e] \/ e \in events'[i].edges \/ e \in orphans'
      /\ \A e \in orphans : e \in orphans'
  <2>1. events'[i].edges = job[w].named
    BY <1>6
  <2>2. \A e \in job[w].edges : e \in events'[i].edges \/ e \in orphans'
    BY <1>2, <2>1
  <2>3. \A e \in Edges : closed'[e] = (closed[e] \/ e \in job[w].edges)
    BY <1>2, Zenon
  <2> QED
    BY <1>2, <2>2, <2>3
<1>9. ClosedHasCause'
  BY <1>2, <1>7, <1>8 DEF IInv, ClosedHasCause, Cause, Exists, Active
<1>10. EndsSound'
  <2>1. CASE w = "scheduler"
    BY <1>4, <2>1 DEF EndsSound
  <2>2. CASE w # "scheduler"
    <3> DEFINE j == job["scheduler"]
    <3> SUFFICES ASSUME j # None
                 PROVE  /\ j.at = "endEvents" => EventsEndSound(j.edges, j.rows)'
                        /\ j.at = "endAccidents" => AccidentsEndSound(j.edges, j.rows)'
      BY <1>4, <2>2 DEF EndsSound, EventsEndSound, AccidentsEndSound, EventBeyond, AccidentBeyond,
                        Active, Exists
    <3>1. job'["scheduler"] = j
      BY <1>4, <2>2
    <3>2. CASE j.at = "endEvents"
      <4>1. EventsEndSound(j.edges, j.rows)
        BY <3>2 DEF IInv, EndsSound
      <4>2. i \notin j.rows
        BY <1>1, <4>1 DEF EventsEndSound
      <4> QED
        BY <1>2, <1>7, <1>8, <3>1, <3>2, <4>1, <4>2
           DEF EventsEndSound, EventBeyond, AccidentBeyond, Active, Exists
    <3>3. CASE j.at = "endAccidents"
      <4>1. AccidentsEndSound(j.edges, j.rows)
        BY <3>3 DEF IInv, EndsSound
      <4> QED
        BY <1>2, <1>7, <1>8, <3>1, <3>3, <4>1
           DEF AccidentsEndSound, EventBeyond, AccidentBeyond, Active, Exists
    <3> QED
      BY <3>2, <3>3
  <2> QED
    BY <2>1, <2>2
<1> QED
  BY <1>5, <1>9, <1>10 DEF IInv

LEMMA CommitEndEventsOK == ASSUME IInv, CommitEndEvents PROVE IInv'
<1> DEFINE j == job["scheduler"]
<1>1. j \in Jobs /\ j.at = "endEvents" /\ EventsEndSound(j.edges, j.rows) /\ Done("scheduler")
  BY DEF CommitEndEvents, IInv, TypeOK, EndsSound, Workers
<1>2. /\ job' \in [Workers -> Jobs \cup {None}]
      /\ pc' \in 0 .. Len(Plan)
      /\ job'["scheduler"] = None
  BY <1>1, DoneOK DEF IInv, Workers
<1>3. /\ \A i \in EventIds : events'[i] = IF i \in j.rows THEN None ELSE events[i]
      /\ \A e \in Edges : closed'[e] = (closed[e] /\ e \notin j.edges)
      /\ orphans' = orphans \ j.edges
      /\ UNCHANGED <<running, coef, accidents>>
  BY DEF CommitEndEvents
<1>4. TypeOK'
  BY <1>2 DEF CommitEndEvents, IInv, TypeOK
<1>5. EndsSound'
  BY <1>2 DEF EndsSound
<1>6. ClosedHasCause'
  <2> SUFFICES ASSUME NEW e \in Edges, closed'[e] PROVE (Cause(e) \/ e \in orphans)'
    BY DEF ClosedHasCause
  <2>1. EventBeyond(j.rows, e) \/ AccidentBeyond({}, e) \/ e \in orphans
    BY <1>1, <1>3 DEF EventsEndSound
  <2> QED
    BY <1>3, <2>1 DEF Cause, EventBeyond, AccidentBeyond, Active, Exists
<1> QED
  BY <1>4, <1>5, <1>6 DEF IInv

LEMMA CommitEndAccidentsOK == ASSUME IInv, CommitEndAccidents PROVE IInv'
<1> DEFINE j == job["scheduler"]
<1>1. j \in Jobs /\ j.at = "endAccidents" /\ AccidentsEndSound(j.edges, j.rows)
      /\ Done("scheduler")
  BY DEF CommitEndAccidents, IInv, TypeOK, EndsSound, Workers
<1>2. /\ job' \in [Workers -> Jobs \cup {None}]
      /\ pc' \in 0 .. Len(Plan)
      /\ job'["scheduler"] = None
  BY <1>1, DoneOK DEF IInv, Workers
<1>3. /\ \A a \in AccidentIds : accidents'[a] = IF a \in j.rows THEN None ELSE accidents[a]
      /\ \A e \in Edges : closed'[e] = (closed[e] /\ e \notin j.edges)
      /\ orphans' = orphans \ j.edges
      /\ UNCHANGED <<running, events>>
  BY DEF CommitEndAccidents
<1>4. TypeOK'
  BY <1>2 DEF CommitEndAccidents, IInv, TypeOK
<1>5. EndsSound'
  BY <1>2 DEF EndsSound
<1>6. ClosedHasCause'
  <2> SUFFICES ASSUME NEW e \in Edges, closed'[e] PROVE (Cause(e) \/ e \in orphans)'
    BY DEF ClosedHasCause
  <2>1. EventBeyond({}, e) \/ AccidentBeyond(j.rows, e) \/ e \in orphans
    BY <1>1, <1>3 DEF AccidentsEndSound
  <2> QED
    BY <1>3, <2>1 DEF Cause, EventBeyond, AccidentBeyond, Active, Exists
<1> QED
  BY <1>4, <1>5, <1>6 DEF IInv
\* Every edge that is hit has a row of its own, which is the cause if it is closed.
LEMMA CommitAccidentsOK == ASSUME IInv, CommitAccidents PROVE IInv'
<1> DEFINE j == job["scheduler"]
           hit == j.edges
<1>1. j \in Jobs /\ Done("scheduler") /\ UNCHANGED <<running, events, orphans>>
  BY DEF CommitAccidents, IInv, TypeOK, Workers
<1>2. /\ job' \in [Workers -> Jobs \cup {None}]
      /\ pc' \in 0 .. Len(Plan)
      /\ job'["scheduler"] = None
  BY <1>1, DoneOK DEF IInv, Workers
<1>3. hit \subseteq Edges /\ j.game \in Games
  BY <1>1 DEF Jobs
<1>4. PICK row \in [hit -> {a \in AccidentIds : ~Exists(a)}],
           severity \in [hit -> {"MINOR", "MAJOR"}] :
          LET minor == {e \in hit : severity[e] = "MINOR"}
          IN  /\ \A e, f \in hit : row[e] = row[f] => e = f
              /\ \A e \in minor : coef[e] < MaxPenalty
              /\ accidents' = [a \in AccidentIds |->
                     IF \E e \in hit : row[e] = a
                     THEN LET e == CHOOSE e \in hit : row[e] = a
                          IN  [game |-> j.game, edge |-> e, severity |-> severity[e],
                               previous |-> coef[e], due |-> FALSE]
                     ELSE accidents[a]]
              /\ closed' = [e \in Edges |-> closed[e] \/ e \in hit \ minor]
              /\ coef' = [e \in Edges |-> IF e \in minor THEN coef[e] + 1 ELSE coef[e]]
  BY DEF CommitAccidents
<1> DEFINE minor == {e \in hit : severity[e] = "MINOR"}
           new(e) == [game |-> j.game, edge |-> e, severity |-> severity[e],
                      previous |-> coef[e], due |-> FALSE]
<1>5. \A e \in hit : new(e) \in AccidentRows
  BY <1>3 DEF AccidentRows, IInv, TypeOK
<1>6. ASSUME NEW e \in hit PROVE row[e] \in AccidentIds /\ ~Exists(row[e]) /\ accidents'[row[e]] = new(e)
  <2>1. row[e] \in AccidentIds /\ ~Exists(row[e])
    OBVIOUS
  <2>2. (CHOOSE f \in hit : row[f] = row[e]) = e
    BY <1>4
  <2> QED
    BY <1>4, <2>1, <2>2
<1>7. ASSUME NEW a \in AccidentIds
      PROVE  \/ accidents'[a] = accidents[a]
             \/ \E e \in hit : row[e] = a /\ accidents'[a] = new(e)
  <2>1. CASE \E e \in hit : row[e] = a
    BY <1>6, <2>1
  <2>2. CASE ~\E e \in hit : row[e] = a
    BY <1>4, <2>2
  <2> QED
    BY <2>1, <2>2
<1>8. TypeOK'
  <2>1. accidents' \in [AccidentIds -> AccidentRows \cup {None}]
    <3>1. ASSUME NEW a \in AccidentIds PROVE accidents'[a] \in AccidentRows \cup {None}
      <4>1. accidents[a] \in AccidentRows \cup {None}
        BY DEF IInv, TypeOK
      <4> HIDE DEF new
      <4> QED
        BY <1>5, <1>7, <4>1
    <3>2. accidents' = [a \in AccidentIds |-> accidents'[a]]
      BY <1>4
    <3> QED
      BY <3>1, <3>2
  <2>2. closed' \in [Edges -> BOOLEAN]
    BY <1>4
  <2>3. coef' \in [Edges -> 0 .. MaxPenalty]
    BY <1>4, RoadsAssumption DEF IInv, TypeOK
  <2> QED
    BY <1>1, <1>2, <2>1, <2>2, <2>3 DEF IInv, TypeOK
<1>9. EndsSound'
  BY <1>2 DEF EndsSound
<1>10. ClosedHasCause'
  <2> SUFFICES ASSUME NEW e \in Edges, closed'[e] PROVE (Cause(e) \/ e \in orphans)'
    BY DEF ClosedHasCause
  <2>1. CASE closed[e]
    <3>1. Cause(e) \/ e \in orphans
      BY <2>1 DEF IInv, ClosedHasCause
    <3>2. \A a \in AccidentIds : Exists(a) => accidents'[a] = accidents[a]
      BY <1>6, <1>7
    <3> QED
      BY <1>1, <3>1, <3>2 DEF Cause, Active, Exists
  <2>2. CASE e \in hit \ minor
    <3>1. row[e] \in AccidentIds /\ accidents'[row[e]] = new(e) /\ severity[e] = "MAJOR"
      BY <1>6, <2>2
    <3>2. new(e) # None
      BY <1>5, <2>2, NoneIsNoRow
    <3> QED
      BY <3>1, <3>2 DEF Cause, Exists
  <2>3. closed[e] \/ e \in hit \ minor
    BY <1>4, Zenon
  <2> QED
    BY <2>1, <2>2, <2>3
<1> QED
  BY <1>8, <1>9, <1>10 DEF IInv

\* A row that falls due names what it named.
LEMMA EventFallsDueOK == ASSUME IInv, NEW i \in EventIds, EventFallsDue(i) PROVE IInv'
<1>1. /\ events' \in [EventIds -> EventRows \cup {None}]
      /\ \A k \in EventIds : /\ Active(k)' = Active(k)
                             /\ Active(k) => events'[k].edges = events[k].edges
  <2>1. events[i] \in EventRows /\ [events[i] EXCEPT !.due = TRUE] \in EventRows
    BY DEF EventFallsDue, Active, EventRows, IInv, TypeOK
  <2>2. [events[i] EXCEPT !.due = TRUE].edges = events[i].edges
    BY <2>1 DEF EventRows
  <2>3. events' = [events EXCEPT ![i] = [events[i] EXCEPT !.due = TRUE]]
    BY DEF EventFallsDue
  <2> QED
    BY <2>1, <2>2, <2>3, NoneIsNoRow DEF EventFallsDue, Active, IInv, TypeOK
<1>2. UNCHANGED <<running, closed, coef, accidents, job, pc, orphans>>
  BY DEF EventFallsDue
<1>3. TypeOK'
  BY <1>1, <1>2 DEF IInv, TypeOK
<1>4. ClosedHasCause'
  BY <1>1, <1>2 DEF IInv, ClosedHasCause, Cause, Exists
<1>5. EndsSound'
  BY <1>1, <1>2 DEF IInv, EndsSound, EventsEndSound, AccidentsEndSound, EventBeyond,
                    AccidentBeyond, Exists
<1> QED
  BY <1>3, <1>4, <1>5 DEF IInv

LEMMA AccidentFallsDueOK == ASSUME IInv, NEW a \in AccidentIds, AccidentFallsDue(a) PROVE IInv'
<1>1. /\ accidents' \in [AccidentIds -> AccidentRows \cup {None}]
      /\ \A b \in AccidentIds : /\ Exists(b)' = Exists(b)
                                /\ Exists(b) => /\ accidents'[b].edge = accidents[b].edge
                                               /\ accidents'[b].severity = accidents[b].severity
  <2>1. accidents[a] \in AccidentRows /\ [accidents[a] EXCEPT !.due = TRUE] \in AccidentRows
    BY DEF AccidentFallsDue, Exists, AccidentRows, IInv, TypeOK
  <2>2. /\ [accidents[a] EXCEPT !.due = TRUE].edge = accidents[a].edge
        /\ [accidents[a] EXCEPT !.due = TRUE].severity = accidents[a].severity
    BY <2>1 DEF AccidentRows
  <2>3. accidents' = [accidents EXCEPT ![a] = [accidents[a] EXCEPT !.due = TRUE]]
    BY DEF AccidentFallsDue
  <2> QED
    BY <2>1, <2>2, <2>3, NoneIsNoRow DEF AccidentFallsDue, Exists, IInv, TypeOK
<1>2. UNCHANGED <<running, closed, coef, events, job, pc, orphans>>
  BY DEF AccidentFallsDue
<1>3. TypeOK'
  BY <1>1, <1>2 DEF IInv, TypeOK
<1>4. ClosedHasCause'
  BY <1>1, <1>2 DEF IInv, ClosedHasCause, Cause, Active
<1>5. EndsSound'
  BY <1>1, <1>2 DEF IInv, EndsSound, EventsEndSound, AccidentsEndSound, EventBeyond,
                    AccidentBeyond, Active
<1> QED
  BY <1>3, <1>4, <1>5 DEF IInv
\* All roads are open, and no transaction is.
LEMMA RestartOK == ASSUME IInv, Restart PROVE IInv'
<1>1. /\ closed' = [e \in Edges |-> FALSE]
      /\ coef' = [e \in Edges |-> 0]
      /\ job' = [w \in Workers |-> None]
      /\ pc' = 0 /\ orphans' = {}
      /\ UNCHANGED <<running, accidents>>
  BY DEF Restart
<1>2. events' \in [EventIds -> EventRows \cup {None}]
  <2>1. ASSUME NEW i \in EventIds, Active(i) PROVE [events[i] EXCEPT !.edges = {}] \in EventRows
    <3>1. events[i] \in EventRows
      BY <2>1 DEF Active, IInv, TypeOK
    <3> QED
      BY <3>1 DEF EventRows
  <2> QED
    BY <2>1 DEF Restart
<1>3. TypeOK'
  BY <1>1, <1>2, PlanLength, RoadsAssumption DEF IInv, TypeOK
<1>4. ClosedHasCause' /\ EndsSound'
  BY <1>1 DEF ClosedHasCause, EndsSound, Workers
<1> QED
  BY <1>3, <1>4 DEF IInv

-----------------------------------------------------------------------------
LEMMA InitOK == Init => IInv
<1> SUFFICES ASSUME Init PROVE IInv
  OBVIOUS
<1>1. TypeOK
  BY PlanLength, RoadsAssumption DEF Init, TypeOK
<1>2. ClosedHasCause
  BY DEF Init, ClosedHasCause
<1>3. EndsSound
  BY DEF Init, EndsSound, Workers
<1> QED
  BY <1>1, <1>2, <1>3 DEF IInv

LEMMA StepOK == IInv /\ [Next]_vars => IInv'
<1> SUFFICES ASSUME IInv, [Next]_vars PROVE IInv'
  OBVIOUS
<1> USE DEF Workers
<1>1. CASE SchedulerStep
  BY <1>1, FinishGamesOK, PassOK, StartRoadWorksOK, StartCheckpointOK, StartEndEventsOK,
     StartAccidentsOK, StartEndAccidentsOK, FindReverseOK, CloseRegionOK, CommitEventOK, AbortOK,
     CommitEndEventsOK, CommitAccidentsOK, CommitEndAccidentsOK
  DEF SchedulerStep
<1>2. CASE AdminStep
  BY <1>2, StartRoadWorksOK, StartCheckpointOK, FindReverseOK, CloseRegionOK, CommitEventOK,
     AbortOK
  DEF AdminStep
<1>3. CASE \E i \in EventIds : EventFallsDue(i)
  BY <1>3, EventFallsDueOK
<1>4. CASE \E a \in AccidentIds : AccidentFallsDue(a)
  BY <1>4, AccidentFallsDueOK
<1>5. CASE Restart
  BY <1>5, RestartOK
<1>6. CASE UNCHANGED vars
  <2>1. running' = running /\ RoadsUnchanged /\ job' = job /\ pc' = pc
    BY <1>6 DEF vars, RoadsUnchanged
  <2> QED
    BY <2>1, SoundStays, QuietStep DEF IInv, TypeOK
<1> QED
  BY <1>1, <1>2, <1>3, <1>4, <1>5, <1>6 DEF Next

\* The invariant that the theorems below are read from.
THEOREM RoadsInductive == Spec => []IInv
<1> QED
  BY InitOK, StepOK, PTL DEF Spec

\* Every row and transaction of Roads has its type.
THEOREM RoadsTypesCorrect == Spec => []TypeOK
<1>1. IInv => TypeOK
  BY DEF IInv
<1> QED
  BY <1>1, RoadsInductive, PTL

\* A closed road has an active event or a major accident that names it, or was
\* left unnamed by an event that closed a random edge and a region, whatever games,
\* admins and ends overlap and whenever the process restarts: event_service.py,
\* events.py, accidents.py.
THEOREM ClosuresHaveCauses == Spec => []ClosedHasCause
<1>1. IInv => ClosedHasCause
  BY DEF IInv
<1> QED
  BY <1>1, RoadsInductive, PTL

LEMMA ReopeningStep ==
    ASSUME IInv, [Next]_vars, ~Restart, NEW e \in Edges, closed[e], closed'[e] = FALSE
    PROVE  \/ \E i \in EventIds : Active(i) /\ e \in events[i].edges /\ events'[i] = None
           \/ \E a \in AccidentIds : Exists(a) /\ accidents[a].edge = e /\ accidents'[a] = None
<1> DEFINE j == job["scheduler"]
<1>1. CASE CommitEndEvents
  <2>1. e \in j.edges
    BY <1>1 DEF CommitEndEvents
  <2>2. EventsEndSound(j.edges, j.rows)
    BY <1>1 DEF CommitEndEvents, IInv, EndsSound
  <2>3. PICK i \in j.rows \cap EventIds : Active(i) /\ e \in events[i].edges
    BY <2>1, <2>2 DEF EventsEndSound
  <2> QED
    BY <1>1, <2>3 DEF CommitEndEvents
<1>2. CASE CommitEndAccidents
  <2>1. e \in j.edges
    BY <1>2 DEF CommitEndAccidents
  <2>2. AccidentsEndSound(j.edges, j.rows)
    BY <1>2 DEF CommitEndAccidents, IInv, EndsSound
  <2>3. PICK a \in j.rows \cap AccidentIds : Exists(a) /\ accidents[a].edge = e
    BY <2>1, <2>2 DEF AccidentsEndSound
  <2> QED
    BY <1>2, <2>3 DEF CommitEndAccidents
<1>3. CASE ~CommitEndEvents /\ ~CommitEndAccidents
  <2>1. ASSUME NEW w \in Workers, CommitEvent(w) PROVE closed'[e]
    BY <2>1 DEF CommitEvent
  <2>2. ASSUME CommitAccidents PROVE closed'[e]
    BY <2>2 DEF CommitAccidents
  <2>3. CASE closed' = closed
    BY <2>3
  <2>4. closed' = closed \/ CommitAccidents \/ \E w \in Workers : CommitEvent(w)
    BY <1>3 DEF Next, SchedulerStep, AdminStep, FinishGames, Pass, StartRoadWorks, StartCheckpoint,
                FindReverse, CloseRegion, StartEndEvents, StartAccidents, StartEndAccidents, Abort,
                EventFallsDue, AccidentFallsDue, vars, Workers
  <2> QED
    BY <2>1, <2>2, <2>3, <2>4
<1> QED
  BY <1>1, <1>2, <1>3

\* No handler of any game opens a road, except by the end of an event or of an
\* accident that named it; a restart of the process replaces the roads.
THEOREM EndsAloneReopen == Spec => OnlyEndsReopen
<1> DEFINE Reopening(e) ==
        closed[e] /\ closed'[e] = FALSE =>
           \/ \E i \in EventIds : Active(i) /\ e \in events[i].edges /\ events'[i] = None
           \/ \E a \in AccidentIds : Exists(a) /\ accidents[a].edge = e /\ accidents'[a] = None
           \/ Restart
<1>1. IInv /\ [Next]_vars => [\A e \in Edges : Reopening(e)]_vars
  BY ReopeningStep
<1> QED
  BY <1>1, RoadsInductive, PTL DEF Spec, OnlyEndsReopen
=============================================================================
