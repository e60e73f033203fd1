-------------------------- MODULE MigrationsProofs ---------------------------
(***************************************************************************)
(* For any number of processes that migrate one database together, from any *)
(* version and with any number of crashes: a recorded version is applied, a  *)
(* process that is ready finds its schema, and the rebuild of item_variants *)
(* keeps what refers to it.                                                *)
(***************************************************************************)
EXTENDS Migrations, TLAPS

Places == SwapPlaces \cup {"start", "next", "look", "work", "record", "shape", "commit", "ready"}

Processes ==
  [at : Places, applied : SUBSET Versions, version : 0 .. (SchemaVersion + 1),
   missing : BOOLEAN, fk : BOOLEAN]

\* The types, and who may have the open transaction.
Typed ==
  /\ from \in StartVersions
  /\ db \in Databases /\ undo \in Databases
  /\ owner \in Procs \cup {Nobody}
  /\ proc \in [Procs -> Processes]
  /\ torn \subseteq {"cut", "met"} /\ written \subseteq TablesOf(SchemaVersion)
  /\ owner # Nobody => proc[owner].at \in {"look", "work", "record", "shape", "unstage", "commit"}
  /\ owner = Nobody => undo = db

\* What an open transaction adds can be rolled back without taking away what a record
\* stands for; it never holds a new shape of item_variants.
Behind(d, u) ==
  /\ u.done \subseteq d.done
  /\ d.applied \subseteq d.done /\ u.applied \subseteq u.done
  /\ d.variants = u.variants
  /\ d.variants = "new" => RebuildVersion \in u.done

\* A process with state s that sees a database d has behind it what it went past.
Progress(s, d, u) ==
  /\ s.applied \subseteq u.done
  /\ s.at \in {"look", "work"} => s.version \in Versions
  /\ s.at = "record" => s.version \in Versions /\ s.version \in d.done
  /\ s.at \in SwapPlaces \cup {"shape"} => s.version \in {RebuildVersion, SchemaVersion + 1}
  /\ s.at \in {"commit", "ready"} => s.version = SchemaVersion + 1
  /\ s.at \notin {"start", "next"} => \A v \in Versions : v < s.version => v \in d.done

\* Unless two rebuilds met, item_variants has its old shape until the rebuild drops it,
\* and has the new one for a process that went past it.
Shape(s, d, met) ==
  met \/ /\ s.at \in {"unstage", "stage", "copy", "drop"} => d.variants = "old"
         /\ s.at \in {"commit", "ready"} => d.variants = "new"

Met == "met" \in torn

IInv ==
  /\ Typed
  /\ Behind(db, undo)
  /\ \A p \in Procs : Progress(proc[p], Seen(p), undo) /\ Shape(proc[p], Seen(p), Met)

-----------------------------------------------------------------------------
LEMMA Constant ==
  /\ SchemaVersion = 19 /\ RebuildVersion = 12
  /\ Versions = 1 .. 19 /\ RebuildVersion \in Versions
  /\ SwapPlaces = {"unstage", "stage", "copy", "drop", "rename"}
  /\ ScriptVersions \subseteq Versions
BY DEF SchemaVersion, RebuildVersion, Versions, SwapPlaces, ScriptVersions

LEMMA TablesTyped == \A v \in 0 .. 19 : TablesOf(v) \subseteq TablesOf(SchemaVersion)
BY DEF TablesOf, SchemaVersion, LaterTables, FirstTables

\* IInv gives what the run checks.
LEMMA Implies == IInv => SchemaIsThere
<1> SUFFICES ASSUME IInv PROVE SchemaIsThere
  OBVIOUS
<1>1. TypeOK
  BY DEF IInv, Typed, TypeOK, Processes, Places
<1>2. RecordedIsApplied
  BY DEF IInv, Behind, RecordedIsApplied
<1>3. ReadyFindsItsSchema
  BY Constant DEF IInv, Progress, Shape, Met, ReadyFindsItsSchema
<1> QED BY <1>1, <1>2, <1>3 DEF SchemaIsThere

LEMMA Initially == Init => IInv
<1> SUFFICES ASSUME Init PROVE IInv
  OBVIOUS
<1>1. from \in 0 .. 19 /\ 1 .. from \subseteq Versions
  BY MigrationsAssumption, Constant DEF Init, MigrationsAssumption
<1>2. TablesOf(from) \subseteq TablesOf(SchemaVersion)
  BY <1>1, TablesTyped
<1>3. db \in Databases
  BY <1>1, <1>2 DEF Init, Databases
<1>4. NotStarted \in Processes
  BY DEF NotStarted, Processes, Places, SchemaVersion
<1>5. Typed
  BY <1>2, <1>3, <1>4 DEF Init, Typed
<1>6. Behind(db, undo)
  BY <1>1, Constant DEF Init, Behind
<1>7. ASSUME NEW p \in Procs
      PROVE  Progress(proc[p], Seen(p), undo) /\ Shape(proc[p], Seen(p), Met)
  BY Constant DEF Init, NotStarted, Progress, Shape, Met
<1> QED BY <1>5, <1>6, <1>7 DEF IInv

-----------------------------------------------------------------------------
(* Steps of a process: what they leave of the others.                      *)

\* If nothing that was done is undone for the other processes and the table keeps its
\* shape for them, the invariant of each process depends on the one that moves.
LEMMA OthersKeep ==
  ASSUME IInv, NEW p \in Procs, NEW next \in Processes, Set(p, next),
         undo.done \subseteq undo'.done, Met => Met',
         \A q \in Procs \ {p} : /\ Seen(q).done \subseteq Seen(q)'.done
                                /\ Shape(proc[q], Seen(q)', Met'),
         Progress(next, Seen(p)', undo'), Shape(next, Seen(p)', Met')
  PROVE  \A q \in Procs : (Progress(proc[q], Seen(q), undo) /\ Shape(proc[q], Seen(q), Met))'
<1> SUFFICES ASSUME NEW q \in Procs
             PROVE  Progress(proc'[q], Seen(q)', undo') /\ Shape(proc'[q], Seen(q)', Met')
  BY DEF Progress, Shape
<1>1. CASE q = p
  <2>1. proc'[p] = next
    BY DEF IInv, Typed, Set
  <2> QED BY <1>1, <2>1
<1>2. CASE q # p
  <2>1. proc'[q] = proc[q]
    BY <1>2 DEF IInv, Typed, Set
  <2>2. Progress(proc[q], Seen(q), undo)
    BY DEF IInv
  <2>3. Progress(proc[q], Seen(q)', undo')
    BY <1>2, <2>2 DEF Progress
  <2> QED BY <1>2, <2>1, <2>3
<1> QED BY <1>1, <1>2

LEMMA ProcsTyped ==
  ASSUME Typed, NEW p \in Procs, NEW next \in Processes, Set(p, next)
  PROVE  /\ proc' \in [Procs -> Processes] /\ proc'[p] = next
         /\ \A q \in Procs \ {p} : proc'[q] = proc[q]
BY DEF Typed, Set

\* A step that leaves the database alone.
LEMMA Thinks ==
  ASSUME IInv, NEW p \in Procs, NEW next \in Processes, Set(p, next),
         UNCHANGED <<from, db, owner, undo, torn, written>>,
         owner = p => next.at \in {"look", "work", "record", "shape", "unstage", "commit"},
         Progress(next, Seen(p), undo), Shape(next, Seen(p), Met)
  PROVE  IInv'
<1>1. Typed'
  BY ProcsTyped DEF IInv, Typed
<1>2. Behind(db, undo)'
  BY DEF IInv, Behind
<1>3. \A q \in Procs : Seen(q)' = Seen(q)
  BY DEF Seen
<1>4. Met' = Met
  BY DEF Met
<1>5. \A q \in Procs : Shape(proc[q], Seen(q)', Met')
  BY <1>3, <1>4 DEF IInv
<1>6. \A q \in Procs : (Progress(proc[q], Seen(q), undo) /\ Shape(proc[q], Seen(q), Met))'
  BY <1>3, <1>4, <1>5, OthersKeep
<1> QED BY <1>1, <1>2, <1>6 DEF IInv

\* An error or a crash: what is rolled back nobody else has seen.
LEMMA CloseKeeps ==
  ASSUME IInv, NEW p \in Procs, Closed(p), UNCHANGED <<from, written>>,
         torn' \subseteq {"cut", "met"}, torn \subseteq torn'
  PROVE  IInv'
<1>1. NotStarted \in Processes
  BY DEF NotStarted, Processes, Places, SchemaVersion
<1>2. Set(p, NotStarted)
  BY DEF Closed, Set
<1>3. db' \in Databases /\ undo' \in Databases /\ owner' \in Procs \cup {Nobody}
  BY DEF IInv, Typed, Closed
<1>4. Typed'
  BY <1>1, <1>2, <1>3, ProcsTyped DEF IInv, Typed, Closed
<1>5. Behind(db, undo)'
  BY DEF IInv, Behind, Closed
<1>6. ASSUME NEW q \in Procs \ {p} PROVE Seen(q)' = Seen(q)
  BY MigrationsAssumption DEF IInv, Typed, Closed, Seen, MigrationsAssumption
<1>7. Met => Met'
  BY DEF Met
<1>8. ASSUME NEW q \in Procs \ {p} PROVE Shape(proc[q], Seen(q)', Met')
  BY <1>6, <1>7 DEF IInv, Shape
<1>9. Progress(NotStarted, Seen(p)', undo') /\ Shape(NotStarted, Seen(p)', Met')
  BY Constant DEF Progress, Shape, NotStarted
<1>10. undo.done \subseteq undo'.done
  BY DEF Closed
<1>11. \A q \in Procs : (Progress(proc[q], Seen(q), undo) /\ Shape(proc[q], Seen(q), Met))'
  BY <1>1, <1>2, <1>6, <1>7, <1>8, <1>9, <1>10, OthersKeep
<1> QED BY <1>4, <1>5, <1>11 DEF IInv

-----------------------------------------------------------------------------
(* The next version to apply.                                              *)

\* Versions that each have a smaller one among them start beyond the last one.
LEMMA LeastVersion ==
  ASSUME NEW S \in SUBSET (1 .. 19), S # {}
  PROVE  \E n \in S : \A k \in S : n <= k
<1> SUFFICES ASSUME \A n \in S : \E k \in S : k < n
             PROVE  FALSE
  OBVIOUS
<1>1. \A n \in S : n > 5
  OBVIOUS
<1>2. \A n \in S : n > 10
  BY <1>1
<1>3. \A n \in S : n > 14
  BY <1>2
<1>4. \A n \in S : n > 19
  BY <1>3
<1>5. PICK n \in S : TRUE
  OBVIOUS
<1> QED BY <1>4, <1>5

LEMMA FirstPending ==
  ASSUME NEW p \in Procs, NEW v, Pending(p, v) # {}
  PROVE  \E n \in Pending(p, v) : \A k \in Pending(p, v) : n <= k
BY Constant, LeastVersion DEF Pending

\* Past a version v that is applied, a process looks at the next one it has not found
\* recorded, and the versions in between were.
LEMMA GoesOn ==
  ASSUME NEW p \in Procs, proc[p] \in Processes, NEW v \in 0 .. 19, NEW d, NEW u, NEW met,
         proc[p].applied \subseteq u.done, u.done \subseteq d.done,
         \A w \in Versions : w <= v => w \in d.done
  PROVE  /\ AfterVersion(p, v) \in Processes
         /\ AfterVersion(p, v).at \in {"look", "shape"}
         /\ Progress(AfterVersion(p, v), d, u) /\ Shape(AfterVersion(p, v), d, met)
<1> DEFINE next == CHOOSE n \in Pending(p, v) : \A k \in Pending(p, v) : n <= k
           last == [proc[p] EXCEPT !.at = "shape", !.version = SchemaVersion + 1]
           more == [proc[p] EXCEPT !.at = IF next = RebuildVersion THEN "shape" ELSE "look",
                                   !.version = next]
<1>1. ASSUME NEW w \in Versions, w \notin Pending(p, v) PROVE w \in d.done
  BY <1>1, Constant DEF Pending
<1>2. CASE Pending(p, v) = {}
  <2>1. AfterVersion(p, v) = last
    BY <1>2 DEF AfterVersion
  <2>2. /\ last \in Processes /\ last.at = "shape" /\ last.version = SchemaVersion + 1
        /\ last.applied = proc[p].applied
    <3>1. "shape" \in Places /\ SchemaVersion + 1 \in 0 .. (SchemaVersion + 1)
      BY Constant DEF Places
    <3> QED BY ONLY <3>1, proc[p] \in Processes DEF last, Processes
  <2>3. Progress(last, d, u)
    BY <1>1, <1>2, <2>2, Constant DEF Progress
  <2>4. Shape(last, d, met)
    BY <2>2 DEF Shape
  <2> HIDE DEF last
  <2> QED BY <2>1, <2>2, <2>3, <2>4
<1>3. CASE Pending(p, v) # {}
  <2>1. AfterVersion(p, v) = more
    BY <1>3 DEF AfterVersion
  <2>2. next \in Pending(p, v) /\ \A k \in Pending(p, v) : next <= k
    BY <1>3, FirstPending
  <2>3. next \in Versions
    BY <2>2 DEF Pending
  <2> HIDE DEF next
  <2>4. /\ more \in Processes /\ more.version = next /\ more.applied = proc[p].applied
        /\ more.at = IF next = RebuildVersion THEN "shape" ELSE "look"
    <3> DEFINE place == IF next = RebuildVersion THEN "shape" ELSE "look"
    <3>1. place \in Places /\ next \in 0 .. (SchemaVersion + 1)
      BY <2>3, Constant DEF Places
    <3>2. /\ more \in Processes /\ more.version = next /\ more.applied = proc[p].applied
          /\ more.at = place
      BY ONLY <3>1, proc[p] \in Processes DEF more, place, Processes
    <3> QED BY <3>2 DEF place
  <2> HIDE DEF more
  <2>5. \A w \in Versions : w < next => w \in d.done
    BY <1>1, <2>2, <2>3, Constant
  <2>6. Progress(more, d, u)
    BY <2>3, <2>4, <2>5, Constant DEF Progress
  <2>7. Shape(more, d, met)
    BY <2>4 DEF Shape
  <2> QED BY <2>1, <2>4, <2>6, <2>7
<1> QED BY <1>2, <1>3

-----------------------------------------------------------------------------
(* Steps that write, in a transaction or committed at once.                *)

LEMMA SeenByAll ==
  ASSUME IInv, NEW q \in Procs
  PROVE  /\ undo.done \subseteq Seen(q).done /\ Seen(q).done \subseteq db.done
         /\ Seen(q).variants = db.variants
         /\ MayWrite(q) => Seen(q) = db
BY DEF IInv, Behind, Seen, MayWrite

\* In a transaction of p the others go on to see what they saw.
LEMMA InTransaction ==
  ASSUME IInv, NEW p \in Procs, MayWrite(p), NEW next \in Processes, Set(p, next),
         NEW new \in Databases, db' = new, undo' = undo, owner' = p,
         UNCHANGED <<from, torn, written>>,
         db.done \subseteq new.done, new.applied \subseteq new.done, new.variants = db.variants,
         next.at \in {"look", "work", "record", "shape", "commit"},
         Progress(next, new, undo), Shape(next, new, Met)
  PROVE  IInv'
<1>1. Typed'
  BY ProcsTyped, MigrationsAssumption DEF IInv, Typed, MigrationsAssumption
<1>2. Behind(db, undo)'
  BY DEF IInv, Behind
<1>3. ASSUME NEW q \in Procs \ {p} PROVE Seen(q)' = Seen(q)
  BY MigrationsAssumption DEF IInv, Typed, Seen, MayWrite, MigrationsAssumption
<1>4. Met' = Met
  BY DEF Met
<1>5. Seen(p)' = new
  BY DEF Seen
<1>6. ASSUME NEW q \in Procs \ {p} PROVE Shape(proc[q], Seen(q)', Met')
  BY <1>3, <1>4 DEF IInv
<1>7. \A q \in Procs : (Progress(proc[q], Seen(q), undo) /\ Shape(proc[q], Seen(q), Met))'
  BY <1>3, <1>4, <1>5, <1>6, OthersKeep
<1> QED BY <1>1, <1>2, <1>7 DEF IInv

\* What p commits everybody sees.
LEMMA Committed ==
  ASSUME IInv, NEW p \in Procs, NEW next \in Processes, Set(p, next),
         NEW new \in Databases, db' = new, undo' = new, owner' = Nobody,
         UNCHANGED <<from, written>>, torn' \subseteq {"cut", "met"}, torn \subseteq torn',
         db.done \subseteq new.done, new.applied \subseteq new.done,
         new.variants = "new" => RebuildVersion \in new.done,
         \A q \in Procs \ {p} : Shape(proc[q], new, Met'),
         Progress(next, new, new), Shape(next, new, Met')
  PROVE  IInv'
<1>1. Typed'
  BY ProcsTyped DEF IInv, Typed
<1>2. Behind(db, undo)'
  BY DEF Behind
<1>3. \A q \in Procs : Seen(q)' = new
  BY DEF Seen
<1>4. Met => Met'
  BY DEF Met
<1>5. \A q \in Procs : Seen(q).done \subseteq new.done
  BY SeenByAll
<1>6. undo.done \subseteq undo'.done
  BY DEF IInv, Behind
<1>7. \A q \in Procs : (Progress(proc[q], Seen(q), undo) /\ Shape(proc[q], Seen(q), Met))'
  BY <1>3, <1>4, <1>5, <1>6, OthersKeep
<1> QED BY <1>1, <1>2, <1>7 DEF IInv

\* The shape is the same for all, so a step that keeps it needs no other argument.
LEMMA ShapeKept ==
  ASSUME IInv, NEW q \in Procs, NEW new, new.variants = db.variants, NEW met, Met => met
  PROVE  Shape(proc[q], new, met)
BY SeenByAll DEF IInv, Shape

LEMMA StateOf ==
  ASSUME IInv, NEW p \in Procs
  PROVE  /\ proc[p] \in Processes /\ db \in Databases /\ undo \in Databases
         /\ Progress(proc[p], Seen(p), undo) /\ Shape(proc[p], Seen(p), Met)
         /\ Behind(db, undo)
BY DEF IInv, Typed

-----------------------------------------------------------------------------
(* The actions of a process.                                               *)

LEMMA OpenKeeps ==
  ASSUME IInv, NEW p \in Procs, Open(p)
  PROVE  IInv'
<1> DEFINE next == [proc[p] EXCEPT !.at = "next", !.applied = Seen(p).applied]
<1>1. owner # p
  BY MigrationsAssumption DEF IInv, Typed, Open, MigrationsAssumption
<1>2. Seen(p) = undo
  BY <1>1, MigrationsAssumption DEF IInv, Typed, Seen, MigrationsAssumption
<1>3. undo.applied \subseteq undo.done /\ undo.applied \in SUBSET Versions
  BY DEF IInv, Behind, Typed, Databases
<1>4. /\ next \in Processes /\ next.at = "next" /\ next.applied = undo.applied
  <2>1. proc[p] \in Processes /\ "next" \in Places
    BY DEF IInv, Typed, Places
  <2> QED BY ONLY <1>2, <1>3, <2>1 DEF next, Processes
<1>5. Progress(next, Seen(p), undo) /\ Shape(next, Seen(p), Met)
  BY <1>3, <1>4, Constant DEF Progress, Shape
<1> QED BY <1>1, <1>4, <1>5, Thinks DEF Open

LEMMA FirstVersionKeeps ==
  ASSUME IInv, NEW p \in Procs, FirstVersion(p)
  PROVE  IInv'
<1>1. owner # p
  BY MigrationsAssumption DEF IInv, Typed, FirstVersion, MigrationsAssumption
<1>2. /\ AfterVersion(p, 0) \in Processes
      /\ Progress(AfterVersion(p, 0), Seen(p), undo) /\ Shape(AfterVersion(p, 0), Seen(p), Met)
  <2>1. proc[p].applied \subseteq undo.done /\ proc[p] \in Processes
    BY StateOf DEF Progress
  <2>2. \A w \in Versions : w <= 0 => w \in Seen(p).done
    BY Constant
  <2>3. undo.done \subseteq Seen(p).done /\ 0 \in 0 .. 19
    BY SeenByAll
  <2> QED BY ONLY <2>1, <2>2, <2>3, p \in Procs, GoesOn
<1> QED BY <1>1, <1>2, Thinks DEF FirstVersion

LEMMA LookKeeps ==
  ASSUME IInv, NEW p \in Procs, Look(p)
  PROVE  IInv'
<1> DEFINE next == [proc[p] EXCEPT !.at = "work", !.missing = proc[p].version \notin Seen(p).done]
<1>1. /\ next \in Processes /\ next.at = "work" /\ next.version = proc[p].version
      /\ next.applied = proc[p].applied
  <2>1. proc[p] \in Processes /\ "work" \in Places
    BY StateOf DEF Places
  <2>2. (proc[p].version \notin Seen(p).done) \in BOOLEAN
    OBVIOUS
  <2> QED BY ONLY <2>1, <2>2 DEF next, Processes
<1>2. Progress(next, Seen(p), undo) /\ Shape(next, Seen(p), Met)
  BY <1>1, StateOf, Constant DEF Progress, Shape, Look
<1> QED BY <1>1, <1>2, Thinks DEF Look

\* A state that differs in its place only.
LEMMA PlaceTyped ==
  ASSUME NEW s \in Processes, NEW place \in Places
  PROVE  /\ [s EXCEPT !.at = place] \in Processes
         /\ [s EXCEPT !.at = place].at = place
         /\ [s EXCEPT !.at = place].version = s.version
         /\ [s EXCEPT !.at = place].applied = s.applied
BY DEF Processes

LEMMA AddColumnsKeeps ==
  ASSUME IInv, NEW p \in Procs, AddColumns(p)
  PROVE  IInv'
<1> DEFINE v == proc[p].version
           new == [db EXCEPT !.done = @ \cup {v}]
           next == [proc[p] EXCEPT !.at = "record"]
<1>1. /\ v \in Versions /\ MayWrite(p) /\ Seen(p) = db
      /\ UNCHANGED <<from, torn, written>> /\ torn \subseteq {"cut", "met"}
  BY StateOf, SeenByAll DEF AddColumns, Progress, IInv, Typed
<1>2. CASE Closed(p)
  BY <1>1, <1>2, CloseKeeps
<1>3. CASE Written(p, new, v \in UpdateVersions) /\ Set(p, next)
  <2>1. /\ next \in Processes /\ next.at = "record" /\ next.version = v
        /\ next.applied = proc[p].applied
    BY StateOf, PlaceTyped DEF Places
  <2>2. /\ new \in Databases /\ new.done = db.done \cup {v} /\ new.applied = db.applied
        /\ new.variants = db.variants
    BY <1>1, StateOf DEF Databases
  <2> HIDE DEF new, next
  <2>3. ASSUME NEW u, undo.done \subseteq u.done PROVE Progress(next, new, u) /\ Shape(next, new, Met)
    BY <1>1, <2>1, <2>2, <2>3, StateOf, Constant DEF Progress, Shape, AddColumns
  <2>4. CASE owner = p \/ v \in UpdateVersions
    <3>1. db' = new /\ undo' = undo /\ owner' = p
      BY <1>1, <1>3, <2>4 DEF Written, MayWrite, IInv, Typed
    <3> QED BY <1>1, <1>3, <2>1, <2>2, <2>3, <3>1, StateOf, InTransaction DEF Behind
  <2>5. CASE owner # p /\ v \notin UpdateVersions
    <3>1. db' = new /\ undo' = new /\ owner' = Nobody
      BY <1>1, <1>3, <2>5 DEF Written, MayWrite
    <3>2. \A q \in Procs \ {p} : Shape(proc[q], new, Met')
      BY <1>1, <2>2, ShapeKept DEF Met
    <3>3. Progress(next, new, new) /\ Shape(next, new, Met')
      BY <1>1, <2>2, <2>3, StateOf DEF Met, Behind
    <3>4. /\ db.done \subseteq new.done /\ new.applied \subseteq new.done
          /\ new.variants = "new" => RebuildVersion \in new.done
      BY <2>2, StateOf DEF Behind
    <3> QED BY <1>1, <1>3, <2>1, <2>2, <3>1, <3>2, <3>3, <3>4, Committed
  <2> QED BY <2>4, <2>5
<1> QED BY <1>2, <1>3 DEF AddColumns

LEMMA RunScriptKeeps ==
  ASSUME IInv, NEW p \in Procs, RunScript(p)
  PROVE  IInv'
<1> DEFINE v == proc[p].version
           variants == IF v = 1 /\ db.variants = "absent" THEN "old" ELSE db.variants
           new == [db EXCEPT !.done = @ \cup {v},
                             !.variants = IF v = 1 /\ @ = "absent" THEN "old" ELSE @]
           next == [proc[p] EXCEPT !.at = "record"]
<1>1. /\ v \in Versions /\ Seen(p) = db
      /\ UNCHANGED <<from, torn, written>> /\ torn \subseteq {"cut", "met"}
      /\ db' = new /\ undo' = new /\ owner' = Nobody /\ Set(p, next)
  BY StateOf, SeenByAll DEF RunScript, Progress, IInv, Typed
<1>2. /\ next \in Processes /\ next.at = "record" /\ next.version = v
      /\ next.applied = proc[p].applied
  BY StateOf, PlaceTyped DEF Places
<1>3. /\ new \in Databases /\ new.done = db.done \cup {v} /\ new.applied = db.applied
      /\ new.variants = variants
  BY <1>1, StateOf DEF Databases
<1> HIDE DEF new, next
<1>4. Progress(next, new, new) /\ Shape(next, new, Met')
  BY <1>1, <1>2, <1>3, StateOf, Constant DEF Progress, Shape, RunScript, Behind
<1>5. /\ db.done \subseteq new.done /\ new.applied \subseteq new.done
      /\ new.variants = "new" => RebuildVersion \in new.done
  BY <1>3, StateOf DEF Behind
<1>6. ASSUME NEW q \in Procs \ {p} PROVE Shape(proc[q], new, Met')
  BY <1>1, <1>3, StateOf, SeenByAll DEF Shape, Met
<1> QED BY <1>1, <1>2, <1>3, <1>4, <1>5, <1>6, Committed

LEMMA RecordKeeps ==
  ASSUME IInv, NEW p \in Procs, Record(p)
  PROVE  IInv'
<1> DEFINE v == proc[p].version
           new == [db EXCEPT !.applied = @ \cup {v}]
           next == AfterVersion(p, v)
<1>1. /\ v \in Versions /\ v \in db.done /\ MayWrite(p) /\ Seen(p) = db
      /\ UNCHANGED <<from, torn, written>> /\ torn \subseteq {"cut", "met"}
  BY StateOf, SeenByAll DEF Record, Progress, IInv, Typed
<1>2. CASE Closed(p)
  BY <1>1, <1>2, CloseKeeps
<1>3. CASE /\ db' = new /\ undo' = (IF owner = p THEN undo ELSE db)
           /\ owner' = p /\ Set(p, next)
  <2>1. undo' = undo
    BY <1>1, <1>3 DEF MayWrite, IInv, Typed
  <2>2. /\ new \in Databases /\ new.done = db.done /\ new.applied = db.applied \cup {v}
        /\ new.variants = db.variants
    BY <1>1, StateOf DEF Databases
  <2> HIDE DEF new
  <2>3. \A w \in Versions : w <= v => w \in new.done
    BY <1>1, <2>2, StateOf, Constant DEF Progress, Record
  <2>4. proc[p] \in Processes /\ proc[p].applied \subseteq undo.done
    BY StateOf DEF Progress
  <2>5. undo.done \subseteq new.done /\ v \in 0 .. 19
    BY <1>1, <2>2, StateOf, Constant DEF Behind
  <2>6. /\ next \in Processes /\ next.at \in {"look", "shape"}
        /\ Progress(next, new, undo) /\ Shape(next, new, Met)
    BY ONLY p \in Procs, <2>3, <2>4, <2>5, GoesOn
  <2>7. db.done \subseteq new.done /\ new.applied \subseteq new.done
    BY <1>1, <2>2, StateOf DEF Behind
  <2> HIDE DEF next
  <2> QED BY <1>1, <1>3, <2>1, <2>2, <2>6, <2>7, InTransaction
<1> QED BY <1>2, <1>3 DEF Record

\* After the constraint of item_variants: version 12 is recorded, or the safety net is
\* the end.
LEMMA AfterShapeFits ==
  ASSUME IInv, NEW p \in Procs, proc[p].at \in SwapPlaces \cup {"shape"}, NEW d, NEW u, NEW met,
         undo.done \subseteq u.done, u.done \subseteq d.done, Seen(p).done \subseteq d.done,
         RebuildVersion \in d.done, d.variants = "new"
  PROVE  /\ AfterShape(p) \in Processes /\ AfterShape(p).at \in {"record", "commit"}
         /\ Progress(AfterShape(p), d, u) /\ Shape(AfterShape(p), d, met)
<1> DEFINE place == IF proc[p].version > SchemaVersion THEN "commit" ELSE "record"
<1>1. proc[p] \in Processes /\ place \in Places
  BY StateOf DEF Places
<1>2. /\ AfterShape(p) \in Processes /\ AfterShape(p).at = place
      /\ AfterShape(p).version = proc[p].version /\ AfterShape(p).applied = proc[p].applied
  BY ONLY <1>1 DEF AfterShape, Processes, place
<1>3. /\ proc[p].version \in {RebuildVersion, SchemaVersion + 1}
      /\ proc[p].applied \subseteq u.done
      /\ \A v \in Versions : v < proc[p].version => v \in d.done
  BY StateOf, Constant DEF Progress
<1>4. Progress(AfterShape(p), d, u)
  BY <1>2, <1>3, Constant DEF Progress
<1>5. Shape(AfterShape(p), d, met)
  BY <1>2 DEF Shape
<1> QED BY <1>2, <1>4, <1>5

LEMMA LookAtShapeKeeps ==
  ASSUME IInv, NEW p \in Procs, LookAtShape(p)
  PROVE  IInv'
<1>1. /\ proc[p].at = "shape" /\ proc[p] \in Processes
      /\ UNCHANGED <<from, torn, written>> /\ torn \subseteq {"cut", "met"} /\ Met' = Met
  BY StateOf DEF LookAtShape, IInv, Typed, Met
<1>2. CASE HasNewUnique(p) /\ Set(p, AfterShape(p)) /\ UNCHANGED <<db, owner, undo>>
  <2>1. RebuildVersion \in Seen(p).done /\ Seen(p).variants = "new"
    BY <1>2, StateOf, SeenByAll DEF HasNewUnique, Behind
  <2>2. /\ AfterShape(p) \in Processes /\ AfterShape(p).at \in {"record", "commit"}
        /\ Progress(AfterShape(p), Seen(p), undo) /\ Shape(AfterShape(p), Seen(p), Met)
    BY <1>1, <2>1, SeenByAll, AfterShapeFits
  <2> QED BY <1>1, <1>2, <2>2, Thinks
<1>3. CASE /\ Seen(p).variants = "absent" /\ MayWrite(p)
           /\ db' = WithShape([db EXCEPT !.variants = "new", !.rows = FALSE])
           /\ undo' = db' /\ owner' = Nobody /\ Set(p, AfterShape(p))
  <2> DEFINE new == WithShape([db EXCEPT !.variants = "new", !.rows = FALSE])
  <2>1. db.variants = "absent" /\ Seen(p) = db
    BY <1>3, SeenByAll
  <2>2. /\ new \in Databases /\ new.variants = "new" /\ new.applied = db.applied
        /\ new.done = db.done \cup {RebuildVersion}
    BY StateOf, Constant DEF WithShape, Databases
  <2>6. db' = new /\ undo' = new
    BY <1>3
  <2> HIDE DEF new
  <2>3. /\ db.done \subseteq new.done /\ new.applied \subseteq new.done
        /\ undo.done \subseteq new.done /\ RebuildVersion \in new.done
    BY <2>2, StateOf DEF Behind
  <2>4. /\ AfterShape(p) \in Processes
        /\ Progress(AfterShape(p), new, new) /\ Shape(AfterShape(p), new, Met')
    BY <1>1, <2>1, <2>2, <2>3, AfterShapeFits
  <2>5. ASSUME NEW q \in Procs \ {p} PROVE Shape(proc[q], new, Met')
    BY <1>1, <2>1, <2>2, StateOf, SeenByAll DEF Shape
  <2> QED BY <1>1, <1>3, <2>2, <2>3, <2>4, <2>5, <2>6, Committed
<1>4. CASE /\ Seen(p).variants # "absent" /\ ~HasNewUnique(p) /\ MayWrite(p)
           /\ Set(p, [proc[p] EXCEPT !.at = "unstage", !.fk = (owner = p)])
           /\ UNCHANGED <<db, owner, undo>>
  <2> DEFINE next == [proc[p] EXCEPT !.at = "unstage", !.fk = (owner = p)]
  <2>1. /\ next \in Processes /\ next.at = "unstage" /\ next.version = proc[p].version
        /\ next.applied = proc[p].applied
    <3>1. "unstage" \in Places /\ (owner = p) \in BOOLEAN
      BY Constant DEF Places
    <3> QED BY ONLY <1>1, <3>1 DEF next, Processes
  <2>2. Seen(p).variants = "old"
    BY <1>4, StateOf, SeenByAll DEF HasNewUnique, Databases
  <2>3. Progress(next, Seen(p), undo) /\ Shape(next, Seen(p), Met)
    BY <1>1, <2>1, <2>2, StateOf, Constant DEF Progress, Shape
  <2> QED BY <1>1, <1>4, <2>1, <2>3, Thinks
<1> QED BY <1>2, <1>3, <1>4 DEF LookAtShape

\* A statement of the rebuild, unless another rebuild is under way, meets no process
\* that needs the table as it was.
LEMMA StatementKeeps ==
  ASSUME IInv, NEW p \in Procs, NEW place \in SwapPlaces, NEW next \in Processes,
         NEW new \in Databases, Statement(p, place, next, new),
         db.done \subseteq new.done, new.applied \subseteq new.done,
         new.variants = "new" => RebuildVersion \in new.done,
         new.variants = db.variants \/ place = "rename" \/ (place = "drop" /\ new.variants = "absent"),
         place = "rename" => new.variants = "new",
         Progress(next, new, new), Shape(next, new, Met')
  PROVE  IInv'
<1>1. /\ proc[p].at = place /\ MayWrite(p) /\ db' = new /\ undo' = new /\ owner' = Nobody
      /\ Set(p, next) /\ UNCHANGED <<from, written>>
      /\ torn' \subseteq {"cut", "met"} /\ torn \subseteq torn' /\ (Met' \/ Swapping = {p})
  BY DEF Statement, IInv, Typed, Met
<1>2. Met => Met'
  BY <1>1 DEF Met
<1>3. ASSUME NEW q \in Procs \ {p}, ~Met' PROVE Shape(proc[q], new, Met')
  <2>1. proc[q].at \notin SwapPlaces
    BY <1>1, <1>3 DEF Swapping
  <2>2. proc[q].at \in {"commit", "ready"} => db.variants = "new"
    BY <1>2, <1>3, StateOf, SeenByAll DEF Shape
  <2>3. place = "drop" => db.variants = "old"
    BY <1>1, <1>2, <1>3, StateOf, SeenByAll DEF Shape
  <2> QED BY <2>1, <2>2, <2>3, Constant DEF Shape
<1>4. \A q \in Procs \ {p} : Shape(proc[q], new, Met')
  BY <1>3 DEF Shape
<1> QED BY <1>1, <1>4, Committed

\* Where a rebuild goes next, with a database whose versions are those it saw.
LEMMA SwapGoesOn ==
  ASSUME IInv, NEW p \in Procs, MayWrite(p), proc[p].at \in SwapPlaces,
         NEW place \in {"stage", "copy", "drop", "rename"}, NEW new, new.done = db.done, NEW met,
         place # "rename" => met \/ new.variants = "old"
  PROVE  /\ Goto(p, place) \in Processes
         /\ Progress(Goto(p, place), new, new) /\ Shape(Goto(p, place), new, met)
<1>1. /\ Goto(p, place) \in Processes /\ Goto(p, place).at = place
      /\ Goto(p, place).version = proc[p].version /\ Goto(p, place).applied = proc[p].applied
  <2>1. place \in Places /\ proc[p] \in Processes
    BY StateOf, Constant DEF Places
  <2> QED BY <2>1, PlaceTyped DEF Goto
<1>2. Progress(Goto(p, place), new, new)
  BY <1>1, StateOf, SeenByAll, Constant DEF Progress, Behind
<1>3. Shape(Goto(p, place), new, met)
  BY <1>1 DEF Shape
<1> QED BY <1>1, <1>2, <1>3

\* What a statement of the rebuild finds, and where a rebuild that met none stands.
LEMMA Swaps ==
  ASSUME IInv, NEW p \in Procs, proc[p].at \in SwapPlaces, MayWrite(p)
  PROVE  /\ db \in Databases /\ db.applied \subseteq db.done
         /\ db.variants = "new" => RebuildVersion \in db.done
         /\ proc[p].at # "rename" => Met \/ db.variants = "old"
  BY StateOf, SeenByAll, Constant DEF Behind, Shape

LEMMA DropStagingKeeps ==
  ASSUME IInv, NEW p \in Procs, DropStaging(p)
  PROVE  IInv'
<1> DEFINE new == [db EXCEPT !.staging = "none"]
           next == Goto(p, "stage")
<1>1. Statement(p, "unstage", next, new)
  BY DEF DropStaging
<1>2. proc[p].at = "unstage" /\ MayWrite(p) /\ (Met => Met')
  BY <1>1 DEF Statement, Met
<1>3. proc[p].at \in SwapPlaces /\ "unstage" \in SwapPlaces
  BY <1>2, Constant
<1>4. /\ new \in Databases /\ new.done = db.done /\ new.applied = db.applied
      /\ new.variants = db.variants
  BY StateOf DEF Databases
<1> HIDE DEF new
<1>5. Met' \/ new.variants = "old"
  BY <1>2, <1>3, <1>4, Swaps
<1>6. next \in Processes /\ Progress(next, new, new) /\ Shape(next, new, Met')
  BY <1>2, <1>3, <1>4, <1>5, SwapGoesOn
<1> HIDE DEF next
<1> QED BY <1>1, <1>2, <1>3, <1>4, <1>6, Swaps, StatementKeeps

LEMMA CreateStagingKeeps ==
  ASSUME IInv, NEW p \in Procs, CreateStaging(p)
  PROVE  IInv'
<1> DEFINE new == [db EXCEPT !.staging = "empty"]
           next == Goto(p, "copy")
<1>1. Statement(p, "stage", next, new)
  BY DEF CreateStaging
<1>2. proc[p].at = "stage" /\ MayWrite(p) /\ (Met => Met')
  BY <1>1 DEF Statement, Met
<1>3. proc[p].at \in SwapPlaces /\ "stage" \in SwapPlaces
  BY <1>2, Constant
<1>4. /\ new \in Databases /\ new.done = db.done /\ new.applied = db.applied
      /\ new.variants = db.variants
  BY StateOf DEF Databases
<1> HIDE DEF new
<1>5. Met' \/ new.variants = "old"
  BY <1>2, <1>3, <1>4, Swaps
<1>6. next \in Processes /\ Progress(next, new, new) /\ Shape(next, new, Met')
  BY <1>2, <1>3, <1>4, <1>5, SwapGoesOn
<1> HIDE DEF next
<1> QED BY <1>1, <1>2, <1>3, <1>4, <1>6, Swaps, StatementKeeps

LEMMA CopyVariantsKeeps ==
  ASSUME IInv, NEW p \in Procs, CopyVariants(p)
  PROVE  IInv'
<1> DEFINE new == [db EXCEPT !.staging = IF db.rows THEN "full" ELSE @]
           next == Goto(p, "drop")
<1>1. Statement(p, "copy", next, new)
  BY DEF CopyVariants
<1>2. proc[p].at = "copy" /\ MayWrite(p) /\ (Met => Met')
  BY <1>1 DEF Statement, Met
<1>3. proc[p].at \in SwapPlaces /\ "copy" \in SwapPlaces
  BY <1>2, Constant
<1>4. /\ new \in Databases /\ new.done = db.done /\ new.applied = db.applied
      /\ new.variants = db.variants
  BY StateOf DEF Databases
<1> HIDE DEF new
<1>5. Met' \/ new.variants = "old"
  BY <1>2, <1>3, <1>4, Swaps
<1>6. next \in Processes /\ Progress(next, new, new) /\ Shape(next, new, Met')
  BY <1>2, <1>3, <1>4, <1>5, SwapGoesOn
<1> HIDE DEF next
<1> QED BY <1>1, <1>2, <1>3, <1>4, <1>6, Swaps, StatementKeeps

LEMMA DropVariantsKeeps ==
  ASSUME IInv, NEW p \in Procs, DropVariants(p)
  PROVE  IInv'
<1> DEFINE new == [db EXCEPT !.variants = "absent", !.rows = FALSE,
                             !.history = IF proc[p].fk THEN @ \ DeletedWithVariants ELSE @]
           next == Goto(p, "rename")
<1>1. Statement(p, "drop", next, new)
  BY DEF DropVariants
<1>2. proc[p].at = "drop" /\ MayWrite(p)
  BY <1>1 DEF Statement
<1>3. proc[p].at \in SwapPlaces /\ "drop" \in SwapPlaces
  BY <1>2, Constant
<1>4. /\ new \in Databases /\ new.done = db.done /\ new.applied = db.applied
      /\ new.variants = "absent"
  BY StateOf DEF Databases
<1> HIDE DEF new
<1>5. next \in Processes /\ Progress(next, new, new) /\ Shape(next, new, Met')
  BY <1>2, <1>3, <1>4, SwapGoesOn
<1> HIDE DEF next
<1> QED BY <1>1, <1>2, <1>3, <1>4, <1>5, Swaps, StatementKeeps

LEMMA RenameStagingKeeps ==
  ASSUME IInv, NEW p \in Procs, RenameStaging(p)
  PROVE  IInv'
<1> DEFINE new == WithShape([db EXCEPT !.variants = "new", !.rows = (db.staging = "full"),
                                       !.staging = "none"])
           next == AfterShape(p)
<1>1. Statement(p, "rename", next, new)
  BY DEF RenameStaging
<1>2. proc[p].at = "rename" /\ MayWrite(p)
  BY <1>1 DEF Statement
<1>3. proc[p].at \in SwapPlaces /\ "rename" \in SwapPlaces
  BY <1>2, Constant
<1>4. /\ new \in Databases /\ new.done = db.done \cup {RebuildVersion}
      /\ new.applied = db.applied /\ new.variants = "new"
  <2>1. (db.staging = "full") \in BOOLEAN /\ db \in Databases /\ RebuildVersion \in Versions
    BY StateOf, Constant
  <2> QED BY ONLY <2>1 DEF new, WithShape, Databases
<1> HIDE DEF new
<1>5. undo.done \subseteq new.done /\ Seen(p).done \subseteq new.done
  BY <1>4, SeenByAll, StateOf DEF Behind
<1>6. next \in Processes /\ Progress(next, new, new) /\ Shape(next, new, Met')
  BY <1>3, <1>4, <1>5, AfterShapeFits
<1> HIDE DEF next
<1> QED BY <1>1, <1>2, <1>3, <1>4, <1>6, Swaps, StatementKeeps

-----------------------------------------------------------------------------
LEMMA CommitKeeps ==
  ASSUME IInv, NEW p \in Procs, Commit(p)
  PROVE  IInv'
<1> DEFINE next == [proc[p] EXCEPT !.at = "ready"]
<1>1. /\ proc[p].at = "commit" /\ Set(p, next) /\ UNCHANGED <<from, db, torn, written>>
      /\ torn \subseteq {"cut", "met"} /\ Met' = Met
  BY DEF Commit, IInv, Typed, Met
<1>2. /\ next \in Processes /\ next.at = "ready" /\ next.version = proc[p].version
      /\ next.applied = proc[p].applied
  BY StateOf, PlaceTyped DEF Places
<1> HIDE DEF next
<1>3. Progress(next, Seen(p), undo) /\ Shape(next, Seen(p), Met)
  BY <1>1, <1>2, StateOf, Constant DEF Progress, Shape
<1>4. CASE owner = p
  <2>1. owner' = Nobody /\ undo' = db /\ db' = db /\ MayWrite(p) /\ Seen(p) = db
    BY <1>4 DEF Commit, Seen, MayWrite
  <2>2. Progress(next, db, db) /\ Shape(next, db, Met')
    BY <1>1, <1>3, <2>1, StateOf DEF Progress, Behind
  <2>3. /\ db \in Databases /\ db.done \subseteq db.done /\ db.applied \subseteq db.done
        /\ db.variants = "new" => RebuildVersion \in db.done
    BY StateOf DEF Behind
  <2>4. \A q \in Procs \ {p} : Shape(proc[q], db, Met')
    BY <1>1, ShapeKept
  <2> QED BY <1>1, <1>2, <2>1, <2>2, <2>3, <2>4, Committed
<1>5. CASE owner # p
  <2>1. UNCHANGED <<owner, undo>>
    BY <1>5 DEF Commit
  <2> QED BY <1>1, <1>2, <1>3, <1>5, <2>1, Thinks
<1> QED BY <1>4, <1>5

LEMMA PopulateKeeps ==
  ASSUME IInv, NEW p \in Procs, Populate(p)
  PROVE  IInv'
<1> DEFINE new == [db EXCEPT !.rows = TRUE, !.history = TablesOf(SchemaVersion)]
<1>1. /\ owner = Nobody /\ UNCHANGED <<from, owner, proc, torn>>
      /\ db' = new /\ undo' = new /\ written' = TablesOf(SchemaVersion)
  BY DEF Populate
<1>2. /\ new \in Databases /\ new.done = db.done /\ new.applied = db.applied
      /\ new.variants = db.variants
  BY StateOf DEF Databases
<1> HIDE DEF new
<1>3. Typed'
  BY <1>1, <1>2 DEF IInv, Typed
<1>4. undo = db
  BY <1>1 DEF IInv, Typed
<1>5. Behind(db, undo)'
  BY <1>1, <1>2, <1>4 DEF IInv, Behind
<1>6. ASSUME NEW q \in Procs
      PROVE  (Progress(proc[q], Seen(q), undo) /\ Shape(proc[q], Seen(q), Met))'
  <2>1. Seen(q) = db /\ Seen(q)' = new /\ Met' = Met
    BY <1>1 DEF Seen, Met
  <2>2. Progress(proc[q], db, db) /\ Shape(proc[q], db, Met)
    BY <1>4, <2>1, StateOf
  <2>3. Progress(proc[q], new, new) /\ Shape(proc[q], new, Met)
    BY <1>2, <2>2 DEF Progress, Shape
  <2> QED BY <1>1, <2>1, <2>3 DEF Progress, Shape
<1> QED BY <1>3, <1>5, <1>6 DEF IInv

LEMMA StutterKeeps ==
  ASSUME IInv, UNCHANGED vars
  PROVE  IInv'
<1>1. Typed' /\ Behind(db, undo)'
  BY DEF vars, IInv, Typed, Behind
<1>2. ASSUME NEW q \in Procs
      PROVE  (Progress(proc[q], Seen(q), undo) /\ Shape(proc[q], Seen(q), Met))'
  BY StateOf DEF vars, Seen, Met, Progress, Shape
<1> QED BY <1>1, <1>2 DEF IInv

LEMMA Inductive == IInv /\ [Next]_vars => IInv'
<1> SUFFICES ASSUME IInv, [Next]_vars PROVE IInv'
  OBVIOUS
<1>1. ASSUME NEW p \in Procs, Step(p) PROVE IInv'
  <2>1. CASE Open(p) \/ FirstVersion(p) \/ Look(p)
    BY <2>1, OpenKeeps, FirstVersionKeeps, LookKeeps
  <2>2. CASE AddColumns(p) \/ RunScript(p) \/ Record(p)
    BY <2>2, AddColumnsKeeps, RunScriptKeeps, RecordKeeps
  <2>3. CASE LookAtShape(p) \/ Commit(p)
    BY <2>3, LookAtShapeKeeps, CommitKeeps
  <2>4. CASE SwapFails(p)
    <3>1. Closed(p) /\ UNCHANGED <<from, written>>
          /\ torn' = torn \cup IF Swapping = {p} THEN {} ELSE {"met"}
      BY <2>4 DEF SwapFails
    <3>2. torn' \subseteq {"cut", "met"} /\ torn \subseteq torn'
      BY <3>1 DEF IInv, Typed
    <3> QED BY <3>1, <3>2, CloseKeeps
  <2>5. CASE Swap(p) /\ ~SwapFails(p)
    BY <2>5, DropStagingKeeps, CreateStagingKeeps, CopyVariantsKeeps, DropVariantsKeeps,
       RenameStagingKeeps DEF Swap
  <2> QED BY <1>1, <2>1, <2>2, <2>3, <2>4, <2>5 DEF Step
<1>2. ASSUME NEW p \in Procs, Crash(p) PROVE IInv'
  <2>1. /\ Closed(p) /\ UNCHANGED <<from, written>>
        /\ torn' = torn \cup IF p \in Swapping THEN {"cut"} ELSE {}
    BY <1>2 DEF Crash
  <2>2. torn' \subseteq {"cut", "met"} /\ torn \subseteq torn'
    BY <2>1 DEF IInv, Typed
  <2> QED BY <2>1, <2>2, CloseKeeps
<1> QED BY <1>1, <1>2, PopulateKeeps, StutterKeeps DEF Next

\* Whatever the processes do, and wherever they are cut off, a version that is recorded
\* has been applied, and a process that is ready finds the schema it needs: the order of
\* work and record in _apply_migrations, and the rebuild of item_variants.
THEOREM SchemaSafe == Spec => []SchemaIsThere
<1>1. Spec => []IInv
  BY Initially, Inductive, PTL DEF Spec
<1> QED BY <1>1, Implies, PTL
-----------------------------------------------------------------------------
(* The rows of item_variants and what refers to them.                      *)

Kept == torn = {} /\ from \notin 1 .. 10

\* What a process has found and does, in a database that had version 11: it rebuilds the table
\* before it writes anything, hence with the enforcement of foreign keys off.
Late(s) ==
  /\ s.at # "start" => 1 .. 11 \subseteq s.applied
  /\ s.at \in {"look", "work", "record"} => s.version >= 12
  /\ s.at \in {"look", "work"} => s.version # 12
  /\ s.at \in {"unstage", "stage", "copy", "drop"} => ~s.fk

Eleven ==
  /\ 1 .. 11 \subseteq db.applied /\ 1 .. 11 \subseteq undo.applied
  /\ owner # Nobody => db.variants = "new"
  /\ 12 \in db.done => db.variants = "new"
  /\ \A p \in Procs : Late(proc[p])

\* Once there are rows, they are in the table or in its copy.
RowsAre ==
  /\ db.rows \/ db.staging = "full"
  /\ db.variants = "old" => db.rows
  /\ \A p \in Procs : proc[p].at = "drop" => db.staging = "full"
  /\ from = 0 => db.variants = "new"

\* No transaction is open on rows, and a database of version 12 has nothing to rebuild.
Whole ==
  /\ undo.rows = db.rows /\ undo.staging = db.staging /\ undo.history = db.history
  /\ written \subseteq db.history
  /\ db.variants = "absent" => ~db.rows
  /\ written # {} => RowsAre
  /\ from >= 12 => db.variants = "new"
  /\ from = 11 => Eleven

HInv == Kept => Whole

LEMMA InitiallyWhole == Init => HInv
<1> SUFFICES ASSUME Init, Kept PROVE Whole
  BY DEF HInv
<1>1. from \in 0 .. 19 /\ from \notin 1 .. 10
  BY MigrationsAssumption DEF Init, Kept
<1>2. undo = db /\ written = db.history
  BY DEF Init
<1> DEFINE rows == from > 0
<1>3. db.rows = rows /\ (db.variants = "absent" => from = 0)
  BY DEF Init
<1>4. db.rows <=> from > 0
  BY <1>3
<1>5. db.variants = "absent" => ~db.rows
  BY <1>3, <1>4
<1>8. written # {} => RowsAre
  <2>1. written # {} => from # 0
    BY DEF Init, TablesOf
  <2>2. \A p \in Procs : proc[p].at = "start"
    BY DEF Init, NotStarted
  <2> QED BY <1>1, <1>4, <2>1, <2>2 DEF RowsAre
<1>6. from >= 12 => db.variants = "new"
  BY <1>1, Constant DEF Init
<1>7. from = 11 => Eleven
  BY <1>1, Constant DEF Init, Eleven, Late, NotStarted
<1> QED BY <1>2, <1>5, <1>8, <1>6, <1>7 DEF Whole

\* A step that leaves the rows alone, and what is recorded of the first versions.
LEMMA Leaves ==
  ASSUME IInv, HInv, NEW p \in Procs, NEW next \in Processes, Set(p, next),
         UNCHANGED <<from, torn, written>>,
         db'.rows = db.rows, db'.staging = db.staging, db'.history = db.history,
         undo'.rows = db'.rows, undo'.staging = db'.staging, undo'.history = db'.history,
         Kept => \/ db'.variants = db.variants
                 \/ from = 0 /\ written = {} /\ db.variants = "absent" /\ db'.variants = "old",
         next.at # "drop",
         Kept /\ from = 11 => /\ 1 .. 11 \subseteq db'.applied /\ 1 .. 11 \subseteq undo'.applied
                              /\ owner' # Nobody => db.variants = "new"
                              /\ 12 \in db'.done => db.variants = "new"
                              /\ Late(next)
  PROVE  HInv'
<1> SUFFICES ASSUME Kept, Whole PROVE Whole'
  BY DEF HInv, Kept
<1>1. proc'[p] = next /\ \A q \in Procs \ {p} : proc'[q] = proc[q]
  BY ProcsTyped DEF IInv
<1>2. written # {} => RowsAre'
  BY <1>1 DEF Whole, RowsAre
<1>3. from = 11 => Eleven'
  <2> SUFFICES ASSUME from = 11 PROVE Eleven'
    OBVIOUS
  <2>1. \A q \in Procs : Late(proc'[q])
    BY <1>1 DEF Whole, Eleven
  <2> QED BY <2>1 DEF Eleven, Late
<1>4. db'.variants = "absent" => ~db'.rows
  BY DEF Whole
<1>5. from >= 12 => db'.variants = "new"
  BY DEF Whole
<1> QED BY <1>2, <1>3, <1>4, <1>5 DEF Whole

LEMMA LateNotStarted == NotStarted \in Processes /\ Late(NotStarted) /\ NotStarted.at = "start"
BY DEF NotStarted, Processes, Places, SchemaVersion, Late

\* A transaction that is rolled back had nothing to do with rows.
LEMMA CloseLeaves ==
  ASSUME IInv, HInv, NEW p \in Procs, Closed(p), UNCHANGED <<from, torn, written>>
  PROVE  HInv'
<1>1. CASE ~Kept
  BY <1>1 DEF HInv, Kept
<1>2. CASE Kept
  <2>1. Whole /\ Set(p, NotStarted)
    BY <1>2 DEF HInv, Closed, Set
  <2>2. db' \in {db, undo} /\ undo' = undo /\ (owner' # Nobody => owner # Nobody)
    BY DEF Closed
  <2>3. undo.variants = db.variants /\ undo.done \subseteq db.done
    BY DEF IInv, Behind
  <2>4. /\ db'.rows = db.rows /\ db'.staging = db.staging /\ db'.history = db.history
        /\ undo'.rows = db'.rows /\ undo'.staging = db'.staging /\ undo'.history = db'.history
        /\ db'.variants = db.variants
    BY <2>1, <2>2, <2>3 DEF Whole
  <2>5. from = 11 => /\ 1 .. 11 \subseteq db'.applied /\ 1 .. 11 \subseteq undo'.applied
                     /\ owner' # Nobody => db.variants = "new"
                     /\ 12 \in db'.done => db.variants = "new"
    BY <2>1, <2>2, <2>3 DEF Whole, Eleven
  <2> QED BY <2>1, <2>4, <2>5, LateNotStarted, Leaves
<1> QED BY <1>1, <1>2

\* The next version to apply, in a database that had version 11.
LEMMA LateNext ==
  ASSUME NEW p \in Procs, proc[p] \in Processes, 1 .. 11 \subseteq proc[p].applied, NEW v
  PROVE  Late(AfterVersion(p, v))
<1> DEFINE next == CHOOSE n \in Pending(p, v) : \A k \in Pending(p, v) : n <= k
           last == [proc[p] EXCEPT !.at = "shape", !.version = SchemaVersion + 1]
           more == [proc[p] EXCEPT !.at = IF next = RebuildVersion THEN "shape" ELSE "look",
                                   !.version = next]
<1>1. CASE Pending(p, v) = {}
  <2>1. AfterVersion(p, v) = last
    BY <1>1 DEF AfterVersion
  <2>2. last.at = "shape" /\ last.applied = proc[p].applied
    BY DEF Processes
  <2> QED BY <2>1, <2>2 DEF Late
<1>2. CASE Pending(p, v) # {}
  <2>1. AfterVersion(p, v) = more
    BY <1>2 DEF AfterVersion
  <2>2. next \in Versions /\ next \notin proc[p].applied
    BY <1>2, FirstPending DEF Pending
  <2> HIDE DEF next
  <2>3. next >= 12
    <3>1. next \in 1 .. 19 /\ next \notin 1 .. 11
      BY <2>2, Constant
    <3> QED BY <3>1
  <2>4. /\ more.version = next /\ more.applied = proc[p].applied
        /\ more.at = IF next = RebuildVersion THEN "shape" ELSE "look"
    BY DEF Processes
  <2> HIDE DEF more
  <2> QED BY <2>1, <2>3, <2>4, Constant DEF Late
<1> QED BY <1>1, <1>2

LEMMA ThinkLeaves ==
  ASSUME IInv, HInv, NEW p \in Procs, Open(p) \/ FirstVersion(p) \/ Look(p)
  PROVE  HInv'
<1>1. UNCHANGED <<from, db, owner, undo, torn, written>> /\ proc[p] \in Processes
  BY StateOf DEF Open, FirstVersion, Look
<1>2. ASSUME NEW next \in Processes, Set(p, next), next.at # "drop",
             Kept /\ from = 11 /\ Eleven => Late(next)
      PROVE  HInv'
  <2>1. CASE ~Kept
    BY <1>1, <2>1 DEF HInv, Kept
  <2>2. CASE Kept
    <3>1. Whole
      BY <2>2 DEF HInv
    <3>2. /\ undo.rows = db.rows /\ undo.staging = db.staging /\ undo.history = db.history
          /\ from = 11 => Eleven /\ 1 .. 11 \subseteq db.applied /\ 1 .. 11 \subseteq undo.applied
                           /\ (owner # Nobody => db.variants = "new")
                           /\ (12 \in db.done => db.variants = "new")
      BY <3>1 DEF Whole, Eleven
    <3> QED BY <1>1, <1>2, <3>2, Leaves
  <2> QED BY <2>1, <2>2
<1>3. CASE Open(p)
  <2> DEFINE next == [proc[p] EXCEPT !.at = "next", !.applied = Seen(p).applied]
  <2>1. Seen(p).applied \in SUBSET Versions /\ "next" \in Places
    BY StateOf DEF Seen, Databases, Places
  <2>2. next \in Processes /\ next.at = "next" /\ next.applied = Seen(p).applied
    BY <1>1, <2>1 DEF Processes
  <2>3. Set(p, next) /\ (Eleven => 1 .. 11 \subseteq Seen(p).applied)
    BY <1>3 DEF Open, Eleven, Seen
  <2> HIDE DEF next
  <2> QED BY <1>2, <2>2, <2>3 DEF Late
<1>4. CASE FirstVersion(p)
  <2>1. /\ AfterVersion(p, 0) \in Processes /\ AfterVersion(p, 0).at \in {"look", "shape"}
    <3>1. proc[p].applied \subseteq undo.done /\ proc[p] \in Processes
      BY StateOf DEF Progress
    <3>2. \A w \in Versions : w <= 0 => w \in Seen(p).done
      BY Constant
    <3>3. undo.done \subseteq Seen(p).done /\ 0 \in 0 .. 19
      BY SeenByAll
    <3> QED BY ONLY <3>1, <3>2, <3>3, p \in Procs, GoesOn
  <2>2. Eleven => 1 .. 11 \subseteq proc[p].applied
    BY <1>4 DEF FirstVersion, Eleven, Late
  <2>3. Eleven => Late(AfterVersion(p, 0))
    BY <1>1, <2>2, LateNext
  <2>4. Set(p, AfterVersion(p, 0))
    BY <1>4 DEF FirstVersion
  <2> QED BY <1>2, <2>1, <2>3, <2>4
<1>5. CASE Look(p)
  <2> DEFINE next == [proc[p] EXCEPT !.at = "work", !.missing = proc[p].version \notin Seen(p).done]
  <2>1. /\ next \in Processes /\ next.at = "work" /\ next.version = proc[p].version
        /\ next.applied = proc[p].applied
    <3>1. "work" \in Places /\ (proc[p].version \notin Seen(p).done) \in BOOLEAN
      BY DEF Places
    <3> QED BY ONLY <1>1, <3>1 DEF next, Processes
  <2>2. Set(p, next) /\ proc[p].at = "look"
    BY <1>5 DEF Look
  <2> HIDE DEF next
  <2>3. Eleven => Late(next)
    BY <2>1, <2>2 DEF Eleven, Late
  <2> QED BY <1>2, <2>1, <2>2, <2>3
<1> QED BY <1>3, <1>4, <1>5

\* Columns, scripts and records; by then a database that had version 11 has its new table.
LEMMA WorkLeaves ==
  ASSUME IInv, HInv, NEW p \in Procs, AddColumns(p) \/ RunScript(p) \/ Record(p)
  PROVE  HInv'
<1> DEFINE v == proc[p].version
<1>1. /\ UNCHANGED <<from, torn, written>> /\ MayWrite(p) /\ Seen(p) = db /\ proc[p] \in Processes
      /\ v \in Versions /\ proc[p].at \in {"work", "record"} /\ db \in Databases /\ undo \in Databases
  BY StateOf, SeenByAll DEF AddColumns, RunScript, Record, Progress
<1>2. Kept /\ from = 11 =>
        /\ Eleven /\ 1 .. 11 \subseteq proc[p].applied /\ v >= 12 /\ (proc[p].at = "work" => v > 12)
        /\ db.variants = "new"
  <2> SUFFICES ASSUME Kept, from = 11
               PROVE  /\ Eleven /\ 1 .. 11 \subseteq proc[p].applied /\ v >= 12
                      /\ (proc[p].at = "work" => v > 12) /\ db.variants = "new"
    OBVIOUS
  <2>1. Eleven /\ Late(proc[p])
    BY DEF HInv, Whole, Eleven
  <2>2. 1 .. 11 \subseteq proc[p].applied /\ v >= 12 /\ (proc[p].at = "work" => v > 12)
    BY <1>1, <2>1, Constant DEF Late
  <2>3. 12 \in db.done
    BY <1>1, <2>2, StateOf, Constant DEF Progress
  <2> QED BY <2>1, <2>2, <2>3 DEF Eleven
<1>3. ASSUME NEW new \in Databases, new.rows = db.rows, new.staging = db.staging,
             new.history = db.history, db.applied \subseteq new.applied,
             \/ new.variants = db.variants
             \/ v = 1 /\ db.variants = "absent" /\ new.variants = "old",
             NEW next \in Processes, Set(p, next), next.at # "drop",
             Kept /\ from = 11 => Late(next),
             db' = new, undo' \in {undo, db, new}
      PROVE  HInv'
  <2>1. CASE ~Kept
    BY <1>1, <2>1 DEF HInv, Kept
  <2>2. CASE Kept
    <3>1. Whole
      BY <2>2 DEF HInv
    <3>2. /\ undo'.rows = db'.rows /\ undo'.staging = db'.staging /\ undo'.history = db'.history
      BY <1>3, <3>1 DEF Whole
    <3>3. from \in 0 .. 19 /\ from \notin 1 .. 10
      BY <2>2, MigrationsAssumption DEF Kept, IInv, Typed
    <3>4. \/ db'.variants = db.variants
          \/ from = 0 /\ written = {} /\ db.variants = "absent" /\ db'.variants = "old"
      BY <1>2, <1>3, <2>2, <3>1, <3>3 DEF Whole, RowsAre
    <3>5. from = 11 => /\ 1 .. 11 \subseteq db'.applied /\ 1 .. 11 \subseteq undo'.applied
                       /\ db.variants = "new" /\ Late(next)
      BY <1>2, <1>3, <2>2 DEF Eleven
    <3> QED BY <1>1, <1>3, <3>2, <3>4, <3>5, Leaves
  <2> QED BY <2>1, <2>2
<1>4. CASE Closed(p)
  BY <1>1, <1>4, CloseLeaves
<1> DEFINE next == [proc[p] EXCEPT !.at = "record"]
<1>5. /\ next \in Processes /\ next.at = "record" /\ next.version = v /\ next.applied = proc[p].applied
  BY <1>1, PlaceTyped DEF Places
<1>6. Kept /\ from = 11 => Late(next)
  BY <1>2, <1>5 DEF Late
<1>7. CASE AddColumns(p) /\ ~Closed(p)
  <2> DEFINE new == [db EXCEPT !.done = @ \cup {v}]
  <2>1. Written(p, new, v \in UpdateVersions) /\ Set(p, next)
    BY <1>7 DEF AddColumns
  <2>2. /\ new \in Databases /\ new.rows = db.rows /\ new.staging = db.staging
        /\ new.history = db.history /\ new.applied = db.applied /\ new.variants = db.variants
    BY <1>1 DEF Databases
  <2>3. db' = new /\ undo' \in {undo, db, new}
    BY <2>1 DEF Written
  <2> HIDE DEF new, next
  <2> QED BY <1>3, <1>5, <1>6, <2>1, <2>2, <2>3
<1>8. CASE RunScript(p)
  <2> DEFINE new == [db EXCEPT !.done = @ \cup {v},
                               !.variants = IF v = 1 /\ @ = "absent" THEN "old" ELSE @]
  <2>1. db' = new /\ undo' = new /\ Set(p, next)
    BY <1>8 DEF RunScript
  <2>2. /\ new \in Databases /\ new.rows = db.rows /\ new.staging = db.staging
        /\ new.history = db.history /\ new.applied = db.applied
        /\ new.variants = IF v = 1 /\ db.variants = "absent" THEN "old" ELSE db.variants
    BY <1>1 DEF Databases
  <2> HIDE DEF new, next
  <2> QED BY <1>3, <1>5, <1>6, <2>1, <2>2
<1>9. CASE Record(p) /\ ~Closed(p)
  <2> DEFINE new == [db EXCEPT !.applied = @ \cup {v}]
             after == AfterVersion(p, v)
  <2>1. db' = new /\ undo' \in {undo, db} /\ Set(p, after)
    BY <1>9 DEF Record
  <2>2. /\ new \in Databases /\ new.rows = db.rows /\ new.staging = db.staging
        /\ new.history = db.history /\ db.applied \subseteq new.applied /\ new.variants = db.variants
        /\ new.done = db.done
    BY <1>1 DEF Databases
  <2> HIDE DEF new
  <2>3. after \in Processes /\ after.at \in {"look", "shape"}
    <3>1. \A w \in Versions : w <= v => w \in db.done
      BY <1>1, <1>9, StateOf, Constant DEF Progress, Record
    <3>2. proc[p] \in Processes /\ proc[p].applied \subseteq undo.done /\ v \in 0 .. 19
          /\ undo.done \subseteq db.done
      BY <1>1, StateOf, Constant DEF Progress, Behind
    <3> QED BY ONLY <3>1, <3>2, p \in Procs, GoesOn
  <2>4. Kept /\ from = 11 => Late(after)
    BY <1>1, <1>2, LateNext
  <2> HIDE DEF after
  <2> QED BY <1>3, <2>1, <2>2, <2>3, <2>4
<1> QED BY <1>4, <1>7, <1>8, <1>9 DEF AddColumns, RunScript, Record
LEMMA ShapeLeaves ==
  ASSUME IInv, HInv, NEW p \in Procs, LookAtShape(p) \/ Commit(p)
  PROVE  HInv'
<1>1. UNCHANGED <<from, torn, written>> /\ proc[p] \in Processes /\ db \in Databases
  BY StateOf DEF LookAtShape, Commit
<1> SUFFICES ASSUME Kept, Whole, ~Met PROVE HInv'
  BY <1>1 DEF HInv, Kept, Met
<1>2. /\ undo.rows = db.rows /\ undo.staging = db.staging /\ undo.history = db.history
      /\ from = 11 => Eleven /\ Late(proc[p]) /\ (owner # Nobody => db.variants = "new")
                      /\ 1 .. 11 \subseteq db.applied /\ 1 .. 11 \subseteq undo.applied
                      /\ (12 \in db.done => db.variants = "new")
  BY DEF Whole, Eleven
<1>3. ASSUME NEW next \in Processes, Set(p, next), next.at # "drop", db' = db, undo' \in {undo, db},
             owner' \in {owner, Nobody}, Eleven /\ Late(proc[p]) => Late(next)
      PROVE  HInv'
  BY <1>1, <1>2, <1>3, Leaves
<1>4. AfterShape(p) \in Processes /\ AfterShape(p).at \in {"commit", "record"}
      /\ AfterShape(p).version = proc[p].version /\ AfterShape(p).applied = proc[p].applied
  <2> DEFINE place == IF proc[p].version > SchemaVersion THEN "commit" ELSE "record"
  <2>1. place \in Places
    BY DEF Places
  <2>2. /\ AfterShape(p) \in Processes /\ AfterShape(p).at = place
        /\ AfterShape(p).version = proc[p].version /\ AfterShape(p).applied = proc[p].applied
    BY ONLY <1>1, <2>1 DEF AfterShape, Processes, place
  <2> QED BY <2>2
<1>5. proc[p].at = "shape" => (Late(proc[p]) => Late(AfterShape(p)))
  BY <1>4, StateOf, Constant DEF Late, Progress
<1>6. CASE Commit(p)
  <2> DEFINE next == [proc[p] EXCEPT !.at = "ready"]
  <2>1. next \in Processes /\ next.at = "ready" /\ next.applied = proc[p].applied
    BY <1>1, PlaceTyped DEF Places
  <2>2. Set(p, next) /\ db' = db /\ undo' \in {undo, db} /\ owner' \in {owner, Nobody}
        /\ proc[p].at = "commit"
    BY <1>6 DEF Commit
  <2> HIDE DEF next
  <2> QED BY <1>3, <2>1, <2>2 DEF Late
<1>7. CASE LookAtShape(p) /\ HasNewUnique(p) /\ Set(p, AfterShape(p)) /\ UNCHANGED <<db, owner, undo>>
  <2>1. proc[p].at = "shape"
    BY <1>7 DEF LookAtShape
  <2> QED BY <1>3, <1>4, <1>5, <1>7, <2>1
<1>8. CASE /\ LookAtShape(p) /\ Seen(p).variants # "absent" /\ ~HasNewUnique(p) /\ MayWrite(p)
           /\ Set(p, [proc[p] EXCEPT !.at = "unstage", !.fk = (owner = p)])
           /\ UNCHANGED <<db, owner, undo>>
  <2> DEFINE next == [proc[p] EXCEPT !.at = "unstage", !.fk = (owner = p)]
  <2>1. /\ next \in Processes /\ next.at = "unstage" /\ (next.fk <=> owner = p)
        /\ next.applied = proc[p].applied
    <3>1. "unstage" \in Places /\ (owner = p) \in BOOLEAN
      BY Constant DEF Places
    <3>2. next \in Processes /\ next.at = "unstage" /\ next.fk = (owner = p) /\ next.applied = proc[p].applied
      BY ONLY <1>1, <3>1 DEF next, Processes
    <3> QED BY <3>2
  <2> HIDE DEF next
  <2>2. db.variants # "new" /\ proc[p].at = "shape"
    BY <1>8, SeenByAll DEF HasNewUnique, LookAtShape
  <2>3. Eleven => owner # p
    BY <2>2, MigrationsAssumption DEF Eleven, MigrationsAssumption
  <2>4. Set(p, next)
    BY <1>8 DEF next
  <2> QED BY <1>3, <1>8, <2>1, <2>2, <2>3, <2>4 DEF Late
<1>9. CASE /\ LookAtShape(p) /\ Seen(p).variants = "absent" /\ MayWrite(p)
           /\ db' = WithShape([db EXCEPT !.variants = "new", !.rows = FALSE])
           /\ undo' = db' /\ owner' = Nobody /\ Set(p, AfterShape(p))
  <2>1. db.variants = "absent" /\ proc[p].at = "shape"
    BY <1>9, SeenByAll DEF LookAtShape
  <2>2. /\ db'.variants = "new" /\ ~db'.rows /\ db'.staging = db.staging /\ db'.history = db.history
        /\ db'.applied = db.applied
    BY <1>1, <1>9 DEF WithShape, Databases
  <2>3. proc'[p] = AfterShape(p) /\ \A q \in Procs \ {p} : proc'[q] = proc[q]
    BY <1>4, <1>9, ProcsTyped DEF IInv
  <2>4. written # {} => RowsAre'
    BY <1>1, <1>4, <2>1, <2>2, <2>3 DEF Whole, RowsAre
  <2>5. from = 11 => Eleven'
    <3> SUFFICES ASSUME from = 11 PROVE Eleven'
      OBVIOUS
    <3>1. \A q \in Procs : Late(proc'[q])
      BY <1>5, <2>1, <2>3 DEF Whole, Eleven
    <3> QED BY <1>2, <1>9, <2>2, <3>1 DEF Eleven, Late
  <2>6. undo' = db'
    BY <1>9
  <2> QED BY <1>1, <2>2, <2>4, <2>5, <2>6 DEF HInv, Whole
<1> QED BY <1>6, <1>7, <1>8, <1>9 DEF LookAtShape

\* A statement of the only rebuild there is.
LEMMA StatementLeaves ==
  ASSUME IInv, HInv, NEW p \in Procs, NEW place \in SwapPlaces, NEW next \in Processes, NEW new,
         Statement(p, place, next, new),
         Kept /\ ~Met /\ Whole /\ Shape(proc[p], db, FALSE) =>
           /\ written \subseteq new.history /\ (new.variants = "absent" => ~new.rows)
           /\ written # {} => /\ new.rows \/ new.staging = "full"
                              /\ new.variants = "old" => new.rows
                              /\ next.at = "drop" => new.staging = "full"
                              /\ from = 0 => new.variants = "new"
           /\ from >= 12 => new.variants = "new"
           /\ from = 11 => new.applied = db.applied /\ (12 \in new.done => new.variants = "new")
                           /\ Late(next)
  PROVE  HInv'
<1>1. /\ proc[p].at = place /\ MayWrite(p) /\ db' = new /\ undo' = new /\ owner' = Nobody
      /\ Set(p, next) /\ UNCHANGED <<from, written>> /\ torn \subseteq torn'
      /\ (Met' \/ Swapping = {p})
  BY DEF Statement, Met
<1> SUFFICES ASSUME Kept' PROVE Whole'
  BY DEF HInv
<1>2. Kept /\ ~Met /\ ~Met' /\ Whole /\ Swapping = {p}
  BY <1>1 DEF Kept, Met, HInv
<1>3. Shape(proc[p], db, FALSE)
  <2>1. Seen(p) = db
    BY <1>1, SeenByAll
  <2> QED BY <1>2, <2>1, StateOf DEF Shape
<1>4. proc'[p] = next /\ \A q \in Procs \ {p} : proc'[q] = proc[q] /\ proc[q].at # "drop"
  BY <1>1, <1>2, ProcsTyped, Constant DEF IInv, Swapping
<1>5. written # {} => RowsAre'
  BY <1>1, <1>2, <1>3, <1>4 DEF RowsAre
<1>6. from = 11 => Eleven'
  <2> SUFFICES ASSUME from = 11 PROVE Eleven'
    OBVIOUS
  <2>1. \A q \in Procs : Late(proc'[q])
    BY <1>2, <1>3, <1>4 DEF Whole, Eleven
  <2> QED BY <1>1, <1>2, <1>3, <2>1 DEF Whole, Eleven, Late
<1> QED BY <1>1, <1>2, <1>3, <1>5, <1>6 DEF Whole

LEMMA PlaceIsLate ==
  ASSUME NEW p \in Procs, proc[p] \in Processes, Late(proc[p]), proc[p].at \in {"unstage", "stage", "copy"},
         NEW place \in {"stage", "copy", "drop"}
  PROVE  Late(Goto(p, place))
<1>1. /\ Goto(p, place).at = place /\ Goto(p, place).fk = proc[p].fk
      /\ Goto(p, place).applied = proc[p].applied
  BY DEF Goto, Processes
<1> QED BY <1>1 DEF Late

LEMMA SwapLeaves ==
  ASSUME IInv, HInv, NEW p \in Procs, Swap(p), ~SwapFails(p)
  PROVE  HInv'
<1>1. proc[p] \in Processes /\ db \in Databases
  BY StateOf
<1>2. \A place \in {"stage", "copy", "drop", "rename"} :
        Goto(p, place) \in Processes /\ Goto(p, place).at = place
  BY <1>1, PlaceTyped, Constant DEF Goto, Places
<1>3. Whole /\ from = 11 => Late(proc[p]) /\ (12 \in db.done => db.variants = "new")
  BY DEF Whole, Eleven
<1>4. CASE DropStaging(p)
  <2> DEFINE new == [db EXCEPT !.staging = "none"]
             next == Goto(p, "stage")
  <2>1. Statement(p, "unstage", next, new) /\ proc[p].at = "unstage" /\ "unstage" \in SwapPlaces
    BY <1>4, Constant DEF DropStaging, Statement
  <2>2. /\ new.staging = "none" /\ new.rows = db.rows /\ new.history = db.history
        /\ new.variants = db.variants /\ new.applied = db.applied /\ new.done = db.done
    BY <1>1 DEF Databases
  <2>3. Whole /\ from = 11 => Late(next)
    BY <1>1, <1>3, <2>1, PlaceIsLate
  <2>4. next \in Processes /\ next.at = "stage"
    BY <1>2
  <2> HIDE DEF new, next
  <2> QED BY <1>3, <2>1, <2>2, <2>3, <2>4, StatementLeaves DEF Whole, RowsAre, Shape
<1>5. CASE CreateStaging(p)
  <2> DEFINE new == [db EXCEPT !.staging = "empty"]
             next == Goto(p, "copy")
  <2>1. Statement(p, "stage", next, new) /\ proc[p].at = "stage" /\ "stage" \in SwapPlaces
    BY <1>5, Constant DEF CreateStaging, Statement
  <2>2. /\ new.staging = "empty" /\ new.rows = db.rows /\ new.history = db.history
        /\ new.variants = db.variants /\ new.applied = db.applied /\ new.done = db.done
    BY <1>1 DEF Databases
  <2>3. Whole /\ from = 11 => Late(next)
    BY <1>1, <1>3, <2>1, PlaceIsLate
  <2>4. next \in Processes /\ next.at = "copy"
    BY <1>2
  <2> HIDE DEF new, next
  <2> QED BY <1>3, <2>1, <2>2, <2>3, <2>4, StatementLeaves DEF Whole, RowsAre, Shape
<1>6. CASE CopyVariants(p)
  <2> DEFINE new == [db EXCEPT !.staging = IF db.rows THEN "full" ELSE @]
             next == Goto(p, "drop")
  <2>1. Statement(p, "copy", next, new) /\ proc[p].at = "copy" /\ "copy" \in SwapPlaces
    BY <1>6, Constant DEF CopyVariants, Statement
  <2>2. /\ (db.rows => new.staging = "full") /\ new.rows = db.rows /\ new.history = db.history
        /\ new.variants = db.variants /\ new.applied = db.applied /\ new.done = db.done
    BY <1>1 DEF Databases
  <2>3. Whole /\ from = 11 => Late(next)
    BY <1>1, <1>3, <2>1, PlaceIsLate
  <2>4. next \in Processes /\ next.at = "drop"
    BY <1>2
  <2> HIDE DEF new, next
  <2> QED BY <1>3, <2>1, <2>2, <2>3, <2>4, StatementLeaves DEF Whole, RowsAre, Shape
<1>7. CASE DropVariants(p)
  <2> DEFINE new == [db EXCEPT !.variants = "absent", !.rows = FALSE,
                               !.history = IF proc[p].fk THEN @ \ DeletedWithVariants ELSE @]
             next == Goto(p, "rename")
  <2>1. Statement(p, "drop", next, new) /\ proc[p].at = "drop" /\ "drop" \in SwapPlaces
    BY <1>7, Constant DEF DropVariants, Statement
  <2>2. /\ new.staging = db.staging /\ ~new.rows /\ (~proc[p].fk => new.history = db.history)
        /\ new.variants = "absent" /\ new.applied = db.applied /\ new.done = db.done
    BY <1>1 DEF Databases
  <2>3. next \in Processes /\ next.at = "rename"
    BY <1>2
  <2>4. Late(proc[p]) => Late(next) /\ ~proc[p].fk
    <3>1. next.applied = proc[p].applied
      BY <1>1 DEF Goto, Processes
    <3> QED BY <2>1, <2>3, <3>1 DEF Late
  <2>5. Kept => from \in {0, 11} \cup 12 .. 19
    BY MigrationsAssumption DEF Kept, IInv, Typed
  <2> HIDE DEF new, next
  <2>6. ASSUME Kept, ~Met, Whole, Shape(proc[p], db, FALSE)
        PROVE  /\ written \subseteq new.history
               /\ written # {} => new.staging = "full" /\ from # 0
               /\ ~(from >= 12)
               /\ from = 11 => 12 \notin new.done /\ Late(next)
    <3>1. db.variants = "old"
      BY <2>1, <2>6 DEF Shape
    <3>2. ~(from >= 12) /\ (written # {} => from # 0 /\ db.staging = "full")
      BY <2>1, <2>6, <3>1 DEF Whole, RowsAre
    <3>3. written # {} => from = 11
      BY <2>5, <2>6, <3>2
    <3>4. from = 11 => Late(proc[p]) /\ 12 \notin db.done
      BY <1>3, <2>6, <3>1
    <3>5. written \subseteq new.history
      BY <2>2, <2>4, <2>6, <3>3, <3>4 DEF Whole
    <3> QED BY <2>2, <2>4, <3>2, <3>4, <3>5
  <2> QED BY <2>1, <2>2, <2>3, <2>6, StatementLeaves
<1>8. CASE RenameStaging(p)
  <2> DEFINE full == db.staging = "full"
             new == WithShape([db EXCEPT !.variants = "new", !.rows = (db.staging = "full"),
                                         !.staging = "none"])
             next == AfterShape(p)
  <2>1. /\ Statement(p, "rename", next, new) /\ proc[p].at = "rename" /\ "rename" \in SwapPlaces
        /\ db.variants = "absent"
    BY <1>8, Constant DEF RenameStaging, Statement
  <2>2. /\ new.rows = full /\ new.history = db.history /\ new.variants = "new"
        /\ new.applied = db.applied
    BY <1>1 DEF WithShape, Databases
  <2>3. new.rows <=> db.staging = "full"
    BY <2>2
  <2>4. next \in Processes /\ next.at \in {"record", "commit"} /\ next.version = proc[p].version
        /\ next.applied = proc[p].applied
    <3> DEFINE place == IF proc[p].version > SchemaVersion THEN "commit" ELSE "record"
    <3>1. place \in Places
      BY DEF Places
    <3>2. next \in Processes /\ next.at = place /\ next.version = proc[p].version
          /\ next.applied = proc[p].applied
      BY ONLY <1>1, <3>1 DEF next, AfterShape, Processes, place
    <3> QED BY <3>2
  <2> HIDE DEF new, next
  <2>5. Late(proc[p]) => Late(next)
    BY <2>1, <2>4, StateOf, Constant DEF Late, Progress
  <2> QED BY <1>3, <2>1, <2>2, <2>3, <2>4, <2>5, StatementLeaves DEF Whole, RowsAre
<1> QED BY <1>4, <1>5, <1>6, <1>7, <1>8 DEF Swap

\* A process that is ready has the new table; nothing it stores is dropped after that.
LEMMA PopulateLeaves ==
  ASSUME IInv, HInv, NEW p \in Procs, Populate(p)
  PROVE  HInv'
<1> DEFINE new == [db EXCEPT !.rows = TRUE, !.history = TablesOf(SchemaVersion)]
<1>1. /\ owner = Nobody /\ UNCHANGED <<from, owner, proc, torn>> /\ proc[p].at = "ready"
      /\ db' = new /\ undo' = new /\ written' = TablesOf(SchemaVersion) /\ db.variants # "absent"
  BY DEF Populate
<1>2. /\ new.done = db.done /\ new.applied = db.applied /\ new.variants = db.variants
      /\ new.rows /\ new.history = TablesOf(SchemaVersion) /\ new.staging = db.staging
  BY StateOf DEF Databases
<1> HIDE DEF new
<1> SUFFICES ASSUME Kept, Whole, ~Met PROVE Whole'
  BY <1>1 DEF HInv, Kept, Met
<1>3. db.variants = "new"
  BY <1>1, StateOf, SeenByAll DEF Shape
<1>4. \A q \in Procs : proc[q].at # "drop"
  BY <1>3, StateOf, SeenByAll DEF Shape
<1>5. RowsAre'
  BY <1>1, <1>2, <1>3, <1>4 DEF RowsAre
<1>6. from = 11 => Eleven'
  BY <1>1, <1>2, <1>3 DEF Whole, Eleven, Late
<1> QED BY <1>1, <1>2, <1>3, <1>5, <1>6 DEF Whole

LEMMA WholeStep == IInv /\ HInv /\ [Next]_vars => HInv'
<1> SUFFICES ASSUME IInv, HInv, [Next]_vars PROVE HInv'
  OBVIOUS
<1>1. CASE ~Kept'
  BY <1>1 DEF HInv
<1>2. CASE Kept'
  <2>1. ASSUME NEW p \in Procs, SwapFails(p) \/ Crash(p) PROVE HInv'
    <3>1. Closed(p) /\ UNCHANGED <<from, written>> /\ torn \subseteq torn'
      BY <2>1 DEF SwapFails, Crash
    <3>2. UNCHANGED torn
      BY <1>2, <3>1 DEF Kept
    <3> QED BY <3>1, <3>2, CloseLeaves
  <2>2. CASE UNCHANGED vars
    BY <2>2 DEF vars, HInv, Kept, Whole, RowsAre, Eleven, Late
  <2> QED BY <2>1, <2>2, ThinkLeaves, WorkLeaves, ShapeLeaves, SwapLeaves, PopulateLeaves
          DEF Next, Step, Swap
<1> QED BY <1>1, <1>2

\* From an empty database and from version 11 on, no rebuild of item_variants that is neither
\* cut off nor met by another one loses a variant, or a poll, a sale or a cooldown that refers to
\* one: PRAGMA foreign_keys=OFF before any transaction is open.
THEOREM HistorySafe == Spec => []HistoryKept
<1>1. Spec => []IInv
  BY Initially, Inductive, PTL DEF Spec
<1>2. Spec => []HInv
  BY <1>1, InitiallyWhole, WholeStep, PTL DEF Spec
<1>3. HInv => HistoryKept
  BY DEF HInv, Kept, Whole, RowsAre, HistoryKept
<1> QED BY <1>2, <1>3, PTL
=============================================================================
