------------------------------ MODULE RunsIndex ------------------------------
(***************************************************************************)
(* The readers of agent-runs.jsonl: what readRuns keeps of the lines, what *)
(* a reopening finds in them, and the dashboard's sessions, trees and      *)
(* anchors derived from the rows.                                          *)
(* A line is a record with its event, sid and ts, and the fields of its    *)
(* event that matter here; event "damaged" stands for a line that does not *)
(* parse.  A session's transcript is named by its sid.                     *)
(***************************************************************************)
EXTENDS Naturals, Sequences, FiniteSets, FiniteSetsExt, Functions

CONSTANT ActiveWindow    \* ACTIVE_WINDOW_MS

Latest(S) == IF S = {} THEN 0 ELSE Max(S)

-----------------------------------------------------------------------------
(* Reading the file *)

Intro(e) == e.event \in {"session-start", "spawn"}

(* Damaged lines, repeated session starts and rows without an intro or a transcript
   are left out. *)
Kept(lines, files) ==
  {i \in DOMAIN lines :
     /\ lines[i].event # "damaged"
     /\ lines[i].event = "session-start"
          => \A j \in 1..(i - 1) : ~(lines[j].event = "session-start" /\ lines[j].sid = lines[i].sid)
     /\ lines[i].sid \in files
     /\ \E j \in DOMAIN lines : Intro(lines[j]) /\ lines[j].sid = lines[i].sid}

(* The rows by their place in the file. *)
ReadRuns(lines, files) == [i \in Kept(lines, files) |-> lines[i]]

(* Nothing is pruned here: the caller tells a missing file from an unknown child. *)
SpawnOf(lines, sid) ==
  {lines[i] : i \in {j \in DOMAIN lines : lines[j].event = "spawn" /\ lines[j].sid = sid}}

Finishes(lines, sid) == {i \in DOMAIN lines : lines[i].event = "finish" /\ lines[i].sid = sid}

(* Mutant: a reopened child starts at zero. *)
Bug_TurnsAtReopen(lines, sid) == 0

(* What a child reopened from its rows takes for its totals: its last finish row's. *)
TurnsAtReopen(lines, sid) ==
  IF Finishes(lines, sid) = {} THEN 0 ELSE lines[Max(Finishes(lines, sid))].turns

-----------------------------------------------------------------------------
(* Aggregates.  A row belongs to the root that the last intro up to it names; rows
   ahead of their sid's intro belong nowhere. *)

RootOf(e) == IF e.event = "spawn" THEN e.root ELSE e.sid

Tree(rows, root) ==
  {i \in DOMAIN rows :
     \E j \in DOMAIN rows :
       /\ j <= i /\ Intro(rows[j]) /\ rows[j].sid = rows[i].sid /\ RootOf(rows[j]) = root
       /\ \A k \in DOMAIN rows :
            j < k /\ k <= i /\ Intro(rows[k]) => rows[k].sid # rows[i].sid}
Of(rows, root, sid)  == {i \in Tree(rows, root) : rows[i].sid = sid}
SidsIn(rows, root)   == {rows[i].sid : i \in Tree(rows, root)}
Ts(rows, I)          == {rows[i].ts : i \in I}

(* Mutant: a reset counts as run activity. *)
Bug_LastRunTs(rows, I) ==
  Latest(Ts(rows, {i \in I : rows[i].event \in {"spawn", "progress", "reset"}}))

(* Resets do not count: they can trail a finish. *)
LastRunTs(rows, I)   == Latest(Ts(rows, {i \in I : rows[i].event \in {"spawn", "progress"}}))
LastEventTs(rows, I) == Latest(Ts(rows, I))
Resets(rows, I)      == Cardinality({i \in I : rows[i].event = "reset"})

(* The finish row with the newest ts, the later one of two. *)
LastFinish(rows, I) ==
  {i \in I : /\ rows[i].event = "finish"
             /\ \A j \in I : rows[j].event = "finish" =>
                  rows[j].ts < rows[i].ts \/ (rows[j].ts = rows[i].ts /\ j <= i)}

-----------------------------------------------------------------------------
(* The root: its own rows may be pruned, its transcript's mtime counts as activity *)

(* Mutant: only the root's own rows count. *)
Bug_TreeLastActivity(rows, root, mtime) == Max({mtime, LastEventTs(rows, Of(rows, root, root))})

TreeLastActivity(rows, root, mtime) == Max({mtime, LastEventTs(rows, Tree(rows, root))})

RootRunning(rows, root, mtime, now) ==
  now < TreeLastActivity(rows, root, mtime) + ActiveWindow

StartTs(rows, root) ==
  LET starts == {i \in Of(rows, root, root) : rows[i].event = "session-start"}
  IN IF starts # {} THEN rows[Min(starts)].ts ELSE Min(Ts(rows, Tree(rows, root)))

(* Mutant: every finish row is added up. *)
Bug_TreeCost(rows, root, rootCost) ==
  rootCost + SumFunction([i \in {j \in Tree(rows, root) : rows[j].event = "finish"} |-> rows[i].cost])

(* The root's own cost and the last finish row of each child; rows are cumulative. *)
TreeCost(rows, root, rootCost) ==
  rootCost + SumFunction([i \in UNION {LastFinish(rows, Of(rows, root, sid)) :
                                         sid \in SidsIn(rows, root) \ {root}} |-> rows[i].cost])

(* One landing-page row per root. *)
SummarizeRoot(rows, root, mtime, rootCost, now) ==
  LET last    == TreeLastActivity(rows, root, mtime)
      running == RootRunning(rows, root, mtime, now)
      until   == IF running THEN now ELSE last
  IN [sid |-> root, running |-> running, start |-> StartTs(rows, root),
      duration |-> IF until > StartTs(rows, root) THEN until - StartTs(rows, root) ELSE 0,
      cost |-> TreeCost(rows, root, rootCost),
      agents |-> Cardinality({sid \in SidsIn(rows, root) :
                                \E i \in Of(rows, root, sid) : rows[i].event = "spawn"}),
      resets |-> Resets(rows, Tree(rows, root))]

-----------------------------------------------------------------------------
(* A child *)

(* Mutant: any finish row settles the child. *)
Bug_ChildStatus(rows, I, now) ==
  IF LastFinish(rows, I) # {} THEN rows[CHOOSE f \in LastFinish(rows, I) : TRUE].status
  ELSE IF now >= LastEventTs(rows, I) + ActiveWindow THEN "abandoned" ELSE "running"

(* A finish covers all run activity up to it; a child that never settled is running
   until it has been silent for the window, then abandoned. *)
ChildStatus(rows, I, now) ==
  LET settled == {f \in LastFinish(rows, I) : rows[f].ts >= LastRunTs(rows, I)}
  IN IF settled # {} THEN rows[CHOOSE f \in settled : TRUE].status
     ELSE IF now >= LastEventTs(rows, I) + ActiveWindow THEN "abandoned" ELSE "running"

ChildTurns(rows, I) ==
  Latest({rows[i].turn : i \in {j \in I : rows[j].event = "progress"}}
           \cup {rows[f].turns : f \in LastFinish(rows, I)})

ChildNode(rows, root, sid, now) ==
  LET I == Of(rows, root, sid)
  IN [status |-> ChildStatus(rows, I, now), turns |-> ChildTurns(rows, I), resets |-> Resets(rows, I)]

(* The tree's nodes, its root aside. *)
DeriveTree(rows, root, now) ==
  [sid \in {s \in SidsIn(rows, root) \ {root} :
              \E i \in Of(rows, root, s) : rows[i].event = "spawn"} |-> ChildNode(rows, root, sid, now)]

(* Where a transcript points to the children its session spawned: the last entry at or
   before the spawn's ts.  entryTs holds 0 for an entry without one. *)
NearestEntry(entryTs, ts) ==
  LET before == {i \in DOMAIN entryTs : entryTs[i] # 0 /\ entryTs[i] <= ts}
  IN IF before = {} THEN 1 ELSE Max(before)

SpawnAnchors(rows, sid, entryTs) ==
  [i \in {j \in DOMAIN rows : rows[j].event = "spawn" /\ rows[j].parentSid = sid} |->
     [target |-> rows[i].sid, entry |-> NearestEntry(entryTs, rows[i].ts)]]
=============================================================================
