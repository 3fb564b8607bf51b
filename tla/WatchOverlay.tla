----------------------------- MODULE WatchOverlay -----------------------------
(***************************************************************************)
(* The watch overlay over the child sessions (lib/child-watch.ts), which   *)
(* child the key shows next (lib/child-watch-cursor.ts), the side chat as  *)
(* an overlay of its own or inside this one (lib/btw-chat.ts), and what    *)
(* they do to the terminal (lib/alt-screen.ts), while children come, go    *)
(* and come back.                                                          *)
(***************************************************************************)
EXTENDS Integers, FiniteSets, Sequences, SequencesExt

CONSTANTS
  Kids,       \* ids of children
  NoKid,      \* no child
  MaxRecords, \* records of children: a reopened child has a new one
  Terminals   \* "regular", "fullscreen", or "other": regular without the render-state calls

ASSUME OverlayAssumption ==
  /\ NoKid \notin Kids /\ MaxRecords \in Nat
  /\ Terminals \subseteq {"regular", "fullscreen", "other"}

VARIABLES
  records,  \* liveChildren: records in insertion order
  born,     \* the id of each record ever made
  busy,     \* records whose run is under way
  cursor,   \* watchCursor
  overlay,  \* the overlay on the screen, see NoOverlay
  painters, \* records whose view repaints the screen
  ticking,  \* the overlay's ticker runs
  term,     \* the terminal and what the renderer takes to be on it
  flight    \* a side chat's request under way that was not aborted

overlayVars == <<records, born, busy, cursor, overlay, painters, ticking, term, flight>>
kids == <<records, born, busy>>

NoRecord == 0
NoOverlay == [shown |-> "none", mode |-> "picker", fromPicker |-> FALSE, selected |-> 0, record |-> NoRecord]

(* kept is the render state an alternate screen took over from, "-" without one. *)
MainScreen(kind) == [kind |-> kind, alt |-> FALSE, mouse |-> FALSE, frame |-> "main", kept |-> "-"]

OverlayInit ==
  /\ records = <<>> /\ born = <<>> /\ busy = {} /\ cursor = NoKid
  /\ overlay = NoOverlay /\ painters = {} /\ ticking = FALSE /\ flight = FALSE
  /\ \E kind \in Terminals : term = MainScreen(kind)

-----------------------------------------------------------------------------
(* The children: nothing here calls back into the overlay *)

OffScreen == UNCHANGED <<overlay, painters, ticking, term, flight>>

LiveKids == {born[r] : r \in ToSet(records)}
Place(id) == SelectInSeq(records, LAMBDA r : born[r] = id)

(* A spawn, or the return of an evicted child; both run at once. *)
KidEnters(id) ==
  /\ id \notin LiveKids /\ Len(born) < MaxRecords
  /\ born' = Append(born, id)
  /\ records' = Append(records, Len(born) + 1)
  /\ busy' = busy \cup {Len(born) + 1}
  /\ UNCHANGED cursor /\ OffScreen

KidRuns(r) ==
  /\ busy' = IF r \in busy THEN busy \ {r} ELSE busy \cup {r}
  /\ UNCHANGED <<records, born, cursor>> /\ OffScreen

KidEvicted(i) ==
  /\ records[i] \notin busy
  /\ records' = RemoveAt(records, i)
  /\ UNCHANGED <<born, busy, cursor>> /\ OffScreen

(* session_shutdown: resetChildState and resetWatchCursor. *)
SessionEnds ==
  /\ records # <<>>
  /\ records' = <<>> /\ cursor' = NoKid
  /\ UNCHANGED <<born, busy>> /\ OffScreen

-----------------------------------------------------------------------------
(* The cursor *)

At(i) == records[(i % Len(records)) + 1]

Bug_NextChild(id) == records[Min({Place(id) + 1, Len(records)})]

(* Spawn order, wrapping; an id that is gone gives the first child, going back the last one. *)
NextChild(id) == At(Place(id))
PrevChild(id) == IF Place(id) = 0 THEN Last(records) ELSE At(Place(id) + Len(records) - 2)

(* The child after the cursor, or the first that runs, or the latest. *)
WatchTarget ==
  LET running == SelectInSeq(records, LAMBDA r : r \in busy)
  IN IF Place(cursor) # 0 THEN NextChild(cursor)
     ELSE IF running # 0 THEN records[running] ELSE Last(records)

-----------------------------------------------------------------------------
(* The terminal *)

(* The mouse first, then the alternate screen, each only where pi's own screen is a regular one. *)
EnterScreen(t) ==
  LET mouse == [t EXCEPT !.mouse = t.kind # "fullscreen"]
  IN IF t.kind = "regular" THEN [mouse EXCEPT !.alt = TRUE, !.kept = t.frame, !.frame = "blank"] ELSE mouse

ExitScreen(t) ==
  [(IF t.alt THEN [t EXCEPT !.alt = FALSE, !.frame = t.kept, !.kept = "-"] ELSE t) EXCEPT !.mouse = FALSE]

(* pi draws: what is on the screen is what the renderer compares with. *)
PiDraws ==
  /\ term' = [term EXCEPT !.frame = IF term.alt THEN "alt" ELSE "main"]
  /\ overlay' = IF overlay.shown = "watch" /\ overlay.mode = "picker"
                THEN [overlay EXCEPT !.selected = Max({0, Min({@, Len(records) - 1})})]
                ELSE overlay
  /\ UNCHANGED <<kids, cursor, painters, ticking, flight>>

-----------------------------------------------------------------------------
(* The overlay opens and closes *)

Open(o) ==
  /\ overlay' = o
  /\ term' = EnterScreen(term)

(* WATCH_KEY: the picker over several children, the one child's view otherwise. *)
WatchKey ==
  /\ overlay.shown = "none" /\ records # <<>>
  /\ LET several == Len(records) > 1
         initial == IF several THEN NoRecord ELSE WatchTarget
     IN /\ Open([shown |-> "watch", mode |-> IF several THEN "picker" ELSE "view", fromPicker |-> several,
                 selected |-> Max({0, Place(cursor) - 1}), record |-> initial])
        /\ cursor' = IF several THEN cursor ELSE born[initial]
        /\ painters' = painters \cup ({initial} \ {NoRecord})
  /\ ticking' = TRUE
  /\ UNCHANGED <<kids, flight>>

(* dispose: the screen, the renderer and the chat's request. *)
Dispose ==
  /\ term' = ExitScreen(term)
  /\ painters' = painters \ {overlay.record}
  /\ overlay' = NoOverlay /\ ticking' = FALSE /\ flight' = FALSE
  /\ UNCHANGED <<kids, cursor>>

(* pi takes the overlay down itself. *)
PiCloses == overlay.shown # "none" /\ Dispose

-----------------------------------------------------------------------------
(* The picker *)

InMode(mode) == overlay.shown = "watch" /\ overlay.mode = mode

Stay == UNCHANGED <<kids, ticking, term>>

Bug_SwitchTo(o, r) == painters' = painters \cup {r} /\ overlay' = [o EXCEPT !.record = r]

SwitchTo(o, r) ==
  /\ painters' = IF r = o.record THEN painters ELSE (painters \ {o.record}) \cup {r}
  /\ overlay' = [o EXCEPT !.record = r]

EnterView(r) ==
  /\ cursor' = born[r]
  /\ SwitchTo([overlay EXCEPT !.mode = "view"], r)
  /\ UNCHANGED flight /\ Stay

MovePickerSelection(index, delta, count) ==
  IF count = 0 THEN 0 ELSE (Max({0, Min({index, count - 1})}) + delta + count) % count

PickerMoves(delta) ==
  /\ InMode("picker")
  /\ overlay' = [overlay EXCEPT !.selected = MovePickerSelection(@, delta, Len(records))]
  /\ UNCHANGED <<cursor, painters, flight>> /\ Stay

(* enter: the row, or the last when rows are gone. *)
PickerEnter ==
  /\ InMode("picker") /\ records # <<>>
  /\ EnterView(records[Min({overlay.selected, Len(records) - 1}) + 1])

PickerDigit(n) == InMode("picker") /\ n \in DOMAIN records /\ EnterView(records[n])

PickerEscape == InMode("picker") /\ Dispose

-----------------------------------------------------------------------------
(* The view *)

(* Back to the picker, unless there is no choice left. *)
LeaveView ==
  /\ InMode("view")
  /\ IF ~overlay.fromPicker \/ Len(records) <= 1 THEN Dispose
     ELSE /\ overlay' = [overlay EXCEPT !.mode = "picker", !.record = NoRecord,
                           !.selected = IF Contains(records, overlay.record)
                                        THEN SelectInSeq(records, LAMBDA r : r = overlay.record) - 1 ELSE @]
          /\ painters' = painters \ {overlay.record}
          /\ UNCHANGED <<cursor, flight>> /\ Stay

ShowChild(r) ==
  /\ InMode("view") /\ records # <<>>
  /\ cursor' = born[r]
  /\ SwitchTo(overlay, r)
  /\ UNCHANGED flight /\ Stay

ShowNextChild == ShowChild(NextChild(born[overlay.record]))
ShowPrevChild == ShowChild(PrevChild(born[overlay.record]))

-----------------------------------------------------------------------------
(* The side chat *)

(* Inside the view it takes over no terminal modes. *)
OpenChildBtw ==
  /\ InMode("view")
  /\ overlay' = [overlay EXCEPT !.mode = "btw"]
  /\ UNCHANGED <<cursor, painters, flight>> /\ Stay

(* /btw, with a question or without. *)
OpenMainBtw ==
  /\ overlay.shown = "none"
  /\ Open([NoOverlay EXCEPT !.shown = "btw", !.mode = "btw"])
  /\ flight' \in BOOLEAN
  /\ UNCHANGED <<kids, cursor, painters, ticking>>

Chatting == overlay.shown # "none" /\ overlay.mode = "btw"

SubmitQuestion ==
  /\ Chatting /\ ~flight
  /\ flight' = TRUE
  /\ UNCHANGED <<overlay, cursor, painters>> /\ Stay

FlightLands ==
  /\ flight
  /\ flight' = FALSE
  /\ UNCHANGED <<overlay, cursor, painters>> /\ Stay

(* escape: abort, then back to the view or off the screen. *)
CloseBtw ==
  /\ Chatting
  /\ IF overlay.shown = "btw" THEN Dispose
     ELSE /\ overlay' = [overlay EXCEPT !.mode = "view"] /\ flight' = FALSE
          /\ UNCHANGED <<cursor, painters>> /\ Stay

OverlayNext ==
  \/ \E id \in Kids : KidEnters(id)
  \/ \E i \in DOMAIN records : KidRuns(records[i]) \/ KidEvicted(i)
  \/ SessionEnds \/ PiDraws \/ WatchKey \/ PiCloses
  \/ \E delta \in {-1, 1} : PickerMoves(delta)
  \/ \E n \in 1..9 : PickerDigit(n)
  \/ PickerEnter \/ PickerEscape \/ LeaveView \/ ShowNextChild \/ ShowPrevChild
  \/ OpenChildBtw \/ OpenMainBtw \/ SubmitQuestion \/ FlightLands \/ CloseBtw

OverlaySpec == OverlayInit /\ [][OverlayNext]_overlayVars

-----------------------------------------------------------------------------
(* Properties *)

(* However the overlay was left and whatever became of the children meanwhile, nothing of it is
   left: pi's screen, the mouse as it was, nobody repainting, no request under way.  While it is
   open exactly the view that is shown repaints it, a gone child's too, and only a chat that is
   shown waits for an answer (child-watch.ts, dispose, switchTo, leaveView; alt-screen.ts). *)
OverlayLeavesNothing ==
  /\ painters = IF overlay.shown = "watch" /\ overlay.mode # "picker" THEN {overlay.record} ELSE {}
  /\ ticking <=> overlay.shown = "watch"
  /\ flight => Chatting
  /\ term.alt <=> overlay.shown # "none" /\ term.kind = "regular"
  /\ term.mouse <=> overlay.shown # "none" /\ term.kind # "fullscreen"
  /\ IF term.alt THEN term.frame # "main" /\ term.kept = "main" ELSE term.frame = "main"

(* The watch key shown again and again reaches every child, whichever ones are gone
   (child-watch-cursor.ts, nextChild). *)
EveryChildReached ==
  LET walk[k \in 0..Len(records)] == IF k = 0 THEN cursor ELSE born[NextChild(walk[k - 1])]
  IN LiveKids \subseteq {walk[k] : k \in DOMAIN walk}

-----------------------------------------------------------------------------
(* Why they hold *)

OverlayTypeOK ==
  /\ born \in Seq(Kids) /\ records \in Seq(1..Len(born)) /\ cursor \in Kids \cup {NoKid}
  /\ overlay \in [shown: {"none", "watch", "btw"}, mode: {"picker", "view", "btw"}, fromPicker: BOOLEAN,
                  selected: Nat, record: 0..Len(born)]
  /\ term \in [kind: Terminals, alt: BOOLEAN, mouse: BOOLEAN, frame: {"main", "blank", "alt"},
               kept: {"-", "main"}]
  /\ ticking \in BOOLEAN /\ flight \in BOOLEAN

(* A child has one record in the registry at a time. *)
OneRecordEach == \A i, j \in DOMAIN records : born[records[i]] = born[records[j]] => i = j

(* A child is shown by the view and by the chat inside it only. *)
OneView ==
  /\ overlay.shown = "none" => overlay = NoOverlay
  /\ overlay.shown = "btw" => overlay.mode = "btw" /\ overlay.record = NoRecord
  /\ overlay.shown = "watch" => (overlay.mode = "picker" <=> overlay.record = NoRecord)

(* The inductive invariant of the overlay (child-watch.ts). *)
OverlayInv == OverlayTypeOK /\ OneRecordEach /\ OneView /\ OverlayLeavesNothing
=============================================================================
