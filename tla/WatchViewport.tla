---------------------------- MODULE WatchViewport ----------------------------
(***************************************************************************)
(* Scrolling in the watch view and the side chat (lib/watch-viewport.ts):  *)
(* the body grows, folds and is redrawn while keys come in, and a key acts *)
(* on what was drawn last.  Lines are numbered from 0.                     *)
(***************************************************************************)
EXTENDS Integers, FiniteSetsExt

CONSTANTS
  MaxBody,  \* lines of a body
  MaxRows,  \* rows of the viewport
  WheelLines

ASSUME ViewportAssumption == MaxBody \in Nat /\ MaxRows \in Nat \ {0} /\ WheelLines \in Nat

VARIABLES
  body,   \* the transcript's lines and the lines of its handoff dividers, now
  drawn,  \* handoffAnchors: the dividers' lines when they were drawn last
  scroll  \* the WatchViewport

scrollVars == <<body, drawn, scroll>>

EmptyBody == [length |-> 0, anchors |-> {}]

ScrollInit ==
  /\ body = EmptyBody /\ drawn = {}
  /\ scroll = [offset |-> 0, follow |-> TRUE, viewport |-> 1, maxOffset |-> 0]

(* The tail, or the paused place; one at the tail or behind it follows again. *)
Layout(s, length, rows) ==
  LET maxOffset == Max({0, length - rows})
      follow == s.follow \/ s.offset >= maxOffset
  IN [offset |-> IF follow THEN maxOffset ELSE s.offset,
      follow |-> follow, viewport |-> rows, maxOffset |-> maxOffset]

ScrolledBy(s, delta) == [s EXCEPT !.follow = FALSE, !.offset = Max({0, @ + delta})]
AtHome(s) == [s EXCEPT !.follow = FALSE, !.offset = 0]
AtEnd(s) == [s EXCEPT !.follow = TRUE]

HandoffContextIndex(anchors, line) == 1 + Cardinality({a \in anchors : a <= line})

(* The context the header names: the top line's, at the tail the last visible line's. *)
HandoffViewContext(anchors, s, length) ==
  HandoffContextIndex(anchors,
    IF s.offset < Max({0, length - s.viewport}) THEN s.offset
    ELSE Min({s.offset + s.viewport, length}) - 1)

JumpedTo(s, line) == [s EXCEPT !.follow = FALSE, !.offset = line]

Bug_JumpHandoff(s, anchors, dir) ==
  LET below == {a \in anchors : a >= s.offset}
      above == {a \in anchors : a < s.offset}
  IN IF dir = 1
     THEN IF below = {} \/ Min(below) > s.maxOffset THEN AtEnd(s) ELSE JumpedTo(s, Min(below))
     ELSE IF above = {} THEN s ELSE JumpedTo(s, Max(above))

(* The next divider below the top or the tail, the last one above it or nothing. *)
JumpHandoff(s, anchors, dir) ==
  LET below == {a \in anchors : a > s.offset}
      above == {a \in anchors : a < s.offset}
  IN IF dir = 1
     THEN IF below = {} \/ Min(below) > s.maxOffset THEN AtEnd(s) ELSE JumpedTo(s, Min(below))
     ELSE IF above = {} THEN s ELSE JumpedTo(s, Max(above))

-----------------------------------------------------------------------------

(* A live run adds lines, one of them may be a divider's. *)
Grow ==
  /\ body.length < MaxBody
  /\ \E added \in SUBSET {body.length} :
       body' = [length |-> body.length + 1, anchors |-> body.anchors \cup added]
  /\ UNCHANGED <<drawn, scroll>>

(* Expanding or folding the call rows moves everything behind the first of them. *)
Fold(length) ==
  /\ Cardinality(body.anchors) <= length
  /\ \E anchors \in kSubset(Cardinality(body.anchors), 0..(length - 1)) :
       body' = [length |-> length, anchors |-> anchors]
  /\ UNCHANGED <<drawn, scroll>>

(* A frame, at the terminal's size of that moment. *)
Frame(rows) ==
  /\ scroll' = Layout(scroll, body.length, rows)
  /\ drawn' = body.anchors
  /\ UNCHANGED body

Key(s) == scroll' = s /\ UNCHANGED <<body, drawn>>

(* Far behind the end is as good as right behind it: no key counts on from there. *)
ScrollKey ==
  /\ scroll.offset <= MaxBody
  /\ \E delta \in {-1, 1, 1 - scroll.viewport, scroll.viewport - 1, -WheelLines, WheelLines} :
       Key(ScrolledBy(scroll, delta))
HomeKey == Key(AtHome(scroll))
EndKey == Key(AtEnd(scroll))
JumpKey == \E dir \in {-1, 1} : Key(JumpHandoff(scroll, drawn, dir))

(* Another child's transcript, from its tail. *)
OtherBody ==
  /\ scroll' = AtEnd(scroll)
  /\ body' = EmptyBody
  /\ UNCHANGED drawn

ScrollNext ==
  \/ Grow \/ OtherBody \/ ScrollKey \/ HomeKey \/ EndKey \/ JumpKey
  \/ \E length \in 0..MaxBody : Fold(length)
  \/ \E rows \in 1..MaxRows : Frame(rows)

ScrollSpec == ScrollInit /\ [][ScrollNext]_scrollVars

-----------------------------------------------------------------------------
(* Properties *)

VisibleLines(s) == s.offset..(Min({s.offset + s.viewport, body.length}) - 1)

(* The frames of n presses of a jump key, each drawn before the next. *)
Presses(s0, dir, n) ==
  LET frame[k \in 0..n] ==
        IF k = 0 THEN s0
        ELSE Layout(JumpHandoff(frame[k - 1], body.anchors, dir), body.length, s0.viewport)
  IN frame

Seen(frames) == UNION {VisibleLines(frames[k]) : k \in DOMAIN frames}

(* Whatever keys, growth and folding left behind, shift+down pressed on the still view shows every
   divider below and ends at the tail, shift+up every one above; the header names the context of a
   line that is shown, at the tail the last one (watch-viewport.ts, layout, handoffJumpTarget,
   handoffViewContext). *)
JumpsShowAll ==
  \A rows \in 1..MaxRows :
    LET s0 == Layout(scroll, body.length, rows)
        n == Cardinality(body.anchors) + 1
        down == Presses(s0, 1, n)
        up == Presses(s0, -1, n)
    IN /\ {a \in body.anchors : a > s0.offset} \subseteq Seen(down)
       /\ down[n].follow
       /\ body.length = 0 \/ body.length - 1 \in VisibleLines(down[n])
       /\ {a \in body.anchors : a < s0.offset} \subseteq Seen(up)
       /\ \A frames \in {down, up}, k \in 0..n :
            LET context == HandoffViewContext(body.anchors, frames[k], body.length)
            IN /\ \/ body.length = 0
                  \/ \E line \in VisibleLines(frames[k]) :
                       context = HandoffContextIndex(body.anchors, line)
               /\ frames[k].follow => context = n

-----------------------------------------------------------------------------
(* Why it holds: the places of dividers are lines, whatever moved them *)

Viewports == [offset: Nat, follow: BOOLEAN, viewport: Nat, maxOffset: Nat]

(* The inductive invariant of the viewport (watch-viewport.ts). *)
ScrollTypeOK ==
  /\ body \in [length: Nat, anchors: SUBSET Nat] /\ body.anchors \subseteq 0..(body.length - 1)
  /\ drawn \in SUBSET Nat /\ scroll \in Viewports
=============================================================================
