--------------------------- MODULE ChildRunsProofs ---------------------------
(***************************************************************************)
(* Theorems about ChildRuns for any children, clocks, throttles and files. *)
(***************************************************************************)
EXTENDS ChildRuns, DataLemmas

-----------------------------------------------------------------------------
(* The newest of a set of times *)

LEMMA LatestIsIn ==
  ASSUME NEW n \in Nat, NEW S \in SUBSET (0..n)
  PROVE  /\ Latest(S) \in 0..n /\ \A x \in S : x <= Latest(S)
         /\ Latest(S) \in S \/ Latest(S) = 0
<1>1. CASE S = {}
  BY <1>1 DEF Latest
<1>2. CASE S # {}
  BY <1>2, MaxUpTo DEF Latest
<1> QED
  BY <1>1, <1>2

-----------------------------------------------------------------------------
(* The file *)

(* What an append does to the file: nothing, a line more, whole or not, or the torn line
   lost for good. *)
FileSteps(row) ==
  \/ lines' = lines
  \/ lines' = Append(lines, row)
  \/ lines' = Append(lines, Damaged)
  \/ torn /\ lines' = [lines EXCEPT ![Len(lines)] = Damaged]

(* A row is written at the end, or lost in one of these ways. *)
LEMMA RowWritten ==
  ASSUME NEW row, Written(row) \/ Lost(row)
  PROVE  /\ FileSteps(row)
         /\ lines' = Append(lines, row) \/ Lost(row)
BY DEF Written, Lost, Behind, FileSteps

LEMMA LossesCounted ==
  ASSUME RunsTypeOK, NEW row, Written(row) \/ Lost(row)
  PROVE  losses' \in Nat /\ torn' \in BOOLEAN
<1>1. losses \in Nat /\ torn \in BOOLEAN
  BY DEF RunsTypeOK
<1>2. losses' = losses \/ losses' = losses + 1
  BY DEF Written, Lost
<1>3. torn' = torn \/ torn' = TRUE \/ torn' = FALSE
  BY Zenon DEF Written, Lost
<1>4. losses' \in Nat
  BY <1>1, <1>2
<1>5. torn' \in BOOLEAN
  BY Zenon, <1>1, <1>3
<1> QED
  BY <1>4, <1>5

LEMMA RowsSurvive ==
  ASSUME RunsTypeOK, now' \in Nat, now <= now'
  PROVE  lines \in Seq(Rows')
<1>1. Moments \subseteq Moments'
  BY DEF Moments, RunsTypeOK
<1>2. Rows \subseteq Rows'
  BY <1>1 DEF Rows
<1>3. lines \in [1..Len(lines) -> Rows] /\ Len(lines) \in Nat
  BY LenProperties DEF RunsTypeOK
<1>4. lines \in [1..Len(lines) -> Rows']
  BY <1>2, <1>3
<1> QED
  BY <1>3, <1>4, SeqDef

LEMMA RowTypes ==
  ASSUME RunsTypeOK, NEW c \in Children
  PROVE  /\ Damaged \in Rows /\ SpawnRow(c) \in Rows /\ SessionStart \in Rows
         /\ ProgressRow(c) \in Rows
         /\ [event |-> "reset", sid |-> c, ts |-> now] \in Rows
         /\ \A status \in {"done", "error", "cancelled"} : FinishRow(c, rec[c].turns, status) \in Rows
<1>1. rec[c].turns \in Nat /\ worked[c] \in Nat /\ now \in Moments
  BY DEF RunsTypeOK, Records, Moments
<1>2. Damaged \in Rows /\ SpawnRow(c) \in Rows /\ SessionStart \in Rows
  BY <1>1 DEF Damaged, SpawnRow, SessionStart, Rows
<1>3. ProgressRow(c) \in Rows /\ [event |-> "reset", sid |-> c, ts |-> now] \in Rows
  BY <1>1 DEF ProgressRow, Rows
<1>4. \A status \in {"done", "error", "cancelled"} : FinishRow(c, rec[c].turns, status) \in Rows
  BY <1>1 DEF FinishRow, Rows
<1> QED
  BY <1>2, <1>3, <1>4

(* A row more. *)
LEMMA OneRowMore ==
  ASSUME lines \in Seq(Rows), NEW row, row \in Rows
  PROVE  /\ Append(lines, row) \in Seq(Rows)
         /\ DOMAIN lines = 1..Len(lines) /\ Len(lines) \in Nat
         /\ DOMAIN Append(lines, row) = 1..(Len(lines) + 1)
         /\ Append(lines, row)[Len(lines) + 1] = row
         /\ \A i \in DOMAIN lines : Append(lines, row)[i] = lines[i]
<1>1. Append(lines, row) \in Seq(Rows) /\ Len(Append(lines, row)) = Len(lines) + 1
  BY AppendProperties
<1>2. DOMAIN lines = 1..Len(lines) /\ Len(lines) \in Nat
      /\ DOMAIN Append(lines, row) = 1..Len(Append(lines, row))
  BY <1>1, LenProperties
<1> QED
  BY <1>1, <1>2, AppendProperties

(* The last line damaged. *)
LEMMA LastRowLess ==
  ASSUME lines \in Seq(Rows)
  PROVE  LET less == [lines EXCEPT ![Len(lines)] = Damaged]
         IN /\ less \in Seq(Rows) /\ DOMAIN less = DOMAIN lines /\ Len(less) = Len(lines)
            /\ \A i \in DOMAIN lines : less[i] = IF i = Len(lines) THEN Damaged ELSE lines[i]
<1> DEFINE less == [lines EXCEPT ![Len(lines)] = Damaged]
<1>1. lines \in [1..Len(lines) -> Rows] /\ Len(lines) \in Nat
  BY LenProperties
<1>2. Damaged \in Rows
  BY DEF Damaged, Rows
<1>3. less \in [1..Len(lines) -> Rows]
  BY <1>1, <1>2
<1>4. less \in Seq(Rows)
  BY <1>1, <1>3, SeqDef
<1>5. Len(less) = Len(lines)
  BY <1>1, <1>3, <1>4, LenProperties
<1> QED
  BY <1>1, <1>3, <1>4, <1>5

-----------------------------------------------------------------------------
(* The types *)

(* What a step may do to the file and the clock. *)
LEMMA FileChanges ==
  ASSUME RunsTypeOK, [Next]_vars
  PROVE  \/ lines' = lines /\ losses' = losses /\ torn' = torn
         \/ now' = now /\ \E row \in Rows : Written(row) \/ Lost(row)
<1>2. ASSUME NEW c \in Children, NEW r, Heartbeat(c, r)
      PROVE  UNCHANGED file \/ \E row \in Rows : Written(row) \/ Lost(row)
  BY <1>2, RowTypes DEF Heartbeat, Write
<1>3. ASSUME NEW c \in Children, NEW started \in BOOLEAN, Spawn(c, started)
      PROVE  now' = now /\ \E row \in Rows : Written(row) \/ Lost(row)
  BY <1>3, RowTypes DEF Spawn, Write
<1>4. ASSUME NEW c \in Children, ToolStart(c) \/ TurnEnd(c)
      PROVE  now' = now /\ (UNCHANGED file \/ \E row \in Rows : Written(row) \/ Lost(row))
  BY <1>2, <1>4 DEF ToolStart, TurnEnd
<1>5. ASSUME NEW c \in Children, NEW aborted \in BOOLEAN, NEW rejected \in BOOLEAN, Settle(c, aborted, rejected)
      PROVE  now' = now /\ \E row \in Rows : Written(row) \/ Lost(row)
  <2>1. FinishRow(c, rec[c].turns, RunStatus(c, aborted, rejected)) \in Rows
    BY RowTypes DEF RunStatus
  <2> QED
    BY <1>5, <2>1 DEF Settle
<1>6. ASSUME NEW c \in Children, ContextReset(c)
      PROVE  now' = now /\ \E row \in Rows : Written(row) \/ Lost(row)
  BY <1>6, RowTypes DEF ContextReset, Write
<1>7. ASSUME PiRestarts
      PROVE  now' = now /\ \E row \in Rows : Written(row) \/ Lost(row)
  <2>1. SessionStart \in Rows
    BY <1>7, RowTypes DEF PiRestarts
  <2> QED
    BY <1>7, <2>1 DEF PiRestarts, Write
<1>8. ASSUME Tick \/ UNCHANGED vars PROVE UNCHANGED file
  BY <1>8 DEF Tick, vars, file
<1>9. ASSUME NEW c \in Children, NEW flag \in BOOLEAN,
             Resume(c) \/ Reopen(c, flag) \/ UserMessage(c) \/ ToolEnd(c) \/ GoOn(c) \/ MessageEnd(c, flag)
      PROVE  UNCHANGED file
  BY <1>9 DEF Resume, Reopen, UserMessage, ToolEnd, GoOn, MessageEnd
<1>10. UNCHANGED file => lines' = lines /\ losses' = losses /\ torn' = torn
  BY DEF file
<1> QED
  BY <1>3, <1>4, <1>5, <1>6, <1>7, <1>8, <1>9, <1>10 DEF Next

LEMMA ClockSteps ==
  ASSUME RunsTypeOK, [Next]_vars
  PROVE  now' \in Nat \ {0} /\ now <= now'
<1>0. now \in Nat \ {0}
  BY DEF RunsTypeOK
<1>1. now' = now \/ now' = now + 1
  BY DEF Next, Spawn, Resume, Reopen, UserMessage, ToolStart, ToolEnd, TurnEnd, GoOn, MessageEnd, Settle,
         ContextReset, Tick, PiRestarts, vars
<1> QED
  BY <1>0, <1>1

LEMMA FileTypeStays ==
  ASSUME RunsTypeOK, [Next]_vars
  PROVE  lines' \in Seq(Rows') /\ losses' \in Nat /\ torn' \in BOOLEAN
<1>0. losses \in Nat /\ torn \in BOOLEAN /\ lines \in Seq(Rows)
  BY DEF RunsTypeOK
<1>1. lines \in Seq(Rows')
  BY ClockSteps, RowsSurvive
<1>2. CASE lines' = lines /\ losses' = losses /\ torn' = torn
  BY <1>0, <1>1, <1>2
<1>3. ASSUME now' = now, NEW row \in Rows, Written(row) \/ Lost(row)
      PROVE  lines' \in Seq(Rows') /\ losses' \in Nat /\ torn' \in BOOLEAN
  <2>1. Rows' = Rows /\ Damaged \in Rows
    BY <1>3 DEF Rows, Moments, Damaged
  <2>2. FileSteps(row)
    BY <1>3, RowWritten
  <2>3. lines' \in Seq(Rows)
    BY <1>0, <1>3, <2>1, <2>2, AppendProperties, LastRowLess DEF FileSteps
  <2> QED
    BY <1>3, <2>1, <2>3, LossesCounted
<1> QED
  BY <1>2, <1>3, FileChanges

(* A reopened child's turns are a number. *)
LEMMA TurnsAtReopenNat ==
  ASSUME RunsTypeOK, NEW c \in Children
  PROVE  TurnsAtReopen(lines, c) \in Nat
<1>0. lines \in [1..Len(lines) -> Rows] /\ Len(lines) \in Nat
  BY LenProperties DEF RunsTypeOK
<1>1. CASE Finishes(lines, c) = {}
  BY <1>1 DEF TurnsAtReopen
<1>2. CASE Finishes(lines, c) # {}
  <2>1. Finishes(lines, c) \in SUBSET (0..Len(lines))
    BY <1>0 DEF Finishes
  <2>2. Max(Finishes(lines, c)) \in Finishes(lines, c)
    BY <1>0, <1>2, <2>1, MaxUpTo
  <2>3. PICK i \in 1..Len(lines) : i = Max(Finishes(lines, c)) /\ lines[i].event = "finish"
    BY <1>0, <2>2 DEF Finishes
  <2>4. lines[i].turns \in Nat
    BY <1>0, <2>3 DEF Rows
  <2> QED
    BY <1>2, <2>3, <2>4 DEF TurnsAtReopen
<1> QED
  BY <1>1, <1>2

(* What a step may do to a child's record. *)
LEMMA RecordTypeStays ==
  ASSUME RunsTypeOK, [Next]_vars
  PROVE  rec' \in [Children -> Records]
<1>0. /\ rec \in [Children -> Records] /\ now \in Nat
      /\ \A c \in Children : rec[c] \in Records
  BY DEF RunsTypeOK
<1>1. \A state \in {"live", "stored"} : [Unborn EXCEPT !.state = state] \in Records
  BY DEF Unborn, Records
<1>2. ASSUME NEW r \in Records PROVE Started(r) \in Records
  BY DEF Started, Records
<1>3. ASSUME NEW c \in Children, NEW r \in Records, Heartbeat(c, r) PROVE rec' \in [Children -> Records]
  <2>1. [r EXCEPT !.last = now] \in Records
    BY <1>0 DEF Records
  <2> QED
    BY <1>0, <1>3, <2>1 DEF Heartbeat
<1>4. ASSUME NEW c \in Children, NEW started \in BOOLEAN, Spawn(c, started) PROVE rec' \in [Children -> Records]
  <2>1. Unborn \in Records
    BY DEF Unborn, Records
  <2> QED
    BY <1>0, <1>1, <1>2, <1>4, <2>1 DEF Spawn
<1>6. ASSUME NEW c \in Children, Resume(c) PROVE rec' \in [Children -> Records]
  BY <1>0, <1>2, <1>6 DEF Resume
<1>7. ASSUME NEW c \in Children, NEW started \in BOOLEAN, Reopen(c, started) PROVE rec' \in [Children -> Records]
  <2> DEFINE r == [Unborn EXCEPT !.state = "live", !.turns = TurnsAtReopen(lines, c)]
  <2>1. r \in Records
    BY TurnsAtReopenNat DEF Unborn, Records
  <2>2. rec' = [rec EXCEPT ![c] = IF started THEN Started(r) ELSE r]
    BY <1>7 DEF Reopen
  <2> HIDE DEF r
  <2> QED
    BY <1>0, <1>2, <2>1, <2>2
<1>8. ASSUME NEW c \in Children, NEW failed \in BOOLEAN, MessageEnd(c, failed)
      PROVE  rec' \in [Children -> Records]
  <2>1. [rec[c] EXCEPT !.phase = IF failed THEN "failed" ELSE "answer", !.error = failed] \in Records
    BY <1>0 DEF Records
  <2>2. rec' = [rec EXCEPT ![c] = [rec[c] EXCEPT !.phase = IF failed THEN "failed" ELSE "answer",
                                                 !.error = failed]]
    BY <1>0, <1>8 DEF MessageEnd
  <2> QED
    BY <1>0, <2>1, <2>2
<1>9. ASSUME NEW c \in Children, ToolStart(c) PROVE rec' \in [Children -> Records]
  <2>1. [rec[c] EXCEPT !.phase = "tool"] \in Records
    BY <1>0 DEF Records
  <2> QED
    BY <1>3, <1>9, <2>1 DEF ToolStart
<1>10. ASSUME NEW c \in Children, TurnEnd(c) PROVE rec' \in [Children -> Records]
  <2> DEFINE good == rec[c].phase = "answer"
             r == [rec[c] EXCEPT !.phase = IF good THEN "rest" ELSE "spent",
                                 !.turns = IF good THEN @ + 1 ELSE @]
  <2>1. rec[c].turns + 1 \in Nat
    BY <1>0 DEF Records
  <2>2. r = [rec[c] EXCEPT !.phase = IF good THEN "rest" ELSE "spent",
                           !.turns = IF good THEN rec[c].turns + 1 ELSE rec[c].turns]
    BY <1>0 DEF Records
  <2>3. r \in Records
    BY <1>0, <2>1, <2>2 DEF Records
  <2>4. Heartbeat(c, r)
    BY <1>10 DEF TurnEnd
  <2> HIDE DEF r
  <2> QED
    BY <1>3, <2>3, <2>4
<1>11. ASSUME NEW c \in Children, NEW phase \in {"off", "answer", "think"},
              rec' = [rec EXCEPT ![c].phase = phase]
       PROVE  rec' \in [Children -> Records]
  <2>1. [rec[c] EXCEPT !.phase = phase] \in Records
    BY <1>0 DEF Records
  <2> QED
    BY <1>0, <1>11, <2>1
<1>12. CASE PiRestarts
  BY <1>0, <1>1, <1>12 DEF PiRestarts
<1>13. ASSUME NEW c \in Children, NEW aborted \in BOOLEAN, NEW rejected \in BOOLEAN,
              ToolEnd(c) \/ GoOn(c) \/ Settle(c, aborted, rejected)
       PROVE  rec' \in [Children -> Records]
  BY <1>11, <1>13 DEF ToolEnd, GoOn, Settle
<1>14. ASSUME NEW c \in Children, ContextReset(c) \/ UserMessage(c) PROVE rec' = rec
  BY <1>14 DEF ContextReset, UserMessage
<1>15. Tick \/ UNCHANGED vars => rec' = rec
  BY DEF Tick, vars
<1> QED
  BY <1>0, <1>4, <1>6, <1>7, <1>8, <1>9, <1>10, <1>12, <1>13, <1>14, <1>15 DEF Next

LEMMA RunsTypeStays ==
  ASSUME RunsTypeOK, [Next]_vars
  PROVE  RunsTypeOK'
<1>0. /\ files \subseteq Children \cup {Root} /\ lossy \subseteq Children /\ short \subseteq Children
      /\ worked \in [Children -> Nat] /\ ended \in [Children -> {"-", "done", "error", "cancelled"}]
  BY DEF RunsTypeOK
<1>1. /\ files' \subseteq Children \cup {Root} /\ lossy' \subseteq Children /\ short' \subseteq Children
  <2> DEFINE Sets ==
        /\ files' = files \/ \E c \in Children : files' = files \cup {c}
        /\ short' = short \/ \E c \in Children : short' = short \cup {c}
        /\ lossy' = lossy \/ \E some \in SUBSET Children : lossy' \in {lossy \cup some, lossy \ some}
  <2>1. Sets
    <3>1. ASSUME NEW c \in Children, NEW flag \in BOOLEAN, NEW other \in BOOLEAN,
                 \/ Spawn(c, flag) \/ Resume(c) \/ MessageEnd(c, flag) \/ ToolStart(c) \/ ToolEnd(c)
                 \/ TurnEnd(c) \/ GoOn(c) \/ ContextReset(c) \/ UserMessage(c) \/ Settle(c, flag, other)
          PROVE  Sets
      <4>1. files' = files \/ files' = files \cup {c}
        BY <3>1 DEF Spawn, Resume, MessageEnd, ToolStart, ToolEnd, TurnEnd, GoOn, ContextReset, UserMessage,
                    Settle
      <4>2. short' = short
        BY <3>1 DEF Spawn, Resume, MessageEnd, ToolStart, ToolEnd, TurnEnd, GoOn, ContextReset, UserMessage,
                    Settle, past
      <4>3. lossy' = lossy \/ lossy' \in {lossy \cup {c}, lossy \ {c}}
        BY <3>1 DEF Spawn, Resume, MessageEnd, ToolStart, ToolEnd, TurnEnd, GoOn, ContextReset, UserMessage,
                    Settle, past
      <4> QED
        BY <4>1, <4>2, <4>3
    <3>2. ASSUME NEW c \in Children, NEW flag \in BOOLEAN, Reopen(c, flag) PROVE Sets
      BY <3>2 DEF Reopen
    <3>3. ASSUME Tick \/ UNCHANGED vars PROVE Sets
      BY <3>3 DEF Tick, vars, past
    <3>4. ASSUME PiRestarts PROVE Sets
      <4>1. {c \in Children : Running(c)} \in SUBSET Children
        OBVIOUS
      <4> QED
        BY <3>4, <4>1 DEF PiRestarts
    <3> QED
      BY <3>1, <3>2, <3>3, <3>4 DEF Next
  <2> QED
    BY <1>0, <2>1
<1>3. worked' \in [Children -> Nat]
  <2>1. worked' = worked \/ \E c \in Children : worked' = [worked EXCEPT ![c] = worked[c] + 1]
    BY <1>0 DEF Next, Spawn, Resume, Reopen, UserMessage, ToolStart, ToolEnd, TurnEnd, GoOn, MessageEnd,
                Settle, ContextReset, Tick, PiRestarts, vars, past
  <2> QED
    BY <1>0, <2>1
<1>4. ended' \in [Children -> {"-", "done", "error", "cancelled"}]
  <2> DEFINE Ends ==
        \/ ended' = ended
        \/ \E c \in Children, end \in {"-", "done", "error", "cancelled"} : ended' = [ended EXCEPT ![c] = end]
  <2>1. Ends
    <3>1. ASSUME NEW c \in Children, NEW flag \in BOOLEAN, Reopen(c, flag) PROVE Ends
      BY <1>0, <3>1 DEF Reopen
    <3>2. ~(\E c \in Children, flag \in BOOLEAN : Reopen(c, flag)) => Ends
      BY DEF Next, Spawn, Resume, UserMessage, ToolStart, ToolEnd, TurnEnd, GoOn, MessageEnd,
             Settle, ContextReset, Tick, PiRestarts, vars
    <3> QED
      BY <3>1, <3>2
  <2> QED
    BY <1>0, <2>1
<1> QED
  BY <1>1, <1>3, <1>4, ClockSteps, FileTypeStays, RecordTypeStays DEF RunsTypeOK


-----------------------------------------------------------------------------
(* The rows about a child *)

Told(c) == ErrorIsLast(c) /\ SpawnLeads(c) /\ EndIsWritten(c) /\ TurnsAreCounted(c) /\ CostsAreDone(c)

LEMMA RowsAreNumbered ==
  ASSUME RunsTypeOK, NEW c \in Children
  PROVE  /\ RowsAbout(c) \in SUBSET (1..Len(lines)) /\ DOMAIN lines = 1..Len(lines) /\ Len(lines) \in Nat
         /\ \A i \in RowsAbout(c) : i \in Nat /\ lines[i] \in Rows /\ lines[i].ts \in 1..now
<1>1. lines \in [1..Len(lines) -> Rows] /\ Len(lines) \in Nat
  BY LenProperties DEF RunsTypeOK
<1>2. \A row \in Rows : row.event # "damaged" => row.ts \in 1..now
  BY DEF Rows, Moments
<1> QED
  BY <1>1, <1>2 DEF RowsAbout

(* The rows about a child stay as they are or lose the last one, a finish row only where
   the child's last end has no row of its own. *)
Thinned(c) ==
  /\ RowsAbout(c)' \subseteq RowsAbout(c) /\ \A i \in RowsAbout(c)' : lines'[i] = lines[i]
  /\ c \notin lossy => RowsFor(c, {"finish"}) \subseteq RowsAbout(c)'

(* An append adds a row about the child, or it thins what is there. *)
LEMMA ThinnedOrOwn ==
  ASSUME RunsTypeOK, TornIsOwed, NEW c \in Children, NEW row \in Rows, FileSteps(row)
  PROVE  Thinned(c) \/ (row.event # "damaged" /\ row.sid = c /\ lines' = Append(lines, row))
<1>0. /\ DOMAIN lines = 1..Len(lines) /\ Len(lines) \in Nat /\ lines \in Seq(Rows)
      /\ \A events : RowsFor(c, events) \subseteq RowsAbout(c)
  BY RowsAreNumbered DEF RunsTypeOK, RowsFor
<1>1. CASE lines' = lines
  <2>1. RowsAbout(c)' = RowsAbout(c)
    BY <1>1 DEF RowsAbout
  <2> QED
    BY <1>0, <1>1, <2>1 DEF Thinned
<1>2. ASSUME NEW other \in Rows, lines' = Append(lines, other), other.event = "damaged" \/ other.sid # c
      PROVE  Thinned(c)
  <2>1. /\ DOMAIN lines' = 1..(Len(lines) + 1) /\ lines'[Len(lines) + 1] = other
        /\ \A i \in DOMAIN lines : lines'[i] = lines[i]
    BY <1>0, <1>2, OneRowMore
  <2>2. /\ \A i \in DOMAIN lines' : i \in DOMAIN lines \/ i = Len(lines) + 1
        /\ DOMAIN lines \subseteq DOMAIN lines'
    BY <1>0, <2>1
  <2>3. RowsAbout(c)' = RowsAbout(c)
    BY <1>2, <2>1, <2>2 DEF RowsAbout
  <2>4. \A i \in RowsAbout(c) : lines'[i] = lines[i]
    BY <2>1 DEF RowsAbout
  <2> QED
    BY <1>0, <2>3, <2>4 DEF Thinned
<1>3. CASE torn /\ lines' = [lines EXCEPT ![Len(lines)] = Damaged]
  <2>1. /\ DOMAIN lines' = DOMAIN lines
        /\ \A i \in DOMAIN lines : lines'[i] = IF i = Len(lines) THEN Damaged ELSE lines[i]
    BY <1>0, <1>3, LastRowLess
  <2>2. \A i \in RowsAbout(c)' : i \in RowsAbout(c) /\ lines'[i] = lines[i]
    BY <2>1 DEF RowsAbout, Damaged
  <2>3. \A i \in RowsAbout(c) : i # Len(lines) => i \in RowsAbout(c)'
    BY <2>1 DEF RowsAbout
  <2>4. ASSUME c \notin lossy, NEW i \in RowsFor(c, {"finish"}) PROVE i \in RowsAbout(c)'
    <3>1. i \in RowsAbout(c) /\ lines[i].event = "finish" /\ lines[i].sid = c
      BY <2>4 DEF RowsFor, RowsAbout
    <3>2. i # Len(lines)
      BY <1>3, <2>4, <3>1 DEF TornIsOwed
    <3> QED
      BY <2>3, <3>1, <3>2
  <2> QED
    BY <2>2, <2>4 DEF Thinned
<1>4. Damaged \in Rows /\ Damaged.event = "damaged"
  BY DEF Damaged, Rows
<1> QED
  BY <1>1, <1>2, <1>3, <1>4 DEF FileSteps

LEMMA ThinnedByNothing ==
  ASSUME RunsTypeOK, TornIsOwed, NEW c \in Children, lines' = lines
  PROVE  Thinned(c)
<1>1. Damaged \in Rows /\ Damaged.event = "damaged" /\ FileSteps(Damaged)
  BY DEF Damaged, Rows, FileSteps
<1> QED
  BY <1>1, ThinnedOrOwn

(* A row about the child comes behind the others. *)
LEMMA OwnRow ==
  ASSUME RunsTypeOK, NEW c \in Children, NEW row \in Rows, row.event # "damaged", row.sid = c,
         lines' = Append(lines, row)
  PROVE  \E k \in Nat :
           /\ RowsAbout(c)' = RowsAbout(c) \cup {k} /\ lines'[k] = row
           /\ \A i \in RowsAbout(c) : lines'[i] = lines[i] /\ i < k /\ i \in Nat
<1> DEFINE k == Len(lines) + 1
<1>1. /\ DOMAIN lines = 1..Len(lines) /\ Len(lines) \in Nat
      /\ DOMAIN lines' = 1..k /\ lines'[k] = row
      /\ \A i \in DOMAIN lines : lines'[i] = lines[i]
  BY OneRowMore DEF RunsTypeOK
<1>2. /\ \A i \in DOMAIN lines' : i \in DOMAIN lines \/ i = k
      /\ k \in DOMAIN lines' /\ DOMAIN lines \subseteq DOMAIN lines' /\ k \in Nat
      /\ \A i \in DOMAIN lines : i < k /\ i \in Nat
  BY <1>1
<1> HIDE DEF k
<1>3. RowsAbout(c)' = RowsAbout(c) \cup {k}
  BY <1>1, <1>2 DEF RowsAbout
<1>4. \A i \in RowsAbout(c) : i \in DOMAIN lines
  BY DEF RowsAbout
<1> QED
  BY <1>1, <1>2, <1>3, <1>4

-----------------------------------------------------------------------------
(* What is kept when rows are missing *)

LEMMA LeadThinned ==
  ASSUME NEW c \in Children, SpawnLeads(c), Thinned(c), rec'[c].state = "unborn" => rec[c].state = "unborn"
  PROVE  SpawnLeads(c)'
<1>1. RowsAbout(c)' \subseteq RowsAbout(c)
  BY DEF Thinned
<1>2. RowsFor(c, {"spawn"})' \subseteq RowsFor(c, {"spawn"})
  BY DEF Thinned, RowsFor
<1> QED
  BY <1>1, <1>2 DEF SpawnLeads

(* The last run's end is still written when the rows that tell of runs only get fewer. *)
LEMMA EndKept ==
  ASSUME NEW c \in Children, EndIsWritten(c),
         c \notin lossy' /\ ~Running(c)' => c \notin lossy /\ ~Running(c),
         ended'[c] = ended[c], worked'[c] = worked[c], c \notin short' => c \notin short,
         c \in files' <=> c \in files,
         c \notin lossy => RowsFor(c, {"finish"}) \subseteq RowsFor(c, {"finish"})',
         RowsFor(c, {"spawn", "progress", "finish"})' \subseteq RowsFor(c, {"spawn", "progress", "finish"}),
         \A i \in RowsFor(c, {"spawn", "progress", "finish"})' : lines'[i] = lines[i]
  PROVE  EndIsWritten(c)'
<1> SUFFICES ASSUME c \notin lossy', ~Running(c)'
             PROVE  IF ended[c] = "-" THEN c \notin files /\ worked[c] = 0
                    ELSE \E f \in RowsFor(c, {"finish"})' :
                           /\ lines'[f].status = ended[c] /\ lines'[f].cost = worked[c]
                           /\ c \notin short' => lines'[f].turns = worked[c]
                           /\ \A i \in RowsFor(c, {"spawn", "progress", "finish"})' :
                                i <= f /\ lines'[i].ts <= lines'[f].ts
  BY DEF EndIsWritten
<1>1. CASE ended[c] = "-"
  BY <1>1 DEF EndIsWritten
<1>2. CASE ended[c] # "-"
  <2>1. PICK f \in RowsFor(c, {"finish"}) :
          /\ lines[f].status = ended[c] /\ lines[f].cost = worked[c]
          /\ c \notin short => lines[f].turns = worked[c]
          /\ \A i \in RowsFor(c, {"spawn", "progress", "finish"}) : i <= f /\ lines[i].ts <= lines[f].ts
    BY <1>2 DEF EndIsWritten
  <2>2. f \in RowsFor(c, {"finish"})' /\ f \in RowsFor(c, {"spawn", "progress", "finish"})'
    BY <2>1 DEF RowsFor
  <2>3. lines'[f] = lines[f]
    BY <2>2
  <2> QED
    BY <1>2, <2>1, <2>2, <2>3
<1> QED
  BY <1>1, <1>2

LEMMA TurnsKept ==
  ASSUME NEW c \in Children, TurnsAreCounted(c), c \notin short' => c \notin short, worked'[c] = worked[c],
         RowsFor(c, {"progress"})' \subseteq RowsFor(c, {"progress"}),
         \A i \in RowsFor(c, {"progress"})' : lines'[i] = lines[i],
         c \notin short' => /\ rec'[c].state = "unborn" => rec[c].state = "unborn"
                            /\ rec'[c].state = "live" => rec'[c].turns = worked[c],
         rec'[c].phase = "rest" => rec[c].phase = "rest",
         ~Running(c)' /\ ended'[c] = "done" =>
           rec[c].phase = "rest" \/ (~Running(c) /\ ended[c] = "done")
  PROVE  TurnsAreCounted(c)'
BY DEF TurnsAreCounted

(* Without a finish row more, the turns done only grow. *)
LEMMA CostsKept ==
  ASSUME RunsTypeOK, NEW c \in Children, CostsAreDone(c),
         RowsFor(c, {"finish"})' \subseteq RowsFor(c, {"finish"}),
         \A i \in RowsFor(c, {"finish"})' : lines'[i] = lines[i],
         worked'[c] \in Nat, worked'[c] >= worked[c]
  PROVE  CostsAreDone(c)'
<1>1. ASSUME NEW i \in RowsFor(c, {"finish"})' PROVE lines'[i].cost <= worked'[c]
  <2>1. i \in RowsFor(c, {"finish"}) /\ lines[i].cost <= worked[c] /\ lines'[i] = lines[i] /\ worked[c] \in Nat
    BY DEF CostsAreDone, RunsTypeOK
  <2>2. lines[i].cost \in Nat
    <3>1. lines[i] \in Rows /\ lines[i].event = "finish"
      BY <2>1, RowsAreNumbered DEF RowsFor
    <3> QED
      BY <3>1 DEF Rows
  <2> QED
    BY <2>1, <2>2
<1> QED
  BY <1>1 DEF CostsAreDone

(* Thinned rows of any events. *)
LEMMA ThinnedRows ==
  ASSUME NEW c, Thinned(c), NEW events
  PROVE  /\ RowsFor(c, events)' \subseteq RowsFor(c, events)
         /\ \A i \in RowsFor(c, events)' : lines'[i] = lines[i]
         /\ c \notin lossy => RowsFor(c, {"finish"}) \subseteq RowsFor(c, {"finish"})'
BY DEF Thinned, RowsFor

(* Nothing happens to the child. *)
LEMMA ToldKept ==
  ASSUME RunsTypeOK, NEW c \in Children, Told(c), Thinned(c),
         rec'[c] = rec[c], ended'[c] = ended[c], worked'[c] = worked[c],
         c \in lossy' <=> c \in lossy, c \in short' <=> c \in short, c \in files' <=> c \in files
  PROVE  Told(c)'
<1>0. ErrorIsLast(c) /\ SpawnLeads(c) /\ EndIsWritten(c) /\ TurnsAreCounted(c) /\ CostsAreDone(c)
  BY DEF Told
<1>1. Running(c)' <=> Running(c)
  BY DEF Running
<1>2. ErrorIsLast(c)'
  BY <1>0, <1>1 DEF ErrorIsLast
<1>3. SpawnLeads(c)'
  BY <1>0, LeadThinned
<1>4. EndIsWritten(c)'
  BY <1>0, <1>1, ThinnedRows, EndKept
<1>5. TurnsAreCounted(c)'
  <2>1. c \notin short => (rec[c].state = "live" => rec[c].turns = worked[c])
    BY <1>0 DEF TurnsAreCounted
  <2> QED
    BY <1>0, <1>1, <2>1, ThinnedRows, TurnsKept
<1>6. CostsAreDone(c)'
  <2>1. worked'[c] \in Nat /\ worked'[c] >= worked[c]
    BY DEF RunsTypeOK
  <2> QED
    BY <1>0, <2>1, ThinnedRows, CostsKept
<1> QED
  BY <1>2, <1>3, <1>4, <1>5, <1>6 DEF Told

(* A run goes on, or begins, and no row is added about it, or it misses one. *)
LEMMA ToldQuietly ==
  ASSUME RunsTypeOK, NEW c \in Children, Told(c), Thinned(c),
         rec'[c].state = "live", Running(c)', ErrorIsLast(c)',
         worked'[c] \in Nat, worked'[c] >= worked[c],
         c \notin short' => /\ c \notin short /\ rec'[c].turns = worked'[c]
                            /\ rec'[c].phase = "rest" => worked'[c] = worked[c] + 1
  PROVE  Told(c)'
<1>0. SpawnLeads(c) /\ TurnsAreCounted(c) /\ CostsAreDone(c) /\ worked[c] \in Nat
  BY DEF Told, RunsTypeOK
<1>1. SpawnLeads(c)'
  BY <1>0, LeadThinned
<1>2. EndIsWritten(c)'
  BY DEF EndIsWritten
<1>3. ASSUME c \notin short', NEW i \in RowsFor(c, {"progress"})'
      PROVE  /\ lines'[i].turn <= worked'[c] + 1
             /\ rec'[c].phase = "rest" => lines'[i].turn <= worked'[c]
  <2>1. i \in RowsFor(c, {"progress"}) /\ lines'[i] = lines[i]
    BY <1>3, ThinnedRows
  <2>2. lines[i].turn <= worked[c] + 1
    BY <1>0, <1>3, <2>1 DEF TurnsAreCounted
  <2>3. lines[i].turn \in Nat
    <3>1. lines[i] \in Rows /\ lines[i].event = "progress"
      BY <2>1, RowsAreNumbered DEF RowsFor
    <3> QED
      BY <3>1 DEF Rows
  <2> QED
    BY <1>0, <1>3, <2>1, <2>2, <2>3
<1>4. TurnsAreCounted(c)'
  BY <1>3 DEF TurnsAreCounted
<1>5. CostsAreDone(c)'
  BY <1>0, ThinnedRows, CostsKept
<1> QED
  BY <1>1, <1>2, <1>4, <1>5 DEF Told

-----------------------------------------------------------------------------
(* A child's own steps *)

LEMMA SpawnTells ==
  ASSUME RunsTypeOK, TornIsOwed, NEW c \in Children, NEW started \in BOOLEAN, Told(c), Spawn(c, started)
  PROVE  Told(c)'
<1>0. /\ rec[c].state = "unborn" /\ Write(SpawnRow(c)) /\ RowsAbout(c) = {} /\ ended[c] = "-"
      /\ rec' = [rec EXCEPT ![c] = IF started THEN Started(Unborn) ELSE [Unborn EXCEPT !.state = "live"]]
      /\ files' = files /\ ended' = ended /\ worked' = worked /\ lossy' = lossy /\ short' = short
      /\ rec \in [Children -> Records] /\ ~Running(c) /\ EndIsWritten(c)
  BY DEF Spawn, RunsTypeOK, Told, SpawnLeads, ErrorIsLast, past
<1>1. rec'[c].state = "live" /\ rec'[c].phase \in {"think", "off"} /\ rec'[c].turns = 0
  <2>1. CASE started
    BY <1>0, <2>1 DEF Started, Unborn
  <2>2. CASE ~started
    BY <1>0, <2>2 DEF Unborn
  <2> QED
    BY <2>1, <2>2
<1>2. ErrorIsLast(c)'
  BY <1>0, <1>1 DEF ErrorIsLast
<1>3. EndIsWritten(c)'
  <2>1. c \notin lossy => c \notin files /\ worked[c] = 0
    BY <1>0 DEF EndIsWritten
  <2> QED
    BY <1>0, <2>1 DEF EndIsWritten
<1>4. SpawnRow(c) \in Rows /\ SpawnRow(c).event = "spawn" /\ SpawnRow(c).sid = c
  BY RowTypes DEF SpawnRow
<1>5. Thinned(c) \/ lines' = Append(lines, SpawnRow(c))
  BY <1>0, <1>4, RowWritten, ThinnedOrOwn DEF Write
<1>6. /\ \A i, j \in RowsAbout(c)' : i = j /\ i \in Nat
      /\ RowsFor(c, {"progress"})' = {} /\ RowsFor(c, {"finish"})' = {}
  <2>1. CASE Thinned(c)
    BY <1>0, <2>1 DEF Thinned, RowsFor
  <2>2. CASE lines' = Append(lines, SpawnRow(c))
    <3>1. PICK k \in Nat : RowsAbout(c)' = RowsAbout(c) \cup {k} /\ lines'[k] = SpawnRow(c)
      BY <1>4, <2>2, OwnRow
    <3> QED
      BY <1>0, <1>4, <3>1 DEF RowsFor
  <2> QED
    BY <1>5, <2>1, <2>2
<1>7. SpawnLeads(c)'
  <2>1. \A j \in RowsFor(c, {"spawn"})', i \in RowsAbout(c)' : j <= i
    <3>1. RowsFor(c, {"spawn"})' \subseteq RowsAbout(c)'
      BY DEF RowsFor
    <3>2. \A n \in Nat : n <= n
      OBVIOUS
    <3> QED
      BY <1>6, <3>1, <3>2
  <2> QED
    BY <1>1, <2>1 DEF SpawnLeads
<1>8. TurnsAreCounted(c)' /\ CostsAreDone(c)'
  <2>1. c \notin short => worked[c] = 0
    BY <1>0 DEF Told, TurnsAreCounted
  <2> QED
    BY <1>0, <1>1, <1>6, <2>1 DEF TurnsAreCounted, CostsAreDone
<1> QED
  BY <1>2, <1>3, <1>7, <1>8 DEF Told

(* The finish row of a child that is at rest is its newest. *)
LEMMA TotalsAreRead ==
  ASSUME RunsTypeOK, NEW c \in Children, Told(c), c \notin lossy, c \notin short, c \in files,
         rec[c].state = "stored"
  PROVE  TurnsAtReopen(lines, c) = worked[c]
<1>1. ~Running(c)
  BY DEF Told, ErrorIsLast
<1>2. PICK f \in RowsFor(c, {"finish"}) :
        /\ lines[f].turns = worked[c]
        /\ \A i \in RowsFor(c, {"spawn", "progress", "finish"}) : i <= f
  BY <1>1 DEF Told, EndIsWritten
<1>3. Finishes(lines, c) = RowsFor(c, {"finish"})
  BY DEF Finishes, RowsFor, RowsAbout
<1>4. /\ f \in Finishes(lines, c)
      /\ \A i \in Finishes(lines, c) : i <= f /\ i \in 0..Len(lines)
      /\ Len(lines) \in Nat
  BY <1>2, <1>3, RowsAreNumbered DEF RowsFor
<1>5. Finishes(lines, c) \in SUBSET (0..Len(lines)) /\ Finishes(lines, c) # {}
  BY <1>4
<1>6. Max(Finishes(lines, c)) \in Finishes(lines, c) /\ f <= Max(Finishes(lines, c))
  BY <1>4, <1>5, MaxUpTo
<1>7. Max(Finishes(lines, c)) = f
  BY <1>4, <1>6
<1> QED
  BY <1>2, <1>5, <1>7 DEF TurnsAtReopen

LEMMA ResumeTells ==
  ASSUME RunsTypeOK, TornIsOwed, NEW c \in Children, Told(c), Resume(c)
  PROVE  Told(c)'
<1>0. /\ rec \in [Children -> Records] /\ rec[c] \in Records /\ rec[c].state = "live"
      /\ worked[c] \in Nat /\ ended \in [Children -> {"-", "done", "error", "cancelled"}]
      /\ rec' = [rec EXCEPT ![c] = Started(rec[c])] /\ ended' = [ended EXCEPT ![c] = "-"]
      /\ lines' = lines /\ worked' = worked /\ short' = short
  BY DEF RunsTypeOK, Resume, past, file
<1>1. rec'[c].state = "live" /\ rec'[c].phase = "think" /\ rec'[c].turns = rec[c].turns /\ ended'[c] = "-"
  BY <1>0 DEF Started, Records
<1>2. ErrorIsLast(c)' /\ Running(c)' /\ Thinned(c)
  BY <1>0, <1>1, ThinnedByNothing DEF ErrorIsLast, Running
<1>3. c \notin short => rec[c].turns = worked[c]
  BY <1>0 DEF Told, TurnsAreCounted
<1>4. worked'[c] \in Nat /\ worked'[c] >= worked[c]
  BY <1>0
<1> QED
  BY <1>0, <1>1, <1>2, <1>3, <1>4, ToldQuietly

LEMMA ReopenTells ==
  ASSUME RunsTypeOK, TornIsOwed, NEW c \in Children, NEW started \in BOOLEAN, Told(c), Reopen(c, started)
  PROVE  Told(c)'
<1> DEFINE r == [Unborn EXCEPT !.state = "live", !.turns = TurnsAtReopen(lines, c)]
<1>0. /\ rec \in [Children -> Records] /\ rec[c].state = "stored" /\ worked[c] \in Nat
      /\ ended \in [Children -> {"-", "done", "error", "cancelled"}] /\ c \in files
      /\ rec' = [rec EXCEPT ![c] = IF started THEN Started(r) ELSE r]
      /\ ended' = [ended EXCEPT ![c] = IF started THEN "-" ELSE ended[c]]
      /\ short' = IF c \in lossy THEN short \cup {c} ELSE short
      /\ lines' = lines /\ worked' = worked /\ lossy' = lossy /\ files' = files
  BY DEF RunsTypeOK, Reopen, file
<1>1. Thinned(c) /\ ~Running(c) /\ worked'[c] \in Nat /\ worked'[c] >= worked[c]
  BY <1>0, ThinnedByNothing DEF Told, ErrorIsLast
<1>2. c \notin short' => c \notin short /\ TurnsAtReopen(lines, c) = worked[c]
  BY <1>0, TotalsAreRead
<1>3. r.state = "live" /\ r.phase = "off" /\ r.turns = TurnsAtReopen(lines, c)
  BY DEF Unborn
<1>4. CASE started
  <2>1. Started(r).state = "live" /\ Started(r).phase = "think" /\ Started(r).turns = TurnsAtReopen(lines, c)
    BY DEF Started, Unborn
  <2>2. rec'[c] = Started(r) /\ ended'[c] = "-"
    BY <1>0, <1>4
  <2> HIDE DEF r
  <2>3. ErrorIsLast(c)' /\ Running(c)'
    BY <2>1, <2>2 DEF ErrorIsLast, Running
  <2>4. c \notin short' => /\ c \notin short /\ rec'[c].turns = worked'[c]
                           /\ rec'[c].phase = "rest" => worked'[c] = worked[c] + 1
    BY <1>0, <1>2, <2>1, <2>2
  <2> QED
    BY <1>1, <2>1, <2>2, <2>3, <2>4, ToldQuietly
<1>5. CASE ~started
  <2>1. rec'[c] = r /\ ended'[c] = ended[c]
    BY <1>0, <1>5
  <2> HIDE DEF r
  <2>2. ErrorIsLast(c)' /\ ~Running(c)'
    BY <1>3, <2>1 DEF ErrorIsLast, Running
  <2>3. SpawnLeads(c)'
    BY <1>0, <1>1, <1>3, <2>1, LeadThinned DEF Told
  <2>4. EndIsWritten(c)'
    BY <1>0, <1>1, <1>2, <2>1, ThinnedRows, EndKept DEF Told
  <2>5. TurnsAreCounted(c)'
    BY <1>0, <1>1, <1>2, <1>3, <2>1, ThinnedRows, TurnsKept DEF Told
  <2>6. CostsAreDone(c)'
    BY <1>0, <1>1, ThinnedRows, CostsKept DEF Told
  <2> QED
    BY <2>2, <2>3, <2>4, <2>5, <2>6 DEF Told
<1> QED
  BY <1>4, <1>5

LEMMA PhaseTells ==
  ASSUME RunsTypeOK, TornIsOwed, NEW c \in Children, Told(c), NEW failed \in BOOLEAN,
         MessageEnd(c, failed) \/ ToolEnd(c) \/ GoOn(c) \/ UserMessage(c)
  PROVE  Told(c)'
<1>0. /\ rec \in [Children -> Records] /\ rec[c] \in Records /\ worked[c] \in Nat
      /\ lines' = lines /\ worked' = worked /\ short' = short /\ ended' = ended
  BY DEF RunsTypeOK, MessageEnd, ToolEnd, GoOn, UserMessage, past, file
<1>1. rec[c].state = "live" /\ ended[c] = "-"
  BY DEF Told, ErrorIsLast, Running, MessageEnd, ToolEnd, GoOn, UserMessage
<1>2. /\ rec'[c].state = "live" /\ rec'[c].turns = rec[c].turns
      /\ rec'[c].phase \in {"failed", "answer", "think"}
      /\ rec'[c].phase = "answer" => ~rec'[c].error
      /\ rec'[c].phase = "failed" => rec'[c].error
  <2>1. CASE MessageEnd(c, failed)
    BY <1>0, <1>1, <2>1 DEF MessageEnd, Records
  <2>2. CASE ToolEnd(c)
    BY <1>0, <1>1, <2>2 DEF ToolEnd, Records, Told, ErrorIsLast
  <2>3. CASE GoOn(c)
    BY <1>0, <1>1, <2>3 DEF GoOn, Records
  <2>4. CASE UserMessage(c)
    BY <1>0, <1>1, <2>4 DEF UserMessage
  <2> QED
    BY <2>1, <2>2, <2>3, <2>4
<1>3. Thinned(c)
  BY <1>0, ThinnedByNothing
<1>4. ErrorIsLast(c)' /\ Running(c)' /\ rec'[c].phase # "rest"
  BY <1>0, <1>1, <1>2 DEF ErrorIsLast, Running
<1>5. c \notin short => rec'[c].turns = worked[c]
  BY <1>1, <1>2 DEF Told, TurnsAreCounted
<1>6. worked'[c] \in Nat /\ worked'[c] >= worked[c]
  BY <1>0
<1> QED
  BY <1>0, <1>2, <1>3, <1>4, <1>5, <1>6, ToldQuietly

(* A row that is no spawn row leaves the spawn row in the lead. *)
LEMMA LeadKept ==
  ASSUME NEW c \in Children, SpawnLeads(c), NEW k \in Nat,
         RowsAbout(c)' = RowsAbout(c) \cup {k}, lines'[k].event # "spawn",
         \A i \in RowsAbout(c) : lines'[i] = lines[i] /\ i < k /\ i \in Nat,
         rec'[c].state # "unborn"
  PROVE  SpawnLeads(c)'
<1>1. RowsFor(c, {"spawn"})' = RowsFor(c, {"spawn"}) /\ RowsFor(c, {"spawn"}) \subseteq RowsAbout(c)
  BY DEF RowsFor
<1>2. \A j \in RowsFor(c, {"spawn"}) : j <= k
  BY <1>1
<1> QED
  BY <1>1, <1>2 DEF SpawnLeads

(* A heartbeat, written, lost or throttled, in a run that goes on. *)
LEMMA HeartbeatTells ==
  ASSUME RunsTypeOK, TornIsOwed, NEW c \in Children, Told(c), NEW r \in Records, Heartbeat(c, r),
         rec[c].state = "live", Running(c), r.state = "live", r.phase \in {"tool", "rest", "spent"},
         r.phase = "spent" <=> r.error, short' = short, ended' = ended,
         worked'[c] \in Nat, worked'[c] >= worked[c],
         r.turns = rec[c].turns + (worked'[c] - worked[c]),
         r.phase = "rest" => worked'[c] = worked[c] + 1
  PROVE  Told(c)'
<1>0. /\ rec \in [Children -> Records] /\ worked[c] \in Nat /\ rec[c].turns \in Nat
      /\ ErrorIsLast(c) /\ SpawnLeads(c) /\ TurnsAreCounted(c) /\ CostsAreDone(c)
  BY DEF RunsTypeOK, Records, Told
<1>1. /\ rec'[c].state = "live" /\ rec'[c].phase = r.phase /\ rec'[c].error = r.error
      /\ rec'[c].turns = r.turns
  BY <1>0 DEF Heartbeat, Records
<1>2. ErrorIsLast(c)' /\ Running(c)'
  BY <1>0, <1>1 DEF ErrorIsLast, Running
<1>3. c \notin short => rec[c].turns = worked[c] /\ rec'[c].turns = worked'[c]
  <2>1. c \notin short => rec[c].turns = worked[c]
    BY <1>0 DEF TurnsAreCounted
  <2> QED
    BY <1>0, <1>1, <2>1
<1>4. ASSUME Thinned(c) PROVE Told(c)'
  BY <1>0, <1>1, <1>2, <1>3, <1>4, ToldQuietly
<1>5. /\ ProgressRow(c) \in Rows /\ ProgressRow(c).event = "progress" /\ ProgressRow(c).sid = c
      /\ ProgressRow(c).turn = rec[c].turns + 1
  BY RowTypes DEF ProgressRow
<1>6. Thinned(c) \/ lines' = Append(lines, ProgressRow(c))
  <2>1. CASE UNCHANGED file
    BY <2>1, ThinnedByNothing DEF file
  <2>2. CASE Write(ProgressRow(c))
    BY <1>5, <2>2, RowWritten, ThinnedOrOwn DEF Write
  <2> QED
    BY <2>1, <2>2 DEF Heartbeat
<1>7. CASE lines' = Append(lines, ProgressRow(c))
  <2>1. PICK k \in Nat :
          /\ RowsAbout(c)' = RowsAbout(c) \cup {k} /\ lines'[k] = ProgressRow(c)
          /\ \A i \in RowsAbout(c) : lines'[i] = lines[i] /\ i < k /\ i \in Nat
    BY <1>5, <1>7, OwnRow
  <2>2. /\ RowsFor(c, {"progress"})' = RowsFor(c, {"progress"}) \cup {k}
        /\ RowsFor(c, {"finish"})' = RowsFor(c, {"finish"})
        /\ \A i \in RowsFor(c, {"finish"}) : lines'[i] = lines[i]
    BY <1>5, <2>1 DEF RowsFor
  <2>3. SpawnLeads(c)'
    BY <1>0, <1>1, <1>5, <2>1, LeadKept
  <2>4. EndIsWritten(c)'
    BY <1>2 DEF EndIsWritten
  <2>5. TurnsAreCounted(c)'
    <3>1. ASSUME c \notin short', NEW i \in RowsFor(c, {"progress"})'
          PROVE  /\ lines'[i].turn <= worked'[c] + 1
                 /\ rec'[c].phase = "rest" => lines'[i].turn <= worked'[c]
      <4>1. lines'[i].turn \in Nat /\ lines'[i].turn <= worked[c] + 1
        <5>1. CASE i \in RowsFor(c, {"progress"})
          <6>1. lines[i] \in Rows /\ lines[i].event = "progress" /\ lines'[i] = lines[i]
            BY <2>1, <5>1, RowsAreNumbered DEF RowsFor
          <6>2. lines[i].turn \in Nat
            BY <6>1 DEF Rows
          <6>3. lines[i].turn <= worked[c] + 1
            BY <1>0, <3>1, <5>1 DEF TurnsAreCounted
          <6> QED
            BY <6>1, <6>2, <6>3
        <5>2. CASE i = k
          <6>1. lines'[i].turn = rec[c].turns + 1
            BY <1>5, <2>1, <5>2
          <6>2. rec[c].turns = worked[c]
            BY <1>3, <3>1
          <6> QED
            BY <1>0, <6>1, <6>2
        <5> QED
          BY <2>2, <3>1, <5>1, <5>2
      <4> QED
        BY <1>0, <1>1, <4>1
    <3> QED
      BY <1>1, <1>2, <1>3, <3>1 DEF TurnsAreCounted
  <2>6. CostsAreDone(c)'
    BY <1>0, <2>2, CostsKept
  <2> QED
    BY <1>2, <2>3, <2>4, <2>5, <2>6 DEF Told
<1> QED
  BY <1>4, <1>6, <1>7

LEMMA TurnTells ==
  ASSUME RunsTypeOK, TornIsOwed, NEW c \in Children, Told(c), ToolStart(c) \/ TurnEnd(c)
  PROVE  Told(c)'
<1>0. /\ rec[c] \in Records /\ rec[c].turns \in Nat /\ worked \in [Children -> Nat] /\ worked[c] \in Nat
  BY DEF RunsTypeOK, Records
<1>1. rec[c].state = "live" /\ Running(c) /\ short' = short /\ ended' = ended
  BY DEF Told, ErrorIsLast, Running, ToolStart, TurnEnd, past
<1>2. CASE ToolStart(c)
  <2> DEFINE r == [rec[c] EXCEPT !.phase = "tool"]
  <2>1. /\ r \in Records /\ r.state = "live" /\ r.phase = "tool" /\ ~r.error /\ r.turns = rec[c].turns
    BY <1>0, <1>1, <1>2 DEF Records, Told, ErrorIsLast, ToolStart
  <2>2. Heartbeat(c, r) /\ worked' = worked
    BY <1>2 DEF ToolStart, past
  <2>3. r.turns = rec[c].turns + (worked'[c] - worked[c]) /\ worked'[c] \in Nat /\ worked'[c] >= worked[c]
    BY <1>0, <2>1, <2>2
  <2> HIDE DEF r
  <2> QED
    BY <1>1, <2>1, <2>2, <2>3, HeartbeatTells
<1>3. CASE TurnEnd(c)
  <2> DEFINE good == rec[c].phase = "answer"
             r == [rec[c] EXCEPT !.phase = IF good THEN "rest" ELSE "spent",
                                 !.turns = IF good THEN @ + 1 ELSE @]
  <2>1. Heartbeat(c, r) /\ worked' = [worked EXCEPT ![c] = IF good THEN @ + 1 ELSE @]
    BY <1>3 DEF TurnEnd
  <2>2. worked'[c] = IF good THEN worked[c] + 1 ELSE worked[c]
    BY <1>0, <2>1
  <2>3. r = [rec[c] EXCEPT !.phase = IF good THEN "rest" ELSE "spent",
                           !.turns = IF good THEN rec[c].turns + 1 ELSE rec[c].turns]
    BY <1>0 DEF Records
  <2>4. /\ r \in Records /\ r.state = "live" /\ r.error = rec[c].error
        /\ r.phase = IF good THEN "rest" ELSE "spent"
        /\ r.turns = IF good THEN rec[c].turns + 1 ELSE rec[c].turns
    <3>1. rec[c].turns + 1 \in Nat
      BY <1>0
    <3> QED
      BY <1>0, <1>1, <2>3, <3>1 DEF Records
  <2>5. good <=> ~rec[c].error
    BY <1>3 DEF TurnEnd, Told, ErrorIsLast
  <2> HIDE DEF r
  <2>6. /\ worked'[c] \in Nat /\ worked'[c] >= worked[c]
        /\ r.turns = rec[c].turns + (worked'[c] - worked[c])
        /\ r.phase = "rest" => worked'[c] = worked[c] + 1
    <3>1. CASE good
      BY <1>0, <2>2, <2>4, <3>1
    <3>2. CASE ~good
      BY <1>0, <2>2, <2>4, <3>2
    <3> QED
      BY <3>1, <3>2
  <2>7. r.phase \in {"tool", "rest", "spent"} /\ (r.phase = "spent" <=> r.error)
    BY <2>4, <2>5
  <2> QED
    BY <1>1, <2>1, <2>4, <2>6, <2>7, HeartbeatTells
<1> QED
  BY <1>2, <1>3

(* The run's end is written, as it was, or the child misses it. *)
LEMMA SettleTells ==
  ASSUME RunsTypeOK, TornIsOwed, NEW c \in Children, Told(c),
         NEW aborted \in BOOLEAN, NEW rejected \in BOOLEAN, Settle(c, aborted, rejected)
  PROVE  Told(c)'
<1> DEFINE status == RunStatus(c, aborted, rejected)
           row == FinishRow(c, rec[c].turns, status)
<1>0. /\ rec \in [Children -> Records] /\ rec[c] \in Records /\ worked[c] \in Nat /\ now \in Nat
      /\ ended \in [Children -> {"-", "done", "error", "cancelled"}]
      /\ SpawnLeads(c) /\ TurnsAreCounted(c) /\ CostsAreDone(c)
  BY DEF RunsTypeOK, Told
<1>1. rec[c].phase # "off" /\ rec[c].state = "live"
  BY DEF Settle, Running, Told, ErrorIsLast
<1>2. /\ rec'[c].phase = "off" /\ rec'[c].state = "live" /\ rec'[c].turns = rec[c].turns
      /\ worked' = worked /\ short' = short /\ worked'[c] \in Nat /\ worked'[c] >= worked[c]
  BY <1>0, <1>1 DEF Settle, Records
<1>3. ErrorIsLast(c)' /\ ~Running(c)'
  BY <1>2 DEF ErrorIsLast, Running
<1>4. /\ ended'[c] = status /\ status \in {"done", "error", "cancelled"}
      /\ status = "done" => rec[c].phase = "rest"
  BY <1>0 DEF Settle, RunStatus, Told, ErrorIsLast
<1>5. /\ row \in Rows /\ row.event = "finish" /\ row.sid = c /\ row.ts = now
      /\ row.status = status /\ row.turns = rec[c].turns /\ row.cost = worked[c]
  BY <1>4, RowTypes DEF FinishRow
<1>6. lines' = Append(lines, row) \/ (FileSteps(row) /\ c \in lossy')
  <2>1. Written(row) \/ (Lost(row) /\ lossy' = lossy \cup {c})
    BY DEF Settle
  <2> HIDE DEF row, status
  <2>2. Written(row) => lines' = Append(lines, row)
    BY DEF Written, Behind
  <2> QED
    BY <2>1, <2>2, RowWritten
<1>7. c \notin short => rec[c].turns = worked[c]
  BY <1>0, <1>1 DEF TurnsAreCounted
<1> HIDE DEF row, status
<1>8. CASE Thinned(c) /\ c \in lossy'
  <2>1. SpawnLeads(c)'
    BY <1>0, <1>2, <1>8, LeadThinned
  <2>2. EndIsWritten(c)'
    BY <1>8 DEF EndIsWritten
  <2>3. TurnsAreCounted(c)'
    <3>1. c \notin short' => c \notin short /\ rec'[c].turns = worked[c]
      BY <1>2, <1>7
    <3> QED
      BY <1>0, <1>2, <1>4, <1>8, <3>1, ThinnedRows, TurnsKept
  <2>4. CostsAreDone(c)'
    BY <1>0, <1>2, <1>8, ThinnedRows, CostsKept
  <2> QED
    BY <1>3, <2>1, <2>2, <2>3, <2>4 DEF Told
<1>9. CASE lines' = Append(lines, row)
  <2>2. PICK k \in Nat :
          /\ RowsAbout(c)' = RowsAbout(c) \cup {k} /\ lines'[k] = row
          /\ \A i \in RowsAbout(c) : lines'[i] = lines[i] /\ i < k /\ i \in Nat
    BY <1>5, <1>9, OwnRow
  <2>3. SpawnLeads(c)'
    BY <1>0, <1>2, <1>5, <2>2, LeadKept
  <2>5. EndIsWritten(c)'
    <3>1. k \in RowsFor(c, {"finish"})'
      BY <1>5, <2>2 DEF RowsFor
    <3>2. ASSUME NEW i \in RowsAbout(c)' PROVE i <= k /\ lines'[i].ts <= lines'[k].ts
      <4>1. CASE i \in RowsAbout(c)
        <5>1. lines[i].ts <= now /\ lines'[i] = lines[i] /\ i < k /\ i \in Nat
          BY <1>0, <2>2, <4>1, RowsAreNumbered
        <5> QED
          BY <1>5, <2>2, <5>1
      <4>2. CASE i = k
        BY <1>0, <1>5, <2>2, <4>2
      <4> QED
        BY <2>2, <3>2, <4>1, <4>2
    <3>3. /\ lines'[k].status = ended'[c] /\ lines'[k].cost = worked'[c] /\ ended'[c] # "-"
          /\ c \notin short' => lines'[k].turns = worked'[c]
      BY <1>2, <1>4, <1>5, <1>7, <2>2
    <3>4. \A i \in RowsFor(c, {"spawn", "progress", "finish"})' : i <= k /\ lines'[i].ts <= lines'[k].ts
      BY <3>2 DEF RowsFor
    <3> QED
      BY <3>1, <3>3, <3>4 DEF EndIsWritten
  <2>6. TurnsAreCounted(c)'
    <3>1. RowsFor(c, {"progress"})' = RowsFor(c, {"progress"})
          /\ \A i \in RowsFor(c, {"progress"}) : lines'[i] = lines[i]
      BY <1>5, <2>2 DEF RowsFor
    <3>2. c \notin short' => c \notin short /\ rec'[c].turns = worked[c]
      BY <1>2, <1>7
    <3> QED
      BY <1>0, <1>2, <1>4, <3>1, <3>2, TurnsKept
  <2>7. CostsAreDone(c)'
    <3>1. RowsFor(c, {"finish"})' = RowsFor(c, {"finish"}) \cup {k}
          /\ \A i \in RowsFor(c, {"finish"}) : lines'[i] = lines[i]
      BY <1>5, <2>2 DEF RowsFor
    <3>2. lines'[k].cost <= worked'[c]
      BY <1>0, <1>2, <1>5, <2>2
    <3> QED
      BY <1>0, <1>2, <3>1, <3>2 DEF CostsAreDone
  <2> QED
    BY <1>3, <2>3, <2>5, <2>6, <2>7 DEF Told
<1> QED
  BY <1>5, <1>6, <1>8, <1>9, ThinnedOrOwn

LEMMA ResetTells ==
  ASSUME RunsTypeOK, TornIsOwed, NEW c \in Children, Told(c), ContextReset(c)
  PROVE  Told(c)'
<1> DEFINE row == [event |-> "reset", sid |-> c, ts |-> now]
<1>0. /\ rec[c].state = "live" /\ rec' = rec /\ Write(row) /\ files' = files /\ lossy' = lossy
      /\ ended' = ended /\ worked' = worked /\ short' = short
      /\ SpawnLeads(c) /\ EndIsWritten(c) /\ TurnsAreCounted(c) /\ CostsAreDone(c)
  BY DEF ContextReset, past, Told
<1>1. row \in Rows /\ row.event = "reset" /\ row.sid = c
  BY RowTypes
<1> HIDE DEF row
<1>2. Thinned(c) \/ lines' = Append(lines, row)
  BY <1>0, <1>1, RowWritten, ThinnedOrOwn DEF Write
<1>3. CASE Thinned(c)
  BY <1>0, <1>3, ToldKept
<1>4. CASE lines' = Append(lines, row)
  <2>1. PICK k \in Nat :
          /\ RowsAbout(c)' = RowsAbout(c) \cup {k} /\ lines'[k] = row
          /\ \A i \in RowsAbout(c) : lines'[i] = lines[i] /\ i < k /\ i \in Nat
    BY <1>1, <1>4, OwnRow
  <2>2. /\ RowsFor(c, {"finish"})' = RowsFor(c, {"finish"})
        /\ RowsFor(c, {"progress"})' = RowsFor(c, {"progress"})
        /\ RowsFor(c, {"spawn", "progress", "finish"})' = RowsFor(c, {"spawn", "progress", "finish"})
    BY <1>1, <2>1 DEF RowsFor
  <2>3. \A events : \A i \in RowsFor(c, events) : lines'[i] = lines[i]
    BY <2>1 DEF RowsFor
  <2>4. Running(c)' <=> Running(c)
    BY <1>0 DEF Running
  <2>5. SpawnLeads(c)'
    BY <1>0, <1>1, <2>1, LeadKept
  <2>6. EndIsWritten(c)'
    BY <1>0, <2>2, <2>3, <2>4, EndKept
  <2>7. ErrorIsLast(c)' /\ TurnsAreCounted(c)' /\ CostsAreDone(c)'
    BY <1>0, <2>2, <2>3, <2>4 DEF Told, ErrorIsLast, TurnsAreCounted, CostsAreDone
  <2> QED
    BY <2>5, <2>6, <2>7 DEF Told
<1> QED
  BY <1>2, <1>3, <1>4

LEMMA RestartTells ==
  ASSUME RunsTypeOK, TornIsOwed, NEW c \in Children, Told(c), PiRestarts
  PROVE  Told(c)'
<1>0. /\ files' = files /\ ended' = ended /\ worked' = worked /\ short' = short /\ Write(SessionStart)
      /\ lossy' = lossy \cup {d \in Children : Running(d)}
      /\ rec'[c] = IF rec[c].state = "live" THEN [Unborn EXCEPT !.state = "stored"] ELSE rec[c]
      /\ ErrorIsLast(c) /\ SpawnLeads(c) /\ EndIsWritten(c) /\ TurnsAreCounted(c) /\ CostsAreDone(c)
  BY DEF PiRestarts, Told
<1>1. Thinned(c)
  <2>1. SessionStart \in Rows /\ SessionStart.sid # c
    BY RowTypes, RunsAssumption DEF SessionStart
  <2> QED
    BY <1>0, <2>1, RowWritten, ThinnedOrOwn DEF Write
<1>2. CASE rec[c].state # "live"
  <2>1. c \in lossy' <=> c \in lossy
    BY <1>0, <1>2 DEF ErrorIsLast
  <2> QED
    BY <1>0, <1>1, <1>2, <2>1, ToldKept
<1>3. CASE rec[c].state = "live"
  <2>1. rec'[c].state = "stored" /\ rec'[c].phase = "off"
    BY <1>0, <1>3 DEF Unborn
  <2>2. c \notin lossy' => c \notin lossy /\ ~Running(c)
    BY <1>0
  <2>3. ErrorIsLast(c)'
    BY <2>1 DEF ErrorIsLast, Running
  <2>4. SpawnLeads(c)'
    BY <1>0, <1>1, <2>1, LeadThinned
  <2>5. EndIsWritten(c)'
    BY <1>0, <1>1, <2>2, ThinnedRows, EndKept
  <2>6. TurnsAreCounted(c)'
    <3>1. ~Running(c)' /\ ended'[c] = "done" => ~Running(c) /\ ended[c] = "done"
      BY <1>0 DEF ErrorIsLast
    <3>2. c \notin short' => c \notin short /\ rec'[c].state # "unborn" /\ rec'[c].state # "live"
      BY <1>0, <2>1
    <3>3. rec'[c].phase # "rest" /\ worked'[c] = worked[c] /\ TurnsAreCounted(c)
      BY <1>0, <2>1
    <3>4. /\ RowsFor(c, {"progress"})' \subseteq RowsFor(c, {"progress"})
          /\ \A i \in RowsFor(c, {"progress"})' : lines'[i] = lines[i]
      BY <1>1, ThinnedRows
    <3> QED
      BY <3>1, <3>2, <3>3, <3>4, TurnsKept
  <2>7. CostsAreDone(c)'
    <3>1. worked'[c] \in Nat /\ worked'[c] >= worked[c]
      BY <1>0 DEF RunsTypeOK
    <3> QED
      BY <1>0, <1>1, <3>1, ThinnedRows, CostsKept
  <2> QED
    BY <2>3, <2>4, <2>5, <2>6, <2>7 DEF Told
<1> QED
  BY <1>2, <1>3

-----------------------------------------------------------------------------
(* The torn line *)

(* What may be taken away next is no end that its child does not miss already. *)
LEMMA OwedAfter ==
  ASSUME RunsTypeOK, TornIsOwed, NEW row \in Rows, Written(row) \/ (Lost(row) /\ lossy \subseteq lossy'),
         Lost(row) => (row.event = "finish" => row.sid \in lossy')
  PROVE  TornIsOwed'
<1>0. lines \in Seq(Rows) /\ Len(lines) \in Nat /\ Damaged \in Rows /\ Damaged.event = "damaged"
  BY LenProperties DEF RunsTypeOK, Damaged, Rows
<1>1. CASE ~torn'
  BY <1>1 DEF TornIsOwed
<1>2. CASE lines' = lines /\ torn' = torn /\ lossy \subseteq lossy'
  BY <1>2 DEF TornIsOwed
<1>3. ASSUME NEW part \in {row, Damaged}, Lost(row), lines' = Behind(part) PROVE TornIsOwed'
  <2>1. CASE torn
    <3>1. lines # <<>> /\ lines' = [lines EXCEPT ![Len(lines)] = Damaged]
      BY <1>3, <2>1 DEF Behind, TornIsOwed
    <3>2. lines' \in Seq(Rows) /\ Len(lines') = Len(lines) /\ Len(lines) \in DOMAIN lines
      BY <1>0, <3>1, LastRowLess, EmptySeq, LenProperties
    <3>3. lines'[Len(lines')] = Damaged
      BY <1>0, <3>1, <3>2, LastRowLess
    <3>4. lines' # <<>>
      BY <1>0, <3>2, EmptySeq, LenProperties
    <3> QED
      BY <1>0, <3>3, <3>4 DEF TornIsOwed
  <2>2. CASE ~torn
    <3>1. lines' = Append(lines, part) /\ part \in Rows
      BY <1>0, <1>3, <2>2 DEF Behind
    <3>2. lines' # <<>> /\ lines'[Len(lines')] = part
      BY <1>0, <3>1, AppendProperties
    <3>3. part.event = "finish" => part.sid \in lossy'
      BY <1>0, <1>3
    <3> QED
      BY <3>2, <3>3 DEF TornIsOwed
  <2> QED
    BY <2>1, <2>2
<1>4. Written(row) => ~torn'
  BY DEF Written
<1>5. Lost(row) => \/ ~torn' \/ (lines' = lines /\ torn' = torn)
                   \/ \E part \in {row, Damaged} : lines' = Behind(part)
  BY Zenon DEF Lost
<1> QED
  BY <1>1, <1>2, <1>3, <1>4, <1>5

LEMMA OwedStays ==
  ASSUME RunsTypeOK, TornIsOwed, [Next]_vars
  PROVE  TornIsOwed'
<1>1. ASSUME UNCHANGED file, lossy \subseteq lossy' PROVE TornIsOwed'
  BY <1>1 DEF TornIsOwed, file
<1>2. ASSUME NEW row \in Rows, row.event # "finish", Write(row), lossy \subseteq lossy' PROVE TornIsOwed'
  BY <1>2, OwedAfter DEF Write
<1>3. ASSUME NEW c \in Children, NEW r, Heartbeat(c, r), lossy' = lossy PROVE TornIsOwed'
  <2>1. ProgressRow(c) \in Rows /\ ProgressRow(c).event # "finish"
    BY RowTypes DEF ProgressRow
  <2> QED
    BY <1>1, <1>2, <1>3, <2>1 DEF Heartbeat
<1>4. ASSUME NEW c \in Children, NEW started \in BOOLEAN, Spawn(c, started) PROVE TornIsOwed'
  <2>1. SpawnRow(c) \in Rows /\ SpawnRow(c).event # "finish"
    BY RowTypes DEF SpawnRow
  <2>2. Write(SpawnRow(c)) /\ lossy' = lossy
    BY <1>4 DEF Spawn, past
  <2> QED
    BY <1>2, <2>1, <2>2
<1>5. ASSUME NEW c \in Children, ToolStart(c) \/ TurnEnd(c) PROVE TornIsOwed'
  BY <1>3, <1>5 DEF ToolStart, TurnEnd, past
<1>6. ASSUME NEW c \in Children, NEW aborted \in BOOLEAN, NEW rejected \in BOOLEAN, Settle(c, aborted, rejected)
      PROVE  TornIsOwed'
  <2> DEFINE row == FinishRow(c, rec[c].turns, RunStatus(c, aborted, rejected))
  <2>1. row \in Rows /\ row.sid = c
    BY RowTypes DEF RunStatus, FinishRow
  <2>2. Written(row) \/ (Lost(row) /\ lossy' = lossy \cup {c})
    BY <1>6 DEF Settle
  <2> HIDE DEF row
  <2>3. CASE Written(row)
    BY <2>3 DEF Written, TornIsOwed
  <2>4. CASE Lost(row) /\ lossy' = lossy \cup {c}
    BY <2>1, <2>4, OwedAfter
  <2> QED
    BY <2>2, <2>3, <2>4
<1>7. ASSUME NEW c \in Children, ContextReset(c) PROVE TornIsOwed'
  <2> DEFINE row == [event |-> "reset", sid |-> c, ts |-> now]
  <2>1. row \in Rows /\ row.event # "finish" /\ Write(row) /\ lossy' = lossy
    BY <1>7, RowTypes DEF ContextReset, past
  <2> HIDE DEF row
  <2> QED
    BY <1>2, <2>1
<1>8. CASE PiRestarts
  <2>1. SessionStart \in Rows /\ SessionStart.event # "finish" /\ Write(SessionStart) /\ lossy \subseteq lossy'
    BY <1>8, RowTypes DEF PiRestarts, SessionStart
  <2> QED
    BY <1>2, <2>1
<1>9. CASE Tick \/ UNCHANGED vars
  BY <1>1, <1>9 DEF Tick, vars, file, past
<1>10. ASSUME NEW c \in Children, NEW flag \in BOOLEAN,
              Resume(c) \/ Reopen(c, flag) \/ UserMessage(c) \/ ToolEnd(c) \/ GoOn(c) \/ MessageEnd(c, flag)
       PROVE  TornIsOwed'
  BY <1>1, <1>10 DEF Resume, Reopen, UserMessage, ToolEnd, GoOn, MessageEnd, past
<1> QED
  BY <1>4, <1>5, <1>6, <1>7, <1>8, <1>9, <1>10 DEF Next

-----------------------------------------------------------------------------
(* The inductive invariant *)

Acts(c) ==
  \/ Resume(c) \/ UserMessage(c) \/ ToolStart(c) \/ ToolEnd(c) \/ TurnEnd(c) \/ GoOn(c)
  \/ \E flag \in BOOLEAN : Spawn(c, flag) \/ Reopen(c, flag) \/ MessageEnd(c, flag)
  \/ \E aborted, rejected \in BOOLEAN : Settle(c, aborted, rejected)
  \/ ContextReset(c)

LEMMA ActingTells ==
  ASSUME RunsTypeOK, TornIsOwed, NEW c \in Children, Told(c), Acts(c)
  PROVE  Told(c)'
<1>1. TRUE \in BOOLEAN
  OBVIOUS
<1> QED
  BY <1>1, SpawnTells, ResumeTells, ReopenTells, TurnTells, PhaseTells, SettleTells, ResetTells DEF Acts

(* A child's step leaves the others alone, but for the torn line. *)
LEMMA OthersTell ==
  ASSUME RunsTypeOK, TornIsOwed, NEW c \in Children, NEW d \in Children, d # c, Told(c), Acts(d)
  PROVE  Told(c)'
<1>0. /\ rec \in [Children -> Records] /\ ended \in [Children -> {"-", "done", "error", "cancelled"}]
      /\ worked \in [Children -> Nat]
  BY DEF RunsTypeOK
<1>1. ASSUME NEW row \in Rows, row.sid = d, Written(row) \/ Lost(row) PROVE Thinned(c)
  BY <1>1, RowWritten, ThinnedOrOwn
<1>2. UNCHANGED file => Thinned(c)
  BY ThinnedByNothing DEF file
<1>3. ASSUME Thinned(c), rec'[c] = rec[c], ended'[c] = ended[c], worked'[c] = worked[c],
             c \in lossy' <=> c \in lossy, c \in short' <=> c \in short, c \in files' <=> c \in files
      PROVE  Told(c)'
  BY <1>3, ToldKept
<1>4. ASSUME NEW r, Heartbeat(d, r) PROVE Thinned(c) /\ rec'[c] = rec[c]
  <2>1. ProgressRow(d) \in Rows /\ ProgressRow(d).sid = d
    BY RowTypes DEF ProgressRow
  <2>2. Thinned(c)
    BY <1>1, <1>2, <1>4, <2>1 DEF Heartbeat, Write
  <2>3. rec'[c] = rec[c]
    BY <1>0, <1>4 DEF Heartbeat
  <2> QED
    BY <2>2, <2>3
<1>5. ASSUME NEW started \in BOOLEAN, Spawn(d, started) PROVE Told(c)'
  <2>1. SpawnRow(d) \in Rows /\ SpawnRow(d).sid = d
    BY RowTypes DEF SpawnRow
  <2>2. Thinned(c)
    BY <1>1, <1>5, <2>1 DEF Spawn, Write
  <2> QED
    BY <1>0, <1>3, <1>5, <2>2 DEF Spawn, past
<1>6. CASE ToolStart(d) \/ TurnEnd(d)
  <2>1. Thinned(c) /\ rec'[c] = rec[c]
    BY <1>4, <1>6 DEF ToolStart, TurnEnd
  <2>2. ended' = ended /\ worked'[c] = worked[c] /\ files' = files /\ lossy' = lossy /\ short' = short
    BY <1>0, <1>6 DEF ToolStart, TurnEnd, past
  <2> QED
    BY <1>3, <2>1, <2>2
<1>7. ASSUME NEW aborted \in BOOLEAN, NEW rejected \in BOOLEAN, Settle(d, aborted, rejected) PROVE Told(c)'
  <2> DEFINE row == FinishRow(d, rec[d].turns, RunStatus(d, aborted, rejected))
  <2>1. row \in Rows /\ row.sid = d
    BY RowTypes DEF RunStatus, FinishRow
  <2>2. /\ Written(row) \/ Lost(row)
        /\ lossy' = lossy \cup {d} \/ lossy' = lossy \ {d}
    BY <1>7 DEF Settle
  <2> HIDE DEF row
  <2>3. Thinned(c) /\ (c \in lossy' <=> c \in lossy)
    BY <1>1, <2>1, <2>2
  <2>4. /\ rec'[c] = rec[c] /\ ended'[c] = ended[c] /\ worked' = worked /\ short' = short /\ files' = files
    BY <1>0, <1>7 DEF Settle
  <2> QED
    BY <1>3, <2>3, <2>4
<1>8. CASE ContextReset(d)
  <2> DEFINE row == [event |-> "reset", sid |-> d, ts |-> now]
  <2>1. row \in Rows /\ row.sid = d /\ (Written(row) \/ Lost(row))
    BY <1>8, RowTypes DEF ContextReset, Write
  <2> HIDE DEF row
  <2>2. Thinned(c)
    BY <1>1, <2>1
  <2> QED
    BY <1>3, <1>8, <2>2 DEF ContextReset, past
<1>9. CASE Resume(d)
  BY <1>0, <1>2, <1>3, <1>9 DEF Resume, past
<1>10. ASSUME NEW started \in BOOLEAN, Reopen(d, started) PROVE Told(c)'
  <2>1. short' = IF d \in lossy THEN short \cup {d} ELSE short
    BY <1>10 DEF Reopen
  <2>2. c \in short' <=> c \in short
    BY <2>1
  <2>3. rec'[c] = rec[c] /\ ended'[c] = ended[c]
    BY <1>0, <1>10 DEF Reopen
  <2> QED
    BY <1>2, <1>3, <1>10, <2>2, <2>3 DEF Reopen
<1>11. ASSUME NEW failed \in BOOLEAN, MessageEnd(d, failed) \/ ToolEnd(d) \/ GoOn(d) PROVE Told(c)'
  <2>1. rec'[c] = rec[c]
    BY <1>0, <1>11 DEF MessageEnd, ToolEnd, GoOn
  <2> QED
    BY <1>2, <1>3, <1>11, <2>1 DEF MessageEnd, ToolEnd, GoOn, past
<1>12. CASE UserMessage(d)
  BY <1>2, <1>3, <1>12 DEF UserMessage, past
<1>13. TRUE \in BOOLEAN
  OBVIOUS
<1> QED
  BY <1>5, <1>6, <1>7, <1>8, <1>9, <1>10, <1>11, <1>12, <1>13 DEF Acts

LEMMA InitTells == Init => RunsInv
<1> SUFFICES ASSUME Init PROVE RunsInv
  OBVIOUS
<1>0. /\ now = 1 /\ lines = <<SessionStart>> /\ torn = FALSE /\ files = {Root} /\ losses = 0
      /\ lossy = {} /\ short = {}
      /\ rec = [c \in Children |-> Unborn] /\ ended = [c \in Children |-> "-"]
      /\ worked = [c \in Children |-> 0]
  BY DEF Init, SessionStart
<1>1. SessionStart \in Rows /\ SessionStart.sid = Root
  BY <1>0 DEF SessionStart, Rows, Moments
<1>2. lines \in Seq(Rows) /\ DOMAIN lines = {1} /\ lines[1] = SessionStart
  BY <1>0, <1>1
<1>3. RunsTypeOK /\ TornIsOwed
  <2>1. TornIsOwed
    BY <1>0 DEF TornIsOwed
  <2>2. /\ rec \in [Children -> Records] /\ worked \in [Children -> Nat] /\ files \subseteq Children \cup {Root}
        /\ ended \in [Children -> {"-", "done", "error", "cancelled"}] /\ now \in Nat \ {0} /\ losses \in Nat
        /\ lossy \subseteq Children /\ short \subseteq Children
    BY <1>0 DEF Unborn, Records
  <2>3. torn \in BOOLEAN
    BY Zenon, <1>0
  <2> QED
    BY Zenon, <1>2, <2>1, <2>2, <2>3 DEF RunsTypeOK
<1>4. ASSUME NEW c \in Children PROVE Told(c)
  <2>1. RowsAbout(c) = {}
    BY <1>1, <1>2, RunsAssumption DEF RowsAbout
  <2>2. rec[c] = Unborn /\ worked[c] = 0 /\ ended[c] = "-" /\ c \notin files
    BY <1>0, RunsAssumption
  <2> QED
    BY <2>1, <2>2 DEF Told, ErrorIsLast, SpawnLeads, EndIsWritten, TurnsAreCounted, CostsAreDone, RowsFor,
                        Unborn, Running
<1> QED
  BY <1>3, <1>4 DEF RunsInv, Told

(* The rows tell what the records know, whatever rows were lost or swallowed by a torn line
   (child-runs.ts, child-session.ts; agent-runs.ts, appendEvent). *)
THEOREM RunsInvariant == Spec => []RunsInv
<1>1. RunsInv /\ [Next]_vars => RunsInv'
  <2> SUFFICES ASSUME RunsInv, [Next]_vars PROVE RunsInv'
    OBVIOUS
  <2>0. RunsTypeOK /\ TornIsOwed /\ \A c \in Children : Told(c)
    BY DEF RunsInv, Told
  <2>1. RunsTypeOK' /\ TornIsOwed'
    BY <2>0, RunsTypeStays, OwedStays
  <2>2. ASSUME NEW c \in Children PROVE Told(c)'
    <3>1. (\E d \in Children : Acts(d)) \/ Tick \/ PiRestarts \/ UNCHANGED vars
      BY DEF Next, Acts
    <3>2. ASSUME NEW d \in Children, Acts(d) PROVE Told(c)'
      BY <2>0, <3>2, ActingTells, OthersTell
    <3>3. CASE Tick \/ UNCHANGED vars
      <4>1. UNCHANGED <<lines, files, rec, ended, worked, lossy, short>>
        BY <3>3 DEF Tick, vars, past, file
      <4> QED
        BY <2>0, <4>1, ThinnedByNothing, ToldKept
    <3>4. CASE PiRestarts
      BY <2>0, <3>4, RestartTells
    <3> QED
      BY <3>1, <3>2, <3>3, <3>4
  <2> QED
    BY <2>1, <2>2 DEF RunsInv, Told
<1> QED
  BY <1>1, InitTells, PTL DEF Spec

-----------------------------------------------------------------------------
(* What the dashboard reads *)

(* The times of rows that are read. *)
LEMMA TimesRead ==
  ASSUME RunsTypeOK, NEW I \in SUBSET DOMAIN Shown
  PROVE  /\ now \in Nat /\ Ts(Shown, I) \in SUBSET (0..now)
         /\ \A i \in I : Shown[i] = lines[i] /\ Shown[i].ts \in 1..now /\ i \in Nat
<1>1. lines \in [1..Len(lines) -> Rows] /\ Len(lines) \in Nat /\ now \in Nat
  BY LenProperties DEF RunsTypeOK
<1>2. \A row \in Rows : row.event # "damaged" => row.ts \in 1..now
  BY DEF Rows, Moments
<1>3. \A i \in I : i \in Kept(lines, files) /\ Shown[i] = lines[i]
  BY DEF Shown, ReadRuns
<1>4. \A i \in I : i \in 1..Len(lines) /\ lines[i].event # "damaged" /\ lines[i] \in Rows
  BY <1>1, <1>3 DEF Kept
<1>5. \A i \in I : Shown[i].ts \in 1..now /\ i \in Nat
  BY <1>1, <1>2, <1>3, <1>4
<1> QED
  BY <1>1, <1>3, <1>5 DEF Ts

(* Only rows about a child are counted for it. *)
LEMMA RowsCounted ==
  ASSUME NEW sid
  PROVE  /\ Of(Shown, Root, sid) \subseteq RowsAbout(sid) /\ Of(Shown, Root, sid) \subseteq DOMAIN Shown
         /\ \A i \in DOMAIN Shown : Shown[i] = lines[i] /\ i \in DOMAIN lines /\ lines[i].sid \in files
<1>1. Of(Shown, Root, sid) \subseteq DOMAIN Shown /\ \A i \in Of(Shown, Root, sid) : Shown[i].sid = sid
  BY DEF Of, Tree
<1>2. \A i \in DOMAIN Shown : /\ Shown[i] = lines[i] /\ i \in DOMAIN lines
                              /\ lines[i].event # "damaged" /\ lines[i].sid \in files
  BY DEF Shown, ReadRuns, Kept
<1> QED
  BY <1>1, <1>2 DEF RowsAbout

(* A node is a child that has a transcript and rows in the tree; only such rows are counted
   for it. *)
LEMMA NodesAreChildren ==
  ASSUME RunsTypeOK, NEW c \in DOMAIN Nodes
  PROVE  /\ c \in Children /\ c \in files /\ Of(Shown, Root, c) \subseteq RowsAbout(c)
         /\ Of(Shown, Root, c) \subseteq DOMAIN Shown
         /\ \E i \in RowsAbout(c) : lines[i].event = "spawn"
         /\ Nodes[c] = ChildNode(Shown, Root, c, now)
<1>1. /\ c # Root /\ \E i \in Of(Shown, Root, c) : Shown[i].event = "spawn"
      /\ Nodes[c] = ChildNode(Shown, Root, c, now)
  BY DEF Nodes, DeriveTree
<1>2. Of(Shown, Root, c) \subseteq RowsAbout(c) /\ Of(Shown, Root, c) \subseteq DOMAIN Shown
  BY RowsCounted
<1>3. \A i \in DOMAIN Shown : Shown[i] = lines[i] /\ lines[i].sid \in files
  BY RowsCounted
<1>4. \A i \in Of(Shown, Root, c) : lines[i].sid = c
  BY <1>2 DEF RowsAbout
<1>5. c \in Children /\ c \in files
  BY <1>1, <1>2, <1>3, <1>4 DEF RunsTypeOK
<1> QED
  BY <1>1, <1>2, <1>3, <1>4, <1>5

(* All rows of a child that is shown are counted: its spawn row leads them. *)
LEMMA AllRowsCount ==
  ASSUME RunsInv, NEW c \in DOMAIN Nodes
  PROVE  /\ Of(Shown, Root, c) = RowsAbout(c) /\ RowsAbout(c) \subseteq DOMAIN Shown
         /\ \A i \in RowsAbout(c) : Shown[i] = lines[i]
<1>0. /\ RunsTypeOK /\ SpawnLeads(c) /\ Of(Shown, Root, c) \subseteq RowsAbout(c)
      /\ c \in Children /\ c \in files
  BY NodesAreChildren DEF RunsInv
<1>1. PICK j \in RowsFor(c, {"spawn"}) : TRUE
  BY <1>0, NodesAreChildren DEF RowsFor
<1>2. \A i \in RowsAbout(c) : j <= i
  BY <1>0, <1>1 DEF SpawnLeads
<1>3. \A i \in RowsFor(c, {"spawn"}) : i = j
  <2>1. ASSUME NEW i \in RowsFor(c, {"spawn"}) PROVE i = j
    <3>1. i \in RowsAbout(c) /\ j \in RowsAbout(c)
      BY <1>1 DEF RowsFor
    <3>2. i <= j /\ j <= i
      BY <1>0, <1>1, <3>1 DEF SpawnLeads
    <3>3. i \in Nat /\ j \in Nat
      BY <1>0, <3>1, RowsAreNumbered
    <3> QED
      BY <3>2, <3>3
  <2> QED
    BY <2>1
<1>4. \A i \in RowsAbout(c) : /\ i \in DOMAIN lines /\ lines[i].sid = c /\ lines[i].event # "damaged"
                              /\ lines[i] \in Rows
  BY <1>0, RowsAreNumbered DEF RowsAbout
<1>5. \A row \in Rows : /\ row.event = "session-start" => row.sid = Root
                        /\ row.event = "spawn" => row.root = Root
  BY DEF Rows
<1>6. \A i \in RowsAbout(c) : lines[i].event # "session-start"
  BY <1>0, <1>4, <1>5, RunsAssumption
<1>7. j \in RowsAbout(c) /\ lines[j].event = "spawn" /\ lines[j].root = Root
  BY <1>1, <1>4, <1>5 DEF RowsFor
<1>8. RowsAbout(c) \subseteq Kept(lines, files)
  BY <1>0, <1>4, <1>6, <1>7 DEF Kept, Intro
<1>9. \A i \in RowsAbout(c) : i \in DOMAIN Shown /\ Shown[i] = lines[i]
  BY <1>8 DEF Shown, ReadRuns
<1>10. \A k \in DOMAIN Shown : Shown[k].sid = c /\ Intro(Shown[k]) => k = j
  <2>1. ASSUME NEW k \in DOMAIN Shown, Shown[k].sid = c, Intro(Shown[k]) PROVE k = j
    <3>1. k \in RowsAbout(c) /\ Shown[k] = lines[k]
      BY <2>1 DEF Shown, ReadRuns, Kept, RowsAbout
    <3>2. k \in RowsFor(c, {"spawn"})
      BY <1>6, <2>1, <3>1 DEF Intro, RowsFor
    <3> QED
      BY <1>3, <3>2
  <2> QED
    BY <2>1
<1>11. /\ Intro(Shown[j]) /\ Shown[j].sid = c /\ RootOf(Shown[j]) = Root
       /\ j \in Nat /\ \A i \in RowsAbout(c) : Shown[i].sid = c
  BY <1>0, <1>4, <1>7, <1>9, RowsAreNumbered DEF Intro, RootOf
<1>12. \A i \in RowsAbout(c) : i \in Tree(Shown, Root)
  <2>1. ASSUME NEW i \in RowsAbout(c) PROVE i \in Tree(Shown, Root)
    <3>1. i \in DOMAIN Shown /\ j \in DOMAIN Shown /\ j <= i /\ Shown[i].sid = c
      BY <1>2, <1>7, <1>9, <1>11
    <3>2. \A k \in DOMAIN Shown : j < k /\ k <= i /\ Intro(Shown[k]) => Shown[k].sid # c
      BY <1>10, <1>11
    <3> QED
      BY <1>11, <3>1, <3>2 DEF Tree
  <2> QED
    BY <2>1
<1>13. RowsAbout(c) \subseteq Of(Shown, Root, c)
  BY <1>11, <1>12 DEF Of
<1> QED
  BY <1>0, <1>1, <1>9, <1>13

(* The rows of a child whose run is over end with the finish row of that run. *)
LEMMA FinishSettles ==
  ASSUME RunsInv, NEW c \in DOMAIN Nodes, c \notin lossy, ~Running(c)
  PROVE  \E f \in RowsAbout(c) :
           /\ LastFinish(Shown, Of(Shown, Root, c)) = {f}
           /\ Shown[f].status = ended[c] /\ Shown[f].cost = worked[c]
           /\ c \notin short => Shown[f].turns = worked[c]
           /\ Shown[f].ts >= LastRunTs(Shown, Of(Shown, Root, c))
<1> DEFINE I == RowsAbout(c)
<1>0. /\ RunsTypeOK /\ EndIsWritten(c) /\ c \in Children /\ c \in files
      /\ Of(Shown, Root, c) = I /\ I \subseteq DOMAIN Shown /\ \A i \in I : Shown[i] = lines[i]
  BY AllRowsCount, NodesAreChildren DEF RunsInv
<1>1. PICK f \in RowsFor(c, {"finish"}) :
        /\ lines[f].status = ended[c] /\ lines[f].cost = worked[c]
        /\ c \notin short => lines[f].turns = worked[c]
        /\ \A i \in RowsFor(c, {"spawn", "progress", "finish"}) : i <= f /\ lines[i].ts <= lines[f].ts
  BY <1>0 DEF EndIsWritten
<1>2. /\ f \in I /\ Shown[f].event = "finish" /\ Shown[f].status = ended[c]
      /\ Shown[f].cost = worked[c] /\ (c \notin short => Shown[f].turns = worked[c])
  BY <1>0, <1>1 DEF RowsFor
<1>3. \A i \in I : Shown[i].event \in {"spawn", "progress", "finish"} =>
        i <= f /\ Shown[i].ts <= Shown[f].ts
  BY <1>0, <1>1, <1>2 DEF RowsFor
<1>4. now \in Nat /\ \A i \in I : Shown[i].ts \in 1..now /\ i \in Nat
  BY <1>0, TimesRead
<1> HIDE DEF I
<1>5. f \in LastFinish(Shown, I)
  BY <1>2, <1>3, <1>4 DEF LastFinish
<1>6. \A g \in LastFinish(Shown, I) : g = f
  <2>1. ASSUME NEW g \in LastFinish(Shown, I) PROVE g = f
    <3>1. /\ g \in I /\ Shown[g].event = "finish"
          /\ Shown[f].ts < Shown[g].ts \/ (Shown[f].ts = Shown[g].ts /\ f <= g)
      BY <1>2, <2>1 DEF LastFinish
    <3>2. g <= f /\ Shown[g].ts <= Shown[f].ts
      BY <1>3, <3>1
    <3>3. Shown[g].ts \in Nat /\ Shown[f].ts \in Nat /\ g \in Nat /\ f \in Nat
      BY <1>2, <1>4, <3>1
    <3> QED
      BY <3>1, <3>2, <3>3
  <2> QED
    BY <2>1
<1>7. Shown[f].ts >= LastRunTs(Shown, I)
  <2> DEFINE runs == {i \in I : Shown[i].event \in {"spawn", "progress"}}
             S == Ts(Shown, runs)
  <2>1. S \in SUBSET (0..now) /\ \A t \in S : t <= Shown[f].ts
    BY <1>3, <1>4 DEF Ts
  <2>2. Latest(S) \in S \/ Latest(S) = 0
    BY <1>4, <2>1, LatestIsIn
  <2>3. Latest(S) <= Shown[f].ts
    BY <1>2, <1>4, <2>1, <2>2
  <2>4. LastRunTs(Shown, I) = Latest(S)
    BY DEF LastRunTs
  <2>5. Latest(S) \in Nat /\ Shown[f].ts \in Nat
    BY <1>2, <1>4, <2>1, LatestIsIn
  <2> HIDE DEF S
  <2> QED
    BY <2>3, <2>4, <2>5
<1>8. LastFinish(Shown, I) = {f}
  BY <1>5, <1>6
<1> QED
  BY <1>0, <1>2, <1>7, <1>8 DEF I

LEMMA SettledNode ==
  ASSUME RunsInv, NEW c \in DOMAIN Nodes, c \notin lossy, ~Running(c)
  PROVE  Nodes[c].status = ended[c]
<1> DEFINE I == Of(Shown, Root, c)
<1>1. PICK f \in RowsAbout(c) :
        /\ LastFinish(Shown, I) = {f} /\ Shown[f].status = ended[c] /\ Shown[f].ts >= LastRunTs(Shown, I)
  BY FinishSettles
<1>2. Nodes[c] = ChildNode(Shown, Root, c, now)
  BY NodesAreChildren DEF RunsInv
<1>3. Nodes[c].status = ChildStatus(Shown, I, now)
  BY <1>2 DEF ChildNode
<1> HIDE DEF I
<1>4. {g \in LastFinish(Shown, I) : Shown[g].ts >= LastRunTs(Shown, I)} = {f}
  BY <1>1
<1>5. ChildStatus(Shown, I, now) = Shown[f].status
  BY <1>4 DEF ChildStatus
<1> QED
  BY <1>1, <1>3, <1>5

-----------------------------------------------------------------------------
(* The theorems *)

(* Types: the file holds rows of the kinds the code writes, the records their fields. *)
THEOREM RunsTypeCorrect == Spec => []RunsTypeOK
<1>1. RunsInv => RunsTypeOK
  BY DEF RunsInv
<1> QED
  BY <1>1, RunsInvariant, PTL

(* A child that is shown and whose run is over is shown as it ended, whatever rows follow
   and whatever rows were lost before, its own or swallowed by the torn line of another
   (dashboard-api.ts, childTiming; agent-runs.ts, appendEvent), in files of any length. *)
THEOREM EndIsAlwaysShown == Spec => []EndIsShown
<1>1. RunsInv => EndIsShown
  BY SettledNode DEF EndIsShown
<1> QED
  BY <1>1, RunsInvariant, PTL

(* A run whose row of less than a window ago is in the file is shown running, whatever else
   was lost (dashboard-api.ts, childTiming), for every window and throttle. *)
THEOREM RunIsAlwaysShown == Spec => []RunIsShown
<1>1. ASSUME RunsInv, NEW c \in DOMAIN Nodes, WroteLately(c)
      PROVE  Nodes[c].status = "running"
  <2> DEFINE I == RowsAbout(c)
  <2>0. /\ RunsTypeOK /\ c \in Children /\ Nodes[c] = ChildNode(Shown, Root, c, now)
        /\ Of(Shown, Root, c) = I /\ I \subseteq DOMAIN Shown /\ \A i \in I : Shown[i] = lines[i]
        /\ I \subseteq DOMAIN lines
    BY <1>1, NodesAreChildren, AllRowsCount DEF RunsInv, RowsAbout
  <2>1. PICK i \in I : /\ lines[i].event \in {"spawn", "progress"} /\ now < lines[i].ts + ActiveWindow
                       /\ \A f \in Finishes(lines, c) : lines[f].ts < lines[i].ts
    BY <1>1 DEF WroteLately, RowsAbout
  <2>2. \A f \in I : lines[f].event = "finish" => f \in Finishes(lines, c)
    BY DEF Finishes, RowsAbout
  <2>3. now \in Nat /\ ActiveWindow \in Nat /\ \A k \in I : Shown[k].ts \in 1..now
    BY <2>0, TimesRead, RunsAssumption
  <2> HIDE DEF I
  <2>4. Shown[i].ts <= LastRunTs(Shown, I) /\ LastRunTs(Shown, I) \in Nat
    <3> DEFINE S == Ts(Shown, {k \in I : Shown[k].event \in {"spawn", "progress"}})
    <3>1. S \in SUBSET (0..now) /\ Shown[i].ts \in S
      BY <2>0, <2>1, <2>3 DEF Ts
    <3>2. Latest(S) \in 0..now /\ Shown[i].ts <= Latest(S)
      BY <2>3, <3>1, LatestIsIn
    <3>3. LastRunTs(Shown, I) = Latest(S)
      BY DEF LastRunTs
    <3> HIDE DEF S
    <3> QED
      BY <2>3, <3>2, <3>3
  <2>5. Shown[i].ts <= LastEventTs(Shown, I) /\ LastEventTs(Shown, I) \in Nat
    <3>1. Ts(Shown, I) \in SUBSET (0..now) /\ Shown[i].ts \in Ts(Shown, I)
      BY <2>3 DEF Ts
    <3>2. Latest(Ts(Shown, I)) \in 0..now /\ Shown[i].ts <= Latest(Ts(Shown, I))
      BY <2>3, <3>1, LatestIsIn
    <3> QED
      BY <2>3, <3>2 DEF LastEventTs
  <2>6. {f \in LastFinish(Shown, I) : Shown[f].ts >= LastRunTs(Shown, I)} = {}
    <3>1. ASSUME NEW f \in LastFinish(Shown, I) PROVE ~(Shown[f].ts >= LastRunTs(Shown, I))
      <4>1. f \in I /\ Shown[f].event = "finish"
        BY <3>1 DEF LastFinish
      <4>2. Shown[f].ts < Shown[i].ts
        BY <2>0, <2>1, <2>2, <4>1
      <4>3. Shown[f].ts \in Nat /\ Shown[i].ts \in Nat
        BY <2>3, <4>1
      <4> QED
        BY <2>4, <4>2, <4>3
    <3> QED
      BY <3>1
  <2>7. ~(now >= LastEventTs(Shown, I) + ActiveWindow)
    <3>1. now < Shown[i].ts + ActiveWindow /\ Shown[i].ts \in Nat
      BY <2>0, <2>1, <2>3
    <3> QED
      BY <2>3, <2>5, <3>1
  <2>8. ChildStatus(Shown, I, now) = "running"
    BY <2>6, <2>7 DEF ChildStatus
  <2> QED
    BY <2>0, <2>8 DEF ChildNode
<1>2. RunsInv => RunIsShown
  BY <1>1 DEF RunIsShown
<1> QED
  BY <1>2, RunsInvariant, PTL

(* A tree with a child that is shown running is shown running, even for a child whose rows
   were lost and for whatever mtime its transcript has (dashboard-api.ts,
   treeLastActivity). *)
THEOREM TreeAlwaysRunsWithChild == Spec => []TreeRunsWithChild
<1>1. ASSUME RunsTypeOK, NEW c \in DOMAIN Nodes, Nodes[c].status = "running", NEW mtime \in 1..now
      PROVE  RootRunning(Shown, Root, mtime, now)
  <2> DEFINE I == Of(Shown, Root, c)
             T == Tree(Shown, Root)
  <2>0. /\ c \in Children /\ Nodes[c] = ChildNode(Shown, Root, c, now)
        /\ I \subseteq RowsAbout(c) /\ I \subseteq DOMAIN Shown
    BY <1>1, NodesAreChildren
  <2>1. I \subseteq T /\ T \subseteq DOMAIN Shown
    BY DEF Of, Tree
  <2>2. /\ now \in Nat /\ ActiveWindow \in Nat /\ mtime \in Nat
        /\ Ts(Shown, I) \in SUBSET (0..now) /\ Ts(Shown, T) \in SUBSET (0..now)
    BY <1>1, <2>1, TimesRead, RunsAssumption
  <2>3. Ts(Shown, I) \subseteq Ts(Shown, T)
    BY <2>1 DEF Ts
  <2>4. \A f \in LastFinish(Shown, I) : Shown[f].status # "running"
    <3>1. ASSUME NEW f \in LastFinish(Shown, I) PROVE Shown[f].status # "running"
      <4>1. f \in I /\ Shown[f].event = "finish"
        BY <3>1 DEF LastFinish
      <4>2. Shown[f] = lines[f] /\ lines[f] \in Rows
        BY <1>1, <2>0, <4>1, TimesRead, RowsAreNumbered
      <4>3. \A row \in Rows : row.event = "finish" => row.status # "running"
        BY DEF Rows
      <4> QED
        BY <4>1, <4>2, <4>3
    <3> QED
      BY <3>1
  <2> HIDE DEF I, T
  <2>5. ChildStatus(Shown, I, now) = "running"
    BY <1>1, <2>0 DEF ChildNode, I
  <2>6. now < LastEventTs(Shown, I) + ActiveWindow
    <3> DEFINE settled == {f \in LastFinish(Shown, I) : Shown[f].ts >= LastRunTs(Shown, I)}
    <3>1. settled = {}
      <4>1. ASSUME settled # {} PROVE FALSE
        <5>1. (CHOOSE f \in settled : TRUE) \in LastFinish(Shown, I)
          BY <4>1
        <5>2. ChildStatus(Shown, I, now) = Shown[CHOOSE f \in settled : TRUE].status
          BY <4>1 DEF ChildStatus
        <5> QED
          BY <2>4, <2>5, <5>1, <5>2
      <4> QED
        BY <4>1
    <3>2. ~(now >= LastEventTs(Shown, I) + ActiveWindow)
      BY <2>5, <3>1 DEF ChildStatus
    <3>3. LastEventTs(Shown, I) \in Nat
      BY <2>2, LatestIsIn DEF LastEventTs
    <3> QED
      BY <2>2, <3>2, <3>3
  <2>7. LastEventTs(Shown, I) <= LastEventTs(Shown, T) /\ LastEventTs(Shown, T) \in 0..now
        /\ LastEventTs(Shown, I) \in Nat
    <3>1. /\ Latest(Ts(Shown, I)) \in Ts(Shown, I) \/ Latest(Ts(Shown, I)) = 0
          /\ Latest(Ts(Shown, I)) \in 0..now /\ Latest(Ts(Shown, T)) \in 0..now
          /\ \A x \in Ts(Shown, T) : x <= Latest(Ts(Shown, T))
      BY <2>2, LatestIsIn
    <3> QED
      BY <2>2, <2>3, <3>1 DEF LastEventTs
  <2>8. /\ TreeLastActivity(Shown, Root, mtime) \in Nat
        /\ LastEventTs(Shown, T) <= TreeLastActivity(Shown, Root, mtime)
    <3> DEFINE S == {mtime, LastEventTs(Shown, T)}
    <3>1. S \in SUBSET (0..now) /\ S # {}
      BY <1>1, <2>2, <2>7
    <3>2. Max(S) \in S /\ \A x \in S : x <= Max(S)
      BY <2>2, <3>1, MaxUpTo
    <3>3. TreeLastActivity(Shown, Root, mtime) = Max(S)
      BY DEF TreeLastActivity, T
    <3>4. Max(S) \in Nat /\ LastEventTs(Shown, T) <= Max(S)
      BY <3>1, <3>2
    <3> HIDE DEF S
    <3> QED
      BY <3>3, <3>4
  <2>9. now < TreeLastActivity(Shown, Root, mtime) + ActiveWindow
    BY <2>2, <2>6, <2>7, <2>8
  <2> QED
    BY <2>9 DEF RootRunning
<1>2. RunsInv => TreeRunsWithChild
  BY <1>1 DEF RunsInv, TreeRunsWithChild
<1> QED
  BY <1>2, RunsInvariant, PTL

(* A child whose run is done shows the turns it has done, through failed attempts, retries,
   resumes and reopenings from its rows (child-session.ts, trackChildActivity), unless it
   was reopened without the finish row of its last run. *)
THEOREM TurnsAreAlwaysTrue == Spec => []TurnsAreTrue
<1>1. ASSUME RunsInv, NEW c \in DOMAIN Nodes, c \notin lossy, c \notin short, ~Running(c),
             Nodes[c].status = "done"
      PROVE  Nodes[c].turns = worked[c]
  <2> DEFINE I == RowsAbout(c)
             S == {Shown[i].turn : i \in {j \in I : Shown[j].event = "progress"}}
                    \cup {Shown[f].turns : f \in LastFinish(Shown, I)}
  <2>0. /\ RunsTypeOK /\ c \in Children /\ Nodes[c] = ChildNode(Shown, Root, c, now)
        /\ Of(Shown, Root, c) = I /\ \A i \in I : Shown[i] = lines[i]
        /\ TurnsAreCounted(c) /\ worked[c] \in Nat
    BY <1>1, NodesAreChildren, AllRowsCount DEF RunsInv, RunsTypeOK
  <2>1. PICK f \in I : LastFinish(Shown, I) = {f} /\ Shown[f].turns = worked[c]
    BY <1>1, <2>0, FinishSettles
  <2>2. ended[c] = "done"
    BY <1>1, SettledNode
  <2>3. \A i \in I : Shown[i].event = "progress" => Shown[i].turn \in Nat /\ Shown[i].turn <= worked[c]
    <3>1. ASSUME NEW i \in I, Shown[i].event = "progress"
          PROVE  Shown[i].turn \in Nat /\ Shown[i].turn <= worked[c]
      <4>1. i \in RowsFor(c, {"progress"}) /\ Shown[i] = lines[i] /\ lines[i] \in Rows
        BY <2>0, <3>1, RowsAreNumbered DEF RowsFor
      <4>2. \A row \in Rows : row.event = "progress" => row.turn \in Nat
        BY DEF Rows
      <4>3. lines[i].turn <= worked[c]
        BY <1>1, <2>0, <2>2, <4>1 DEF TurnsAreCounted
      <4> QED
        BY <3>1, <4>1, <4>2, <4>3
    <3> QED
      BY <3>1
  <2> HIDE DEF I
  <2>4. S \in SUBSET (0..worked[c]) /\ worked[c] \in S
    BY <2>0, <2>1, <2>3
  <2>5. Latest(S) = worked[c]
    <3>1. Latest(S) \in 0..worked[c] /\ worked[c] <= Latest(S)
      BY <2>0, <2>4, LatestIsIn
    <3> HIDE DEF S
    <3> QED
      BY <2>0, <3>1
  <2>6. Nodes[c].turns = ChildTurns(Shown, I)
    BY <2>0 DEF ChildNode
  <2>7. ChildTurns(Shown, I) = Latest(S)
    BY DEF ChildTurns
  <2> QED
    BY <2>5, <2>6, <2>7
<1>2. RunsInv => TurnsAreTrue
  BY <1>1 DEF TurnsAreTrue
<1> QED
  BY <1>2, RunsInvariant, PTL

(* The turns done are added up once each: no child's cost is shown twice, and when all runs
   are over and each child's last finish row is in the file none is missing (agent-runs.ts:
   finish rows are cumulative). *)
THEOREM CostIsAlwaysTrue == Spec => []CostIsTrue
<1>1. ASSUME RunsInv PROVE CostIsTrue
  <2> DEFINE I == UNION {LastFinish(Shown, Of(Shown, Root, sid)) : sid \in SidsIn(Shown, Root) \ {Root}}
             cost == [i \in I |-> Shown[i].cost]
             h == [i \in I |-> Shown[i].sid]
             Whole == AllTold
  <2>0. RunsTypeOK /\ worked \in [Children -> Nat] /\ IsFiniteSet(Children)
    BY <1>1, RunsAssumption DEF RunsInv, RunsTypeOK
  <2>1. ASSUME NEW i \in I
        PROVE  /\ Shown[i].sid \in Children /\ i \in RowsFor(Shown[i].sid, {"finish"})
               /\ Shown[i] = lines[i] /\ i \in LastFinish(Shown, Of(Shown, Root, Shown[i].sid))
    <3>1. PICK sid \in SidsIn(Shown, Root) \ {Root} : i \in LastFinish(Shown, Of(Shown, Root, sid))
      OBVIOUS
    <3> HIDE DEF I
    <3>2. i \in Of(Shown, Root, sid) /\ Shown[i].event = "finish"
      BY <3>1 DEF LastFinish
    <3>3. i \in RowsAbout(sid) /\ Shown[i] = lines[i] /\ lines[i].sid \in files
      BY <3>2, RowsCounted
    <3>4. Shown[i].sid = sid
      BY <3>3 DEF RowsAbout
    <3>5. sid \in Children
      BY <2>0, <3>1, <3>3, <3>4 DEF RunsTypeOK
    <3> QED
      BY <3>1, <3>2, <3>3, <3>4, <3>5 DEF RowsFor
  <2>2. ASSUME NEW i \in I PROVE /\ Shown[i].cost \in Nat /\ Shown[i].cost <= worked[Shown[i].sid]
    <3>1. lines[i] \in Rows /\ lines[i].event = "finish"
      BY <2>0, <2>1, RowsAreNumbered DEF RowsFor
    <3>2. lines[i].cost \in Nat
      BY <3>1 DEF Rows
    <3>3. CostsAreDone(Shown[i].sid)
      BY <1>1, <2>1 DEF RunsInv
    <3> HIDE DEF I
    <3> QED
      BY <2>1, <3>2, <3>3 DEF CostsAreDone
  <2>3. ASSUME NEW i \in I, NEW j \in I, h[i] = h[j] PROVE i = j
    <3>1. /\ Shown[i].sid = Shown[j].sid
          /\ i \in LastFinish(Shown, Of(Shown, Root, Shown[i].sid))
          /\ j \in LastFinish(Shown, Of(Shown, Root, Shown[i].sid))
      BY <2>1, <2>3
    <3>2. /\ Shown[j].ts < Shown[i].ts \/ (Shown[j].ts = Shown[i].ts /\ j <= i)
          /\ Shown[i].ts < Shown[j].ts \/ (Shown[i].ts = Shown[j].ts /\ i <= j)
      BY <3>1 DEF LastFinish
    <3>3. \A k \in {i, j} : k \in Nat /\ Shown[k].ts \in Nat
      BY <2>0, <2>1, <2>3, RowsAreNumbered DEF RowsFor
    <3> QED
      BY <3>2, <3>3
  <2>4. IsFiniteSet(I)
    <3>1. I \subseteq 1..Len(lines) /\ Len(lines) \in Nat
      BY <2>0, <2>1, RowsAreNumbered DEF RowsFor
    <3>2. IsFiniteSet(1..Len(lines))
      BY <3>1, FS_Interval
    <3> HIDE DEF I
    <3> QED
      BY <3>1, <3>2, FS_Subset
  <2>5. cost \in [I -> Nat] /\ h \in [I -> Children]
        /\ \A i \in I : cost[i] = Shown[i].cost /\ h[i] = Shown[i].sid
    BY <2>1, <2>2
  <2>6. TreeCost(Shown, Root, 0) = 0 + SumFunction(cost)
    BY DEF TreeCost
  <2>7. Whole => \A c \in Children :
          worked[c] = 0 \/ \E i \in I : h[i] = c /\ cost[i] = worked[c]
    <3>1. ASSUME Whole, NEW c \in Children, worked[c] # 0
          PROVE  \E i \in I : h[i] = c /\ cost[i] = worked[c]
      <4>0. c \in DOMAIN Nodes /\ c \notin lossy /\ ~Running(c)
        <5>1. worked[c] \in Nat
          BY <2>0
        <5> QED
          BY <3>1, <5>1 DEF AllTold
      <4>1. PICK f \in RowsAbout(c) :
              LastFinish(Shown, Of(Shown, Root, c)) = {f} /\ Shown[f].cost = worked[c]
        BY <1>1, <4>0, FinishSettles
      <4>2. /\ f \in Of(Shown, Root, c) /\ Shown[f].sid = c
        BY <4>1 DEF LastFinish, Of
      <4>3. c \in SidsIn(Shown, Root) \ {Root}
        BY <4>2, RunsAssumption DEF SidsIn, Of
      <4>4. f \in I
        BY <4>1, <4>3
      <4> QED
        BY <2>5, <4>1, <4>2, <4>4
    <3> QED
      BY <3>1
  <2> HIDE DEF I, cost, h, Whole
  <2>8. PICK g : Adds(g, I, cost)
    BY <2>4, <2>5, SumExists
  <2>9. PICK w : Adds(w, Children, worked)
    BY <2>0, SumExists
  <2>10. SumFunction(cost) = g[I] /\ SumFunction(worked) = w[Children]
    BY <2>0, <2>4, <2>5, <2>8, <2>9, SumIsAdded DEF SumFunction
  <2>11. \A i \in I : cost[i] <= worked[h[i]]
    BY <2>2, <2>5
  <2>12. Whole => (\A i \in I : cost[i] = worked[h[i]])
                 /\ (\A c \in Children : c \in {h[i] : i \in I} \/ worked[c] = 0)
    <3>1. ASSUME Whole, NEW i \in I PROVE cost[i] = worked[h[i]]
      <4>1. CASE worked[h[i]] = 0
        <5>1. cost[i] \in Nat /\ cost[i] <= 0
          BY <2>5, <2>11, <4>1
        <5> QED
          BY <4>1, <5>1
      <4>2. CASE worked[h[i]] # 0
        <5>1. PICK j \in I : h[j] = h[i] /\ cost[j] = worked[h[i]]
          BY <2>5, <2>7, <3>1, <4>2
        <5> QED
          BY <2>3, <5>1
      <4> QED
        BY <4>1, <4>2
    <3> QED
      BY <2>7, <3>1
  <2>13. /\ g[I] <= w[Children] /\ (Whole => g[I] = w[Children])
    BY <2>0, <2>3, <2>5, <2>8, <2>9, <2>11, <2>12, SumsCompare
  <2>14. g[I] \in Nat
    BY <2>8 DEF Adds
  <2>15. TreeCost(Shown, Root, 0) = g[I]
    BY <2>6, <2>10, <2>14
  <2> QED
    BY <2>10, <2>13, <2>15 DEF CostIsTrue, Whole
<1> QED
  BY <1>1, RunsInvariant, PTL
===============================================================================
