--------------------------- MODULE ContextCapProofs ---------------------------
(***************************************************************************)
(* Theorems about ContextCap for every number of commands, reminders and   *)
(* handoff files.                                                          *)
(***************************************************************************)
EXTENDS ContextCap, TLAPS

USE DEF Phases, Origins, Endings, Points, Authors, Texts, Levels, Stops, FailedStop,
        CrossedSoft, States

-----------------------------------------------------------------------------
LEMMA InitInv == Init => IInv
<1> USE MaxRetriesAssumption, CommandsAssumption, FilesAssumption
<1> SUFFICES ASSUME Init PROVE IInv
  OBVIOUS
<1>1. TypeOK
  <2> USE DEF MaxRetriesAssumption, CommandsAssumption, FilesAssumption
  <2>1. cycle \in CycleType
    BY DEF Init, CycleType, IdleCycle
  <2>2. seen \in SeenType
    BY DEF Init, SeenType, Unseen
  <2>3. disk \in DiskType
    BY DEF Init, DiskType
  <2>4. cmd \in CmdType
    BY DEF Init, CmdType
  <2> QED
    BY <2>1, <2>2, <2>3, <2>4 DEF Init, TypeOK
<1>2. CycleInv
  BY DEF Init, CycleInv, Armed, OwnFile, Asked, ToolNeedsDemand, Counted,
         ExhaustedMeansIgnored, IdleCycle, Unseen
<1>3. CommandInv
  BY DEF Init, CommandInv, WaiterMatchesEnding, NoStrandedCommand, SeedFromThisCycle, IdleCycle
<1>4. Rested /\ OneLiveDemand
  BY DEF Init, Rested, OneLiveDemand, Unseen
<1> QED
  BY <1>1, <1>2, <1>3, <1>4 DEF IInv

(* What a waiting command is told: that it failed, or a document. *)
Answers == {Failed} \cup {SeedWith(txt) : txt \in Authors}

(* A waiter is told something else than to wait, and nobody else is touched. *)
LEMMA SettleInv ==
  ASSUME TypeOK, NoStrandedCommand, SeedFromThisCycle,
         NEW result \in Answers,
         SettleManual(result)
  PROVE  /\ waiter' = NoCommand
         /\ cmd' \in CmdType
         /\ NoStrandedCommand'
         /\ SeedFromThisCycle'
<1> USE CommandsAssumption
<1>1. waiter' = NoCommand
  BY DEF SettleManual
<1>2. cmd' \in CmdType
  BY DEF SettleManual, TypeOK, CmdType, Answers, Failed, SeedWith
<1>3. ASSUME NEW c \in Commands
      PROVE  cmd'[c] = IF c = waiter THEN result ELSE cmd[c]
  BY DEF SettleManual, TypeOK, CmdType
<1>4. /\ result.at \in {"failed", "seeding"}
      /\ result.at = "seeding" => result.seed \in Authors
  BY DEF Answers, Failed, SeedWith
<1>5. NoStrandedCommand'
  BY <1>1, <1>3, <1>4 DEF NoStrandedCommand, TypeOK
<1>6. SeedFromThisCycle'
  BY <1>3, <1>4 DEF SeedFromThisCycle
<1> QED
  BY <1>1, <1>2, <1>5, <1>6

(* Back to idle with the waiter told restores every part of the invariant that
   does not look at the loop. *)
LEMMA ResetInv ==
  ASSUME IInv,
         NEW result \in Answers,
         ResetCycle(result)
  PROVE  /\ cycle' = IdleCycle /\ cycle' \in CycleType /\ waiter' = NoCommand
         /\ seen' = Unseen /\ seen' \in SeenType /\ cmd' \in CmdType
         /\ CycleInv' /\ CommandInv' /\ OneLiveDemand' /\ (pc' # "draft" => Rested')
<1>1. cycle' = IdleCycle /\ seen' = Unseen /\ SettleManual(result)
  BY DEF ResetCycle
<1>2. /\ waiter' = NoCommand
      /\ cmd' \in CmdType
      /\ NoStrandedCommand' /\ SeedFromThisCycle'
  BY <1>1, SettleInv DEF IInv, CommandInv
<1>3. CycleInv'
  BY <1>1 DEF CycleInv, Armed, OwnFile, Asked, ToolNeedsDemand, Counted, ExhaustedMeansIgnored,
              IdleCycle, Unseen
<1>4. WaiterMatchesEnding'
  BY <1>1, <1>2 DEF WaiterMatchesEnding, IdleCycle
<1>5. OneLiveDemand' /\ (pc' # "draft" => Rested')
  BY <1>1 DEF Rested, OneLiveDemand, Unseen
<1>6. cycle' \in CycleType
  BY <1>1, MaxRetriesAssumption, FilesAssumption
     DEF IdleCycle, CycleType, MaxRetriesAssumption, FilesAssumption
<1>7. seen' \in SeenType
  BY <1>1, MaxRetriesAssumption, FilesAssumption
     DEF Unseen, SeenType, MaxRetriesAssumption, FilesAssumption
<1> QED
  BY <1>1, <1>2, <1>3, <1>4, <1>5, <1>6, <1>7 DEF CommandInv

-----------------------------------------------------------------------------
(* The parts of the invariant a step cannot disturb that leaves their variables. *)
LEMMA CommandInvStutters ==
  ASSUME CommandInv, UNCHANGED <<waiter, cmd>>, cycle'.ending = cycle.ending
  PROVE  CommandInv'
BY DEF CommandInv, WaiterMatchesEnding, NoStrandedCommand, SeedFromThisCycle

(* A started cycle: a file of its own, nothing recorded, no reminders. *)
LEMMA StartCycleFacts ==
  ASSUME NEW c \in CycleType, disk \in DiskType
  PROVE  /\ StartCycle(c) \in CycleType
         /\ StartCycle(c).path = disk.seq + 1 /\ StartCycle(c).retries = 0
         /\ StartCycle(c).doc = "none" /\ StartCycle(c).phase = c.phase
         /\ StartCycle(c).ending = c.ending /\ StartCycle(c).staged = c.staged
<1>1. disk.seq + 1 \in 0..(MaxFiles + 1)
  BY FilesAssumption DEF DiskType, FilesAssumption
<1>2. 0 \in 0..MaxRetries
  BY MaxRetriesAssumption DEF MaxRetriesAssumption
<1>3. StartCycle(c) = [c EXCEPT !.path = disk.seq + 1, !.retries = 0, !.doc = "none"]
  BY DEF StartCycle, NextSeq
<1> QED
  BY <1>1, <1>2, <1>3 DEF CycleType

LEMMA OpenCycleFacts ==
  ASSUME NEW c \in CycleType, NEW origin \in Origins, disk \in DiskType
  PROVE  /\ OpenCycle(c, origin) \in CycleType
         /\ OpenCycle(c, origin).phase = "pending" /\ OpenCycle(c, origin).path = disk.seq + 1
         /\ OpenCycle(c, origin).doc = "none" /\ OpenCycle(c, origin).retries = 0
         /\ OpenCycle(c, origin).ending = c.ending
<1>1. OpenCycle(c, origin) =
        [StartCycle(c) EXCEPT !.origin = origin, !.phase = "pending", !.demandAt = "turn_end"]
  BY DEF OpenCycle
<1>2. ASSUME NEW d \in CycleType
      PROVE  LET o == [d EXCEPT !.origin = origin, !.phase = "pending", !.demandAt = "turn_end"]
             IN  /\ o \in CycleType /\ o.phase = "pending" /\ o.path = d.path
                 /\ o.doc = d.doc /\ o.retries = d.retries /\ o.ending = d.ending
  <2> DEFINE o1 == [d EXCEPT !.origin = origin]
             o2 == [o1 EXCEPT !.phase = "pending"]
  <2>1. /\ o1 \in CycleType /\ o1.path = d.path
        /\ o1.doc = d.doc /\ o1.retries = d.retries /\ o1.ending = d.ending
    BY DEF CycleType
  <2>2. /\ o2 \in CycleType /\ o2.phase = "pending" /\ o2.path = d.path
        /\ o2.doc = d.doc /\ o2.retries = d.retries /\ o2.ending = d.ending
    <3> HIDE DEF o1
    <3> QED
      BY <2>1 DEF CycleType
  <2> HIDE DEF o2
  <2>3. LET o == [o2 EXCEPT !.demandAt = "turn_end"]
        IN  /\ o \in CycleType /\ o.phase = "pending" /\ o.path = d.path
            /\ o.doc = d.doc /\ o.retries = d.retries /\ o.ending = d.ending
    BY <2>2 DEF CycleType
  <2> QED
    BY <2>3 DEF o2
<1>3. /\ StartCycle(c) \in CycleType
      /\ StartCycle(c).path = disk.seq + 1 /\ StartCycle(c).retries = 0
      /\ StartCycle(c).doc = "none" /\ StartCycle(c).ending = c.ending
  BY StartCycleFacts
<1> HIDE DEF StartCycle
<1> QED
  BY <1>1, <1>2, <1>3

(* A step that keeps the fields the invariant reads. *)
LEMMA SameFields ==
  ASSUME IInv, UNCHANGED <<disk, seen, waiter, cmd>>, cycle'.ending = cycle.ending,
         cycle'.phase = cycle.phase, cycle'.path = cycle.path, cycle'.doc = cycle.doc,
         cycle'.retries = cycle.retries, cycle'.staged = cycle.staged
  PROVE  /\ waiter' \in Commands \cup {NoCommand} /\ cmd' \in CmdType /\ seen' \in SeenType
         /\ CycleInv' /\ CommandInv' /\ OneLiveDemand'
<1>1. CycleInv'
  BY DEF IInv, CycleInv, Armed, OwnFile, Asked, ToolNeedsDemand, Counted, ExhaustedMeansIgnored
<1> QED
  BY <1>1, CommandInvStutters DEF IInv, TypeOK, OneLiveDemand

LEMMA MessageEndInv ==
  ASSUME IInv, NEW s \in Stops, NEW level \in Levels, MessageEnd(s, level)
  PROVE  IInv'
<1> USE MaxRetriesAssumption, FilesAssumption DEF MaxRetriesAssumption, FilesAssumption
<1>0. /\ TypeOK /\ CycleInv /\ CommandInv
      /\ pc = "llm" /\ stop' = s /\ marker' = "none"
      /\ UNCHANGED <<parked, disk, aborted, queued>>
  BY DEF IInv, MessageEnd, NoMarker
<1>1. SUFFICES /\ cycle' \in CycleType /\ waiter' \in Commands \cup {NoCommand}
               /\ cmd' \in CmdType /\ seen' \in SeenType
               /\ pc' \in {"draft", "tools", "turn_end"}
               /\ CycleInv' /\ CommandInv' /\ OneLiveDemand' /\ (pc' = "draft" => cycle'.path # 0)
  BY <1>0 DEF IInv, TypeOK, Rested
<1>2. CASE MessageNoted(s, level)
  <2>1. /\ cycle' \in CycleType /\ cycle'.ending = cycle.ending /\ cycle'.phase = cycle.phase
        /\ cycle'.path = cycle.path /\ cycle'.doc = cycle.doc /\ cycle'.retries = cycle.retries
        /\ cycle'.staged = cycle.staged
    BY <1>0, <1>2 DEF MessageNoted, Arrived, TypeOK, CycleType
  <2>2. pc' \in {"tools", "turn_end"} /\ UNCHANGED <<waiter, cmd, seen>>
    BY <1>2 DEF MessageNoted, AfterMessage
  <2> QED
    BY <1>0, <2>1, <2>2, SameFields
<1>3. CASE MessageResetsShrunk(s, level)
  <2>1. Failed \in Answers /\ (Failed.at = "failed")
    BY DEF Answers, Failed
  <2>2. pc' \in {"tools", "turn_end"} /\ ResetCycle(Failed)
    BY <1>3 DEF MessageResetsShrunk, AfterMessage
  <2> QED
    BY <2>1, <2>2, ResetInv
<1>4. CASE MessageOpensCycle(s, level)
  <2>1. PICK origin \in Origins : cycle' = OpenCycle(Arrived, origin)
    BY <1>4 DEF MessageOpensCycle
  <2>2. Arrived \in CycleType /\ Arrived.ending = cycle.ending
    BY <1>0 DEF Arrived, TypeOK, CycleType
  <2>3. /\ cycle' \in CycleType /\ cycle'.phase = "pending" /\ cycle'.path = disk.seq + 1
        /\ cycle'.doc = "none" /\ cycle'.retries = 0 /\ cycle'.ending = cycle.ending
    BY <1>0, <2>1, <2>2, OpenCycleFacts DEF TypeOK
  <2>4. cycle.phase = "idle"
    BY <1>4 DEF MessageOpensCycle, DecideMessageEnd, DecideHardCrossing, DecideSoftCrossing,
                DemandOnCrossing
  <2>5. pc' \in {"tools", "turn_end"} /\ UNCHANGED <<waiter, cmd, seen>>
    BY <1>4 DEF MessageOpensCycle, AfterMessage
  <2>6. CycleInv'
    BY <1>0, <2>3, <2>4, <2>5 DEF CycleInv, Armed, OwnFile, Asked, ToolNeedsDemand, Counted,
                                  ExhaustedMeansIgnored, TypeOK, DiskType
  <2> QED
    BY <1>0, <2>3, <2>5, <2>6, CommandInvStutters DEF IInv, TypeOK, OneLiveDemand
<1>5. CASE MessageAdvancesDemand(s, level)
  <2>1. /\ cycle' \in CycleType /\ cycle'.ending = cycle.ending /\ cycle'.phase = cycle.phase
        /\ cycle'.path = cycle.path /\ cycle'.doc = cycle.doc /\ cycle'.retries = cycle.retries
        /\ cycle'.staged = cycle.staged
    BY <1>0, <1>5 DEF MessageAdvancesDemand, Arrived, TypeOK, CycleType
  <2>2. pc' \in {"tools", "turn_end"} /\ UNCHANGED <<waiter, cmd, seen>>
    BY <1>5 DEF MessageAdvancesDemand, AfterMessage
  <2> QED
    BY <1>0, <2>1, <2>2, SameFields
<1>6. CASE MessageGraced(s, level)
  <2>1. /\ cycle' \in CycleType /\ cycle'.ending = cycle.ending /\ cycle'.phase = cycle.phase
        /\ cycle'.path = cycle.path /\ cycle'.doc = cycle.doc /\ cycle'.retries = cycle.retries
        /\ cycle'.staged = cycle.staged
    BY <1>0, <1>6 DEF MessageGraced, Arrived, TypeOK, CycleType
  <2>2. pc' \in {"tools", "turn_end"} /\ UNCHANGED <<waiter, cmd, seen>>
    BY <1>6 DEF MessageGraced, AfterMessage
  <2> QED
    BY <1>0, <2>1, <2>2, SameFields
<1>7. CASE MessageHitsHardCap(s, level)
  <2> DEFINE armed == ArmHardCycle(Arrived)
  <2>1. Arrived \in CycleType /\ Arrived = [cycle EXCEPT !.stagedBy = "earlier"]
    BY <1>0 DEF Arrived, TypeOK, CycleType
  <2>2. /\ armed \in CycleType /\ armed.ending = cycle.ending /\ armed.phase = cycle.phase
        /\ IF cycle.path # 0
           THEN armed.path = cycle.path /\ armed.doc = cycle.doc /\ armed.retries = cycle.retries
           ELSE armed.path = disk.seq + 1 /\ armed.doc = "none" /\ armed.retries = 0
    BY <1>0, <2>1, StartCycleFacts DEF ArmHardCycle, TypeOK, CycleType
  <2>3. /\ cycle' = armed \/ (armed.doc # "none" /\ cycle' = Stage(armed, armed.doc))
        /\ pc' \in {"draft", "tools", "turn_end"} /\ UNCHANGED <<waiter, cmd, seen>>
    BY <1>7 DEF MessageHitsHardCap, AfterMessage
  <2>4. /\ cycle' \in CycleType /\ cycle'.ending = cycle.ending /\ cycle'.phase = cycle.phase
        /\ cycle'.path = armed.path /\ cycle'.doc = armed.doc /\ cycle'.retries = armed.retries
    BY <2>2, <2>3 DEF Stage, CycleType
  <2>5. CycleInv'
    BY <1>0, <2>2, <2>3, <2>4
       DEF CycleInv, Armed, OwnFile, Asked, ToolNeedsDemand, Counted, ExhaustedMeansIgnored,
           TypeOK, CycleType, DiskType
  <2> QED
    BY <1>0, <2>2, <2>3, <2>4, <2>5, CommandInvStutters DEF IInv, TypeOK, DiskType, OneLiveDemand
<1> QED
  BY <1>2, <1>3, <1>4, <1>5, <1>6, <1>7 DEF MessageEnd

(* Steps of pi's loop alone. *)
LEMMA LoopInv ==
  ASSUME IInv, UNCHANGED <<cycle, waiter, cmd, disk, seen>>,
         parked' \in SUBSET Commands, marker' \in Texts \cup {"none"},
         pc' \in {"idle", "compacting", "llm", "draft", "tools", "turn_end", "backoff",
                 "settling", "settled"},
         stop' \in Stops \cup {"none"}, aborted' \in BOOLEAN,
         queued' \in {"unused", "queued", "used"},
         pc' \in {"idle", "compacting"} => seen.live = 0,
         pc' = "draft" => pc = "draft"
  PROVE  IInv'
<1>1. TypeOK'
  BY DEF IInv, TypeOK
<1>2. CycleInv'
  BY DEF IInv, CycleInv, Armed, OwnFile, Asked, ToolNeedsDemand, Counted, ExhaustedMeansIgnored
<1>3. CommandInv' /\ Rested' /\ OneLiveDemand'
  BY CommandInvStutters DEF IInv, Rested, OneLiveDemand
<1> QED
  BY <1>1, <1>2, <1>3 DEF IInv

(* A write lands in the cycle's own file. *)
LEMMA WriteFacts ==
  ASSUME TypeOK, OwnFile, NEW author \in Authors, WriteHandoff(author)
  PROVE  /\ disk' \in DiskType /\ disk'.seq = cycle.path /\ cycle.path # 0
         /\ seen' \in SeenType /\ seen'.asked = seen.asked /\ seen'.live = seen.live
         /\ seen'.ignored = seen.ignored
<1>1. cycle.path # 0 /\ cycle.path \in 0..MaxFiles /\ cycle.path >= disk.seq
  BY FilesAssumption
     DEF WriteHandoff, CanWrite, TypeOK, CycleType, DiskType, OwnFile, FilesAssumption
<1>2. disk' = [seq |-> cycle.path, author |-> author]
  BY <1>1 DEF WriteHandoff
<1>3. seen' = [seen EXCEPT !.worked = FALSE]
  BY DEF WriteHandoff
<1> QED
  BY <1>1, <1>2, <1>3 DEF DiskType, SeenType, TypeOK

LEMMA DraftInv == IInv /\ Draft => IInv'
<1> SUFFICES ASSUME IInv, Draft PROVE IInv'
  OBVIOUS
<1>0. /\ TypeOK /\ CycleInv /\ CommandInv /\ cycle.path # 0 /\ AfterMessage(stop) \in {"tools", "turn_end"}
  BY DEF IInv, Rested, Draft, DraftWritten, DraftDeferred, DraftFellBack, AfterMessage
<1>1. CASE DraftWritten
  <2>1. /\ disk' \in DiskType /\ disk'.seq = cycle.path /\ cycle.path # 0
        /\ seen' \in SeenType /\ seen'.asked = seen.asked /\ seen'.live = seen.live
        /\ seen'.ignored = seen.ignored
    BY <1>0, <1>1, WriteFacts DEF DraftWritten, CycleInv
  <2>2. cycle' = [cycle EXCEPT !.doc = "machine", !.staged = "machine", !.stagedBy = "this"]
    BY <1>0, <1>1 DEF DraftWritten, Stage, TypeOK, CycleType
  <2>3. /\ cycle' \in CycleType /\ cycle'.ending = cycle.ending /\ cycle'.phase = cycle.phase
        /\ cycle'.path = cycle.path /\ cycle'.doc = "machine" /\ cycle'.retries = cycle.retries
    BY <1>0, <2>2 DEF TypeOK, CycleType
  <2>4. CycleInv'
    BY <1>0, <2>1, <2>3 DEF CycleInv, Armed, OwnFile, Asked, ToolNeedsDemand, Counted,
                            ExhaustedMeansIgnored
  <2>5. /\ pc' \in {"tools", "turn_end"}
        /\ UNCHANGED <<waiter, cmd, parked, marker, stop, aborted, queued>>
    BY <1>0, <1>1 DEF DraftWritten
  <2>6. CommandInv' /\ Rested' /\ OneLiveDemand'
    BY <1>0, <2>1, <2>3, <2>5, CommandInvStutters DEF IInv, Rested, OneLiveDemand
  <2>7. TypeOK'
    BY <1>0, <2>1, <2>3, <2>5 DEF TypeOK
  <2> QED
    BY <2>4, <2>6, <2>7 DEF IInv
<1>2. CASE DraftDeferred
  BY <1>0, <1>2, LoopInv DEF DraftDeferred, TypeOK
<1>3. CASE DraftFellBack
  <2>1. /\ pc' \in {"tools", "turn_end"}
        /\ UNCHANGED <<parked, disk, marker, stop, aborted, queued>>
    BY <1>0, <1>3 DEF DraftFellBack
  <2>2. CASE ResetCycle(Failed)
    <3>1. Failed \in Answers
      BY DEF Answers
    <3> QED
      BY <1>0, <2>1, <2>2, <3>1, ResetInv DEF IInv, TypeOK
  <2>3. ASSUME NEW txt \in {"nofile", "stale"}, cycle' = Stage(cycle, txt),
               UNCHANGED <<waiter, cmd, seen>>, ~ResetCycle(Failed)
        PROVE  IInv'
    <3>1. /\ cycle' \in CycleType /\ cycle'.ending = cycle.ending /\ cycle'.phase = cycle.phase
          /\ cycle'.path = cycle.path /\ cycle'.doc = cycle.doc /\ cycle'.retries = cycle.retries
          /\ cycle'.staged = txt
      BY <1>0, <2>3 DEF Stage, TypeOK, CycleType
    <3>2. CycleInv'
      BY <1>0, <2>1, <2>3, <3>1
         DEF CycleInv, Armed, OwnFile, Asked, ToolNeedsDemand, Counted, ExhaustedMeansIgnored
    <3> QED
      BY <1>0, <2>1, <2>3, <3>1, <3>2, CommandInvStutters DEF IInv, TypeOK, Rested, OneLiveDemand
  <2> QED
    BY <1>3, <2>2, <2>3 DEF DraftFellBack
<1> QED
  BY <1>1, <1>2, <1>3 DEF Draft

LEMMA ExecuteHandoffInv == IInv /\ ExecuteHandoff => IInv'
<1> SUFFICES ASSUME IInv, ExecuteHandoff PROVE IInv'
  OBVIOUS
<1>0. TypeOK /\ CycleInv /\ CommandInv
  BY DEF IInv
<1>1. /\ disk' \in DiskType /\ disk'.seq = cycle.path /\ cycle.path # 0
      /\ seen' \in SeenType /\ seen'.asked = seen.asked /\ seen'.live = seen.live
      /\ seen'.ignored = seen.ignored
  BY <1>0, WriteFacts DEF ExecuteHandoff, CycleInv
<1>2. /\ cycle' \in CycleType /\ cycle'.ending = cycle.ending /\ cycle'.phase = cycle.phase
      /\ cycle'.path = cycle.path /\ cycle'.doc = "agent" /\ cycle'.retries = cycle.retries
  BY <1>0 DEF ExecuteHandoff, TypeOK, CycleType
<1>3. /\ cycle.phase \in {"demanded", "exhausted"} /\ pc = "tools"
      /\ UNCHANGED <<waiter, cmd, parked, marker, pc, stop, aborted, queued>>
  BY DEF ExecuteHandoff, DemandCommitted
<1>4. CycleInv'
  BY <1>0, <1>1, <1>2, <1>3 DEF CycleInv, Armed, OwnFile, Asked, ToolNeedsDemand, Counted,
                                ExhaustedMeansIgnored
<1>5. TypeOK' /\ CommandInv' /\ Rested' /\ OneLiveDemand'
  BY <1>0, <1>1, <1>2, <1>3, CommandInvStutters DEF IInv, TypeOK, Rested, OneLiveDemand
<1> QED
  BY <1>4, <1>5 DEF IInv

(* A demand sent for a cycle that has none out. *)
LEMMA DemandFacts ==
  ASSUME TypeOK, NEW c \in CycleType, c.path # 0, c.retries = 0, seen.live = 0, UNCHANGED disk,
         c.path = IF c.doc = "none" THEN disk.seq + 1 ELSE disk.seq,
         Demand(c)
  PROVE  /\ cycle' \in CycleType /\ cycle'.path = c.path /\ cycle'.ending = c.ending
         /\ cycle'.phase = "demanded" /\ seen' \in SeenType /\ CycleInv' /\ OneLiveDemand'
<1>1. /\ cycle' \in CycleType /\ cycle'.path = c.path /\ cycle'.ending = c.ending
      /\ cycle'.doc = c.doc /\ cycle'.retries = 0 /\ cycle'.phase = "demanded"
  BY DEF Demand, CycleType
<1>2. /\ seen' \in SeenType /\ seen'.asked = c.path /\ seen'.ignored = 0 /\ seen'.live = 1
  <2>1. seen' = [asked |-> c.path, live |-> 1, ignored |-> 0, worked |-> seen.worked]
    BY DEF Demand
  <2>2. c.path \in 0..(MaxFiles + 1) /\ 0 \in 0..(MaxRetries + 1) /\ seen.worked \in BOOLEAN
    BY MaxRetriesAssumption DEF TypeOK, SeenType, CycleType, MaxRetriesAssumption
  <2> QED
    BY <2>1, <2>2 DEF SeenType
<1>3. CycleInv'
  BY <1>1, <1>2 DEF CycleInv, Armed, OwnFile, Asked, ToolNeedsDemand, Counted,
                    ExhaustedMeansIgnored
<1> QED
  BY <1>1, <1>2, <1>3 DEF OneLiveDemand

-----------------------------------------------------------------------------
(* turn_end *)

LEMMA ProceedFacts ==
  ASSUME TypeOK, NEW continue \in BOOLEAN, NEW abort \in BOOLEAN, Proceed(continue, abort)
  PROVE  /\ pc' \in {"llm", "settling"} /\ aborted' \in BOOLEAN
         /\ queued' \in {"unused", "queued", "used"}
BY DEF Proceed, TypeOK

(* What turn_end leaves alone, and where it may leave the loop. *)
TurnOver ==
  /\ pc' \in {"llm", "settling", "backoff"} /\ aborted' \in BOOLEAN
  /\ queued' \in {"unused", "queued", "used"} /\ marker' \in Texts \cup {"none"}
  /\ stop' = "none" /\ UNCHANGED <<parked, disk>>

(* The cycle ends at turn_end: handed over, or swapped with whoever waits told so. *)
LEMMA TurnEndsCycle ==
  ASSUME IInv, TurnOver, NEW result \in Answers, ResetCycle(result)
  PROVE  IInv'
BY ResetInv DEF TurnOver, IInv, TypeOK

(* The cycle goes on with the same file and the same commands. *)
LEMMA TurnKeepsCycle ==
  ASSUME IInv, TurnOver, UNCHANGED <<waiter, cmd>>,
         cycle' \in CycleType, cycle'.ending = cycle.ending, seen' \in SeenType,
         CycleInv', OneLiveDemand'
  PROVE  IInv'
<1>1. TypeOK'
  BY DEF TurnOver, IInv, TypeOK
<1> QED
  BY <1>1, CommandInvStutters DEF TurnOver, IInv, Rested

LEMMA TurnEndInv ==
  ASSUME IInv, NEW level \in Levels, NEW outcome \in {"completed", "error"},
         TurnEnd(level, outcome)
  PROVE  IInv'
<1>0. /\ TypeOK /\ CycleInv /\ CommandInv /\ pc = "turn_end"
      /\ stop' = "none" /\ UNCHANGED <<parked, disk>>
  BY DEF IInv, TurnEnd
<1>1. ASSUME UNCHANGED <<waiter, cmd, seen>>, cycle' = Unstage(cycle), TurnOver PROVE IInv'
  <2>1. /\ cycle' \in CycleType /\ cycle'.ending = cycle.ending /\ cycle'.phase = cycle.phase
        /\ cycle'.path = cycle.path /\ cycle'.doc = cycle.doc /\ cycle'.retries = cycle.retries
        /\ cycle'.staged = "none"
    BY <1>0, <1>1 DEF Unstage, TypeOK, CycleType
  <2>2. CycleInv'
    BY <1>0, <1>1, <2>1 DEF CycleInv, Armed, OwnFile, Asked, ToolNeedsDemand, Counted,
                            ExhaustedMeansIgnored
  <2> QED
    BY <1>0, <1>1, <2>1, <2>2, TurnKeepsCycle DEF IInv, TypeOK, OneLiveDemand
<1>2. CASE TurnFailed
  BY <1>0, <1>1, <1>2 DEF TurnFailed, TurnOver, NoMarker, TypeOK
<1>3. CASE TurnDiscardsStale
  BY <1>0, <1>1, <1>3, ProceedFacts DEF TurnDiscardsStale, TurnOver, NoMarker
<1>4. ASSUME NEW txt \in Texts, HandOver(txt) \/ CommitMarker(txt), TurnOver,
             HandOver(txt) => txt \in Authors
      PROVE  IInv'
  <2>1. PICK result \in Answers : ResetCycle(result)
    BY <1>4 DEF HandOver, CommitMarker, Answers
  <2> QED
    BY <1>4, <2>1, TurnEndsCycle
<1>5. CASE TurnCommitsStaged /\ cycle.staged # "none"
  BY <1>0, <1>4, <1>5, ProceedFacts
     DEF TurnCommitsStaged, TurnOver, HandOver, CommitMarker, NoMarker, FromCycle, TypeOK,
         CycleType, Tools
<1>6. CASE EvaluateTurnEnd(level) /\ stop \notin FailedStop
  <2>1. CASE TurnCommitsDemand /\ cycle.phase = "pending"
    <3>1. /\ cycle.path # 0 /\ cycle.retries = 0 /\ seen.live = 0 /\ cycle \in CycleType
          /\ cycle.path = IF cycle.doc = "none" THEN disk.seq + 1 ELSE disk.seq
      BY <1>0, <2>1 DEF CycleInv, Armed, Counted, OwnFile, TypeOK
    <3>2. Demand(cycle) /\ TurnOver /\ UNCHANGED <<waiter, cmd>>
      BY <1>0, <2>1, ProceedFacts DEF TurnCommitsDemand, TurnOver, NoMarker
    <3>3. /\ cycle' \in CycleType /\ cycle'.ending = cycle.ending /\ seen' \in SeenType
          /\ CycleInv' /\ OneLiveDemand'
      BY <1>0, <3>1, <3>2, DemandFacts
    <3> QED
      BY <3>2, <3>3, TurnKeepsCycle
  <2>2. CASE TurnCollects /\ cycle.doc # "none"
    BY <1>0, <1>4, <2>2, ProceedFacts
       DEF TurnCollects, TurnOver, HandOver, CommitMarker, NoMarker, TypeOK, CycleType, Tools
  <2>3. CASE /\ TurnReminds /\ cycle.phase = "demanded" /\ ~Tools
             /\ stop \notin FailedStop /\ cycle.retries < MaxRetries
    <3>1. /\ cycle' \in CycleType /\ cycle'.ending = cycle.ending /\ cycle'.phase = cycle.phase
          /\ cycle'.path = cycle.path /\ cycle'.doc = cycle.doc
          /\ cycle'.retries = cycle.retries + 1 /\ cycle'.staged = cycle.staged
      BY <1>0, <2>3, MaxRetriesAssumption
         DEF TurnReminds, TypeOK, CycleType, MaxRetriesAssumption
    <3>2. seen.ignored = cycle.retries
      BY <1>0, <2>3 DEF CycleInv, Counted
    <3>3. /\ seen' \in SeenType /\ seen'.asked = seen.asked /\ seen'.live = seen.live
          /\ seen'.ignored = seen.ignored + 1
      BY <1>0, <2>3, <3>2, MaxRetriesAssumption
         DEF TurnReminds, RefusalsSeen, TypeOK, SeenType, CycleType, MaxRetriesAssumption
    <3>4. CycleInv'
      BY <1>0, <2>3, <3>1, <3>2, <3>3
         DEF CycleInv, Armed, OwnFile, Asked, ToolNeedsDemand, Counted, ExhaustedMeansIgnored
    <3>5. TurnOver /\ UNCHANGED <<waiter, cmd>>
      BY <1>0, <2>3, ProceedFacts DEF TurnReminds, TurnOver, NoMarker
    <3> QED
      BY <3>1, <3>3, <3>4, <3>5, TurnKeepsCycle DEF IInv, OneLiveDemand
  <2>4. CASE /\ TurnExhausts /\ cycle.phase = "demanded" /\ ~Tools
             /\ stop \notin FailedStop /\ ~(cycle.retries < MaxRetries)
    <3>1. /\ cycle' \in CycleType /\ cycle'.ending = cycle.ending /\ cycle'.phase = "exhausted"
          /\ cycle'.path = cycle.path /\ cycle'.doc = cycle.doc
          /\ cycle'.retries = cycle.retries /\ cycle'.staged = cycle.staged
      BY <1>0, <2>4 DEF TurnExhausts, TypeOK, CycleType
    <3>2. seen.ignored = MaxRetries
      BY <1>0, <2>4, MaxRetriesAssumption
         DEF CycleInv, Counted, TypeOK, CycleType, MaxRetriesAssumption
    <3>3. /\ seen' \in SeenType /\ seen'.asked = seen.asked /\ seen'.live = 0
          /\ seen'.ignored = MaxRetries + 1
      <4>1. seen' = [seen EXCEPT !.live = 0, !.ignored = MaxRetries + 1]
        <5>1. ~(seen.ignored > MaxRetries)
          BY <3>2, MaxRetriesAssumption DEF MaxRetriesAssumption
        <5>2. RefusalsSeen = MaxRetries + 1
          BY <2>4, <3>2, <5>1 DEF RefusalsSeen
        <5> QED
          BY <2>4, <5>2 DEF TurnExhausts
      <4>2. MaxRetries + 1 \in 0..(MaxRetries + 1)
        BY MaxRetriesAssumption DEF MaxRetriesAssumption
      <4>3. [seen EXCEPT !.live = 0] \in SeenType
        BY <1>0 DEF TypeOK, SeenType
      <4> QED
        BY <1>0, <4>1, <4>2, <4>3 DEF TypeOK, SeenType
    <3>4. CycleInv'
      BY <1>0, <2>4, <3>1, <3>2, <3>3
         DEF CycleInv, Armed, OwnFile, Asked, ToolNeedsDemand, Counted, ExhaustedMeansIgnored
    <3>5. TurnOver /\ UNCHANGED <<waiter, cmd>>
      BY <1>0, <2>4, ProceedFacts DEF TurnExhausts, TurnOver, NoMarker
    <3> QED
      BY <3>1, <3>3, <3>4, <3>5, TurnKeepsCycle DEF IInv, OneLiveDemand
  <2>5. CASE TurnStoppedSilently /\ cycle.phase = "idle"
    <3> DEFINE opened == OpenCycle(cycle, "silent")
    <3>1. /\ opened \in CycleType /\ opened.path = disk.seq + 1 /\ opened.doc = "none"
          /\ opened.retries = 0 /\ opened.ending = cycle.ending
      BY <1>0, OpenCycleFacts DEF TypeOK
    <3>2. Demand(opened) /\ TurnOver /\ UNCHANGED <<waiter, cmd>>
      BY <1>0, <2>5, ProceedFacts DEF TurnStoppedSilently, TurnOver, NoMarker
    <3>3. seen.live = 0 /\ opened.path # 0
      BY <1>0, <2>5, <3>1 DEF CycleInv, Counted, TypeOK, DiskType
    <3> HIDE DEF opened
    <3>4. /\ cycle' \in CycleType /\ cycle'.ending = cycle.ending /\ seen' \in SeenType
          /\ CycleInv' /\ OneLiveDemand'
      BY <1>0, <3>1, <3>2, <3>3, DemandFacts
    <3> QED
      BY <3>2, <3>4, TurnKeepsCycle
  <2>6. CASE TurnLeavesCycle
    <3>1. UNCHANGED <<cycle, waiter, cmd>> /\ TurnOver
      BY <1>0, <2>6, ProceedFacts DEF TurnLeavesCycle, TurnOver, NoMarker
    <3>2. /\ seen' \in SeenType /\ seen'.asked = seen.asked /\ seen'.live = seen.live
          /\ seen'.ignored = seen.ignored
      BY <1>0, <2>6 DEF TurnLeavesCycle, TypeOK, SeenType
    <3>3. CycleInv'
      BY <1>0, <3>1, <3>2 DEF CycleInv, Armed, OwnFile, Asked, ToolNeedsDemand, Counted,
                              ExhaustedMeansIgnored
    <3> QED
      BY <1>0, <3>1, <3>2, <3>3, TurnKeepsCycle DEF IInv, TypeOK, OneLiveDemand
  <2> QED
    BY <1>0, <1>6, <2>1, <2>2, <2>3, <2>4, <2>5, <2>6
       DEF EvaluateTurnEnd, DecideTurnEnd, DecideVerification, DecideSilentStop, TypeOK, CycleType
<1> QED
  BY <1>2, <1>3, <1>5, <1>6 DEF TurnEnd, DecideTurnGate

-----------------------------------------------------------------------------
(* The end of a run *)

(* A demand that waits for the run to finish may be sent. *)
LEMMA WaitingDemandFacts ==
  ASSUME IInv, WaitingAtSettle, UNCHANGED disk, Demand(cycle)
  PROVE  /\ cycle' \in CycleType /\ cycle'.ending = cycle.ending
         /\ seen' \in SeenType /\ CycleInv' /\ OneLiveDemand'
<1>1. /\ cycle.path # 0 /\ cycle.retries = 0 /\ seen.live = 0 /\ cycle \in CycleType
      /\ cycle.path = IF cycle.doc = "none" THEN disk.seq + 1 ELSE disk.seq
  BY DEF IInv, TypeOK, CycleInv, Armed, Counted, OwnFile, WaitingAtSettle
<1> QED
  BY <1>1, DemandFacts DEF IInv

LEMMA BeforeSettleInv == IInv /\ BeforeSettle => IInv'
<1> SUFFICES ASSUME IInv, BeforeSettle PROVE IInv'
  OBVIOUS
<1>0. TypeOK /\ UNCHANGED <<waiter, cmd, parked, disk, marker, stop, aborted, queued>>
  BY DEF IInv, BeforeSettle
<1>1. CASE WaitingAtSettle /\ Demand(cycle) /\ pc' = "llm"
  <2>1. /\ cycle' \in CycleType /\ cycle'.ending = cycle.ending
        /\ seen' \in SeenType /\ CycleInv' /\ OneLiveDemand'
    BY <1>0, <1>1, WaitingDemandFacts
  <2> QED
    BY <1>0, <1>1, <2>1, CommandInvStutters DEF IInv, TypeOK, Rested
<1>2. CASE pc' = "settled" /\ UNCHANGED <<cycle, seen>>
  BY <1>0, <1>2, LoopInv DEF TypeOK
<1> QED
  BY <1>1, <1>2 DEF BeforeSettle

(* A failed command leaves an idle cycle or the cap cycle it had joined. *)
LEMMA FailManualFacts ==
  ASSUME IInv, FailManual
  PROVE  /\ cycle' \in CycleType /\ waiter' = NoCommand /\ cmd' \in CmdType /\ CommandInv'
         /\ cycle' = IdleCycle \/ cycle' = [cycle EXCEPT !.ending = "swap"]
<1>1. /\ waiter' = NoCommand /\ cmd' \in CmdType /\ NoStrandedCommand' /\ SeedFromThisCycle'
  <2>1. Failed \in Answers /\ SettleManual(Failed)
    BY DEF Answers, FailManual
  <2> QED
    BY <2>1, SettleInv DEF IInv, CommandInv
<1>2. cycle' = IdleCycle \/ cycle' = [cycle EXCEPT !.ending = "swap"]
  BY DEF FailManual
<1>3. IdleCycle \in CycleType /\ IdleCycle.ending = "swap"
  BY MaxRetriesAssumption, FilesAssumption
     DEF CycleType, IdleCycle, MaxRetriesAssumption, FilesAssumption
<1>4. cycle' \in CycleType /\ cycle'.ending = "swap"
  BY <1>2, <1>3 DEF IInv, TypeOK, CycleType
<1> QED
  BY <1>1, <1>2, <1>4 DEF CommandInv, WaiterMatchesEnding

(* An unarmed cycle of which nothing was seen satisfies the part about the cycle. *)
LEMMA UnarmedInv ==
  ASSUME seen' = Unseen, cycle'.path = 0, cycle'.phase = "idle", cycle'.doc = "none",
         cycle'.staged = "none"
  PROVE  seen' \in SeenType /\ CycleInv' /\ OneLiveDemand'
<1>1. seen' \in SeenType
  BY MaxRetriesAssumption, FilesAssumption
     DEF SeenType, Unseen, MaxRetriesAssumption, FilesAssumption
<1>2. CycleInv' /\ OneLiveDemand'
  BY DEF CycleInv, Armed, OwnFile, Asked, ToolNeedsDemand, Counted, ExhaustedMeansIgnored,
         OneLiveDemand, Unseen
<1> QED
  BY <1>1, <1>2

(* It survives when only the ending changes and the run's demand is over or as before. *)
LEMMA EndingInv ==
  ASSUME IInv, UNCHANGED disk, seen' \in {seen, [seen EXCEPT !.live = 0]},
         NEW e \in Endings, cycle' \in {cycle, [cycle EXCEPT !.ending = e]}
  PROVE  cycle' \in CycleType /\ seen' \in SeenType /\ CycleInv' /\ OneLiveDemand'
<1>0. TypeOK /\ CycleInv /\ OneLiveDemand
  BY DEF IInv
<1>1. /\ seen' \in SeenType /\ seen'.asked = seen.asked /\ seen'.ignored = seen.ignored
      /\ seen'.live \in {0, seen.live}
  BY <1>0 DEF TypeOK, SeenType
<1>2. /\ cycle' \in CycleType /\ cycle'.phase = cycle.phase /\ cycle'.path = cycle.path
      /\ cycle'.doc = cycle.doc /\ cycle'.retries = cycle.retries /\ cycle'.staged = cycle.staged
  BY <1>0 DEF TypeOK, CycleType
<1>3. CycleInv' /\ OneLiveDemand'
  BY <1>0, <1>1, <1>2 DEF CycleInv, Armed, OwnFile, Asked, ToolNeedsDemand, Counted,
                          ExhaustedMeansIgnored, OneLiveDemand
<1> QED
  BY <1>1, <1>2, <1>3

(* agent_settled: the run is over, whatever became of the command. *)
LEMMA RunOverInv ==
  ASSUME IInv, UNCHANGED disk, seen' = RunOver,
         cycle' \in {IdleCycle, cycle, [cycle EXCEPT !.ending = "swap"]}
  PROVE  seen' \in SeenType /\ seen'.live = 0 /\ CycleInv' /\ OneLiveDemand'
<1>1. CASE cycle' = IdleCycle
  <2>1. cycle'.path = 0 /\ cycle'.phase = "idle" /\ cycle'.doc = "none" /\ cycle'.staged = "none"
    BY <1>1 DEF IdleCycle
  <2>2. seen' = Unseen
    BY <2>1 DEF RunOver
  <2> QED
    BY <2>1, <2>2, UnarmedInv DEF Unseen
<1>2. CASE cycle' # IdleCycle
  <2>1. /\ cycle'.phase = cycle.phase /\ cycle'.path = cycle.path /\ cycle'.doc = cycle.doc
        /\ cycle'.staged = cycle.staged
    BY <1>2 DEF IInv, TypeOK, CycleType
  <2>2. CASE cycle.phase = "idle" /\ cycle.path = 0
    <3>1. cycle.doc = "none" /\ cycle.staged = "none"
      BY <2>2 DEF IInv, CycleInv, Armed
    <3>2. seen' = Unseen
      BY <2>1, <2>2 DEF RunOver
    <3> QED
      BY <2>1, <2>2, <3>1, <3>2, UnarmedInv DEF Unseen
  <2>3. CASE ~(cycle.phase = "idle" /\ cycle.path = 0)
    <3>1. seen' = [seen EXCEPT !.live = 0]
      BY <2>1, <2>3 DEF RunOver
    <3>2. seen' \in SeenType /\ CycleInv' /\ OneLiveDemand'
      BY <1>2, <3>1, EndingInv
    <3>3. seen'.live = 0
      BY <3>1 DEF IInv, TypeOK, SeenType
    <3> QED
      BY <3>2, <3>3
  <2> QED
    BY <2>2, <2>3
<1> QED
  BY <1>1, <1>2

LEMMA SettledInv == IInv /\ Settled => IInv'
<1> SUFFICES ASSUME IInv, Settled PROVE IInv'
  OBVIOUS
<1>0. TypeOK /\ CommandInv /\ aborted' = FALSE /\ UNCHANGED <<parked, disk, marker, stop, queued>>
  BY DEF IInv, Settled
<1>1. CASE WaitingAtSettle /\ Demand(cycle) /\ pc' = "llm" /\ UNCHANGED <<waiter, cmd>>
  <2>1. /\ cycle' \in CycleType /\ cycle'.ending = cycle.ending
        /\ seen' \in SeenType /\ CycleInv' /\ OneLiveDemand'
    BY <1>0, <1>1, WaitingDemandFacts
  <2> QED
    BY <1>0, <1>1, <2>1, CommandInvStutters DEF IInv, TypeOK, Rested
<1>2. CASE FailManual /\ seen' = RunOver /\ pc' = "idle"
  <2>1. /\ cycle' \in CycleType /\ waiter' = NoCommand /\ cmd' \in CmdType /\ CommandInv'
        /\ cycle' = IdleCycle \/ cycle' = [cycle EXCEPT !.ending = "swap"]
    BY <1>2, FailManualFacts
  <2>2. seen' \in SeenType /\ seen'.live = 0 /\ CycleInv' /\ OneLiveDemand'
    BY <1>0, <1>2, <2>1, RunOverInv
  <2> QED
    BY <1>0, <1>2, <2>1, <2>2 DEF IInv, TypeOK, Rested
<1>3. CASE UNCHANGED <<cycle, waiter, cmd>> /\ seen' = RunOver /\ pc' = "idle"
  <2>1. seen' \in SeenType /\ seen'.live = 0 /\ CycleInv' /\ OneLiveDemand'
    BY <1>0, <1>3, RunOverInv
  <2> QED
    BY <1>0, <1>3, <2>1, CommandInvStutters DEF IInv, TypeOK, Rested
<1> QED
  BY <1>1, <1>2, <1>3 DEF Settled

-----------------------------------------------------------------------------
(* The /handoff command *)

(* Armed for the command, a cycle has a file, no document and no reminders sent. *)
LEMMA ArmManualFacts ==
  ASSUME IInv, cycle.doc = "none"
  PROVE  LET a == ArmManual(cycle)
         IN  /\ a \in CycleType /\ a.path = disk.seq + 1 /\ a.path # 0 /\ a.doc = "none"
             /\ a.retries = 0 /\ a.ending = "new-session"
<1> DEFINE b  == IF cycle.phase = "idle" THEN StartCycle(cycle) ELSE cycle
           b1 == [b EXCEPT !.origin = "manual"]
           b2 == [b1 EXCEPT !.retries = 0]
<1>0. cycle \in CycleType /\ disk \in DiskType /\ Armed /\ OwnFile /\ 0 \in 0..MaxRetries
  BY MaxRetriesAssumption DEF IInv, TypeOK, CycleInv, MaxRetriesAssumption
<1>1. b \in CycleType /\ b.path = disk.seq + 1 /\ b.path # 0 /\ b.doc = "none"
  <2>1. CASE cycle.phase = "idle"
    BY <1>0, <2>1, StartCycleFacts DEF DiskType
  <2>2. CASE cycle.phase # "idle"
    BY <1>0, <2>2 DEF Armed, OwnFile
  <2> QED
    BY <2>1, <2>2
<1> HIDE DEF b
<1>2. b1 \in CycleType /\ b1.path = disk.seq + 1 /\ b1.path # 0 /\ b1.doc = "none"
  BY <1>1 DEF CycleType
<1> HIDE DEF b1
<1>3. /\ b2 \in CycleType /\ b2.path = disk.seq + 1 /\ b2.path # 0 /\ b2.doc = "none"
      /\ b2.retries = 0
  BY <1>0, <1>2 DEF CycleType
<1> HIDE DEF b2
<1>4. LET a == [b2 EXCEPT !.ending = "new-session"]
      IN  /\ a \in CycleType /\ a.path = disk.seq + 1 /\ a.path # 0 /\ a.doc = "none"
          /\ a.retries = 0 /\ a.ending = "new-session"
  BY <1>3 DEF CycleType
<1> QED
  BY <1>4 DEF ArmManual, b, b1, b2

(* The command may be decided: it was just typed and nobody waits, or it waits. *)
MayStart(c) == (waiter = NoCommand /\ cmd[c].at = "new") \/ waiter = c

LEMMA WaitsFacts ==
  ASSUME IInv, NEW c \in Commands, MayStart(c), Waits(c), cycle'.ending = "new-session"
  PROVE  waiter' \in Commands /\ cmd' \in CmdType /\ CommandInv'
<1>1. waiter' = c /\ c # NoCommand /\ cmd' \in CmdType
  BY CommandsAssumption DEF Waits, IInv, TypeOK, CmdType, CommandsAssumption
<1>2. ASSUME NEW d \in Commands
      PROVE  /\ d = c => cmd'[d].at = "waiting"
             /\ d # c => cmd'[d] = cmd[d] /\ cmd[d].at # "waiting"
  BY CommandsAssumption
     DEF Waits, MayStart, IInv, TypeOK, CmdType, CommandInv, NoStrandedCommand, CommandsAssumption
<1>3. WaiterMatchesEnding' /\ NoStrandedCommand'
  BY <1>1, <1>2 DEF WaiterMatchesEnding, NoStrandedCommand
<1>4. SeedFromThisCycle'
  BY <1>2 DEF SeedFromThisCycle, IInv, CommandInv
<1> QED
  BY <1>1, <1>3, <1>4 DEF CommandInv

LEMMA StartManualInv ==
  ASSUME IInv, NEW c \in Commands, MayStart(c), StartManual(c)
  PROVE  IInv'
<1>0. TypeOK /\ CycleInv /\ CommandInv /\ UNCHANGED <<disk, marker>>
  BY DEF IInv, StartManual
<1>1. CASE ManualFinishes(c)
  <2>1. /\ waiter' = NoCommand /\ pc = "idle" /\ parked' = parked \ {c}
        /\ UNCHANGED <<pc, stop, aborted, queued>>
    BY <1>1 DEF ManualFinishes, DecideManual, loop
  <2>2. PICK answer \in Answers : cmd' = [cmd EXCEPT ![c] = answer]
    BY <1>0, <1>1 DEF ManualFinishes, Answers, TypeOK, CycleType
  <2>3. /\ answer \in [at: States, seed: Texts \cup {"none"}] /\ answer.at # "waiting"
        /\ answer.at \in {"seeding", "seeded"} => answer.seed \in Authors
    BY DEF Answers, Failed, SeedWith
  <2>4. cmd' \in CmdType
    BY <1>0, <2>2, <2>3 DEF TypeOK, CmdType
  <2>5. ASSUME NEW d \in Commands
        PROVE  /\ d = c => cmd'[d] = answer
               /\ d # c => cmd'[d] = cmd[d] /\ cmd[d].at # "waiting"
    BY <1>0, <2>2, CommandsAssumption
       DEF MayStart, TypeOK, CmdType, CommandInv, NoStrandedCommand, CommandsAssumption
  <2>6. NoStrandedCommand' /\ SeedFromThisCycle'
    BY <1>0, <2>1, <2>3, <2>5, CommandsAssumption
       DEF NoStrandedCommand, SeedFromThisCycle, CommandInv, CommandsAssumption
  <2>7. cycle' \in {IdleCycle, [cycle EXCEPT !.ending = "swap"]}
    BY <1>1 DEF ManualFinishes
  <2>8. /\ cycle' \in CycleType /\ cycle'.ending = "swap" /\ seen' \in SeenType
        /\ CycleInv' /\ OneLiveDemand' /\ seen'.live = 0
    <3>1. CASE cycle' = IdleCycle
      <4>1. seen' = Unseen
        BY <1>1, <3>1 DEF ManualFinishes, IdleCycle
      <4>2. cycle' \in CycleType /\ cycle'.ending = "swap"
        BY <3>1, MaxRetriesAssumption, FilesAssumption
           DEF CycleType, IdleCycle, MaxRetriesAssumption, FilesAssumption
      <4> QED
        BY <3>1, <4>1, <4>2, UnarmedInv DEF IdleCycle, Unseen
    <3>2. CASE cycle' = [cycle EXCEPT !.ending = "swap"]
      <4>1. /\ cycle' \in CycleType /\ cycle'.ending = "swap" /\ cycle'.path = cycle.path
            /\ cycle'.phase = cycle.phase /\ cycle'.doc = cycle.doc
            /\ cycle'.staged = cycle.staged
        BY <1>0, <3>2 DEF TypeOK, CycleType
      <4>2. CASE cycle.path = 0
        <5>1. seen' = Unseen /\ cycle.phase = "idle" /\ cycle.doc = "none" /\ cycle.staged = "none"
          BY <1>0, <1>1, <4>1, <4>2 DEF ManualFinishes, CycleInv, Armed
        <5> QED
          BY <4>1, <4>2, <5>1, UnarmedInv DEF Unseen
      <4>3. CASE cycle.path # 0
        <5>1. seen' = seen
          BY <1>1, <4>1, <4>3 DEF ManualFinishes
        <5>2. seen' \in SeenType /\ CycleInv' /\ OneLiveDemand'
          BY <1>0, <3>2, <5>1, EndingInv
        <5> QED
          BY <2>1, <4>1, <5>1, <5>2 DEF IInv, Rested
      <4> QED
        BY <4>2, <4>3
    <3> QED
      BY <2>7, <3>1, <3>2
  <2>9. CommandInv'
    BY <2>1, <2>6, <2>8 DEF CommandInv, WaiterMatchesEnding
  <2> QED
    BY <1>0, <2>1, <2>4, <2>8, <2>9 DEF IInv, TypeOK, Rested
<1>2. CASE ManualJoins(c)
  <2>1. /\ Waits(c) /\ cycle' = [cycle EXCEPT !.ending = "new-session"]
        /\ parked' \in SUBSET Commands /\ UNCHANGED <<pc, stop, aborted, queued, seen>>
    BY <1>0, <1>2 DEF ManualJoins, ResumesWhenIdle, TypeOK
  <2>2. cycle' \in CycleType /\ CycleInv' /\ OneLiveDemand'
    BY <1>0, <2>1, EndingInv
  <2>3. cycle'.ending = "new-session" /\ cycle'.path = cycle.path
    BY <1>0, <2>1 DEF TypeOK, CycleType
  <2> QED
    BY <1>0, <2>1, <2>2, <2>3, WaitsFacts DEF IInv, TypeOK, Rested
<1>3. CASE ManualDemandsNow(c)
  <2> DEFINE armed == ArmManual(cycle)
  <2>1. /\ cycle.doc = "none" /\ pc = "idle" /\ Waits(c) /\ Demand(armed)
        /\ parked' = parked \ {c} /\ pc' = "llm" /\ aborted' = FALSE /\ UNCHANGED <<stop, queued>>
    BY <1>3 DEF ManualDemandsNow, DecideManual
  <2>2. /\ armed \in CycleType /\ armed.path = disk.seq + 1 /\ armed.path # 0
        /\ armed.doc = "none" /\ armed.retries = 0 /\ armed.ending = "new-session"
    BY <2>1, ArmManualFacts
  <2>3. seen.live = 0
    BY <2>1 DEF IInv, Rested
  <2> HIDE DEF armed
  <2>4. /\ cycle' \in CycleType /\ cycle'.ending = "new-session" /\ seen' \in SeenType
        /\ CycleInv' /\ OneLiveDemand'
    BY <1>0, <2>1, <2>2, <2>3, DemandFacts
  <2> QED
    BY <1>0, <2>1, <2>4, WaitsFacts DEF IInv, TypeOK, Rested
<1>4. CASE ManualWaitsForSettle(c)
  <2> DEFINE armed == ArmManual(cycle)
  <2>1. /\ cycle.doc = "none" /\ pc # "idle" /\ cycle.phase \in {"idle", "exhausted"} /\ Waits(c)
        /\ cycle' = [armed EXCEPT !.phase = "pending", !.demandAt = "settle"]
        /\ parked' \in SUBSET Commands /\ UNCHANGED <<pc, stop, aborted, queued, seen>>
    BY <1>0, <1>4 DEF ManualWaitsForSettle, DecideManual, ResumesWhenIdle, TypeOK
  <2>2. /\ armed \in CycleType /\ armed.path = disk.seq + 1 /\ armed.path # 0
        /\ armed.doc = "none" /\ armed.retries = 0 /\ armed.ending = "new-session"
    BY <2>1, ArmManualFacts
  <2> HIDE DEF armed
  <2>3. /\ cycle' \in CycleType /\ cycle'.phase = "pending" /\ cycle'.path = disk.seq + 1
        /\ cycle'.path # 0 /\ cycle'.doc = "none" /\ cycle'.retries = 0
        /\ cycle'.ending = "new-session"
    BY <2>1, <2>2 DEF CycleType
  <2>4. seen.live = 0
    BY <1>0, <2>1 DEF CycleInv, Counted
  <2>5. CycleInv' /\ OneLiveDemand'
    BY <1>0, <2>1, <2>3, <2>4 DEF CycleInv, Armed, OwnFile, Asked, ToolNeedsDemand, Counted,
                                  ExhaustedMeansIgnored, OneLiveDemand
  <2> QED
    BY <1>0, <2>1, <2>3, <2>4, <2>5, WaitsFacts DEF IInv, TypeOK, Rested
<1> QED
  BY <1>1, <1>2, <1>3, <1>4 DEF StartManual

LEMMA HandoffTypedInv ==
  ASSUME IInv, NEW c \in Commands, HandoffTyped(c)
  PROVE  IInv'
<1>1. CASE waiter # NoCommand
  <2>1. /\ cmd' = [cmd EXCEPT ![c].at = "refused"] /\ cmd[c].at = "new"
        /\ UNCHANGED <<cycle, waiter, parked, disk, marker, pc, stop, aborted, queued, seen>>
    BY <1>1 DEF HandoffTyped, loop
  <2>2. cmd' \in CmdType
    BY <2>1 DEF IInv, TypeOK, CmdType
  <2>3. ASSUME NEW d \in Commands
        PROVE  /\ cmd'[d].at = "waiting" <=> cmd[d].at = "waiting"
               /\ cmd'[d].at \in {"seeding", "seeded"} => cmd'[d] = cmd[d]
    BY <2>1 DEF IInv, TypeOK, CmdType
  <2>4. CommandInv'
    BY <2>1, <2>3 DEF IInv, CommandInv, WaiterMatchesEnding, NoStrandedCommand, SeedFromThisCycle
  <2>5. CycleInv'
    BY <2>1 DEF IInv, CycleInv, Armed, OwnFile, Asked, ToolNeedsDemand, Counted,
                ExhaustedMeansIgnored
  <2> QED
    BY <2>1, <2>2, <2>4, <2>5 DEF IInv, TypeOK, Rested, OneLiveDemand
<1>2. CASE waiter = NoCommand
  BY <1>2, StartManualInv DEF HandoffTyped, MayStart
<1> QED
  BY <1>1, <1>2

LEMMA ResumeWhenIdleInv ==
  ASSUME IInv, NEW c \in Commands, ResumeWhenIdle(c)
  PROVE  IInv'
<1>1. CASE waiter = c
  BY <1>1, StartManualInv DEF ResumeWhenIdle, MayStart
<1>2. CASE waiter # c
  <2>1. TypeOK /\ Rested
    BY DEF IInv
  <2>2. /\ parked' = parked \ {c} /\ pc = "idle"
        /\ UNCHANGED <<cycle, waiter, cmd, disk, marker, pc, stop, aborted, queued, seen>>
    BY <1>2 DEF ResumeWhenIdle, loop
  <2> QED
    BY <2>1, <2>2, LoopInv DEF TypeOK, Rested
<1> QED
  BY <1>1, <1>2

-----------------------------------------------------------------------------
(* Sessions and pi's loop *)

LEMMA NewSessionInv ==
  ASSUME IInv, NEW alive \in SUBSET {c \in Commands : cmd[c].at = "seeding"},
         NewSession(alive), disk' \in DiskType
  PROVE  IInv'
<1>0. TypeOK /\ CommandInv
  BY DEF IInv
<1>1. /\ cycle' = IdleCycle /\ waiter' = NoCommand /\ parked' = {} /\ marker' = "none"
      /\ pc' = "idle" /\ stop' = "none" /\ aborted' = FALSE /\ seen' = Unseen /\ queued' = queued
  BY DEF NewSession, NoMarker
<1>2. ASSUME NEW c \in Commands
      PROVE  /\ cmd'[c] \in [at: States, seed: Texts \cup {"none"}] /\ cmd'[c].at # "waiting"
             /\ cmd'[c].at \in {"seeding", "seeded"} => cmd'[c].seed \in Authors
  BY <1>0 DEF NewSession, TypeOK, CmdType, CommandInv, SeedFromThisCycle, Failed
<1>3. cmd' \in CmdType
  <2>1. cmd' = [c \in Commands |-> cmd'[c]]
    BY DEF NewSession
  <2> QED
    BY <1>2, <2>1 DEF CmdType
<1>4. CommandInv'
  BY <1>1, <1>2, CommandsAssumption
     DEF CommandInv, WaiterMatchesEnding, NoStrandedCommand, SeedFromThisCycle, IdleCycle,
         CommandsAssumption
<1>5. seen' \in SeenType /\ CycleInv' /\ OneLiveDemand'
  BY <1>1, UnarmedInv DEF IdleCycle
<1>6. cycle' \in CycleType
  BY <1>1, MaxRetriesAssumption, FilesAssumption
     DEF CycleType, IdleCycle, MaxRetriesAssumption, FilesAssumption
<1>7. TypeOK' /\ Rested'
  BY <1>0, <1>1, <1>3, <1>5, <1>6 DEF TypeOK, Rested, Unseen
<1> QED
  BY <1>4, <1>5, <1>7 DEF IInv

LEMMA SessionsInv ==
  ASSUME IInv, SessionReplaced \/ \E c \in Commands : SeedNewSession(c)
  PROVE  IInv'
<1>0. [seq |-> 0, author |-> "none"] \in DiskType /\ disk \in DiskType
  BY FilesAssumption DEF IInv, TypeOK, DiskType, FilesAssumption
<1>2. CASE SessionReplaced
  <2>1. NewSession({}) /\ disk' \in DiskType
    BY <1>0, <1>2 DEF SessionReplaced
  <2> QED
    BY <2>1, NewSessionInv
<1>3. ASSUME NEW c \in Commands, SeedNewSession(c) PROVE IInv'
  <2>1. NewSession({c}) /\ disk' \in DiskType /\ cmd[c].at = "seeding"
    BY <1>0, <1>3 DEF SeedNewSession
  <2> QED
    BY <2>1, NewSessionInv
<1> QED
  BY <1>2, <1>3

LEMMA LoopStepsInv ==
  ASSUME IInv, \/ ToolsDone \/ TurnEndLost \/ Prompt \/ MessageQueued \/ Esc
               \/ Retry \/ CompactionStarts \/ CompactionEnds
  PROVE  IInv'
<1>1. TypeOK /\ Rested
  BY DEF IInv
<1> QED
  BY <1>1, LoopInv
     DEF ToolsDone, TurnEndLost, Prompt, MessageQueued, Esc, Retry, CompactionStarts,
         CompactionEnds, TypeOK, Rested

LEMMA StutterInv == IInv /\ UNCHANGED vars => IInv'
BY LoopInv DEF vars, IInv, TypeOK, Rested

LEMMA NextInv == IInv /\ [Next]_vars => IInv'
<1> SUFFICES ASSUME IInv, [Next]_vars PROVE IInv'
  OBVIOUS
<1>1. CASE \E s \in Stops, level \in Levels : MessageEnd(s, level)
  BY <1>1, MessageEndInv
<1>2. CASE Draft
  BY <1>2, DraftInv
<1>3. CASE ExecuteHandoff
  BY <1>3, ExecuteHandoffInv
<1>4. CASE \E level \in Levels, outcome \in {"completed", "error"} : TurnEnd(level, outcome)
  BY <1>4, TurnEndInv
<1>5. CASE BeforeSettle \/ Settled
  BY <1>5, BeforeSettleInv, SettledInv
<1>6. CASE \E c \in Commands : HandoffTyped(c) \/ ResumeWhenIdle(c)
  BY <1>6, HandoffTypedInv, ResumeWhenIdleInv
<1>7. CASE SessionReplaced \/ \E c \in Commands : SeedNewSession(c)
  BY <1>7, SessionsInv
<1>8. CASE \/ ToolsDone \/ TurnEndLost \/ Prompt \/ MessageQueued \/ Esc
           \/ Retry \/ CompactionStarts \/ CompactionEnds
  BY <1>8, LoopStepsInv
<1>9. CASE UNCHANGED vars
  BY <1>9, StutterInv
<1> QED
  BY <1>1, <1>2, <1>3, <1>4, <1>5, <1>6, <1>7, <1>8, <1>9 DEF Next, Extension, Environment

-----------------------------------------------------------------------------
(* The inductive invariant holds in every reachable state. *)
THEOREM Invariant == Spec => []IInv
BY InitInv, NextInv, PTL DEF Spec

(* Every variable keeps its type. *)
THEOREM TypeCorrect == Spec => []TypeOK
<1>1. IInv => TypeOK
  BY DEF IInv
<1> QED
  BY <1>1, Invariant, PTL

(* The waiter is set exactly while the cycle ends in a new session: whatever ends the
   cycle knows whether somebody waits for it. *)
THEOREM WaiterRegistered == Spec => []WaiterMatchesEnding
<1>1. IInv => WaiterMatchesEnding
  BY DEF IInv, CommandInv
<1> QED
  BY <1>1, Invariant, PTL

(* The waiter is the only command that waits: a reset, a swap, a settle or a shutdown
   finds it, and no command hangs unregistered. *)
THEOREM NobodyStranded == Spec => []NoStrandedCommand
<1>1. IInv => NoStrandedCommand
  BY DEF IInv, CommandInv
<1> QED
  BY <1>1, Invariant, PTL

(* Only a document of its own cycle ever seeds a new session. *)
THEOREM SeedsAreDocuments == Spec => []SeedFromThisCycle
<1>1. IInv => SeedFromThisCycle
  BY DEF IInv, CommandInv
<1> QED
  BY <1>1, Invariant, PTL

(* The tool records a document only against a demand of this cycle that its agent has
   seen (context-cap-tool.ts, executeHandoff). *)
THEOREM RecordsOnDemand == Spec => []ToolNeedsDemand
<1>1. IInv => ToolNeedsDemand
  BY DEF IInv, CycleInv
<1> QED
  BY <1>1, Invariant, PTL

(* A cycle writes to a file that no earlier cycle wrote (context-cap-files.ts). *)
THEOREM FreshFiles == Spec => []OwnFile
<1>1. IInv => OwnFile
  BY DEF IInv, CycleInv
<1> QED
  BY <1>1, Invariant, PTL

(* Never two live demands in one run. *)
THEOREM SingleDemand == Spec => []OneLiveDemand
<1>1. IInv => OneLiveDemand
  BY DEF IInv
<1> QED
  BY <1>1, Invariant, PTL

(* Only completed turns count as refusals. *)
THEOREM GivesUpLate == Spec => []ExhaustedMeansIgnored
<1>1. IInv => ExhaustedMeansIgnored
  BY DEF IInv, CycleInv
<1> QED
  BY <1>1, Invariant, PTL

-----------------------------------------------------------------------------
(* Only the turn a text was staged for ends the cycle with it. *)

LEMMA UnstageKeepsPath ==
  ASSUME TypeOK PROVE Unstage(cycle).path = cycle.path
BY DEF Unstage, TypeOK, CycleType

LEMMA TypedKeepsPath ==
  ASSUME IInv, NEW c \in Commands, HandoffTyped(c), pc = "turn_end", cycle.staged # "none"
  PROVE  cycle'.path = cycle.path
<1>1. ~ManualFinishes(c) /\ ~ManualDemandsNow(c) /\ ~ManualWaitsForSettle(c)
  BY DEF ManualFinishes, ManualDemandsNow, ManualWaitsForSettle, DecideManual
<1>2. cycle' \in {cycle, [cycle EXCEPT !.ending = "new-session"]}
  BY <1>1 DEF HandoffTyped, StartManual, ManualJoins
<1> QED
  BY <1>2 DEF IInv, TypeOK, CycleType

LEMMA OwnTurnStep ==
  ASSUME IInv, [Next]_vars, pc = "turn_end", cycle.staged # "none", cycle'.path = 0
  PROVE  cycle.stagedBy = "this" \/ pc' = "idle"
<1>0. TypeOK /\ cycle.path # 0
  BY DEF IInv, CycleInv, Armed
<1>1. ASSUME NEW level \in Levels, NEW outcome \in {"completed", "error"}, TurnEnd(level, outcome)
      PROVE  cycle.stagedBy = "this"
  <2>1. CASE TurnFailed \/ TurnDiscardsStale
    BY <1>0, <2>1, UnstageKeepsPath DEF TurnFailed, TurnDiscardsStale
  <2>2. CASE ~(TurnFailed \/ TurnDiscardsStale)
    BY <1>1, <2>2 DEF TurnEnd, DecideTurnGate
  <2> QED
    BY <2>1, <2>2
<1>2. ASSUME NEW c \in Commands, HandoffTyped(c) PROVE FALSE
  BY <1>0, <1>2, TypedKeepsPath
<1>3. CASE SessionReplaced
  BY <1>3 DEF SessionReplaced, NewSession
<1>4. CASE MessageQueued \/ Esc \/ UNCHANGED vars
  BY <1>0, <1>4 DEF MessageQueued, Esc, vars
<1>5. /\ ~Draft /\ ~ExecuteHandoff /\ ~BeforeSettle /\ ~Settled /\ ~ToolsDone /\ ~TurnEndLost
      /\ ~Prompt /\ ~Retry /\ ~CompactionStarts /\ ~CompactionEnds
  BY DEF Draft, DraftWritten, DraftDeferred, DraftFellBack, ExecuteHandoff, BeforeSettle, Settled,
         ToolsDone, TurnEndLost, Prompt, Retry, CompactionStarts, CompactionEnds
<1>6. /\ \A s \in Stops, level \in Levels : ~MessageEnd(s, level)
      /\ \A c \in Commands : ~ResumeWhenIdle(c) /\ ~SeedNewSession(c)
  BY DEF MessageEnd, ResumeWhenIdle, SeedNewSession
<1> QED
  BY <1>1, <1>2, <1>3, <1>4, <1>5, <1>6 DEF Next, Extension, Environment

(* A text staged by one message is never delivered by another turn. *)
THEOREM StagedForItsTurn == Spec => OwnTurnSwap
<1>1. IInv /\ [Next]_vars
        => [ (pc = "turn_end" /\ cycle.staged # "none" /\ cycle'.path = 0)
               => (cycle.stagedBy = "this" \/ pc' = "idle") ]_vars
  BY OwnTurnStep
<1> QED
  BY <1>1, Invariant, PTL DEF Spec, OwnTurnSwap

-----------------------------------------------------------------------------
(* ContextCap implements HandoffCommand. *)

LEMMA SettleAnswers ==
  ASSUME IInv, NEW result \in Answers, SettleManual(result)
  PROVE  [Abs!Next]_cmd
<1>1. CASE waiter = NoCommand
  BY <1>1 DEF SettleManual
<1>2. CASE waiter # NoCommand
  <2>1. waiter \in Commands /\ cmd[waiter].at = "waiting" /\ cmd' = [cmd EXCEPT ![waiter] = result]
    BY <1>2 DEF SettleManual, IInv, TypeOK, CommandInv, NoStrandedCommand
  <2>2. Abs!Answer(waiter)
    BY <2>1 DEF Abs!Answer, Abs!Answers, Abs!At, Abs!Doc, Abs!None, Answers, Failed, SeedWith
  <2> QED
    BY <2>1, <2>2 DEF Abs!Next
<1> QED
  BY <1>1, <1>2

LEMMA StartAnswers ==
  ASSUME IInv, NEW c \in Commands, MayStart(c), StartManual(c)
  PROVE  [Abs!Next]_cmd
<1>0. TypeOK /\ NoStrandedCommand
  BY DEF IInv, CommandInv
<1>1. (\E v \in Answers : cmd' = [cmd EXCEPT ![c] = v]) \/ Waits(c)
  BY <1>0 DEF StartManual, ManualFinishes, ManualJoins, ManualDemandsNow, ManualWaitsForSettle,
              Answers, TypeOK, CycleType
<1>2. CASE waiter = NoCommand /\ cmd[c].at = "new"
  <2>1. Abs!Waiting = {}
    BY <1>0, <1>2, CommandsAssumption DEF Abs!Waiting, NoStrandedCommand, CommandsAssumption
  <2>2. Abs!Accept(c)
    BY <1>1, <1>2, <2>1
       DEF Abs!Accept, Abs!Answers, Abs!At, Abs!Doc, Abs!None, Answers, Failed, SeedWith, Waits
  <2> QED
    BY <2>2 DEF Abs!Next
<1>3. CASE waiter = c
  <2>1. cmd[c].at = "waiting"
    BY <1>0, <1>3 DEF NoStrandedCommand
  <2>2. CASE Waits(c)
    BY <1>0, <2>1, <2>2 DEF Waits, TypeOK, CmdType
  <2>3. CASE \E v \in Answers : cmd' = [cmd EXCEPT ![c] = v]
    BY <2>1, <2>3
       DEF Abs!Next, Abs!Answer, Abs!Answers, Abs!At, Abs!Doc, Abs!None, Answers, Failed, SeedWith
  <2> QED
    BY <1>1, <2>2, <2>3
<1> QED
  BY <1>2, <1>3 DEF MayStart

LEMMA RefinementStep == IInv /\ [Next]_vars => [Abs!Next]_cmd
<1> SUFFICES ASSUME IInv, [Next]_vars PROVE [Abs!Next]_cmd
  OBVIOUS
<1>0. TypeOK /\ NoStrandedCommand /\ Failed \in Answers
  BY DEF IInv, CommandInv, Answers
<1>1. CASE \E result \in Answers : SettleManual(result)
  BY <1>1, SettleAnswers
<1>2. CASE UNCHANGED cmd
  BY <1>2
<1>3. ASSUME NEW s \in Stops, NEW level \in Levels, MessageEnd(s, level) PROVE [Abs!Next]_cmd
  BY <1>0, <1>1, <1>2, <1>3
     DEF MessageEnd, MessageNoted, MessageResetsShrunk, MessageOpensCycle, MessageAdvancesDemand,
         MessageGraced, MessageHitsHardCap, ResetCycle
<1>4. CASE Draft
  BY <1>0, <1>1, <1>2, <1>4 DEF Draft, DraftWritten, DraftDeferred, DraftFellBack, ResetCycle
<1>5. ASSUME NEW level \in Levels, NEW outcome \in {"completed", "error"}, TurnEnd(level, outcome)
      PROVE  [Abs!Next]_cmd
  <2>1. ASSUME NEW txt, HandOver(txt), txt \in Authors PROVE [Abs!Next]_cmd
    BY <1>1, <2>1 DEF HandOver, ResetCycle, Answers
  <2>2. ASSUME NEW txt, CommitMarker(txt) PROVE [Abs!Next]_cmd
    BY <1>0, <1>1, <2>2 DEF CommitMarker, ResetCycle
  <2>3. CASE TurnCommitsStaged
    BY <2>1, <2>2, <2>3 DEF TurnCommitsStaged, FromCycle
  <2>4. CASE EvaluateTurnEnd(level)
    <3>1. CASE TurnCollects /\ cycle.doc # "none"
      BY <1>0, <2>1, <2>2, <3>1 DEF TurnCollects, TypeOK, CycleType
    <3>2. CASE ~(TurnCollects /\ cycle.doc # "none")
      BY <1>2, <2>4, <3>2
         DEF EvaluateTurnEnd, TurnCommitsDemand, TurnReminds, TurnExhausts, TurnStoppedSilently,
             TurnLeavesCycle, DecideTurnEnd, DecideVerification, DecideSilentStop
    <3> QED
      BY <3>1, <3>2
  <2>5. CASE TurnFailed \/ TurnDiscardsStale
    BY <1>2, <2>5 DEF TurnFailed, TurnDiscardsStale
  <2> QED
    BY <1>5, <2>3, <2>4, <2>5 DEF TurnEnd
<1>6. CASE Settled
  BY <1>0, <1>1, <1>2, <1>6 DEF Settled, FailManual
<1>7. ASSUME NEW c \in Commands, HandoffTyped(c) PROVE [Abs!Next]_cmd
  <2>1. CASE waiter = NoCommand
    BY <1>7, <2>1, StartAnswers DEF HandoffTyped, MayStart
  <2>2. CASE waiter # NoCommand
    <3>1. waiter \in Abs!Waiting
      BY <1>0, <2>2 DEF Abs!Waiting, TypeOK, NoStrandedCommand
    <3> QED
      BY <1>7, <2>2, <3>1 DEF HandoffTyped, Abs!Next, Abs!Refuse
  <2> QED
    BY <2>1, <2>2
<1>8. ASSUME NEW c \in Commands, ResumeWhenIdle(c) PROVE [Abs!Next]_cmd
  BY <1>2, <1>8, StartAnswers DEF ResumeWhenIdle, MayStart
<1>9. CASE SessionReplaced \/ \E c \in Commands : SeedNewSession(c)
  BY <1>9 DEF SessionReplaced, SeedNewSession, NewSession, Abs!Next, Abs!Seed, Abs!SessionEnds,
              Abs!At, Abs!None, Failed
<1>10. CASE \/ ExecuteHandoff \/ BeforeSettle \/ ToolsDone \/ TurnEndLost \/ Prompt
            \/ MessageQueued \/ Esc \/ Retry \/ CompactionStarts \/ CompactionEnds
            \/ UNCHANGED vars
  BY <1>2, <1>10
     DEF ExecuteHandoff, BeforeSettle, ToolsDone, TurnEndLost, Prompt, MessageQueued, Esc, Retry,
         CompactionStarts, CompactionEnds, vars
<1> QED
  BY <1>3, <1>4, <1>5, <1>6, <1>7, <1>8, <1>9, <1>10 DEF Next, Extension, Environment

(* The cycle keeps what /handoff promises: one command at a time, answered once,
   seeded by a document. *)
THEOREM Implements == Spec => AbsSpec
<1>1. Init => Abs!Init
  BY DEF Init, Abs!Init, Abs!At, Abs!None
<1>2. IInv /\ [Next]_vars => [Abs!Next]_cmd
  BY RefinementStep
<1> QED
  BY <1>1, <1>2, Invariant, PTL DEF Spec, AbsSpec, Abs!Spec
=============================================================================
