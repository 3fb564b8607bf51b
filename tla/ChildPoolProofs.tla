---------------------------- MODULE ChildPoolProofs ----------------------------
(***************************************************************************)
(* Theorems about ChildPool for any number of calls, children, sessions,   *)
(* slots and shutdowns.                                                    *)
(***************************************************************************)
EXTENDS ChildPool, FiniteSetTheorems, TLAPS

USE DEF Kinds, Places

-----------------------------------------------------------------------------
(* Constants *)

LEMMA ConstantFacts ==
  /\ 0 \notin Sessions /\ 0 \notin Ids /\ NoRoot \notin Roots
  /\ IsFiniteSet(Calls)
  /\ MaxResets \in Nat /\ MaxFinished \in Nat
  /\ \A kind \in Kinds : Limit(kind) \in Nat \ {0}
<1>1. IsFiniteSet(Calls)
  BY PoolAssumption, FS_Interval DEF PoolAssumption, Calls
<1> QED
  BY <1>1, PoolAssumption DEF PoolAssumption, Sessions, Ids, Roots, Limit

-----------------------------------------------------------------------------
(* The helpers of the actions, field by field *)

(* A call moves on; nothing else of it changes. *)
OnlyMoves(c, place) ==
  /\ call' \in [Calls -> CallType]
  /\ \A d \in Calls :
       /\ d # c => call'[d] = call[d]
       /\ call'[d].pc = IF d = c THEN place ELSE call[d].pc
       /\ call'[d].kind = call[d].kind /\ call'[d].sess = call[d].sess /\ call'[d].by = call[d].by
       /\ call'[d].main = call[d].main /\ call'[d].epoch = call[d].epoch

LEMMA GoesMoves ==
  ASSUME PoolTypeOK, NEW c \in Calls, NEW place \in Places, Goes(c, place)
  PROVE  OnlyMoves(c, place)
BY DEF PoolTypeOK, Goes, CallType, OnlyMoves

SessionBecomes(s, st) ==
  /\ sess' \in [Sessions -> SessType]
  /\ \A t \in Sessions :
       /\ sess'[t].st = IF t = s THEN st ELSE sess[t].st
       /\ sess'[t].id = sess[t].id /\ sess'[t].born = sess[t].born

LEMMA StatusBecomes ==
  ASSUME PoolTypeOK, NEW s \in Sessions, NEW st \in {"idle", "queued", "busy"},
         sess' = [sess EXCEPT ![s].st = st]
  PROVE  SessionBecomes(s, st)
BY DEF PoolTypeOK, SessType, SessionBecomes

RunningBecomes(s, flag) ==
  /\ live' \in [Ids -> RecordType] /\ order' = order
  /\ LiveIds' = LiveIds /\ LiveIds \subseteq Ids
  /\ \A id \in Ids :
       /\ live'[id].sess = live[id].sess
       /\ live'[id].running = IF live[id].sess = s THEN flag ELSE live[id].running

LEMMA SetRunningFacts ==
  ASSUME PoolTypeOK, NEW s, NEW flag \in BOOLEAN, SetRunning(s, flag)
  PROVE  RunningBecomes(s, flag)
BY DEF PoolTypeOK, RecordType, SetRunning, RunningBecomes, LiveIds

(* What the invariant says of a call in flight. *)
LEMMA InHand ==
  ASSUME PoolInv, NEW c \in Calls, call[c].pc # "off"
  PROVE  /\ call[c].sess \in Sessions /\ call[c].kind \in Kinds
         /\ call[c].main \in Mains /\ call[c].by \in Sessions \cup {0}
         /\ call[c].epoch \in 0..MaxResets /\ call[c].epoch <= epoch
         /\ Works(c) => sess[call[c].sess].id \in Ids /\ sess[call[c].sess].st # "gone"
BY ConstantFacts
   DEF PoolInv, PoolTypeOK, CallType, SessType, CallsHoldSessions, HoldsSession, SessionsHaveChildren,
       Works, Driving, IsIdle

LEMMA Ranges ==
  ASSUME PoolTypeOK
  PROVE  /\ \A c \in Calls : call[c].sess \in Sessions \cup {0} /\ call[c].by \in Sessions \cup {0}
         /\ \A s \in Sessions : sess[s].id \in Ids \cup {0}
         /\ \A id \in Ids : live[id].sess \in Sessions \cup {0}
         /\ \A id \in LiveIds : id \in Ids /\ live[id].sess \in Sessions
BY DEF PoolTypeOK, CallType, SessType, RecordType, LiveIds

(* A call that stops driving marks its record. *)
LEMMA StopsDriving ==
  ASSUME RunningIsDriven, OneWorker, NEW c \in Calls, Driving(c),
         OnlyMoves(c, "return"), RunningBecomes(call[c].sess, FALSE)
  PROVE  RunningIsDriven'
<1>1. \A d \in Calls : Driving(d)' <=> Driving(d) /\ d # c
  BY DEF Driving, OnlyMoves
<1>2. \A d \in Calls : call'[d].sess = call[d].sess
  BY DEF OnlyMoves
<1>3. \A d, e \in Calls : Driving(d)' /\ Driving(e)' /\ call'[d].sess = call'[e].sess => d = e
  BY <1>1, <1>2 DEF RunningIsDriven
<1>4. ASSUME NEW id \in LiveIds
      PROVE  live'[id].running <=> \E d \in Calls : Driving(d)' /\ call'[d].sess = live'[id].sess
  <2>1. /\ live'[id].sess = live[id].sess
        /\ live'[id].running = IF live[id].sess = call[c].sess THEN FALSE ELSE live[id].running
    BY DEF RunningBecomes
  <2>2. CASE live[id].sess = call[c].sess
    BY <1>1, <1>2, <2>1, <2>2 DEF OneWorker, Works
  <2>3. CASE live[id].sess # call[c].sess
    BY <1>1, <1>2, <2>1, <2>3 DEF RunningIsDriven
  <2> QED
    BY <2>2, <2>3
<1>5. LiveIds' = LiveIds
  BY DEF RunningBecomes
<1> QED
  BY <1>3, <1>4, <1>5 DEF RunningIsDriven

(* No reservation is made or lost that still counts, and no session opened. *)
LEMMA ReservationsStay ==
  ASSUME ReservationsHold, ~strays, LiveIds' \subseteq LiveIds,
         \A c \in Calls : Reserves(c)' =>
           /\ Reserves(c) /\ call'[c].pc = call[c].pc
           /\ sess'[call'[c].sess].id = sess[call[c].sess].id
           /\ sess[call[c].sess].id \in reopening => sess[call[c].sess].id \in reopening',
         \A s \in Sessions : Open(s)' /\ sess'[s].st # "opening" =>
           /\ Open(s) /\ sess[s].st # "opening" /\ sess'[s].id = sess[s].id
           /\ live'[sess[s].id].sess = live[sess[s].id].sess
  PROVE  ReservationsHold'
<1>1. \A c \in Calls : Reserves(c)' =>
        /\ sess'[call'[c].sess].id \in reopening'
        /\ call'[c].pc = "opening" => sess'[call'[c].sess].id \notin LiveIds'
  BY DEF ReservationsHold
<1>2. \A c, d \in Calls :
        Reserves(c)' /\ Reserves(d)' /\ sess'[call'[c].sess].id = sess'[call'[d].sess].id => c = d
  BY DEF ReservationsHold
<1>3. \A s \in Sessions : Open(s)' /\ sess'[s].st # "opening" => live'[sess'[s].id].sess = s
  BY DEF ReservationsHold
<1> QED
  BY <1>1, <1>2, <1>3 DEF ReservationsHold

-----------------------------------------------------------------------------
(* Slots *)

LEMMA SlotsStay ==
  ASSUME SlotsAreCounted, UNCHANGED <<active, epoch>>,
         \A c \in Calls :
           /\ call'[c].pc = "off" <=> call[c].pc = "off"
           /\ call'[c].kind = call[c].kind /\ call'[c].epoch = call[c].epoch
  PROVE  SlotsAreCounted'
<1>1. \A kind \in Kinds : Holders(kind)' = Holders(kind)
  BY DEF Holders
<1> QED
  BY <1>1 DEF SlotsAreCounted

LEMMA HoldersFinite == \A kind : IsFiniteSet(Holders(kind)) /\ Cardinality(Holders(kind)) \in Nat
<1> TAKE kind
<1>1. Holders(kind) \subseteq Calls
  BY DEF Holders
<1> QED
  BY <1>1, ConstantFacts, FS_Subset, FS_CardinalityType

(* The slot goes back to the group it was taken of, if that is still there. *)
LEMMA FreeSlotFacts ==
  ASSUME PoolInv, NEW c \in Calls, call[c].pc # "off", FreeSlot(c), UNCHANGED epoch
  PROVE  /\ call' \in [Calls -> CallType] /\ call'[c] = Idle
         /\ \A d \in Calls : d # c => call'[d] = call[d]
         /\ active' \in [Kinds -> Nat] /\ \A kind \in Kinds : active'[kind] <= Limit(kind)
         /\ SlotsAreCounted'
<1> DEFINE k == call[c].kind
<1>0. PoolTypeOK /\ SlotsAreCounted
  BY DEF PoolInv
<1>1. call' = [call EXCEPT ![c] = Idle] /\ Idle \in CallType
  BY ConstantFacts DEF FreeSlot, Idle, CallType
<1>2. /\ call' \in [Calls -> CallType] /\ call'[c] = Idle
      /\ \A d \in Calls : d # c => call'[d] = call[d]
  BY <1>0, <1>1 DEF PoolTypeOK
<1>3. k \in Kinds
  BY InHand
<1>4. \A kind \in Kinds :
        Holders(kind)' = IF kind = k /\ call[c].epoch = epoch THEN Holders(kind) \ {c} ELSE Holders(kind)
  BY <1>2 DEF Holders, Idle
<1>5. call[c].epoch = epoch => c \in Holders(k)
  BY DEF Holders
<1>6. CASE call[c].epoch = epoch
  <2>1. Cardinality(Holders(k) \ {c}) = Cardinality(Holders(k)) - 1
    BY <1>5, <1>6, HoldersFinite, FS_RemoveElement
  <2>2. Cardinality(Holders(k) \ {c}) \in Nat
    BY HoldersFinite, FS_RemoveElement, FS_CardinalityType
  <2>3. active' = [active EXCEPT ![k] = @ - 1]
    BY <1>6 DEF FreeSlot
  <2>4. active[k] = Cardinality(Holders(k)) /\ active[k] \in Nat
    BY <1>0, <1>3 DEF SlotsAreCounted, PoolTypeOK
  <2>5. \A kind \in Kinds : active'[kind] = IF kind = k THEN active[k] - 1 ELSE active[kind]
    BY <1>0, <1>3, <2>3 DEF PoolTypeOK
  <2>6. active[k] - 1 \in Nat /\ active[k] - 1 <= active[k]
    BY <2>1, <2>2, <2>4
  <2>7. active' \in [Kinds -> Nat]
    BY <1>0, <2>3, <2>6 DEF PoolTypeOK
  <2>8. \A kind \in Kinds : active'[kind] <= Limit(kind)
    BY <1>0, <1>3, <2>4, <2>5, <2>6, ConstantFacts DEF PoolTypeOK
  <2>9. SlotsAreCounted'
    BY <1>0, <1>4, <1>6, <2>1, <2>4, <2>5 DEF SlotsAreCounted
  <2> QED
    BY <1>2, <2>7, <2>8, <2>9
<1>7. CASE call[c].epoch # epoch
  <2>1. active' = active
    BY <1>7 DEF FreeSlot
  <2>2. SlotsAreCounted'
    BY <1>0, <1>4, <1>7, <2>1 DEF SlotsAreCounted
  <2> QED
    BY <1>0, <1>2, <2>1, <2>2 DEF PoolTypeOK
<1> QED
  BY <1>6, <1>7

(* A slot is taken of a group that has one. *)
LEMMA TakeSlotFacts ==
  ASSUME PoolInv, UNCHANGED epoch,
         NEW c \in Calls, NEW kind \in Kinds, NEW by \in Sessions \cup {0},
         NEW place \in Places \ {"off"}, NEW s \in Sessions, TakeSlot(c, kind, by, place, s)
  PROVE  /\ call[c].pc = "off"
         /\ call' \in [Calls -> CallType]
         /\ call'[c] = [pc |-> place, kind |-> kind, sess |-> s, by |-> by, main |-> main,
                        epoch |-> epoch, aborted |-> FALSE]
         /\ \A d \in Calls : d # c => call'[d] = call[d]
         /\ active' \in [Kinds -> Nat] /\ \A k \in Kinds : active'[k] <= Limit(k)
         /\ SlotsAreCounted'
<1> DEFINE new == [pc |-> place, kind |-> kind, sess |-> s, by |-> by, main |-> main,
                   epoch |-> epoch, aborted |-> FALSE]
<1>0. PoolTypeOK /\ SlotsAreCounted
  BY DEF PoolInv
<1>1. /\ call[c].pc = "off" /\ active[kind] < Limit(kind)
      /\ active' = [active EXCEPT ![kind] = @ + 1] /\ call' = [call EXCEPT ![c] = new]
  BY DEF TakeSlot
<1>2. new \in CallType
  BY <1>0 DEF PoolTypeOK, CallType
<1>3. call' \in [Calls -> CallType] /\ call'[c] = new /\ \A d \in Calls : d # c => call'[d] = call[d]
  BY <1>0, <1>1, <1>2 DEF PoolTypeOK
<1>4. /\ active' \in [Kinds -> Nat] /\ active[kind] \in Nat
      /\ \A k \in Kinds : active'[k] = IF k = kind THEN active[k] + 1 ELSE active[k]
  BY <1>0, <1>1 DEF PoolTypeOK
<1>5. \A k \in Kinds : active'[k] <= Limit(k)
  BY <1>0, <1>1, <1>4, ConstantFacts DEF PoolTypeOK
<1>6. \A k \in Kinds : Holders(k)' = IF k = kind THEN Holders(k) \cup {c} ELSE Holders(k)
  BY <1>1, <1>3 DEF Holders
<1>7. Cardinality(Holders(kind) \cup {c}) = Cardinality(Holders(kind)) + 1
  <2>1. c \notin Holders(kind)
    BY <1>1 DEF Holders
  <2> QED
    BY <2>1, HoldersFinite, FS_AddElement
<1>8. SlotsAreCounted'
  BY <1>0, <1>4, <1>6, <1>7 DEF SlotsAreCounted
<1> QED
  BY <1>1, <1>3, <1>4, <1>5, <1>8

-----------------------------------------------------------------------------
(* Each step restores the invariant *)

LEMMA InitInv == Init => PoolInv
<1> SUFFICES ASSUME Init PROVE PoolInv
  OBVIOUS
<1>1. /\ \A c \in Calls : call[c] = Idle
      /\ \A s \in Sessions : sess[s] = Unused
      /\ LiveIds = {} /\ \A id \in Ids : kindOf[id] = "none" /\ rootOf[id] = NoRoot
  BY ConstantFacts DEF Init, LiveIds, NoRecord
<1>2. PoolTypeOK
  <2>1. Idle \in CallType /\ Unused \in SessType /\ NoRecord \in RecordType
    BY ConstantFacts DEF Idle, CallType, Unused, SessType, NoRecord, RecordType
  <2>2. active \in [Kinds -> Nat] /\ \A kind \in Kinds : active[kind] <= Limit(kind)
    BY ConstantFacts DEF Init
  <2>3. call \in [Calls -> CallType] /\ sess \in [Sessions -> SessType] /\ live \in [Ids -> RecordType]
    BY <2>1 DEF Init
  <2>4. /\ kindOf \in [Ids -> Kinds \cup {"none"}] /\ rootOf \in [Ids -> Roots \cup {NoRoot}]
        /\ epoch \in 0..MaxResets
    BY ConstantFacts DEF Init
  <2> QED
    BY <2>2, <2>3, <2>4 DEF Init, PoolTypeOK
<1>3. RunningIsDriven /\ OneWorker /\ CallersWork
  BY <1>1 DEF RunningIsDriven, OneWorker, CallersWork, Works, Driving, InFlight, Idle
<1>8. CallsHoldSessions
  <2>1. \A c \in Calls : call[c].pc = "off"
    BY <1>1 DEF Idle
  <2> QED
    BY <1>1, <2>1 DEF CallsHoldSessions, HoldsSession
<1>4. SessionsHaveChildren
  BY <1>1 DEF SessionsHaveChildren, Unused
<1>5. RowsComeFirst /\ LiveChildrenAreOpen
  BY <1>1, ConstantFacts DEF Init, RowsComeFirst, LiveChildrenAreOpen, Unused
<1>6. ReservationsHold
  BY <1>1 DEF ReservationsHold, Reserves, Open, Idle, Unused
<1>7. SlotsAreCounted
  <2>1. \A kind \in Kinds : Holders(kind) = {}
    BY <1>1 DEF Holders, Idle
  <2> QED
    BY <2>1, FS_EmptySet DEF Init, SlotsAreCounted
<1> QED
  BY <1>2, <1>3, <1>4, <1>5, <1>6, <1>7, <1>8 DEF PoolInv

LEMMA RunStartsInv == ASSUME PoolInv, NEW c \in Calls, RunStarts(c) PROVE PoolInv'
<1> DEFINE s == call[c].sess
<1>0. PoolTypeOK /\ OneWorker /\ CallsHoldSessions /\ SessionsHaveChildren
  BY DEF PoolInv
<1>1. /\ call[c].pc = "claimed" /\ s \in Sessions /\ sess[s].id \in Ids /\ IsIdle(s)
  BY <1>0, InHand DEF RunStarts, CallsHoldSessions, HoldsSession, Works, Driving
<1>2. /\ OnlyMoves(c, "running") /\ SessionBecomes(s, "busy")
      /\ onDisk' = onDisk \cup {sess[s].id}
      /\ UNCHANGED <<live, order, evicted, reopening, active, kindOf, rootOf, main, epoch, strays, expired>>
  BY <1>0, <1>1, GoesMoves, StatusBecomes DEF RunStarts, registry, where
<1> HIDE DEF s
<1>3. PoolTypeOK'
  BY <1>0, <1>1, <1>2 DEF PoolTypeOK, OnlyMoves, SessionBecomes
<1>4. RunningIsDriven'
  BY <1>1, <1>2 DEF PoolInv, RunningIsDriven, Driving, LiveIds, OnlyMoves
<1>5. OneWorker'
  BY <1>0, <1>1, <1>2 DEF OneWorker, Works, Driving, OnlyMoves
<1>6. CallsHoldSessions'
  <2> SUFFICES ASSUME NEW d \in Calls PROVE HoldsSession(d)'
    BY DEF CallsHoldSessions
  <2> QED
    BY <1>0, <1>1, <1>2 DEF OneWorker, CallsHoldSessions, HoldsSession, Works, Driving, IsIdle, s,
                            PoolTypeOK, CallType, OnlyMoves, SessionBecomes
<1>7. CallersWork'
  BY <1>0, <1>1, <1>2 DEF PoolInv, CallersWork, InFlight, PoolTypeOK, CallType, OnlyMoves, SessionBecomes
<1>8. SessionsHaveChildren'
  BY <1>0, <1>1, <1>2 DEF SessionsHaveChildren, IsIdle, s, OnlyMoves, SessionBecomes
<1>9. RowsComeFirst'
  BY <1>0, <1>1, <1>2 DEF PoolInv, RowsComeFirst, LiveIds, SessionsHaveChildren, IsIdle, SessionBecomes
<1>10. LiveChildrenAreOpen'
  BY <1>0, <1>1, <1>2 DEF PoolInv, PoolTypeOK, RecordType, LiveChildrenAreOpen, LiveIds, SessionBecomes
<1>11. ReservationsHold'
  <2>1. \A d \in Calls : Reserves(d)' => Reserves(d) /\ call[d].sess \in Sessions
    BY <1>0, <1>1, <1>2, InHand DEF Reserves, IsReopen, OnlyMoves, SessionBecomes
  <2> QED
    BY <1>0, <1>1, <1>2, <2>1
       DEF PoolInv, ReservationsHold, Open, LiveIds, IsIdle, OnlyMoves, SessionBecomes
<1>12. SlotsAreCounted'
  BY <1>1, <1>2, SlotsStay DEF PoolInv, OnlyMoves
<1> QED
  BY <1>3, <1>4, <1>5, <1>6, <1>7, <1>8, <1>9, <1>10, <1>11, <1>12 DEF PoolInv

LEMMA RunSkippedInv == ASSUME PoolInv, NEW c \in Calls, RunSkipped(c) PROVE PoolInv'
<1> DEFINE s == call[c].sess
<1>0. /\ PoolTypeOK /\ RunningIsDriven /\ OneWorker /\ CallsHoldSessions /\ CallersWork
      /\ SessionsHaveChildren /\ RowsComeFirst /\ LiveChildrenAreOpen /\ ReservationsHold /\ SlotsAreCounted
  BY DEF PoolInv
<1>1. call[c].pc = "claimed" /\ s \in Sessions
  BY <1>0, InHand DEF RunSkipped
<1>2. /\ OnlyMoves(c, "return") /\ RunningBecomes(s, FALSE)
      /\ UNCHANGED <<sess, evicted, reopening, active, kindOf, rootOf, onDisk, main, epoch, strays, expired>>
  BY <1>0, <1>1, GoesMoves, SetRunningFacts DEF RunSkipped, rows, where
<1> HIDE DEF s
<1>3. PoolTypeOK'
  BY <1>0, <1>1, <1>2 DEF PoolTypeOK, OnlyMoves, RunningBecomes
<1>4. RunningIsDriven'
  BY <1>0, <1>1, <1>2, StopsDriving DEF Driving, s
<1>5. OneWorker'
  BY <1>0, <1>1, <1>2 DEF OneWorker, Works, Driving, OnlyMoves
<1>6. CallsHoldSessions'
  <2> SUFFICES ASSUME NEW d \in Calls PROVE HoldsSession(d)'
    BY DEF CallsHoldSessions
  <2> QED
    BY <1>0, <1>1, <1>2, Ranges
       DEF OneWorker, CallsHoldSessions, HoldsSession, Works, Driving, IsIdle, s, OnlyMoves
<1>7. CallersWork'
  BY <1>0, <1>1, <1>2, Ranges DEF CallersWork, InFlight, OnlyMoves
<1>8. SessionsHaveChildren'
  BY <1>0, <1>1, <1>2, Ranges DEF SessionsHaveChildren, IsIdle, s, OnlyMoves
<1>9. RowsComeFirst'
  BY <1>0, <1>1, <1>2 DEF RowsComeFirst, SessionsHaveChildren, IsIdle, RunningBecomes
<1>10. LiveChildrenAreOpen'
  BY <1>0, <1>1, <1>2, Ranges DEF LiveChildrenAreOpen, RunningBecomes
<1>11. ReservationsHold'
  <2> SUFFICES ASSUME ~strays PROVE ReservationsHold'
    BY <1>0, <1>1, <1>2 DEF ReservationsHold
  <2>1. \A d \in Calls : Reserves(d)' =>
          /\ Reserves(d) /\ call'[d].pc = call[d].pc
          /\ sess'[call'[d].sess].id = sess[call[d].sess].id
          /\ sess[call[d].sess].id \in reopening => sess[call[d].sess].id \in reopening'
    BY <1>0, <1>1, <1>2, InHand DEF Reserves, IsReopen, OnlyMoves
  <2>2. \A t \in Sessions : Open(t)' /\ sess'[t].st # "opening" =>
          /\ Open(t) /\ sess[t].st # "opening" /\ sess'[t].id = sess[t].id
          /\ live'[sess[t].id].sess = live[sess[t].id].sess
    BY <1>0, <1>1, <1>2, Ranges DEF Open, SessionsHaveChildren, RunningBecomes
  <2> QED
    BY <1>0, <1>1, <1>2, <2>1, <2>2, ReservationsStay DEF RunningBecomes
<1>12. SlotsAreCounted'
  BY <1>0, <1>1, <1>2, SlotsStay DEF OnlyMoves
<1> QED
  BY <1>3, <1>4, <1>5, <1>6, <1>7, <1>8, <1>9, <1>10, <1>11, <1>12 DEF PoolInv

LEMMA CallSettlesInv == ASSUME PoolInv, NEW c \in Calls, CallSettles(c) PROVE PoolInv'
<1> DEFINE s == call[c].sess
           st == IF sess[s].st = "queued" THEN "idle" ELSE sess[s].st
<1>0. /\ PoolTypeOK /\ RunningIsDriven /\ OneWorker /\ CallsHoldSessions /\ CallersWork
      /\ SessionsHaveChildren /\ RowsComeFirst /\ LiveChildrenAreOpen /\ ReservationsHold /\ SlotsAreCounted
  BY DEF PoolInv
<1>1. /\ call[c].pc = "running" /\ s \in Sessions /\ sess[s].id \in Ids
      /\ sess[s].st \in {"idle", "queued", "busy"} /\ st \in {"idle", "busy"}
  BY <1>0, InHand DEF CallSettles, CallsHoldSessions, HoldsSession, Works, Driving
<1>2. /\ OnlyMoves(c, "return") /\ SessionBecomes(s, st) /\ RunningBecomes(s, FALSE)
      /\ UNCHANGED <<evicted, reopening, active, kindOf, rootOf, onDisk, main, epoch, strays, expired>>
  BY <1>0, <1>1, GoesMoves, StatusBecomes, SetRunningFacts DEF CallSettles, rows, where
<1>3. LiveIds' = LiveIds /\ \A id \in Ids : live'[id].sess = live[id].sess
  BY <1>2 DEF RunningBecomes
<1> HIDE DEF s, st
<1>4. PoolTypeOK'
  BY <1>0, <1>1, <1>2, <1>3 DEF PoolTypeOK, OnlyMoves, SessionBecomes, RunningBecomes
<1>5. RunningIsDriven'
  BY <1>0, <1>1, <1>2, StopsDriving DEF Driving, s
<1>6. OneWorker'
  BY <1>0, <1>1, <1>2, <1>3 DEF OneWorker, Works, Driving, OnlyMoves
<1>7. CallsHoldSessions'
  <2> SUFFICES ASSUME NEW d \in Calls PROVE HoldsSession(d)'
    BY DEF CallsHoldSessions
  <2> QED
    BY <1>0, <1>1, <1>2, <1>3, Ranges
       DEF OneWorker, CallsHoldSessions, HoldsSession, Works, Driving, IsIdle, s, st, OnlyMoves,
           SessionBecomes
<1>8. CallersWork'
  BY <1>0, <1>1, <1>2, <1>3, Ranges DEF CallersWork, InFlight, s, st, OnlyMoves, SessionBecomes
<1>9. SessionsHaveChildren'
  BY <1>0, <1>1, <1>2, <1>3, Ranges DEF SessionsHaveChildren, IsIdle, s, st, OnlyMoves, SessionBecomes
<1>10. RowsComeFirst'
  BY <1>0, <1>1, <1>2, <1>3
     DEF RowsComeFirst, SessionsHaveChildren, IsIdle, SessionBecomes, RunningBecomes
<1>11. LiveChildrenAreOpen'
  BY <1>0, <1>1, <1>2, <1>3, Ranges DEF LiveChildrenAreOpen, SessionBecomes
<1>12. ReservationsHold'
  <2> SUFFICES ASSUME ~strays PROVE ReservationsHold'
    BY <1>0, <1>1, <1>2, <1>3 DEF ReservationsHold
  <2>1. \A d \in Calls : Reserves(d)' =>
          /\ Reserves(d) /\ call'[d].pc = call[d].pc
          /\ sess'[call'[d].sess].id = sess[call[d].sess].id
          /\ sess[call[d].sess].id \in reopening => sess[call[d].sess].id \in reopening'
    BY <1>0, <1>1, <1>2, <1>3, InHand DEF Reserves, IsReopen, OnlyMoves, SessionBecomes
  <2>2. \A t \in Sessions : Open(t)' /\ sess'[t].st # "opening" =>
          /\ Open(t) /\ sess[t].st # "opening" /\ sess'[t].id = sess[t].id
          /\ live'[sess[t].id].sess = live[sess[t].id].sess
    BY <1>0, <1>1, <1>2, <1>3, Ranges DEF Open, SessionsHaveChildren, SessionBecomes
  <2> QED
    BY <1>0, <1>1, <1>2, <1>3, <2>1, <2>2, ReservationsStay DEF RunningBecomes
<1>13. SlotsAreCounted'
  BY <1>0, <1>1, <1>2, <1>3, SlotsStay DEF OnlyMoves
<1> QED
  BY <1>4, <1>5, <1>6, <1>7, <1>8, <1>9, <1>10, <1>11, <1>12, <1>13 DEF PoolInv

LEMMA ClaimsInv == ASSUME PoolInv, NEW c \in Calls, Claims(c) PROVE PoolInv'
<1> DEFINE s == call[c].sess
<1>0. /\ PoolTypeOK /\ RunningIsDriven /\ OneWorker /\ CallsHoldSessions /\ CallersWork
      /\ SessionsHaveChildren /\ RowsComeFirst /\ LiveChildrenAreOpen /\ ReservationsHold /\ SlotsAreCounted
  BY DEF PoolInv
<1>1. call[c].pc = "opened" /\ s \in Sessions /\ sess[s].id \in Ids
  BY <1>0, InHand DEF Claims, Works, Driving
<1>2. /\ OnlyMoves(c, "claimed") /\ RunningBecomes(s, TRUE) /\ reopening' = reopening \ {sess[s].id}
      /\ UNCHANGED <<sess, evicted, active, kindOf, rootOf, onDisk, main, epoch, strays, expired>>
  BY <1>0, <1>1, GoesMoves, SetRunningFacts DEF Claims, rows, where
<1> HIDE DEF s
<1>3. PoolTypeOK'
  BY <1>0, <1>1, <1>2 DEF PoolTypeOK, OnlyMoves, RunningBecomes
<1>4. RunningIsDriven'
  <2>1. \A d \in Calls : (Driving(d)' <=> Driving(d)) /\ call'[d].sess = call[d].sess
    BY <1>1, <1>2 DEF Driving, OnlyMoves
  <2>2. ASSUME NEW id \in LiveIds
        PROVE  live'[id].sess = live[id].sess /\ live'[id].running = live[id].running
    <3>1. live[id].running \in BOOLEAN /\ id \in Ids
      BY <1>0, Ranges DEF PoolTypeOK, RecordType
    <3>2. live[id].sess = s => live[id].running = TRUE
      BY <1>0, <1>1, <3>1 DEF RunningIsDriven, Driving, s
    <3> QED
      BY <1>2, <3>1, <3>2 DEF RunningBecomes
  <2>3. LiveIds' = LiveIds
    BY <1>2 DEF RunningBecomes
  <2> QED
    BY <1>0, <2>1, <2>2, <2>3 DEF RunningIsDriven
<1>5. OneWorker'
  BY <1>0, <1>1, <1>2 DEF OneWorker, Works, Driving, OnlyMoves
<1>6. CallsHoldSessions'
  <2> SUFFICES ASSUME NEW d \in Calls PROVE HoldsSession(d)'
    BY DEF CallsHoldSessions
  <2> QED
    BY <1>0, <1>1, <1>2, Ranges
       DEF OneWorker, CallsHoldSessions, HoldsSession, Works, Driving, IsIdle, s, OnlyMoves
<1>7. CallersWork'
  BY <1>0, <1>1, <1>2, Ranges DEF CallersWork, InFlight, OnlyMoves
<1>8. SessionsHaveChildren'
  BY <1>0, <1>1, <1>2, Ranges DEF SessionsHaveChildren, IsIdle, s, OnlyMoves
<1>9. RowsComeFirst'
  BY <1>0, <1>1, <1>2 DEF RowsComeFirst, SessionsHaveChildren, IsIdle, RunningBecomes
<1>10. LiveChildrenAreOpen'
  BY <1>0, <1>1, <1>2, Ranges DEF LiveChildrenAreOpen, RunningBecomes
<1>11. ReservationsHold'
  <2> SUFFICES ASSUME ~strays PROVE ReservationsHold'
    BY <1>0, <1>1, <1>2 DEF ReservationsHold
  <2>1. \A d \in Calls : Reserves(d)' =>
          /\ Reserves(d) /\ call'[d].pc = call[d].pc
          /\ sess'[call'[d].sess].id = sess[call[d].sess].id
          /\ sess[call[d].sess].id \in reopening => sess[call[d].sess].id \in reopening'
    BY <1>0, <1>1, <1>2, InHand DEF Reserves, IsReopen, ReservationsHold, s, OnlyMoves
  <2>2. \A t \in Sessions : Open(t)' /\ sess'[t].st # "opening" =>
          /\ Open(t) /\ sess[t].st # "opening" /\ sess'[t].id = sess[t].id
          /\ live'[sess[t].id].sess = live[sess[t].id].sess
    BY <1>0, <1>1, <1>2, Ranges DEF Open, SessionsHaveChildren, RunningBecomes
  <2> QED
    BY <1>0, <1>1, <1>2, <2>1, <2>2, ReservationsStay DEF RunningBecomes
<1>12. SlotsAreCounted'
  BY <1>0, <1>1, <1>2, SlotsStay DEF OnlyMoves
<1> QED
  BY <1>3, <1>4, <1>5, <1>6, <1>7, <1>8, <1>9, <1>10, <1>11, <1>12 DEF PoolInv

LEMMA FollowUpInv == ASSUME PoolInv, NEW c \in Calls, FollowUp(c) PROVE PoolInv'
<1> DEFINE s == call[c].sess
<1>0. /\ PoolTypeOK /\ RunningIsDriven /\ OneWorker /\ CallsHoldSessions /\ CallersWork
      /\ SessionsHaveChildren /\ RowsComeFirst /\ LiveChildrenAreOpen /\ ReservationsHold /\ SlotsAreCounted
  BY DEF PoolInv
<1>1. call[c].pc = "running" /\ s \in Sessions /\ sess[s].id \in Ids /\ sess[s].st = "queued"
  BY <1>0, InHand DEF FollowUp, Works, Driving
<1>2. /\ SessionBecomes(s, "busy")
      /\ UNCHANGED <<call, live, order, evicted, reopening, active, kindOf, rootOf, onDisk, main, epoch, strays, expired>>
  BY <1>0, <1>1, StatusBecomes DEF FollowUp, registry, rows, where
<1> HIDE DEF s
<1>3. PoolTypeOK'
  BY <1>0, <1>1, <1>2 DEF PoolTypeOK, SessionBecomes
<1>4. RunningIsDriven'
  BY <1>0, <1>1, <1>2, Ranges DEF RunningIsDriven, Driving, LiveIds
<1>5. OneWorker'
  BY <1>0, <1>1, <1>2 DEF OneWorker, Works, Driving
<1>6. CallsHoldSessions'
  <2> SUFFICES ASSUME NEW d \in Calls PROVE HoldsSession(d)'
    BY DEF CallsHoldSessions
  <2> QED
    BY <1>0, <1>1, <1>2, Ranges
       DEF OneWorker, CallsHoldSessions, HoldsSession, Works, Driving, IsIdle, s, SessionBecomes
<1>7. CallersWork'
  BY <1>0, <1>1, <1>2, Ranges DEF CallersWork, InFlight, SessionBecomes
<1>8. SessionsHaveChildren'
  BY <1>0, <1>1, <1>2, Ranges DEF SessionsHaveChildren, IsIdle, s, SessionBecomes
<1>9. RowsComeFirst'
  BY <1>0, <1>1, <1>2 DEF RowsComeFirst, SessionsHaveChildren, IsIdle, LiveIds, SessionBecomes
<1>10. LiveChildrenAreOpen'
  BY <1>0, <1>1, <1>2, Ranges DEF LiveChildrenAreOpen, LiveIds, SessionBecomes
<1>11. ReservationsHold'
  <2> SUFFICES ASSUME ~strays PROVE ReservationsHold'
    BY <1>0, <1>1, <1>2 DEF ReservationsHold
  <2>1. \A d \in Calls : Reserves(d)' =>
          /\ Reserves(d) /\ call'[d].pc = call[d].pc
          /\ sess'[call'[d].sess].id = sess[call[d].sess].id
          /\ sess[call[d].sess].id \in reopening => sess[call[d].sess].id \in reopening'
    BY <1>0, <1>1, <1>2, InHand DEF Reserves, IsReopen, SessionBecomes
  <2>2. \A t \in Sessions : Open(t)' /\ sess'[t].st # "opening" =>
          /\ Open(t) /\ sess[t].st # "opening" /\ sess'[t].id = sess[t].id
          /\ live'[sess[t].id].sess = live[sess[t].id].sess
    BY <1>0, <1>1, <1>2, Ranges DEF Open, SessionsHaveChildren, SessionBecomes
  <2> QED
    BY <1>0, <1>1, <1>2, <2>1, <2>2, ReservationsStay DEF LiveIds
<1>12. SlotsAreCounted'
  BY <1>0, <1>1, <1>2, SlotsStay DEF PoolInv
<1> QED
  BY <1>3, <1>4, <1>5, <1>6, <1>7, <1>8, <1>9, <1>10, <1>11, <1>12 DEF PoolInv

LEMMA SessionRestsInv == ASSUME PoolInv, NEW s \in Sessions, SessionRests(s) PROVE PoolInv'
<1> DEFINE st == sess'[s].st
<1>0. /\ PoolTypeOK /\ RunningIsDriven /\ OneWorker /\ CallsHoldSessions /\ CallersWork
      /\ SessionsHaveChildren /\ RowsComeFirst /\ LiveChildrenAreOpen /\ ReservationsHold /\ SlotsAreCounted
  BY DEF PoolInv
<1>1. sess[s].st = "busy" /\ \A c \in Calls : InFlight(c) => call[c].by # s
  BY DEF SessionRests
<1>2. /\ SessionBecomes(s, st) /\ st \in {"idle", "queued"} /\ expired' = expired \ {s}
      /\ UNCHANGED <<call, live, order, evicted, reopening, active, kindOf, rootOf, onDisk, main, epoch, strays>>
  BY <1>0, <1>1, StatusBecomes DEF SessionRests, registry, rows, where, PoolTypeOK, SessionBecomes
<1> HIDE DEF st
<1>3. PoolTypeOK'
  BY <1>0, <1>1, <1>2 DEF PoolTypeOK, SessionBecomes
<1>4. RunningIsDriven'
  BY <1>0, <1>1, <1>2, Ranges DEF RunningIsDriven, Driving, LiveIds
<1>5. OneWorker'
  BY <1>0, <1>1, <1>2 DEF OneWorker, Works, Driving
<1>6. CallsHoldSessions'
  <2> SUFFICES ASSUME NEW d \in Calls PROVE HoldsSession(d)'
    BY DEF CallsHoldSessions
  <2> QED
    BY <1>0, <1>1, <1>2, Ranges
       DEF OneWorker, CallsHoldSessions, HoldsSession, Works, Driving, IsIdle, st, SessionBecomes
<1>7. CallersWork'
  BY <1>0, <1>1, <1>2, Ranges DEF CallersWork, InFlight, SessionBecomes
<1>8. SessionsHaveChildren'
  BY <1>0, <1>1, <1>2, Ranges DEF SessionsHaveChildren, IsIdle, st, SessionBecomes
<1>9. RowsComeFirst'
  BY <1>0, <1>1, <1>2 DEF RowsComeFirst, SessionsHaveChildren, IsIdle, LiveIds, SessionBecomes
<1>10. LiveChildrenAreOpen'
  BY <1>0, <1>1, <1>2, Ranges DEF LiveChildrenAreOpen, LiveIds, SessionBecomes
<1>11. ReservationsHold'
  <2> SUFFICES ASSUME ~strays PROVE ReservationsHold'
    BY <1>0, <1>1, <1>2 DEF ReservationsHold
  <2>1. \A d \in Calls : Reserves(d)' =>
          /\ Reserves(d) /\ call'[d].pc = call[d].pc
          /\ sess'[call'[d].sess].id = sess[call[d].sess].id
          /\ sess[call[d].sess].id \in reopening => sess[call[d].sess].id \in reopening'
    BY <1>0, <1>1, <1>2, InHand DEF Reserves, IsReopen, SessionBecomes
  <2>2. \A t \in Sessions : Open(t)' /\ sess'[t].st # "opening" =>
          /\ Open(t) /\ sess[t].st # "opening" /\ sess'[t].id = sess[t].id
          /\ live'[sess[t].id].sess = live[sess[t].id].sess
    BY <1>0, <1>1, <1>2, Ranges DEF Open, SessionsHaveChildren, SessionBecomes
  <2> QED
    BY <1>0, <1>1, <1>2, <2>1, <2>2, ReservationsStay DEF LiveIds
<1>12. SlotsAreCounted'
  BY <1>0, <1>1, <1>2, SlotsStay DEF PoolInv
<1> QED
  BY <1>3, <1>4, <1>5, <1>6, <1>7, <1>8, <1>9, <1>10, <1>11, <1>12 DEF PoolInv

(* A call that drives no child any more gives its slot back. *)
LEMMA CallEndsInv ==
  ASSUME PoolInv, NEW c \in Calls, call[c].pc \in {"return", "settling"}, FreeSlot(c),
         UNCHANGED <<sess, registry, rows, where>>,
         expired' = IF Draining(c) THEN expired \cup {call[c].sess} ELSE expired
  PROVE  PoolInv'
<1>0. /\ PoolTypeOK /\ RunningIsDriven /\ OneWorker /\ CallsHoldSessions /\ CallersWork
      /\ SessionsHaveChildren /\ RowsComeFirst /\ LiveChildrenAreOpen /\ ReservationsHold /\ SlotsAreCounted
  BY DEF PoolInv
<1>1. call[c].sess \in Sessions /\ call[c].sess # 0
  BY InHand, ConstantFacts
<1>2. /\ call' \in [Calls -> CallType] /\ call'[c] = Idle
      /\ \A d \in Calls : d # c => call'[d] = call[d]
      /\ active' \in [Kinds -> Nat] /\ \A kind \in Kinds : active'[kind] <= Limit(kind)
      /\ SlotsAreCounted'
  BY FreeSlotFacts DEF where
<1>3. UNCHANGED <<sess, live, order, evicted, reopening, kindOf, rootOf, onDisk, main, epoch, strays>>
  BY DEF registry, rows, where
<1>4. \A d \in Calls : (call'[d].pc # "off" => d # c /\ call'[d] = call[d])
  BY <1>2 DEF Idle
<1>5. PoolTypeOK'
  BY <1>0, <1>1, <1>2, <1>3 DEF PoolTypeOK
<1>6. \A d \in Calls : /\ Driving(d)' <=> Driving(d)
                       /\ Driving(d)' => call'[d] = call[d]
                       /\ Works(d)' => Works(d) /\ call'[d] = call[d]
                       /\ Reserves(d)' => Reserves(d) /\ call'[d] = call[d]
  BY <1>2, <1>3 DEF Driving, Works, Reserves, IsReopen, Idle
<1>7. RunningIsDriven'
  BY <1>0, <1>3, <1>6 DEF RunningIsDriven, LiveIds
<1>8. OneWorker'
  BY <1>0, <1>6 DEF OneWorker
<1>9. CallsHoldSessions'
  <2> SUFFICES ASSUME NEW d \in Calls PROVE HoldsSession(d)'
    BY DEF CallsHoldSessions
  <2>1. CASE d = c
    BY <1>2, <2>1 DEF HoldsSession, Idle
  <2>2. CASE d # c
    BY <1>0, <1>2, <1>3, <2>2 DEF CallsHoldSessions, HoldsSession, IsIdle
  <2> QED
    BY <2>1, <2>2
<1>10. CallersWork'
  BY <1>0, <1>3, <1>4 DEF CallersWork, InFlight
<1>11. SessionsHaveChildren'
  <2>1. expired \subseteq expired' /\ (sess[call[c].sess].st = "busy" => call[c].sess \in expired')
    BY <1>1 DEF Draining
  <2> QED
    BY <1>0, <1>2, <1>3, <2>1 DEF SessionsHaveChildren
<1>12. RowsComeFirst' /\ LiveChildrenAreOpen'
  BY <1>0, <1>3 DEF RowsComeFirst, LiveChildrenAreOpen, LiveIds
<1>13. ReservationsHold'
  BY <1>0, <1>3, <1>6 DEF ReservationsHold, Open, LiveIds
<1> QED
  BY <1>2, <1>5, <1>7, <1>8, <1>9, <1>10, <1>11, <1>12, <1>13 DEF PoolInv

LEMMA ReleaseSlotInv == ASSUME PoolInv, NEW c \in Calls, ReleaseSlot(c) PROVE PoolInv'
<1>1. CASE ~Draining(c)
  BY <1>1, CallEndsInv DEF ReleaseSlot
<1>2. CASE Draining(c)
  <2>0. /\ PoolTypeOK /\ RunningIsDriven /\ OneWorker /\ CallsHoldSessions /\ CallersWork
        /\ SessionsHaveChildren /\ RowsComeFirst /\ LiveChildrenAreOpen /\ ReservationsHold /\ SlotsAreCounted
    BY DEF PoolInv
  <2>1. /\ call[c].pc = "return" /\ OnlyMoves(c, "settling")
        /\ UNCHANGED <<sess, live, order, evicted, reopening, active, kindOf, rootOf, onDisk, main, epoch,
                       strays, expired>>
    BY <1>2, <2>0, GoesMoves DEF ReleaseSlot, registry, rows, where
  <2>2. PoolTypeOK'
    BY <2>0, <2>1 DEF PoolTypeOK, OnlyMoves
  <2>3. RunningIsDriven'
    BY <2>0, <2>1 DEF RunningIsDriven, Driving, LiveIds, OnlyMoves
  <2>4. OneWorker'
    BY <2>0, <2>1 DEF OneWorker, Works, Driving, OnlyMoves
  <2>5. CallsHoldSessions'
    <3> SUFFICES ASSUME NEW d \in Calls PROVE HoldsSession(d)'
      BY DEF CallsHoldSessions
    <3> QED
      BY <2>0, <2>1 DEF CallsHoldSessions, HoldsSession, IsIdle, OnlyMoves
  <2>6. CallersWork'
    BY <2>0, <2>1 DEF CallersWork, InFlight, OnlyMoves
  <2>7. SessionsHaveChildren' /\ RowsComeFirst' /\ LiveChildrenAreOpen'
    BY <2>0, <2>1 DEF SessionsHaveChildren, RowsComeFirst, LiveChildrenAreOpen, LiveIds, OnlyMoves
  <2>8. ReservationsHold'
    BY <2>0, <2>1 DEF ReservationsHold, Reserves, IsReopen, Open, LiveIds, OnlyMoves
  <2>9. SlotsAreCounted'
    BY <2>0, <2>1, SlotsStay DEF OnlyMoves
  <2> QED
    BY <2>2, <2>3, <2>4, <2>5, <2>6, <2>7, <2>8, <2>9 DEF PoolInv
<1> QED
  BY <1>1, <1>2

LEMMA ChildSettledInv == ASSUME PoolInv, NEW c \in Calls, ChildSettled(c) PROVE PoolInv'
BY CallEndsInv DEF ChildSettled

LEMMA SlotExpiresInv == ASSUME PoolInv, NEW c \in Calls, SlotExpires(c) PROVE PoolInv'
BY CallEndsInv DEF SlotExpires

(* An abort marks calls and moves none. *)
LEMMA EscMarks ==
  ASSUME PoolTypeOK, Esc
  PROVE  /\ call' \in [Calls -> CallType]
         /\ \A d \in Calls :
              /\ call'[d].pc = call[d].pc /\ call'[d].kind = call[d].kind /\ call'[d].sess = call[d].sess
              /\ call'[d].by = call[d].by /\ call'[d].main = call[d].main /\ call'[d].epoch = call[d].epoch
              /\ call[d].pc = "off" => call'[d] = call[d]
<1>1. PICK hit \in SUBSET {d \in Calls : InFlight(d)} :
        call' = [d \in Calls |-> IF d \in hit THEN [call[d] EXCEPT !.aborted = TRUE] ELSE call[d]]
  <2> DEFINE runs == {call[c].sess : c \in {d \in {e \in Calls : ByMain(e)} : call[d].pc = "running"}}
             all  == {d \in Calls : ByMain(d) \/ (InFlight(d) /\ call[d].by \in runs)}
  <2>1. call' = [d \in Calls |-> IF d \in all THEN [call[d] EXCEPT !.aborted = TRUE] ELSE call[d]]
    BY DEF Esc
  <2>2. all \subseteq {d \in Calls : InFlight(d)}
    BY DEF ByMain
  <2> QED
    BY <2>1, <2>2
<1>2. call' \in [Calls -> CallType]
  <2>1. ASSUME NEW r \in CallType PROVE [r EXCEPT !.aborted = TRUE] \in CallType
    BY DEF CallType
  <2>2. \A d \in Calls : call[d] \in CallType
    BY DEF PoolTypeOK
  <2> QED
    BY <1>1, <2>1, <2>2
<1>3. ASSUME NEW d \in Calls
      PROVE  /\ call'[d].pc = call[d].pc /\ call'[d].kind = call[d].kind /\ call'[d].sess = call[d].sess
             /\ call'[d].by = call[d].by /\ call'[d].main = call[d].main /\ call'[d].epoch = call[d].epoch
             /\ call[d].pc = "off" => call'[d] = call[d]
  <2>1. call[d] \in CallType
    BY DEF PoolTypeOK
  <2>2. call'[d] = IF d \in hit THEN [call[d] EXCEPT !.aborted = TRUE] ELSE call[d]
    BY <1>1
  <2>3. d \in hit => call[d].pc # "off"
    BY <1>1 DEF InFlight
  <2> QED
    BY <2>1, <2>2, <2>3 DEF CallType
<1> QED
  BY <1>2, <1>3

LEMMA EscInv == ASSUME PoolInv, Esc PROVE PoolInv'
<1>0. /\ PoolTypeOK /\ RunningIsDriven /\ OneWorker /\ CallsHoldSessions /\ CallersWork
      /\ SessionsHaveChildren /\ RowsComeFirst /\ LiveChildrenAreOpen /\ ReservationsHold /\ SlotsAreCounted
  BY DEF PoolInv
<1>2. /\ call' \in [Calls -> CallType]
      /\ \A d \in Calls :
           /\ call'[d].pc = call[d].pc /\ call'[d].kind = call[d].kind /\ call'[d].sess = call[d].sess
           /\ call'[d].by = call[d].by /\ call'[d].main = call[d].main /\ call'[d].epoch = call[d].epoch
           /\ call[d].pc = "off" => call'[d] = call[d]
  BY <1>0, EscMarks
<1>3. UNCHANGED <<sess, live, order, evicted, reopening, active, kindOf, rootOf, onDisk, main, epoch,
                  strays, expired>>
  BY DEF Esc, registry, rows, where
<1>4. PoolTypeOK'
  BY <1>0, <1>2, <1>3 DEF PoolTypeOK
<1>5. RunningIsDriven' /\ OneWorker' /\ CallersWork'
  BY <1>0, <1>2, <1>3
     DEF RunningIsDriven, OneWorker, CallersWork, Works, Driving, InFlight, LiveIds
<1>6. CallsHoldSessions'
  <2> SUFFICES ASSUME NEW d \in Calls PROVE HoldsSession(d)'
    BY DEF CallsHoldSessions
  <2> QED
    BY <1>0, <1>2, <1>3 DEF CallsHoldSessions, HoldsSession, IsIdle
<1>7. SessionsHaveChildren' /\ RowsComeFirst' /\ LiveChildrenAreOpen'
  BY <1>0, <1>2, <1>3 DEF SessionsHaveChildren, RowsComeFirst, LiveChildrenAreOpen, LiveIds
<1>8. ReservationsHold'
  BY <1>0, <1>2, <1>3 DEF ReservationsHold, Reserves, IsReopen, Open, LiveIds
<1>9. SlotsAreCounted'
  BY <1>0, <1>2, <1>3, SlotsStay
<1> QED
  BY <1>4, <1>5, <1>6, <1>7, <1>8, <1>9 DEF PoolInv

-----------------------------------------------------------------------------
(* A call that starts *)

(* Eviction takes finished records, and no session that a call works with. *)
LEMMA EvictFacts ==
  ASSUME PoolInv, Remaining
  PROVE  /\ Dropped \subseteq LiveIds /\ LiveIds' = LiveIds \ Dropped
         /\ live' \in [Ids -> RecordType] /\ order' \subseteq order
         /\ \A id \in LiveIds' : live'[id] = live[id]
         /\ \A id \in Dropped : /\ IsIdle(live[id].sess) /\ live[id].sess \in Sessions
                                /\ \A c \in Calls : Works(c) => call[c].sess # live[id].sess
<1>0. PoolTypeOK /\ RunningIsDriven /\ CallsHoldSessions
  BY DEF PoolInv
<1>1. \A id \in Dropped : id \in LiveIds /\ ~live[id].running /\ IsIdle(live[id].sess)
  BY DEF Dropped, Finished
<1>2. live' = [id \in Ids |-> IF id \in Dropped THEN NoRecord ELSE live[id]] /\ order' \subseteq order
  BY DEF Remaining
<1>3. live' \in [Ids -> RecordType]
  <2>1. NoRecord \in RecordType /\ \A id \in Ids : live[id] \in RecordType
    BY <1>0 DEF NoRecord, RecordType, PoolTypeOK
  <2> QED
    BY <1>2, <2>1
<1>4. LiveIds' = LiveIds \ Dropped /\ \A id \in LiveIds' : live'[id] = live[id]
  BY <1>2 DEF LiveIds, NoRecord
<1>5. \A id \in Dropped : \A c \in Calls : Works(c) => call[c].sess # live[id].sess
  BY <1>0, <1>1 DEF RunningIsDriven, CallsHoldSessions, HoldsSession, Works, IsIdle
<1> QED
  BY <1>0, <1>1, <1>2, <1>3, <1>4, <1>5, Ranges

(* The new session, the evicted ones that are disposed of, and the others. *)
LEMMA OpeningFacts ==
  ASSUME PoolInv, Remaining, NEW s \in Sessions, NEW id \in Ids, Opening(s, id)
  PROVE  /\ sess[s].st = "gone" /\ \A c \in Calls : call[c].sess # s /\ call[c].by # s
         /\ sess' \in [Sessions -> SessType]
         /\ sess'[s].id = id /\ sess'[s].st = "opening" /\ sess'[s].born = epoch
         /\ \A t \in Sessions \ {s} :
              \/ sess'[t] = sess[t]
              \/ sess'[t] = Unused /\ IsIdle(t) /\ \A c \in Calls : Works(c) => call[c].sess # t
         /\ \A x \in LiveIds' : sess'[live[x].sess] = sess[live[x].sess]
         /\ \A x \in Dropped : sess'[live[x].sess] = Unused
<1>0. PoolTypeOK /\ LiveChildrenAreOpen
  BY DEF PoolInv
<1> DEFINE new == [id |-> id, st |-> "opening", born |-> epoch]
<1>1. /\ sess[s].st = "gone" /\ \A c \in Calls : call[c].sess # s /\ call[c].by # s
      /\ sess' = [Disposed EXCEPT ![s] = new]
  BY DEF Opening, Free
<1>2. new \in SessType /\ Unused \in SessType
  BY <1>0, ConstantFacts DEF PoolTypeOK, SessType, Unused
<1>3. Disposed \in [Sessions -> SessType]
  BY <1>0, <1>2 DEF Disposed, PoolTypeOK
<1>4. /\ sess' \in [Sessions -> SessType] /\ sess'[s] = new
      /\ \A t \in Sessions \ {s} :
           sess'[t] = IF \E x \in Dropped : live[x].sess = t THEN Unused ELSE sess[t]
  BY <1>1, <1>2, <1>3 DEF Disposed
<1>5. \A t \in Sessions \ {s} :
        \/ sess'[t] = sess[t]
        \/ sess'[t] = Unused /\ IsIdle(t) /\ \A c \in Calls : Works(c) => call[c].sess # t
  BY <1>4, EvictFacts
<1>6. ASSUME NEW x \in LiveIds' PROVE sess'[live[x].sess] = sess[live[x].sess]
  <2>1. x \in LiveIds /\ x \notin Dropped /\ Dropped \subseteq LiveIds
    BY <1>6, EvictFacts
  <2>2. live[x].sess \in Sessions /\ live[x].sess # s
    BY <1>0, <1>1, <2>1, Ranges DEF LiveChildrenAreOpen
  <2>3. \A y \in Dropped : live[y].sess # live[x].sess
    BY <1>0, <2>1 DEF LiveChildrenAreOpen
  <2> QED
    BY <1>4, <2>2, <2>3
<1>7. \A x \in Dropped : live[x].sess # s
  BY <1>1, EvictFacts DEF IsIdle
<1> QED
  BY <1>1, <1>4, <1>5, <1>6, <1>7, EvictFacts

(* A session is being created: for a new child, or for a known one that is neither live
   nor being reopened. *)
LEMMA OpeningInv ==
  ASSUME PoolInv, NEW c \in Calls, NEW kind \in Kinds, NEW by \in Sessions \cup {0},
         NEW id \in Ids, NEW s \in Sessions,
         TakeSlot(c, kind, by, "opening", s), EvictFinishedChildren, Opening(s, id),
         UNCHANGED <<rootOf, onDisk, where>>,
         id \notin LiveIds,
         \/ /\ kindOf[id] = "none" /\ kindOf' = [kindOf EXCEPT ![id] = kind]
            /\ UNCHANGED reopening
         \/ /\ kindOf[id] = kind /\ rootOf[id] # NoRoot /\ id \notin reopening
            /\ kindOf' = kindOf /\ reopening' = reopening \cup {id}
  PROVE  PoolInv'
<1>0. /\ PoolTypeOK /\ RunningIsDriven /\ OneWorker /\ CallsHoldSessions /\ CallersWork
      /\ SessionsHaveChildren /\ RowsComeFirst /\ LiveChildrenAreOpen /\ ReservationsHold /\ SlotsAreCounted
  BY DEF PoolInv
<1>1. UNCHANGED <<rootOf, onDisk, main, epoch, strays>> /\ Remaining
  BY DEF where, EvictFinishedChildren
<1>2. /\ call[c].pc = "off" /\ call' \in [Calls -> CallType]
      /\ call'[c].pc = "opening" /\ call'[c].kind = kind /\ call'[c].sess = s /\ call'[c].by = by
      /\ call'[c].main = main /\ call'[c].epoch = epoch
      /\ \A d \in Calls : d # c => call'[d] = call[d]
      /\ active' \in [Kinds -> Nat] /\ \A k \in Kinds : active'[k] <= Limit(k)
      /\ SlotsAreCounted'
  <2>1. "opening" \in Places \ {"off"}
    OBVIOUS
  <2>2. /\ call[c].pc = "off" /\ call' \in [Calls -> CallType]
        /\ call'[c] = [pc |-> "opening", kind |-> kind, sess |-> s, by |-> by, main |-> main,
                       epoch |-> epoch, aborted |-> FALSE]
        /\ \A d \in Calls : d # c => call'[d] = call[d]
        /\ active' \in [Kinds -> Nat] /\ \A k \in Kinds : active'[k] <= Limit(k)
        /\ SlotsAreCounted'
    BY <1>1, <2>1, TakeSlotFacts
  <2> QED
    BY <2>2
<1>3. /\ LiveIds' \subseteq LiveIds /\ LiveIds' \subseteq Ids /\ Dropped \subseteq LiveIds
      /\ live' \in [Ids -> RecordType] /\ order' \subseteq order
      /\ \A x \in LiveIds' : live'[x] = live[x] /\ live[x].sess \in Sessions
  BY <1>0, <1>1, EvictFacts, Ranges
<1>4. evicted' = evicted \cup Dropped /\ expired' = expired \ {s}
  BY DEF EvictFinishedChildren, Opening
<1>5. /\ sess[s].st = "gone" /\ \A d \in Calls : call[d].sess # s /\ call[d].by # s
      /\ sess' \in [Sessions -> SessType]
      /\ sess'[s].id = id /\ sess'[s].st = "opening" /\ sess'[s].born = epoch
      /\ \A t \in Sessions \ {s} :
           \/ sess'[t] = sess[t]
           \/ sess'[t] = Unused /\ IsIdle(t) /\ \A d \in Calls : Works(d) => call[d].sess # t
      /\ \A x \in LiveIds' : sess'[live[x].sess] = sess[live[x].sess]
      /\ \A x \in Dropped : sess'[live[x].sess] = Unused
  BY <1>1, OpeningFacts
<1>6. /\ kindOf' \in [Ids -> Kinds \cup {"none"}] /\ kindOf'[id] = kind
      /\ \A x \in Ids : x # id => kindOf'[x] = kindOf[x]
      /\ \A x \in Ids : kindOf[x] # "none" => kindOf'[x] = kindOf[x]
      /\ reopening \subseteq reopening' /\ reopening' \subseteq reopening \cup {id}
      /\ rootOf[id] # NoRoot => id \in reopening' /\ id \notin reopening
      /\ rootOf[id] = NoRoot => kindOf[id] = "none" /\ reopening' = reopening
  BY <1>0 DEF PoolTypeOK, RowsComeFirst
<1>7. \A d \in Calls : /\ d # c /\ Works(d) => sess'[call[d].sess] = sess[call[d].sess]
                       /\ Works(d)' => d = c \/ Works(d)
                       /\ Driving(d)' <=> Driving(d)
                       /\ Driving(d) => d # c /\ Works(d)
  <2>1. \A d \in Calls : Works(d) => call[d].sess \in Sessions \ {s}
    BY <1>5, InHand DEF Works, Driving
  <2> QED
    BY <1>2, <1>5, <2>1 DEF Works, Driving
<1>8. PoolTypeOK'
  <2>1. order' \subseteq Ids \X Ids /\ evicted' \subseteq Ids /\ reopening' \subseteq Ids /\ expired' \subseteq Sessions
    BY <1>0, <1>3, <1>4, <1>6 DEF PoolTypeOK, LiveIds
  <2> QED
    BY <1>0, <1>1, <1>2, <1>3, <1>5, <1>6, <2>1 DEF PoolTypeOK
<1>9. RunningIsDriven'
  BY <1>0, <1>2, <1>3, <1>7 DEF RunningIsDriven
<1>10. OneWorker'
  BY <1>0, <1>2, <1>5, <1>7 DEF OneWorker
<1>11. CallsHoldSessions'
  <2> SUFFICES ASSUME NEW d \in Calls PROVE HoldsSession(d)'
    BY DEF CallsHoldSessions
  <2>1. CASE d = c
    BY <1>0, <1>1, <1>2, <1>5, <1>6, <2>1, ConstantFacts DEF HoldsSession, PoolTypeOK
  <2>2. CASE d # c /\ call[d].pc = "off"
    BY <1>0, <1>2, <2>2 DEF CallsHoldSessions, HoldsSession
  <2>3. CASE d # c /\ call[d].pc # "off"
    <3>1. HoldsSession(d) /\ call[d].sess \in Sessions \ {s} /\ call[d].epoch \in Nat
      BY <1>0, <1>5, <2>3, InHand DEF CallsHoldSessions
    <3>2. sess[call[d].sess].st # "gone" =>
            sess[call[d].sess].id \in Ids /\ kindOf'[sess[call[d].sess].id] = kindOf[sess[call[d].sess].id]
      BY <1>0, <1>6, <3>1, Ranges DEF SessionsHaveChildren
    <3>3. CASE sess'[call[d].sess] = sess[call[d].sess]
      BY <1>1, <1>2, <2>3, <3>1, <3>2, <3>3 DEF HoldsSession, IsIdle
    <3>4. CASE sess'[call[d].sess] = Unused /\ ~Works(d)
      BY <1>1, <1>2, <2>3, <3>1, <3>4 DEF HoldsSession, Works, Driving, Unused
    <3> QED
      BY <1>5, <3>1, <3>3, <3>4
  <2> QED
    BY <2>1, <2>2, <2>3
<1>12. CallersWork'
  <2>1. by # 0 => sess[by].st = "busy"
    BY DEF TakeSlot, MayCall
  <2>2. \A t \in Sessions : sess[t].st = "busy" => sess'[t].st = "busy"
    BY <1>5 DEF IsIdle
  <2> QED
    BY <1>0, <1>2, <2>1, <2>2, Ranges DEF CallersWork, InFlight
<1>13. SessionsHaveChildren'
  <2> SUFFICES ASSUME NEW t \in Sessions
               PROVE  /\ sess'[t].st = "gone" <=> sess'[t].id = 0
                      /\ sess'[t].st # "gone" => kindOf'[sess'[t].id] # "none" /\ sess'[t].born <= epoch'
                      /\ sess'[t].st = "opening" => \E d \in Calls : call'[d].pc = "opening" /\ call'[d].sess = t
                      /\ sess'[t].st \in {"idle", "queued", "busy"} => rootOf'[sess'[t].id] # NoRoot
                      /\ sess'[t].st = "busy" =>
                           t \in expired' \/ \E d \in Calls : /\ call'[d].pc \in {"running", "return", "settling"}
                                                              /\ call'[d].sess = t
    BY DEF SessionsHaveChildren
  <2>1. CASE t = s
    BY <1>0, <1>1, <1>2, <1>5, <1>6, <2>1, ConstantFacts DEF PoolTypeOK
  <2>2. CASE sess'[t] = Unused
    BY <2>2 DEF Unused
  <2>3. CASE t # s /\ sess'[t] = sess[t]
    BY <1>0, <1>1, <1>2, <1>4, <1>6, <2>3, Ranges DEF SessionsHaveChildren
  <2> QED
    BY <1>5, <2>1, <2>2, <2>3
<1>14. RowsComeFirst'
  <2>1. \A t \in Sessions : t # s => sess'[t].id = sess[t].id \/ sess'[t].id = 0
    BY <1>5 DEF Unused
  <2>2. kindOf[id] = "none" => \A t \in Sessions : sess[t].id # id
    BY <1>0, ConstantFacts DEF SessionsHaveChildren
  <2>3. \A x \in Ids : rootOf[x] = NoRoot =>
          \A t, u \in Sessions : sess'[t].id = x /\ sess'[u].id = x => t = u
    BY <1>0, <1>5, <1>6, <2>1, <2>2, ConstantFacts DEF RowsComeFirst
  <2>4. \A x \in Ids : rootOf[x] = NoRoot => x \notin LiveIds' \cup evicted' \cup reopening' \cup onDisk'
    BY <1>0, <1>1, <1>3, <1>4, <1>6 DEF RowsComeFirst
  <2>5. \A x \in Ids : kindOf'[x] = "none" => rootOf[x] = NoRoot
    BY <1>0, <1>6 DEF RowsComeFirst
  <2> QED
    BY <1>1, <2>3, <2>4, <2>5 DEF RowsComeFirst
<1>15. LiveChildrenAreOpen'
  BY <1>0, <1>3, <1>5 DEF LiveChildrenAreOpen
<1>16. ReservationsHold'
  <2> SUFFICES ASSUME ~strays PROVE ReservationsHold'
    BY <1>1 DEF ReservationsHold
  <2>1. \A d \in Calls : d # c /\ Reserves(d)' =>
          /\ Reserves(d) /\ call'[d] = call[d] /\ sess'[call[d].sess].id = sess[call[d].sess].id
    BY <1>1, <1>2, <1>7 DEF Reserves, IsReopen, Works, Driving
  <2>2. Reserves(c)' => rootOf[id] # NoRoot /\ sess'[call'[c].sess].id = id
    BY <1>1, <1>2, <1>5 DEF Reserves, IsReopen
  <2>3. \A d \in Calls : Reserves(d)' =>
          /\ sess'[call'[d].sess].id \in reopening'
          /\ call'[d].pc = "opening" => sess'[call'[d].sess].id \notin LiveIds'
    BY <1>0, <1>3, <1>6, <2>1, <2>2 DEF ReservationsHold
  <2>4. \A d, e \in Calls :
          Reserves(d)' /\ Reserves(e)' /\ sess'[call'[d].sess].id = sess'[call'[e].sess].id => d = e
    BY <1>0, <1>6, <2>1, <2>2 DEF ReservationsHold
  <2>5. ASSUME NEW t \in Sessions, Open(t)', sess'[t].st # "opening"
        PROVE  live'[sess'[t].id].sess = t
    <3>1. t # s /\ sess'[t] = sess[t] /\ Open(t)
      BY <1>1, <1>5, <2>5 DEF Open, Unused
    <3>2. sess[t].id \in Ids /\ live[sess[t].id].sess = t
      BY <1>0, <2>5, <3>1, Ranges DEF ReservationsHold, SessionsHaveChildren, Open
    <3>3. sess[t].id \notin Dropped
      BY <1>5, <3>1, <3>2 DEF Open, Unused
    <3>4. sess[t].id \in LiveIds'
      BY <1>1, <3>2, <3>3, EvictFacts, ConstantFacts DEF LiveIds
    <3> QED
      BY <1>3, <3>1, <3>2, <3>4
  <2> QED
    BY <2>3, <2>4, <2>5 DEF ReservationsHold
<1> QED
  BY <1>2, <1>8, <1>9, <1>10, <1>11, <1>12, <1>13, <1>14, <1>15, <1>16 DEF PoolInv

LEMMA SpawnStartsInv ==
  ASSUME PoolInv, NEW c \in Calls, NEW kind \in Kinds, NEW by \in Sessions \cup {0},
         SpawnStarts(c, kind, by)
  PROVE  PoolInv'
<1>1. PICK id \in Ids, s \in Sessions :
        /\ kindOf[id] = "none" /\ TakeSlot(c, kind, by, "opening", s)
        /\ EvictFinishedChildren /\ Opening(s, id)
        /\ kindOf' = [kindOf EXCEPT ![id] = kind]
        /\ UNCHANGED <<reopening, rootOf, onDisk, where>>
  BY DEF SpawnStarts
<1>2. id \notin LiveIds
  BY <1>1 DEF PoolInv, RowsComeFirst
<1> QED
  BY <1>1, <1>2, OpeningInv

LEMMA ReopenStartsInv ==
  ASSUME PoolInv, NEW c \in Calls, NEW kind \in Kinds, NEW by \in Sessions \cup {0},
         ReopenStarts(c, kind, by)
  PROVE  PoolInv'
<1>1. PICK id \in Ids, s \in Sessions :
        /\ id \notin reopening /\ id \notin LiveIds /\ kindOf[id] = kind /\ id \in onDisk
        /\ TakeSlot(c, kind, by, "opening", s)
        /\ EvictFinishedChildren /\ Opening(s, id)
        /\ reopening' = reopening \cup {id}
        /\ UNCHANGED <<kindOf, rootOf, onDisk, where>>
  BY DEF ReopenStarts, Reopenable, rows
<1>2. rootOf[id] # NoRoot
  BY <1>1 DEF PoolInv, RowsComeFirst
<1> QED
  BY <1>1, <1>2, OpeningInv

LEMMA ResumeLiveInv ==
  ASSUME PoolInv, NEW c \in Calls, NEW kind \in Kinds, NEW by \in Sessions \cup {0},
         ResumeLive(c, kind, by)
  PROVE  PoolInv'
<1>0. /\ PoolTypeOK /\ RunningIsDriven /\ OneWorker /\ CallsHoldSessions /\ CallersWork
      /\ SessionsHaveChildren /\ RowsComeFirst /\ LiveChildrenAreOpen /\ ReservationsHold /\ SlotsAreCounted
  BY DEF PoolInv
<1>1. PICK id \in Ids : /\ ResumableLive(id, kind)
                        /\ TakeSlot(c, kind, by, "claimed", live[id].sess)
                        /\ SetRunning(live[id].sess, TRUE)
                        /\ UNCHANGED <<sess, evicted, reopening, rows, where, expired>>
  BY DEF ResumeLive
<1> DEFINE s == live[id].sess
<1>2. /\ id \in LiveIds /\ s \in Sessions /\ ~live[id].running
      /\ IsIdle(s) /\ sess[s].id = id /\ kindOf[id] = kind
  BY <1>0, <1>1, Ranges DEF ResumableLive, LiveChildrenAreOpen
<1>3. RunningBecomes(s, TRUE)
  BY <1>0, <1>1, SetRunningFacts
<1>4. UNCHANGED <<sess, order, evicted, reopening, kindOf, rootOf, onDisk, main, epoch, strays, expired>>
  BY <1>1, <1>3 DEF rows, where, RunningBecomes
<1>5. /\ call[c].pc = "off" /\ call' \in [Calls -> CallType]
      /\ call'[c].pc = "claimed" /\ call'[c].kind = kind /\ call'[c].sess = s /\ call'[c].by = by
      /\ call'[c].main = main /\ call'[c].epoch = epoch
      /\ \A d \in Calls : d # c => call'[d] = call[d]
      /\ active' \in [Kinds -> Nat] /\ \A k \in Kinds : active'[k] <= Limit(k)
      /\ SlotsAreCounted'
  <2>1. "claimed" \in Places \ {"off"}
    OBVIOUS
  <2>2. /\ call[c].pc = "off" /\ call' \in [Calls -> CallType]
        /\ call'[c] = [pc |-> "claimed", kind |-> kind, sess |-> s, by |-> by, main |-> main,
                       epoch |-> epoch, aborted |-> FALSE]
        /\ \A d \in Calls : d # c => call'[d] = call[d]
        /\ active' \in [Kinds -> Nat] /\ \A k \in Kinds : active'[k] <= Limit(k)
        /\ SlotsAreCounted'
    BY <1>1, <1>2, <1>4, <2>1, TakeSlotFacts
  <2> QED
    BY <2>2
<1> HIDE DEF s
<1>6. PoolTypeOK'
  BY <1>0, <1>3, <1>4, <1>5 DEF PoolTypeOK, RunningBecomes
(* Nobody else works with the session: its record was not running. *)
<1>7. \A d \in Calls : /\ Works(d) => call[d].sess # s
                       /\ Driving(d)' <=> d = c \/ Driving(d)
                       /\ Works(d)' <=> d = c \/ Works(d)
                       /\ Driving(d) => d # c
                       /\ Works(d) => d # c
  BY <1>0, <1>2, <1>5 DEF RunningIsDriven, CallsHoldSessions, HoldsSession, Works, Driving, IsIdle, s
<1>8. RunningIsDriven'
  <2>1. \A d, e \in Calls : Driving(d)' /\ Driving(e)' /\ call'[d].sess = call'[e].sess => d = e
    BY <1>0, <1>5, <1>7 DEF RunningIsDriven, Works
  <2>2. ASSUME NEW x \in LiveIds
        PROVE  live'[x].running <=> \E d \in Calls : Driving(d)' /\ call'[d].sess = live'[x].sess
    <3>1. x \in Ids /\ live'[x].sess = live[x].sess
      BY <1>0, <1>3, Ranges DEF RunningBecomes
    <3>2. CASE live[x].sess = s
      BY <1>3, <1>5, <1>7, <3>1, <3>2 DEF RunningBecomes
    <3>3. CASE live[x].sess # s
      <4>1. live'[x].running = live[x].running
        BY <1>3, <3>1, <3>3 DEF RunningBecomes
      <4> QED
        BY <1>0, <1>5, <1>7, <3>1, <3>3, <4>1 DEF RunningIsDriven
    <3> QED
      BY <3>2, <3>3
  <2>3. LiveIds' = LiveIds
    BY <1>3 DEF RunningBecomes
  <2> QED
    BY <2>1, <2>2, <2>3 DEF RunningIsDriven
<1>9. OneWorker'
  BY <1>0, <1>5, <1>7 DEF OneWorker
<1>10. CallsHoldSessions'
  <2> SUFFICES ASSUME NEW d \in Calls PROVE HoldsSession(d)'
    BY DEF CallsHoldSessions
  <2>1. CASE d = c
    <3>1. sess[s].born <= epoch /\ main \in Mains /\ epoch <= epoch
      BY <1>0, <1>2 DEF SessionsHaveChildren, PoolTypeOK, IsIdle
    <3> QED
      BY <1>2, <1>4, <1>5, <2>1, <3>1, ConstantFacts DEF HoldsSession, IsIdle
  <2>2. CASE d # c
    BY <1>0, <1>4, <1>5, <2>2 DEF CallsHoldSessions, HoldsSession, IsIdle
  <2> QED
    BY <2>1, <2>2
<1>11. CallersWork'
  <2>1. by # 0 => sess[by].st = "busy"
    BY <1>1 DEF TakeSlot, MayCall
  <2> QED
    BY <1>0, <1>4, <1>5, <2>1 DEF CallersWork, InFlight
<1>12. SessionsHaveChildren'
  BY <1>0, <1>4, <1>5 DEF SessionsHaveChildren
<1>13. RowsComeFirst' /\ LiveChildrenAreOpen'
  <2>1. LiveIds' = LiveIds /\ \A x \in LiveIds : live'[x].sess = live[x].sess
    BY <1>3 DEF RunningBecomes
  <2> QED
    BY <1>0, <1>4, <2>1 DEF RowsComeFirst, LiveChildrenAreOpen
<1>14. ReservationsHold'
  <2> SUFFICES ASSUME ~strays PROVE ReservationsHold'
    BY <1>4 DEF ReservationsHold
  <2>1. \A d \in Calls : Reserves(d)' => Reserves(d) /\ call'[d] = call[d]
    BY <1>4, <1>5 DEF Reserves, IsReopen
  <2>2. \A t \in Sessions : Open(t)' /\ sess'[t].st # "opening" =>
          /\ Open(t) /\ sess[t].st # "opening" /\ sess'[t].id = sess[t].id
          /\ live'[sess[t].id].sess = live[sess[t].id].sess
    BY <1>0, <1>3, <1>4, Ranges DEF Open, SessionsHaveChildren, RunningBecomes
  <2>3. LiveIds' = LiveIds
    BY <1>3 DEF RunningBecomes
  <2> QED
    BY <1>0, <1>4, <2>1, <2>2, <2>3, ReservationsStay
<1> QED
  BY <1>5, <1>6, <1>8, <1>9, <1>10, <1>11, <1>12, <1>13, <1>14 DEF PoolInv

-----------------------------------------------------------------------------
(* The session is created *)

LEMMA OpenFailsInv == ASSUME PoolInv, NEW c \in Calls, OpenFails(c) PROVE PoolInv'
<1> DEFINE s  == call[c].sess
           id == sess[s].id
<1>0. /\ PoolTypeOK /\ RunningIsDriven /\ OneWorker /\ CallsHoldSessions /\ CallersWork
      /\ SessionsHaveChildren /\ RowsComeFirst /\ LiveChildrenAreOpen /\ ReservationsHold /\ SlotsAreCounted
  BY DEF PoolInv
<1>1. /\ call[c].pc = "opening" /\ s \in Sessions /\ id \in Ids /\ sess[s].st = "opening"
  BY <1>0, InHand DEF OpenFails, CallsHoldSessions, HoldsSession, Works
<1>2. UNCHANGED <<live, order, evicted, rootOf, onDisk, main, epoch, strays, expired>>
  BY DEF OpenFails, where
<1>3. /\ call' \in [Calls -> CallType] /\ call'[c] = Idle
      /\ \A d \in Calls : d # c => call'[d] = call[d]
      /\ active' \in [Kinds -> Nat] /\ \A kind \in Kinds : active'[kind] <= Limit(kind)
      /\ SlotsAreCounted'
  <2>1. FreeSlot(c) /\ call[c].pc # "off" /\ epoch' = epoch
    BY <1>1, <1>2 DEF OpenFails
  <2> QED
    BY <2>1, FreeSlotFacts
<1>4. /\ sess' \in [Sessions -> SessType] /\ sess'[s] = Unused
      /\ \A t \in Sessions : t # s => sess'[t] = sess[t]
  <2>1. Unused \in SessType /\ sess' = [sess EXCEPT ![s] = Unused]
    BY ConstantFacts DEF OpenFails, Unused, SessType
  <2> QED
    BY <1>0, <1>1, <2>1 DEF PoolTypeOK
<1>5. reopening' = reopening \ {id}
  BY DEF OpenFails
<1>6. /\ kindOf' \in [Ids -> Kinds \cup {"none"}]
      /\ \A x \in Ids : kindOf'[x] = IF x = id /\ rootOf[id] = NoRoot THEN "none" ELSE kindOf[x]
  BY <1>0, <1>1 DEF OpenFails, IsReopen, PoolTypeOK
<1> HIDE DEF s, id
<1>7. \A d \in Calls : call'[d].pc # "off" => d # c /\ call'[d] = call[d]
  BY <1>3 DEF Idle
<1>8. \A d \in Calls : /\ Driving(d)' <=> Driving(d)
                       /\ Driving(d)' => call'[d] = call[d]
                       /\ Works(d)' => d # c /\ Works(d) /\ call'[d] = call[d] /\ call[d].sess # s
  BY <1>0, <1>1, <1>3 DEF Driving, Works, OneWorker, Idle, s
<1>9. \A t \in Sessions : t # s /\ sess[t].st # "gone" =>
        sess[t].id \in Ids /\ kindOf'[sess[t].id] = kindOf[sess[t].id]
  BY <1>0, <1>1, <1>6, Ranges DEF SessionsHaveChildren, RowsComeFirst, id
<1>10. PoolTypeOK'
  BY <1>0, <1>2, <1>3, <1>4, <1>5, <1>6 DEF PoolTypeOK
<1>11. RunningIsDriven'
  BY <1>0, <1>2, <1>8 DEF RunningIsDriven, LiveIds
<1>12. OneWorker'
  BY <1>0, <1>8 DEF OneWorker
<1>13. CallsHoldSessions'
  <2> SUFFICES ASSUME NEW d \in Calls PROVE HoldsSession(d)'
    BY DEF CallsHoldSessions
  <2>1. CASE d = c
    BY <1>3, <2>1 DEF HoldsSession, Idle
  <2>2. CASE d # c /\ call[d].pc = "off"
    BY <1>0, <1>3, <2>2 DEF CallsHoldSessions, HoldsSession
  <2>3. CASE d # c /\ call[d].pc # "off"
    <3>1. HoldsSession(d) /\ call[d].sess \in Sessions /\ call[d].epoch \in Nat /\ call'[d] = call[d]
      BY <1>0, <1>3, <2>3, InHand DEF CallsHoldSessions
    <3>2. CASE call[d].sess = s
      BY <1>2, <1>4, <1>8, <2>3, <3>1, <3>2 DEF HoldsSession, Works, Driving, Unused
    <3>3. CASE call[d].sess # s
      BY <1>2, <1>4, <1>9, <2>3, <3>1, <3>3 DEF HoldsSession, IsIdle
    <3> QED
      BY <3>2, <3>3
  <2> QED
    BY <2>1, <2>2, <2>3
<1>14. CallersWork'
  BY <1>0, <1>1, <1>4, <1>7, Ranges DEF CallersWork, InFlight
<1>15. SessionsHaveChildren'
  BY <1>0, <1>1, <1>2, <1>3, <1>4, <1>9 DEF SessionsHaveChildren, Unused, s
<1>16. RowsComeFirst'
  <2>1. \A t \in Sessions : sess'[t].id = sess[t].id \/ sess'[t].id = 0
    BY <1>4 DEF Unused
  <2> QED
    BY <1>0, <1>2, <1>5, <1>6, <2>1, ConstantFacts DEF RowsComeFirst, LiveIds
<1>17. LiveChildrenAreOpen'
  BY <1>0, <1>1, <1>2, <1>4, Ranges DEF LiveChildrenAreOpen, LiveIds
<1>18. ReservationsHold'
  <2> SUFFICES ASSUME ~strays PROVE ReservationsHold'
    BY <1>2 DEF ReservationsHold
  <2>1. \A d \in Calls : Reserves(d)' =>
          /\ Reserves(d) /\ d # c /\ call'[d] = call[d] /\ sess'[call[d].sess] = sess[call[d].sess]
    <3>1. \A d \in Calls : Reserves(d)' => Works(d)'
      BY DEF Reserves, Works, Driving
    <3> QED
      BY <1>2, <1>4, <1>8, <3>1, InHand DEF Reserves, IsReopen, Works, Driving
  <2>2. \A d \in Calls : Reserves(d)' => sess[call[d].sess].id # id
    <3>1. ASSUME NEW d \in Calls, Reserves(d)', sess[call[d].sess].id = id PROVE FALSE
      <4>1. Reserves(c)
        BY <1>1, <2>1, <3>1 DEF Reserves, IsReopen, s, id
      <4> QED
        BY <1>0, <2>1, <3>1, <4>1 DEF ReservationsHold, s, id
    <3> QED
      BY <3>1
  <2>3. \A t \in Sessions : Open(t)' /\ sess'[t].st # "opening" =>
          /\ Open(t) /\ sess'[t] = sess[t] /\ live'[sess[t].id].sess = live[sess[t].id].sess
    BY <1>2, <1>4 DEF Open, Unused
  <2>4. LiveIds' = LiveIds
    BY <1>2 DEF LiveIds
  <2> QED
    BY <1>0, <1>5, <2>1, <2>2, <2>3, <2>4, ReservationsStay
<1> QED
  BY <1>3, <1>10, <1>11, <1>12, <1>13, <1>14, <1>15, <1>16, <1>17, <1>18 DEF PoolInv

(* The root of a new child's spawn row. *)
LEMMA RootForRoots ==
  ASSUME PoolInv, NEW c \in Calls, call[c].pc = "opening"
  PROVE  RootFor(call[c].by, call[c].main) \in Roots
<1> DEFINE by == call[c].by
<1>0. PoolTypeOK /\ CallersWork /\ SessionsHaveChildren /\ RowsComeFirst
  BY DEF PoolInv
<1>1. CASE by = 0
  BY <1>1, InHand DEF RootFor, Roots
<1>2. CASE by # 0
  <2>1. by \in Sessions /\ sess[by].st = "busy"
    BY <1>0, <1>2, InHand DEF CallersWork, InFlight
  <2>2. sess[by].id \in Ids /\ rootOf[sess[by].id] # NoRoot
    BY <1>0, <2>1, Ranges DEF SessionsHaveChildren
  <2> QED
    BY <1>0, <1>2, <2>2 DEF RootFor, Roots, PoolTypeOK
<1> QED
  BY <1>1, <1>2

LEMMA OpenedInv == ASSUME PoolInv, NEW c \in Calls, Opened(c) PROVE PoolInv'
<1> DEFINE s     == call[c].sess
           id    == sess[s].id
           place == IF IsReopen(c) THEN "opened" ELSE "claimed"
<1>0. /\ PoolTypeOK /\ RunningIsDriven /\ OneWorker /\ CallsHoldSessions /\ CallersWork
      /\ SessionsHaveChildren /\ RowsComeFirst /\ LiveChildrenAreOpen /\ ReservationsHold /\ SlotsAreCounted
  BY DEF PoolInv
<1>1. /\ call[c].pc = "opening" /\ s \in Sessions /\ id \in Ids /\ sess[s].st = "opening"
      /\ s # 0 /\ NoRoot \notin Roots
  BY <1>0, InHand, ConstantFacts DEF Opened, CallsHoldSessions, HoldsSession, Works
<1>2. OnlyMoves(c, place) /\ SessionBecomes(s, "idle")
  <2>1. Goes(c, place) /\ sess' = [sess EXCEPT ![s].st = "idle"]
    BY DEF Opened
  <2>2. place \in Places
    OBVIOUS
  <2> QED
    BY <1>0, <1>1, <2>1, <2>2, GoesMoves, StatusBecomes
<1>3. UNCHANGED <<reopening, active, kindOf, onDisk, main, epoch, strays, expired>>
  BY DEF Opened, where
<1>4. /\ live' \in [Ids -> RecordType] /\ live'[id] = [sess |-> s, running |-> TRUE]
      /\ \A x \in Ids : x # id => live'[x] = live[x]
      /\ LiveIds' = LiveIds \cup {id} /\ LiveIds' \subseteq Ids
      /\ order' \subseteq Ids \X Ids
  <2>1. /\ live' = [live EXCEPT ![id] = [sess |-> s, running |-> TRUE]]
        /\ order' \subseteq order \cup (LiveIds \X {id})
    BY DEF Opened, Insert
  <2>2. [sess |-> s, running |-> TRUE] \in RecordType
    BY <1>1 DEF RecordType
  <2>3. /\ live' \in [Ids -> RecordType] /\ live'[id] = [sess |-> s, running |-> TRUE]
        /\ \A x \in Ids : x # id => live'[x] = live[x]
    BY <1>0, <1>1, <2>1, <2>2 DEF PoolTypeOK
  <2>4. LiveIds' = LiveIds \cup {id}
    BY <1>1, <2>3 DEF LiveIds
  <2> QED
    BY <1>0, <1>1, <2>1, <2>3, <2>4 DEF PoolTypeOK, LiveIds
<1>5. /\ evicted' \subseteq evicted
      /\ rootOf' \in [Ids -> Roots \cup {NoRoot}] /\ rootOf'[id] # NoRoot
      /\ \A x \in Ids : rootOf[x] # NoRoot => rootOf'[x] = rootOf[x]
      /\ \A x \in Ids : x # id => rootOf'[x] = rootOf[x]
  <2>1. CASE IsReopen(c)
    BY <1>0, <2>1 DEF Opened, IsReopen, PoolTypeOK
  <2>2. CASE ~IsReopen(c)
    <3>1. evicted' = evicted /\ rootOf' = [rootOf EXCEPT ![id] = RootFor(call[c].by, call[c].main)]
      BY <2>2 DEF Opened
    <3>2. RootFor(call[c].by, call[c].main) \in Roots
      BY <1>1, RootForRoots
    <3> QED
      BY <1>0, <1>1, <2>2, <3>1, <3>2 DEF PoolTypeOK, IsReopen
  <2> QED
    BY <2>1, <2>2
<1>6. place \in {"opened", "claimed"} /\ (place = "opened" <=> rootOf[id] # NoRoot)
  BY DEF IsReopen
<1> HIDE DEF s, id, place
<1>7. PoolTypeOK'
  <2>1. evicted' \subseteq Ids
    BY <1>0, <1>5 DEF PoolTypeOK
  <2> QED
    BY <1>0, <1>2, <1>3, <1>4, <1>5, <2>1 DEF PoolTypeOK, OnlyMoves, SessionBecomes
(* The others drive what they drove, and not this session. *)
<1>8. \A d \in Calls : /\ call'[d].sess = call[d].sess
                       /\ Driving(d)' <=> d = c \/ Driving(d)
                       /\ Works(d)' <=> Works(d)
                       /\ Works(d) /\ call[d].sess = s => d = c
                       /\ Driving(d) => d # c /\ Works(d)
  BY <1>0, <1>1, <1>2, <1>6 DEF Driving, Works, OneWorker, OnlyMoves, s
<1>9. \A x \in LiveIds : x # id => live[x].sess # s
  BY <1>0 DEF LiveChildrenAreOpen, id
<1>10. RunningIsDriven'
  <2>1. \A d, e \in Calls : Driving(d)' /\ Driving(e)' /\ call'[d].sess = call'[e].sess => d = e
    BY <1>0, <1>8 DEF RunningIsDriven, s
  <2>2. live'[id].running <=> \E d \in Calls : Driving(d)' /\ call'[d].sess = live'[id].sess
    BY <1>4, <1>8 DEF s
  <2>3. ASSUME NEW x \in LiveIds, x # id
        PROVE  live'[x].running <=> \E d \in Calls : Driving(d)' /\ call'[d].sess = live'[x].sess
    <3>1. live'[x] = live[x] /\ live[x].sess # s
      BY <1>4, <1>9, <2>3
    <3> QED
      BY <1>0, <1>8, <2>3, <3>1 DEF RunningIsDriven, s
  <2> QED
    BY <1>4, <2>1, <2>2, <2>3 DEF RunningIsDriven
<1>11. OneWorker'
  BY <1>0, <1>8 DEF OneWorker
<1>12. CallsHoldSessions'
  <2> SUFFICES ASSUME NEW d \in Calls PROVE HoldsSession(d)'
    BY DEF CallsHoldSessions
  <2>1. CASE d = c
    <3>1. HoldsSession(c)
      BY <1>0 DEF CallsHoldSessions
    <3> QED
      BY <1>1, <1>2, <1>3, <1>6, <2>1, <3>1 DEF HoldsSession, IsIdle, OnlyMoves, SessionBecomes, s
  <2>2. CASE d # c
    <3>1. HoldsSession(d) /\ call'[d] = call[d]
      BY <1>0, <1>2, <2>2 DEF CallsHoldSessions, OnlyMoves
    <3>2. Works(d) => call[d].sess # s
      BY <1>8, <2>2
    <3>3. call[d].pc # "off" =>
            /\ sess'[call[d].sess].id = sess[call[d].sess].id /\ sess'[call[d].sess].born = sess[call[d].sess].born
            /\ call[d].sess # s => sess'[call[d].sess].st = sess[call[d].sess].st
            /\ sess'[call[d].sess].st # "gone" => sess[call[d].sess].st # "gone"
      BY <1>0, <1>1, <1>2, InHand DEF SessionBecomes
    <3>4. CASE call[d].pc = "off"
      BY <3>1, <3>4 DEF HoldsSession
    <3>5. CASE call[d].pc # "off"
      BY <1>1, <1>3, <3>1, <3>2, <3>3, <3>5 DEF HoldsSession, IsIdle, Works, Driving
    <3> QED
      BY <3>4, <3>5
  <2> QED
    BY <2>1, <2>2
<1>13. CallersWork'
  BY <1>0, <1>1, <1>2, <1>6, Ranges DEF CallersWork, InFlight, OnlyMoves, SessionBecomes
<1>14. SessionsHaveChildren'
  <2> SUFFICES ASSUME NEW t \in Sessions
               PROVE  /\ sess'[t].st = "gone" <=> sess'[t].id = 0
                      /\ sess'[t].st # "gone" => kindOf'[sess'[t].id] # "none" /\ sess'[t].born <= epoch'
                      /\ sess'[t].st = "opening" => \E d \in Calls : call'[d].pc = "opening" /\ call'[d].sess = t
                      /\ sess'[t].st \in {"idle", "queued", "busy"} => rootOf'[sess'[t].id] # NoRoot
                      /\ sess'[t].st = "busy" =>
                           t \in expired' \/ \E d \in Calls : /\ call'[d].pc \in {"running", "return", "settling"}
                                                              /\ call'[d].sess = t
    BY DEF SessionsHaveChildren
  <2>1. CASE t = s
    BY <1>0, <1>1, <1>2, <1>3, <1>5, <2>1 DEF SessionsHaveChildren, SessionBecomes, id
  <2>2. CASE t # s
    <3>1. /\ sess'[t].st = sess[t].st /\ sess'[t].id = sess[t].id /\ sess'[t].born = sess[t].born
          /\ sess[t].id \in Ids \cup {0}
      BY <1>0, <1>2, <2>2, Ranges DEF SessionBecomes
    <3>2. \A d \in Calls : call[d].sess = t => d # c /\ call'[d] = call[d]
      BY <1>2, <2>2 DEF OnlyMoves, s
    <3>3. sess[t].st # "gone" => sess[t].id \in Ids
      BY <1>0, <3>1 DEF SessionsHaveChildren
    <3> QED
      BY <1>0, <1>3, <1>5, <3>1, <3>2, <3>3 DEF SessionsHaveChildren
  <2> QED
    BY <2>1, <2>2
<1>15. RowsComeFirst'
  <2>1. \A x \in Ids : rootOf'[x] = NoRoot => rootOf[x] = NoRoot /\ x # id
    BY <1>5
  <2>2. \A t \in Sessions : sess'[t].id = sess[t].id
    BY <1>2 DEF SessionBecomes
  <2>3. \A x \in Ids : kindOf[x] = "none" => x # id
    BY <1>0, <1>1 DEF SessionsHaveChildren, id
  <2> QED
    BY <1>0, <1>3, <1>4, <1>5, <2>1, <2>2, <2>3 DEF RowsComeFirst
<1>16. LiveChildrenAreOpen'
  <2>1. sess'[s].id = id /\ sess'[s].st = "idle"
    BY <1>1, <1>2 DEF SessionBecomes, id
  <2>2. ASSUME NEW x \in LiveIds, x # id
        PROVE  sess'[live[x].sess].id = x /\ sess'[live[x].sess].st \in {"idle", "queued", "busy"}
    BY <1>0, <1>2, <1>9, <2>2, Ranges DEF LiveChildrenAreOpen, SessionBecomes
  <2> QED
    BY <1>4, <2>1, <2>2 DEF LiveChildrenAreOpen
<1>17. ReservationsHold'
  <2> SUFFICES ASSUME ~strays PROVE ReservationsHold'
    BY <1>3 DEF ReservationsHold
  (* A spawned child's row is new: no other session is on the child. *)
  <2>1. ASSUME NEW d \in Calls, Reserves(d)'
        PROVE  /\ Reserves(d) /\ call'[d].sess = call[d].sess
               /\ call[d].sess \in Sessions /\ sess'[call[d].sess].id = sess[call[d].sess].id
               /\ call'[d].pc = "opening" => d # c /\ call[d].pc = "opening"
    <3>1. Works(d) /\ call[d].pc \in {"opening", "opened"} /\ call'[d].sess = call[d].sess
      BY <1>1, <1>2, <2>1 DEF Reserves, Works, Driving, OnlyMoves
    <3>2. call[d].sess \in Sessions /\ sess[call[d].sess].id \in Ids
      BY <3>1, InHand DEF Works, Driving
    <3>3. sess'[call[d].sess].id = sess[call[d].sess].id
      BY <1>2, <3>2 DEF SessionBecomes
    <3>4. rootOf[sess[call[d].sess].id] # NoRoot
      <4>1. CASE d = c
        BY <1>2, <1>6, <2>1, <4>1 DEF Reserves, OnlyMoves, s, id
      <4>2. CASE d # c
        <5>1. call[d].sess # s
          BY <1>8, <3>1, <4>2
        <5>2. rootOf[id] = NoRoot => sess[call[d].sess].id # id
          BY <1>0, <1>1, <3>2, <5>1 DEF RowsComeFirst, id
        <5> QED
          BY <1>5, <2>1, <3>1, <3>2, <3>3, <5>2 DEF Reserves, IsReopen
      <4> QED
        BY <4>1, <4>2
    <3> QED
      BY <1>1, <1>2, <1>6, <3>1, <3>2, <3>3, <3>4 DEF Reserves, IsReopen, OnlyMoves
  <2>2. ASSUME NEW d \in Calls, Reserves(d)', call'[d].pc = "opening"
        PROVE  sess[call[d].sess].id \notin LiveIds'
    <3>1. Reserves(d) /\ call[d].pc = "opening" /\ d # c /\ call[d].sess \in Sessions
      BY <2>1, <2>2
    <3>2. sess[call[d].sess].id \notin LiveIds
      BY <1>0, <3>1 DEF ReservationsHold
    <3>3. sess[call[d].sess].id # id
      <4>1. SUFFICES ASSUME sess[call[d].sess].id = id PROVE FALSE
        OBVIOUS
      <4>2. Reserves(c)
        BY <1>1, <3>1, <4>1 DEF Reserves, IsReopen, s, id
      <4> QED
        BY <1>0, <3>1, <4>1, <4>2 DEF ReservationsHold, s, id
    <3> QED
      BY <1>4, <3>2, <3>3
  <2>3. \A d \in Calls : Reserves(d)' =>
          /\ sess'[call'[d].sess].id \in reopening'
          /\ call'[d].pc = "opening" => sess'[call'[d].sess].id \notin LiveIds'
    BY <1>0, <1>3, <2>1, <2>2 DEF ReservationsHold
  <2>4. \A d, e \in Calls :
          Reserves(d)' /\ Reserves(e)' /\ sess'[call'[d].sess].id = sess'[call'[e].sess].id => d = e
    BY <1>0, <2>1 DEF ReservationsHold
  <2>5. ASSUME NEW t \in Sessions, Open(t)', sess'[t].st # "opening"
        PROVE  live'[sess'[t].id].sess = t
    <3>1. CASE t = s
      BY <1>2, <1>4, <3>1 DEF SessionBecomes, id
    <3>2. CASE t # s
      <4>1. /\ sess'[t].id = sess[t].id /\ Open(t) /\ sess[t].st # "opening"
        BY <1>2, <1>3, <2>5, <3>2 DEF SessionBecomes, Open
      <4>2. sess[t].id \in Ids /\ live[sess[t].id].sess = t
        BY <1>0, <4>1, Ranges DEF ReservationsHold, SessionsHaveChildren, Open
      <4>3. sess[t].id # id
        <5>1. CASE rootOf[id] = NoRoot
          BY <1>0, <1>1, <3>2, <5>1 DEF RowsComeFirst, id
        <5>2. CASE rootOf[id] # NoRoot
          <6>1. Reserves(c)
            BY <1>1, <5>2 DEF Reserves, IsReopen, s, id
          <6>2. id \notin LiveIds
            BY <1>0, <1>1, <6>1 DEF ReservationsHold, s, id
          <6> QED
            BY <1>1, <4>2, <6>2, ConstantFacts DEF LiveIds
        <5> QED
          BY <5>1, <5>2
      <4> QED
        BY <1>4, <4>1, <4>2, <4>3
    <3> QED
      BY <3>1, <3>2
  <2> QED
    BY <2>3, <2>4, <2>5 DEF ReservationsHold
<1>18. SlotsAreCounted'
  BY <1>0, <1>1, <1>2, <1>3, <1>6, SlotsStay DEF OnlyMoves
<1> QED
  BY <1>7, <1>10, <1>11, <1>12, <1>13, <1>14, <1>15, <1>16, <1>17, <1>18 DEF PoolInv

-----------------------------------------------------------------------------
(* The main session *)

LEMMA SessionShutdownInv == ASSUME PoolInv, SessionShutdown PROVE PoolInv'
<1>0. /\ PoolTypeOK /\ RunningIsDriven /\ OneWorker /\ CallsHoldSessions /\ CallersWork
      /\ SessionsHaveChildren /\ RowsComeFirst /\ LiveChildrenAreOpen /\ ReservationsHold /\ SlotsAreCounted
  BY DEF PoolInv
<1>1. /\ epoch' = epoch + 1 /\ epoch' \in 0..MaxResets /\ epoch \in Nat /\ main' \in Mains
      /\ strays' = (\E c \in Calls : Reserves(c))
      /\ UNCHANGED <<call, kindOf, rootOf, onDisk, expired>>
  BY <1>0, ConstantFacts DEF SessionShutdown, rows, PoolTypeOK
<1>2. /\ live' = [id \in Ids |-> NoRecord] /\ order' = {} /\ evicted' = {} /\ reopening' = {}
      /\ active' = [kind \in Kinds |-> 0] /\ LiveIds' = {}
  BY DEF SessionShutdown, ResetChildState, LiveIds, NoRecord
<1>3. /\ sess' \in [Sessions -> SessType]
      /\ \A s \in Sessions : sess'[s] = sess[s] \/ (sess'[s] = Unused /\ sess[s].st = "idle")
      /\ \A c \in Calls : call[c].sess \in Sessions => sess'[call[c].sess] = sess[call[c].sess]
  <2>1. Unused \in SessType /\ sess \in [Sessions -> SessType]
    BY <1>0, ConstantFacts DEF Unused, SessType, PoolTypeOK
  <2>2. sess' = [s \in Sessions |->
                   IF sess[s].st = "idle" /\ \A c \in Calls : call[c].sess # s THEN Unused ELSE sess[s]]
    BY DEF SessionShutdown
  <2>3. ASSUME NEW s \in Sessions
        PROVE  sess'[s] = sess[s] \/ (sess'[s] = Unused /\ sess[s].st = "idle")
    BY <2>2
  <2>4. \A c \in Calls : call[c].sess \in Sessions => sess'[call[c].sess] = sess[call[c].sess]
    BY <2>2
  <2>5. \A s \in Sessions : sess[s] \in SessType
    BY <2>1
  <2>6. sess' \in [Sessions -> SessType]
    BY <2>1, <2>2, <2>5
  <2> QED
    BY <2>3, <2>4, <2>6
<1>4. PoolTypeOK'
  <2>1. NoRecord \in RecordType
    BY DEF NoRecord, RecordType
  <2>2. live' \in [Ids -> RecordType]
    BY <1>2, <2>1
  <2>3. active' \in [Kinds -> Nat] /\ \A kind \in Kinds : active'[kind] <= Limit(kind)
    BY <1>2, ConstantFacts
  <2> QED
    BY <1>0, <1>1, <1>2, <1>3, <2>2, <2>3 DEF PoolTypeOK
<1>5. RunningIsDriven' /\ OneWorker' /\ LiveChildrenAreOpen'
  BY <1>0, <1>1, <1>2 DEF RunningIsDriven, OneWorker, LiveChildrenAreOpen, Works, Driving
<1>6. CallsHoldSessions'
  <2> SUFFICES ASSUME NEW c \in Calls PROVE HoldsSession(c)'
    BY DEF CallsHoldSessions
  <2>1. HoldsSession(c)
    BY <1>0 DEF CallsHoldSessions
  <2>2. CASE call[c].pc = "off"
    BY <1>1, <2>1, <2>2 DEF HoldsSession
  <2>3. CASE call[c].pc # "off"
    <3>1. /\ sess'[call[c].sess] = sess[call[c].sess] /\ call[c].sess \in Sessions
          /\ call[c].epoch \in Nat
      BY <1>3, <2>3, InHand
    <3>2. call[c].epoch <= epoch => call[c].epoch <= epoch'
      BY <1>1, <3>1
    <3> QED
      BY <1>1, <2>1, <2>3, <3>1, <3>2 DEF HoldsSession, IsIdle
  <2> QED
    BY <2>2, <2>3
<1>7. CallersWork'
  BY <1>0, <1>1, <1>3, Ranges DEF CallersWork, InFlight
<1>8. SessionsHaveChildren'
  <2>1. \A s \in Sessions : sess[s].born <= epoch => sess[s].born <= epoch'
    BY <1>0, <1>1 DEF PoolTypeOK, SessType
  <2> QED
    BY <1>0, <1>1, <1>3, <2>1 DEF SessionsHaveChildren, Unused
<1>9. RowsComeFirst'
  <2>1. \A s \in Sessions : sess'[s].id = sess[s].id \/ sess'[s].id = 0
    BY <1>3 DEF Unused
  <2> QED
    BY <1>0, <1>1, <1>2, <2>1, ConstantFacts DEF RowsComeFirst
(* No session of the new epoch exists yet, and no reservation is lost that counts. *)
<1>10. ReservationsHold'
  <2> SUFFICES ASSUME ~strays' PROVE ReservationsHold'
    BY DEF ReservationsHold
  <2>1. \A c \in Calls : ~Reserves(c)'
    <3> SUFFICES ASSUME NEW c \in Calls, Reserves(c)' PROVE Reserves(c)
      BY <1>1
    <3>1. call[c].pc \in {"opening", "opened"} /\ call[c].sess \in Sessions
      BY <1>1, InHand DEF Reserves
    <3> QED
      BY <1>1, <1>3, <3>1 DEF Reserves, IsReopen
  <2>2. \A s \in Sessions : ~Open(s)'
    <3>1. \A s \in Sessions : sess'[s].st # "gone" => sess'[s] = sess[s] /\ sess[s].born <= epoch
      BY <1>0, <1>3 DEF SessionsHaveChildren, Unused
    <3>2. \A s \in Sessions : sess[s].born \in Nat
      BY <1>0 DEF PoolTypeOK, SessType
    <3> QED
      BY <1>1, <3>1, <3>2 DEF Open
  <2> QED
    BY <2>1, <2>2 DEF ReservationsHold
<1>11. SlotsAreCounted'
  <2>1. \A kind \in Kinds : Holders(kind)' = {}
    <3>1. \A c \in Calls : call[c].pc # "off" => call[c].epoch \in Nat /\ call[c].epoch <= epoch
      BY InHand
    <3> QED
      BY <1>1, <3>1 DEF Holders
  <2> QED
    BY <1>2, <2>1, FS_EmptySet DEF SlotsAreCounted
<1> QED
  BY <1>4, <1>5, <1>6, <1>7, <1>8, <1>9, <1>10, <1>11 DEF PoolInv

LEMMA PiRestartsInv == ASSUME PoolInv, PiRestarts PROVE PoolInv'
<1>0. PoolTypeOK /\ RowsComeFirst
  BY DEF PoolInv
<1>1. /\ \A c \in Calls : call'[c] = Idle
      /\ \A s \in Sessions : sess'[s] = Unused
      /\ LiveIds' = {} /\ order' = {} /\ evicted' = {} /\ reopening' = {} /\ expired' = {}
      /\ UNCHANGED <<rootOf, onDisk>>
      /\ \A id \in Ids : kindOf'[id] = IF rootOf[id] = NoRoot THEN "none" ELSE kindOf[id]
  BY DEF PiRestarts, ResetChildState, LiveIds, NoRecord
<1>2. PoolTypeOK'
  <2>1. Idle \in CallType /\ Unused \in SessType /\ NoRecord \in RecordType
    BY ConstantFacts DEF Idle, CallType, Unused, SessType, NoRecord, RecordType
  <2>2. active' \in [Kinds -> Nat] /\ \A kind \in Kinds : active'[kind] <= Limit(kind)
    BY ConstantFacts DEF PiRestarts, ResetChildState
  <2>3. call' \in [Calls -> CallType] /\ sess' \in [Sessions -> SessType] /\ live' \in [Ids -> RecordType]
    BY <2>1 DEF PiRestarts, ResetChildState
  <2>4. kindOf' \in [Ids -> Kinds \cup {"none"}]
    BY <1>0 DEF PiRestarts, PoolTypeOK
  <2>5. main' \in Mains /\ epoch' \in 0..MaxResets /\ strays' \in BOOLEAN
    <3>1. epoch \in 0..MaxResets
      BY <1>0 DEF PoolTypeOK
    <3>2. epoch < MaxResets /\ epoch' = epoch + 1 /\ main' \in Mains /\ strays' = FALSE
      BY DEF PiRestarts
    <3>3. epoch' \in 0..MaxResets
      BY <3>1, <3>2, ConstantFacts
    <3> QED
      BY <3>2, <3>3
  <2> QED
    BY <1>0, <1>1, <2>2, <2>3, <2>4, <2>5 DEF PoolTypeOK
<1>3. RunningIsDriven' /\ OneWorker' /\ CallersWork'
  BY <1>1 DEF RunningIsDriven, OneWorker, CallersWork, Works, Driving, InFlight, Idle
<1>4. CallsHoldSessions'
  <2>1. \A c \in Calls : call'[c].pc = "off"
    BY <1>1 DEF Idle
  <2> QED
    BY <1>1, <2>1 DEF CallsHoldSessions, HoldsSession
<1>5. SessionsHaveChildren'
  BY <1>1 DEF SessionsHaveChildren, Unused
<1>6. RowsComeFirst' /\ LiveChildrenAreOpen'
  BY <1>0, <1>1, ConstantFacts DEF RowsComeFirst, LiveChildrenAreOpen, Unused
<1>7. ReservationsHold'
  BY <1>1 DEF ReservationsHold, Reserves, Open, Idle, Unused
<1>8. SlotsAreCounted'
  <2>1. \A kind \in Kinds : Holders(kind)' = {}
    BY <1>1 DEF Holders, Idle
  <2>2. \A kind \in Kinds : active'[kind] = 0
    BY DEF PiRestarts, ResetChildState
  <2> QED
    BY <2>1, <2>2, FS_EmptySet DEF SlotsAreCounted
<1> QED
  BY <1>2, <1>3, <1>4, <1>5, <1>6, <1>7, <1>8 DEF PoolInv

LEMMA StutterInv == ASSUME PoolInv, UNCHANGED vars PROVE PoolInv'
<1>1. UNCHANGED <<call, sess, live, order, evicted, reopening, active, kindOf, rootOf, onDisk, main, epoch,
                  strays, expired>>
  BY DEF vars, registry, rows, where
<1> QED
  BY <1>1 DEF PoolInv, PoolTypeOK, RunningIsDriven, OneWorker, CallsHoldSessions, HoldsSession, CallersWork,
              SessionsHaveChildren, RowsComeFirst, LiveChildrenAreOpen, ReservationsHold, SlotsAreCounted,
              Works, Driving, InFlight, IsIdle, Reserves, IsReopen, Open, Holders, LiveIds

LEMMA NextInv == ASSUME PoolInv, [Next]_vars PROVE PoolInv'
<1>1. ASSUME NEW c \in Calls, NEW kind \in Kinds, NEW by \in Sessions \cup {0},
             SpawnStarts(c, kind, by) \/ ResumeLive(c, kind, by) \/ ReopenStarts(c, kind, by)
      PROVE  PoolInv'
  BY <1>1, SpawnStartsInv, ResumeLiveInv, ReopenStartsInv
<1>2. ASSUME NEW c \in Calls, CallGoesOn(c) \/ FollowUp(c) PROVE PoolInv'
  BY <1>2, OpenedInv, OpenFailsInv, ClaimsInv, RunStartsInv, RunSkippedInv, CallSettlesInv,
     ReleaseSlotInv, ChildSettledInv, SlotExpiresInv, FollowUpInv DEF CallGoesOn
<1>3. ASSUME NEW s \in Sessions, SessionRests(s) PROVE PoolInv'
  BY <1>3, SessionRestsInv
<1>4. Esc \/ SessionShutdown \/ PiRestarts => PoolInv'
  BY EscInv, SessionShutdownInv, PiRestartsInv
<1>5. UNCHANGED vars => PoolInv'
  BY StutterInv
<1> QED
  BY <1>1, <1>2, <1>3, <1>4, <1>5 DEF Next, CallStarts

-----------------------------------------------------------------------------
(* Theorems *)

(* Whatever is in flight, the calls, the session objects, the records, the spawn rows and
   the slots agree (child-session.ts, child-busy.ts, child-reopen.ts). *)
THEOREM Invariant == Spec => []PoolInv
<1>1. Init => PoolInv
  BY InitInv
<1>2. PoolInv /\ [Next]_vars => PoolInv'
  BY NextInv
<1> QED
  BY <1>1, <1>2, PTL DEF Spec

(* The state keeps its types, and no group counts more slots than it has. *)
THEOREM PoolTypeCorrect == Spec => []PoolTypeOK
<1>1. PoolInv => PoolTypeOK
  BY DEF PoolInv
<1> QED
  BY <1>1, Invariant, PTL

(* A record says running exactly while one call drives it (child-session.ts,
   runChildToolInSlot and startRun). *)
THEOREM RunningIsTrue == Spec => []RunningIsDriven
<1>1. PoolInv => RunningIsDriven
  BY DEF PoolInv
<1> QED
  BY <1>1, Invariant, PTL

(* Two open sessions on one child: a shutdown fell into its reopening (child-reopen.ts,
   reopenEvictedChild). *)
LEMMA OneWriterInv == ASSUME PoolInv PROVE OneWriter
<1>0. PoolTypeOK /\ CallsHoldSessions /\ SessionsHaveChildren /\ RowsComeFirst /\ ReservationsHold
  BY DEF PoolInv
<1> SUFFICES ASSUME ~strays, NEW s \in Sessions, NEW t \in Sessions,
                    Open(s), Open(t), sess[s].id = sess[t].id
             PROVE  s = t
  BY DEF OneWriter
<1> DEFINE id == sess[s].id
<1>1. id \in Ids
  BY <1>0, Ranges DEF SessionsHaveChildren, Open
<1>2. CASE rootOf[id] = NoRoot
  BY <1>0, <1>1, <1>2 DEF RowsComeFirst
<1>3. CASE rootOf[id] # NoRoot
  <2>1. ASSUME NEW u \in Sessions, Open(u), sess[u].id = id, sess[u].st = "opening"
        PROVE  \E c \in Calls : Reserves(c) /\ call[c].pc = "opening" /\ call[c].sess = u
    BY <1>0, <1>3, <2>1 DEF SessionsHaveChildren, Reserves, IsReopen
  <2>2. ASSUME NEW u \in Sessions, Open(u), sess[u].id = id, sess[u].st = "opening"
        PROVE  id \notin LiveIds
    BY <1>0, <2>1, <2>2 DEF ReservationsHold
  <2>3. ASSUME NEW u \in Sessions, Open(u), sess[u].id = id, sess[u].st # "opening"
        PROVE  live[id].sess = u /\ id \in LiveIds
    BY <1>0, <1>1, <2>3, ConstantFacts DEF ReservationsHold, LiveIds
  <2>4. CASE sess[s].st = "opening" /\ sess[t].st = "opening"
    BY <1>0, <2>1, <2>4 DEF ReservationsHold
  <2>5. CASE sess[s].st # "opening" \/ sess[t].st # "opening"
    BY <2>2, <2>3, <2>5
  <2> QED
    BY <2>4, <2>5
<1> QED
  BY <1>2, <1>3

(* No child has two open sessions that would append to its file. *)
THEOREM SingleWriter == Spec => []OneWriter
<1>1. PoolInv => OneWriter
  BY OneWriterInv
<1> QED
  BY <1>1, Invariant, PTL

(* Each child at work has a call that holds a slot of its group. *)
LEMMA LimitInv == ASSUME PoolInv PROVE LimitHolds
<1>0. PoolTypeOK /\ CallsHoldSessions /\ SessionsHaveChildren /\ SlotsAreCounted
  BY DEF PoolInv
<1> SUFFICES ASSUME NEW kind \in Kinds
             PROVE  Cardinality({s \in Sessions \ expired :
                                   Open(s) /\ sess[s].st = "busy" /\ kindOf[sess[s].id] = kind}) <= Limit(kind)
  BY DEF LimitHolds
<1> DEFINE busy == {s \in Sessions \ expired :
                      Open(s) /\ sess[s].st = "busy" /\ kindOf[sess[s].id] = kind}
           slot == [s \in busy |-> CHOOSE c \in Holders(kind) : call[c].sess = s]
<1>1. ASSUME NEW s \in busy PROVE \E c \in Holders(kind) : call[c].sess = s
  <2>1. PICK c \in Calls : call[c].pc \in {"running", "return", "settling"} /\ call[c].sess = s
    BY <1>0 DEF SessionsHaveChildren
  <2>2. HoldsSession(c) /\ call[c].pc # "off"
    BY <1>0, <2>1 DEF CallsHoldSessions
  <2>3. sess[s].born = epoch /\ sess[s].born <= call[c].epoch /\ kindOf[sess[s].id] = call[c].kind
    BY <2>1, <2>2 DEF HoldsSession, Open
  <2>4. call[c].epoch = epoch
    BY <1>0, <2>2, <2>3, InHand DEF PoolTypeOK
  <2> QED
    BY <2>1, <2>2, <2>3, <2>4 DEF Holders
<1> HIDE DEF busy
<1>2. slot \in Injection(busy, Holders(kind))
  <2>1. \A s \in busy : slot[s] \in Holders(kind) /\ call[slot[s]].sess = s
    BY <1>1
  <2>2. slot \in [busy -> Holders(kind)]
    BY <2>1
  <2>3. \A s, t \in busy : slot[s] = slot[t] => s = t
    <3> HIDE DEF slot
    <3> QED
      BY <2>1
  <2> HIDE DEF slot
  <2> QED
    BY <2>2, <2>3 DEF Injection, IsInjective
<1>3. Cardinality(busy) <= Cardinality(Holders(kind))
  <2> HIDE DEF slot
  <2> QED
    BY <1>2, HoldersFinite, FS_Injection
<1>4. Cardinality(busy) \in Nat
  <2> HIDE DEF slot
  <2> QED
    BY <1>2, HoldersFinite, FS_Injection, FS_CardinalityType
<1>5. Cardinality(Holders(kind)) <= Limit(kind)
  BY <1>0 DEF PoolTypeOK, SlotsAreCounted
<1>6. Cardinality(busy) <= Limit(kind)
  BY <1>3, <1>4, <1>5, HoldersFinite, ConstantFacts
<1> QED
  BY <1>6 DEF busy

(* No more children of a group are at work than it has slots (child-busy.ts, releaseSlot). *)
THEOREM LimitIsKept == Spec => []LimitHolds
<1>1. PoolInv => LimitHolds
  BY LimitInv
<1> QED
  BY <1>1, Invariant, PTL

-----------------------------------------------------------------------------
(* What a step never does *)

(* A child is prompted only when its session is open and idle (child-session.ts,
   resumableLiveChild). *)
THEOREM PromptsIdle == Spec => PromptOnIdle
<1>1. PoolInv => \A c \in Calls : call[c].pc = "claimed" => IsIdle(call[c].sess)
  BY DEF PoolInv, CallsHoldSessions, HoldsSession
<1>2. PoolInv /\ [Next]_vars =>
        [ \A c \in Calls : call[c].pc = "claimed" /\ call'[c].pc = "running" => IsIdle(call[c].sess) ]_vars
  BY <1>1
<1> QED
  BY <1>2, Invariant, PTL DEF Spec, PromptOnIdle

(* Only a call that starts evicts, and only finished children. *)
LEMMA Evictions ==
  ASSUME PoolInv, [Next]_vars, evicted' \ evicted # {}
  PROVE  EvictFinishedChildren /\ epoch' = epoch
<1>1. ASSUME NEW c \in Calls, NEW kind \in Kinds, NEW by \in Sessions \cup {0},
             SpawnStarts(c, kind, by) \/ ReopenStarts(c, kind, by)
      PROVE  EvictFinishedChildren /\ epoch' = epoch
  BY <1>1 DEF SpawnStarts, ReopenStarts, where
<1>2. ASSUME NEW c \in Calls, NEW kind \in Kinds, NEW by \in Sessions \cup {0},
             ResumeLive(c, kind, by)
      PROVE  evicted' = evicted
  BY <1>2 DEF ResumeLive
<1>3. ASSUME NEW c \in Calls, CallGoesOn(c) \/ FollowUp(c) PROVE evicted' \subseteq evicted
  BY <1>3 DEF CallGoesOn, FollowUp, Opened, OpenFails, Claims, RunStarts, RunSkipped, CallSettles,
              ReleaseSlot, ChildSettled, SlotExpires, registry
<1>4. ASSUME NEW s \in Sessions, SessionRests(s) PROVE evicted' = evicted
  BY <1>4 DEF SessionRests, registry
<1>5. Esc => evicted' = evicted
  BY DEF Esc, registry
<1>6. SessionShutdown \/ PiRestarts => evicted' = {}
  BY DEF SessionShutdown, PiRestarts, ResetChildState
<1>7. UNCHANGED vars => evicted' = evicted
  BY DEF vars, registry
<1> QED
  BY <1>1, <1>2, <1>3, <1>4, <1>5, <1>6, <1>7 DEF Next, CallStarts

(* Eviction takes no child that works or that a call has claimed (child-reopen.ts,
   evictFinishedChildren). *)
THEOREM EvictionIsSafe == Spec => EvictsOnlyFinished
<1>1. ASSUME PoolInv, [Next]_vars, NEW id \in evicted' \ evicted
      PROVE  IsIdle(live[id].sess) /\ \A c \in Calls : call[c].sess = live[id].sess => ~Driving(c)
  <2>1. EvictFinishedChildren
    BY <1>1, Evictions
  <2>2. Remaining /\ id \in Dropped
    BY <1>1, <2>1 DEF EvictFinishedChildren
  <2> QED
    BY <1>1, <2>2, EvictFacts DEF Works
<1>2. PoolInv /\ [Next]_vars =>
        [ \A id \in evicted' \ evicted :
            IsIdle(live[id].sess) /\ \A c \in Calls : call[c].sess = live[id].sess => ~Driving(c) ]_vars
  BY <1>1
<1> QED
  BY <1>2, Invariant, PTL DEF Spec, EvictsOnlyFinished

(* A child stays within a resume's reach, live or with a tombstone, until the session
   ends (child-types.ts, "eviction is lossless"). *)
THEOREM EvictionIsLossless == Spec => NothingLost
<1>1. ASSUME PoolInv, [Next]_vars, epoch' = epoch
      PROVE  LiveIds \cup evicted \subseteq LiveIds' \cup evicted'
  <2>0. PoolTypeOK /\ epoch \in Nat
    BY <1>1, ConstantFacts DEF PoolInv, PoolTypeOK
  <2>1. ASSUME NEW c \in Calls, NEW kind \in Kinds, NEW by \in Sessions \cup {0},
               SpawnStarts(c, kind, by) \/ ReopenStarts(c, kind, by)
        PROVE  LiveIds \cup evicted \subseteq LiveIds' \cup evicted'
    <3>1. Remaining /\ evicted' = evicted \cup Dropped
      BY <2>1 DEF SpawnStarts, ReopenStarts, EvictFinishedChildren
    <3> QED
      BY <1>1, <3>1, EvictFacts
  <2>2. ASSUME NEW s, NEW flag \in BOOLEAN, SetRunning(s, flag), evicted' = evicted
        PROVE  LiveIds \cup evicted \subseteq LiveIds' \cup evicted'
    BY <2>0, <2>2, SetRunningFacts DEF RunningBecomes
  <2>3. ASSUME NEW c \in Calls, NEW kind \in Kinds, NEW by \in Sessions \cup {0},
               ResumeLive(c, kind, by)
        PROVE  LiveIds \cup evicted \subseteq LiveIds' \cup evicted'
    BY <2>2, <2>3 DEF ResumeLive
  <2>4. ASSUME NEW c \in Calls, Opened(c)
        PROVE  LiveIds \cup evicted \subseteq LiveIds' \cup evicted'
    <3> DEFINE s  == call[c].sess
               id == sess[s].id
    <3>1. s \in Sessions /\ s # 0 /\ id \in Ids
      BY <1>1, <2>4, InHand, ConstantFacts DEF Opened, Works
    <3>2. live' = [live EXCEPT ![id] = [sess |-> s, running |-> TRUE]] /\ evicted \subseteq evicted' \cup {id}
      BY <2>4 DEF Opened, Insert
    <3> HIDE DEF s, id
    <3>3. LiveIds' = LiveIds \cup {id}
      BY <2>0, <3>1, <3>2 DEF PoolTypeOK, LiveIds
    <3> QED
      BY <3>2, <3>3
  <2>5. ASSUME NEW c \in Calls, Claims(c) \/ RunSkipped(c) \/ CallSettles(c)
        PROVE  LiveIds \cup evicted \subseteq LiveIds' \cup evicted'
    BY <2>2, <2>5 DEF Claims, RunSkipped, CallSettles
  <2>6. ASSUME UNCHANGED <<live, evicted>>
        PROVE  LiveIds \cup evicted \subseteq LiveIds' \cup evicted'
    BY <2>6 DEF LiveIds
  <2>7. ASSUME NEW c \in Calls,
               \/ OpenFails(c) \/ RunStarts(c) \/ ReleaseSlot(c) \/ ChildSettled(c) \/ SlotExpires(c)
               \/ FollowUp(c)
        PROVE  UNCHANGED <<live, evicted>>
    BY <2>7 DEF OpenFails, RunStarts, ReleaseSlot, ChildSettled, SlotExpires, FollowUp, registry
  <2>8. ASSUME NEW s \in Sessions, SessionRests(s) PROVE UNCHANGED <<live, evicted>>
    BY <2>8 DEF SessionRests, registry
  <2>9. Esc => UNCHANGED <<live, evicted>>
    BY DEF Esc, registry
  <2>10. ~SessionShutdown /\ ~PiRestarts
    <3>1. epoch + 1 # epoch
      BY <2>0
    <3> QED
      BY <1>1, <3>1 DEF SessionShutdown, PiRestarts
  <2>11. UNCHANGED vars => UNCHANGED <<live, evicted>>
    BY DEF vars, registry
  <2> QED
    BY <1>1, <2>1, <2>3, <2>4, <2>5, <2>6, <2>7, <2>8, <2>9, <2>10, <2>11 DEF Next, CallStarts, CallGoesOn
<1>2. PoolInv /\ [Next]_vars =>
        [ epoch' = epoch => LiveIds \cup evicted \subseteq LiveIds' \cup evicted' ]_vars
  BY <1>1
<1> QED
  BY <1>2, Invariant, PTL DEF Spec, NothingLost

-----------------------------------------------------------------------------
(* The pool implements ChildService *)

(* Nothing of a call that the service sees changes. *)
LEMMA Unseen ==
  ASSUME UNCHANGED epoch,
         \A c \in Calls : /\ call'[c].kind = call[c].kind /\ call'[c].sess = call[c].sess
                          /\ call'[c].epoch = call[c].epoch
                          /\ call'[c].pc = "off" <=> call[c].pc = "off"
                          /\ Driving(c)' <=> Driving(c)
  PROVE  HeldSlots' = HeldSlots /\ Drives' = Drives
<1>1. \A c \in Calls : SlotOf(c)' = SlotOf(c) /\ DrivenBy(c)' = DrivenBy(c)
  BY DEF SlotOf, DrivenBy
<1> QED
  BY <1>1 DEF HeldSlots, Drives

LEMMA OneCall ==
  ASSUME UNCHANGED epoch, NEW c \in Calls, \A d \in Calls : d # c => call'[d] = call[d]
  PROVE  /\ HeldSlots' = [HeldSlots EXCEPT ![c] = SlotOf(c)']
         /\ Drives' = [Drives EXCEPT ![c] = DrivenBy(c)']
<1>1. \A d \in Calls : d # c => SlotOf(d)' = SlotOf(d) /\ DrivenBy(d)' = DrivenBy(d)
  BY DEF SlotOf, DrivenBy, Driving
<1> QED
  BY <1>1 DEF HeldSlots, Drives

LEMMA ServiceCounts == ASSUME NEW S PROVE Service!Cardinality(S) = Cardinality(S)
BY Zenon DEF Service!Cardinality, Cardinality

(* A group has a slot for one more call as its counter says. *)
LEMMA EntersService ==
  ASSUME PoolInv, UNCHANGED epoch,
         NEW c \in Calls, NEW kind \in Kinds, NEW by \in Sessions \cup {0},
         NEW place \in {"opening", "claimed"}, NEW s \in Sessions, TakeSlot(c, kind, by, place, s),
         place = "claimed" => \A d \in Calls : Driving(d) => call[d].sess # s
  PROVE  Service!Enter(c, kind, IF place = "claimed" THEN s ELSE 0)
<1> DEFINE drive == IF place = "claimed" THEN s ELSE 0
<1>0. PoolTypeOK /\ SlotsAreCounted
  BY DEF PoolInv
<1>1. /\ call[c].pc = "off" /\ active[kind] < Limit(kind)
      /\ call'[c].pc = place /\ call'[c].kind = kind /\ call'[c].sess = s /\ call'[c].epoch = epoch
      /\ \A d \in Calls : d # c => call'[d] = call[d]
  <2>1. place \in Places \ {"off"}
    OBVIOUS
  <2>2. /\ call[c].pc = "off"
        /\ call'[c] = [pc |-> place, kind |-> kind, sess |-> s, by |-> by, main |-> main,
                       epoch |-> epoch, aborted |-> FALSE]
        /\ \A d \in Calls : d # c => call'[d] = call[d]
    BY <2>1, TakeSlotFacts
  <2> QED
    BY <2>2 DEF TakeSlot
<1>2. HeldSlots[c] = "none" /\ Drives[c] = 0
  BY <1>1 DEF HeldSlots, Drives, SlotOf, DrivenBy, Driving
<1>3. {d \in Calls : HeldSlots[d] = kind} = Holders(kind)
  BY DEF HeldSlots, SlotOf, Holders
<1>4. Cardinality({d \in Calls : HeldSlots[d] = kind}) < [k \in Kinds |-> Limit(k)][kind]
  BY <1>0, <1>1, <1>3 DEF SlotsAreCounted
<1>5. drive # 0 => \A d \in Calls : Drives[d] # drive
  BY ConstantFacts DEF Drives, DrivenBy
<1>6. SlotOf(c)' = kind /\ DrivenBy(c)' = drive
  BY <1>1 DEF SlotOf, DrivenBy, Driving
<1>7. HeldSlots' = [HeldSlots EXCEPT ![c] = kind] /\ Drives' = [Drives EXCEPT ![c] = drive]
  BY <1>1, <1>6, OneCall
<1> HIDE DEF drive
<1>8. Service!Enter(c, kind, drive)
  <2>1. Cardinality(Service!Taken(kind)) < [k \in Kinds |-> Limit(k)][kind]
    BY <1>4 DEF Service!Taken
  <2>2. drive # 0 => Service!Undriven(drive)
    BY <1>5 DEF Service!Undriven
  <2> QED
    BY <1>2, <1>7, <2>1, <2>2, ServiceCounts DEF Service!Enter
<1> QED
  BY <1>8 DEF drive

(* A slot is left when nothing is driven with it. *)
LEMMA LeavesService ==
  ASSUME PoolInv, NEW c \in Calls, call[c].pc # "off", ~Driving(c), FreeSlot(c), UNCHANGED epoch
  PROVE  Service!Leave(c)
<1>1. call'[c] = Idle /\ \A d \in Calls : d # c => call'[d] = call[d]
  BY FreeSlotFacts
<1>2. SlotOf(c)' = "none" /\ DrivenBy(c)' = 0
  BY <1>1 DEF SlotOf, DrivenBy, Driving, Idle
<1>3. HeldSlots' = [HeldSlots EXCEPT ![c] = "none"] /\ Drives' = [Drives EXCEPT ![c] = 0]
  BY <1>1, <1>2, OneCall
<1>4. Drives[c] = 0 /\ HeldSlots[c] # "none"
  BY InHand DEF Drives, DrivenBy, HeldSlots, SlotOf
<1>5. Drives' = Drives
  BY <1>3, <1>4 DEF Drives
<1> QED
  BY <1>3, <1>4, <1>5 DEF Service!Leave

LEMMA StopsService ==
  ASSUME PoolInv, NEW c \in Calls, Driving(c), Goes(c, "return"), UNCHANGED epoch
  PROVE  Service!Stop(c)
<1>1. OnlyMoves(c, "return") /\ call[c].sess \in Sessions
  BY GoesMoves, InHand DEF PoolInv, Driving
<1>2. \A d \in Calls : d # c => call'[d] = call[d]
  BY <1>1 DEF OnlyMoves
<1>3. SlotOf(c)' = SlotOf(c) /\ DrivenBy(c)' = 0
  BY <1>1 DEF SlotOf, DrivenBy, Driving, OnlyMoves
<1>4. HeldSlots' = [HeldSlots EXCEPT ![c] = SlotOf(c)] /\ Drives' = [Drives EXCEPT ![c] = 0]
  BY <1>2, <1>3, OneCall
<1>5. HeldSlots' = HeldSlots
  BY <1>4 DEF HeldSlots
<1>6. Drives[c] # 0
  BY <1>1, ConstantFacts DEF Drives, DrivenBy
<1> QED
  BY <1>4, <1>5, <1>6 DEF Service!Stop

LEMMA OpenedDrives ==
  ASSUME PoolInv, NEW c \in Calls, Opened(c) PROVE Service!Drive(c, call[c].sess)
<1> DEFINE s     == call[c].sess
           place == IF IsReopen(c) THEN "opened" ELSE "claimed"
<1>1. call[c].pc = "opening" /\ s \in Sessions /\ epoch' = epoch
  BY InHand DEF Opened, where
<1>2. OnlyMoves(c, place)
  <2>1. Goes(c, place) /\ place \in Places
    BY DEF Opened
  <2> QED
    BY <2>1, GoesMoves DEF PoolInv
<1>3. place \in {"opened", "claimed"}
  OBVIOUS
<1> HIDE DEF place
<1>4. \A d \in Calls : d # c => call'[d] = call[d]
  BY <1>2 DEF OnlyMoves
<1>5. SlotOf(c)' = SlotOf(c) /\ DrivenBy(c)' = s
  BY <1>1, <1>2, <1>3 DEF SlotOf, DrivenBy, Driving, OnlyMoves
<1>6. HeldSlots' = [HeldSlots EXCEPT ![c] = SlotOf(c)] /\ Drives' = [Drives EXCEPT ![c] = s]
  BY <1>1, <1>4, <1>5, OneCall
<1>7. HeldSlots' = HeldSlots
  BY <1>6 DEF HeldSlots
<1>8. Drives[c] = 0 /\ HeldSlots[c] # "none"
  BY <1>1, InHand DEF Drives, DrivenBy, Driving, HeldSlots, SlotOf
<1>9. \A d \in Calls : Drives[d] # s
  BY <1>1, ConstantFacts DEF PoolInv, OneWorker, Works, Drives, DrivenBy, Driving
<1> QED
  BY <1>6, <1>7, <1>8, <1>9 DEF Service!Drive, Service!Undriven

LEMMA ShutdownResets == ASSUME PoolInv, SessionShutdown PROVE Service!Reset
<1>1. call' = call /\ epoch' = epoch + 1 /\ epoch \in Nat
  BY ConstantFacts DEF SessionShutdown, PoolInv, PoolTypeOK
<1>2. ASSUME NEW c \in Calls
      PROVE  /\ SlotOf(c)' = IF HeldSlots[c] = "none" THEN "none" ELSE "lost"
             /\ DrivenBy(c)' = DrivenBy(c)
  <2>1. call[c].pc # "off" =>
          call[c].epoch # epoch' /\ call[c].kind \in Kinds
    BY <1>1, InHand
  <2> QED
    BY <1>1, <2>1 DEF SlotOf, HeldSlots, DrivenBy, Driving
<1>3. /\ HeldSlots' = [c \in Calls |-> IF HeldSlots[c] = "none" THEN "none" ELSE "lost"]
      /\ Drives' = Drives
  BY <1>2 DEF HeldSlots, Drives
<1> QED
  BY <1>3 DEF Service!Reset

LEMMA PiRestartsService == PiRestarts => Service!Restart
<1> SUFFICES ASSUME PiRestarts PROVE Service!Restart
  OBVIOUS
<1>1. \A c \in Calls : SlotOf(c)' = "none" /\ DrivenBy(c)' = 0
  BY DEF PiRestarts, SlotOf, DrivenBy, Driving, Idle
<1>2. HeldSlots' = [c \in Calls |-> "none"] /\ Drives' = [c \in Calls |-> 0]
  BY <1>1 DEF HeldSlots, Drives
<1> QED
  BY <1>2 DEF Service!Restart

(* Every step of the pool is a step of the service, or one it does not see. *)
LEMMA StepsOfService ==
  ASSUME PoolInv, [Next]_vars
  PROVE  Service!Next \/ UNCHANGED <<HeldSlots, Drives>>
<1>0. PoolTypeOK /\ RunningIsDriven /\ LiveChildrenAreOpen
  BY DEF PoolInv
<1>1. ASSUME NEW c \in Calls, NEW kind \in Kinds, NEW by \in Sessions \cup {0},
             SpawnStarts(c, kind, by) \/ ReopenStarts(c, kind, by)
      PROVE  Service!Next
  <2>1. PICK s \in Sessions : TakeSlot(c, kind, by, "opening", s) /\ epoch' = epoch
    BY <1>1 DEF SpawnStarts, ReopenStarts, where
  <2>2. Service!Enter(c, kind, 0)
    BY <2>1, EntersService
  <2> QED
    BY <2>2 DEF Service!Next
<1>2. ASSUME NEW c \in Calls, NEW kind \in Kinds, NEW by \in Sessions \cup {0}, ResumeLive(c, kind, by)
      PROVE  Service!Next
  <2>1. PICK id \in Ids : /\ ResumableLive(id, kind) /\ TakeSlot(c, kind, by, "claimed", live[id].sess)
                          /\ epoch' = epoch
    BY <1>2 DEF ResumeLive, where
  <2>2. live[id].sess \in Sessions /\ \A d \in Calls : Driving(d) => call[d].sess # live[id].sess
    BY <1>0, <2>1, Ranges DEF ResumableLive, RunningIsDriven
  <2>3. Service!Enter(c, kind, live[id].sess)
    BY <2>1, <2>2, EntersService
  <2> QED
    BY <2>2, <2>3 DEF Service!Next
<1>3. ASSUME NEW c \in Calls, Opened(c) PROVE Service!Next
  BY <1>3, OpenedDrives, InHand DEF Opened, Service!Next
<1>4. ASSUME NEW c \in Calls, call[c].pc \in {"opening", "return", "settling"}, FreeSlot(c), epoch' = epoch
      PROVE  Service!Next
  BY <1>4, LeavesService DEF Driving, Service!Next
<1>5. ASSUME NEW c \in Calls, OpenFails(c) \/ ChildSettled(c) \/ SlotExpires(c) PROVE Service!Next
  BY <1>4, <1>5 DEF OpenFails, ChildSettled, SlotExpires, where
<1>6. ASSUME NEW c \in Calls, NEW place \in Places, Goes(c, place), epoch' = epoch, call[c].pc # "off", place # "off",
             Driving(c) <=> place \in {"opened", "claimed", "running"}
      PROVE  UNCHANGED <<HeldSlots, Drives>>
  <2>1. OnlyMoves(c, place)
    BY <1>0, <1>6, GoesMoves
  <2>2. \A d \in Calls : /\ Driving(d)' <=> Driving(d)
                         /\ call'[d].pc = "off" <=> call[d].pc = "off"
    BY <1>6, <2>1 DEF Driving, OnlyMoves
  <2> QED
    BY <1>6, <2>1, <2>2, Unseen DEF OnlyMoves
<1>7. ASSUME NEW c \in Calls, Claims(c) \/ RunStarts(c)
      PROVE  UNCHANGED <<HeldSlots, Drives>>
  BY <1>6, <1>7 DEF Claims, RunStarts, Driving, where
<1>8. ASSUME NEW c \in Calls, RunSkipped(c) \/ CallSettles(c) PROVE Service!Next
  BY <1>8, StopsService DEF RunSkipped, CallSettles, Driving, where, Service!Next
<1>9. ASSUME NEW c \in Calls, ReleaseSlot(c) PROVE Service!Next \/ UNCHANGED <<HeldSlots, Drives>>
  BY <1>4, <1>6, <1>9 DEF ReleaseSlot, Driving, where
<1>10. ASSUME UNCHANGED <<call, epoch>> PROVE UNCHANGED <<HeldSlots, Drives>>
  BY <1>10 DEF HeldSlots, Drives, SlotOf, DrivenBy, Driving
<1>11. ASSUME NEW c \in Calls, FollowUp(c) PROVE UNCHANGED <<HeldSlots, Drives>>
  BY <1>10, <1>11 DEF FollowUp, where
<1>12. ASSUME NEW s \in Sessions, SessionRests(s) PROVE UNCHANGED <<HeldSlots, Drives>>
  BY <1>10, <1>12 DEF SessionRests, where
<1>13. UNCHANGED vars => UNCHANGED <<HeldSlots, Drives>>
  BY <1>10 DEF vars, where
<1>14. ASSUME Esc PROVE UNCHANGED <<HeldSlots, Drives>>
  BY <1>0, <1>14, EscMarks, Unseen DEF Driving, Esc, where
<1>15. SessionShutdown \/ PiRestarts => Service!Next
  BY ShutdownResets, PiRestartsService DEF Service!Next
<1> QED
  BY <1>1, <1>2, <1>3, <1>5, <1>7, <1>8, <1>9, <1>11, <1>12, <1>13, <1>14, <1>15
     DEF Next, CallStarts, CallGoesOn

(* The counters, the records and the reservations keep the promise of ChildService
   (child-busy.ts, child-session.ts). *)
THEOREM KeepsService == Spec => ServiceSpec
<1>1. Init => Service!Init
  <2> SUFFICES ASSUME Init PROVE Service!Init
    OBVIOUS
  <2>1. \A c \in Calls : SlotOf(c) = "none" /\ DrivenBy(c) = 0
    BY DEF Init, SlotOf, DrivenBy, Driving, Idle
  <2> QED
    BY <2>1 DEF Service!Init, HeldSlots, Drives
<1>2. PoolInv /\ [Next]_vars => [Service!Next]_<<HeldSlots, Drives>>
  BY StepsOfService
<1> QED
  BY <1>1, <1>2, Invariant, PTL DEF Spec, ServiceSpec, Service!Spec

===============================================================================
