---------------------------- MODULE HandoffCommand ----------------------------
(***************************************************************************)
(* What /handoff promises its user, without the cycle behind it: every     *)
(* invocation is answered exactly once, one at a time is served, and only  *)
(* a document an author of this cycle wrote opens a new session.           *)
(* ContextCap implements this (pi/extensions/lib/context-cap-manual.ts).   *)
(***************************************************************************)
CONSTANTS
  Commands,  \* invocations of /handoff
  Seeds      \* documents a new session may start from

VARIABLE cmd  \* per command: how far it got, and the document it was given

None    == "none"
At(s)   == [at |-> s, seed |-> None]
Doc(d)  == [at |-> "seeding", seed |-> d]
Waiting == {c \in Commands : cmd[c].at = "waiting"}
Answers == {At("failed")} \cup {Doc(d) : d \in Seeds}

Init == cmd = [c \in Commands |-> At("new")]

(* One waits at most; the command may also be answered on the spot. *)
Accept(c) ==
  /\ cmd[c].at = "new" /\ Waiting = {}
  /\ \/ cmd' = [cmd EXCEPT ![c].at = "waiting"]
     \/ \E v \in Answers : cmd' = [cmd EXCEPT ![c] = v]

Refuse(c) ==
  /\ cmd[c].at = "new" /\ Waiting # {}
  /\ cmd' = [cmd EXCEPT ![c].at = "refused"]

Answer(c) ==
  /\ cmd[c].at = "waiting"
  /\ \E v \in Answers : cmd' = [cmd EXCEPT ![c] = v]

(* The session ends: a new one starts from the document of one command of
   `alive`, everybody else still unserved gets nothing. *)
SessionEnds(alive) ==
  cmd' = [c \in Commands |->
            IF c \in alive THEN [cmd[c] EXCEPT !.at = "seeded"]
            ELSE IF cmd[c].at = "waiting" THEN At("failed")
            ELSE IF cmd[c].at = "seeding" THEN [cmd[c] EXCEPT !.at = "dropped"]
            ELSE cmd[c]]

Seed(c) == cmd[c].at = "seeding" /\ SessionEnds({c})

Next ==
  \/ \E c \in Commands : Accept(c) \/ Refuse(c) \/ Answer(c) \/ Seed(c)
  \/ SessionEnds({})

Spec == Init /\ [][Next]_cmd
=============================================================================
