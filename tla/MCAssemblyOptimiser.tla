------------------------ MODULE MCAssemblyOptimiser ------------------------
(* The driver on programs of a few blocks, with the code before and after  *)
(* compared by executing both.                                             *)
EXTENDS AssemblyOptimiser, EVMachine

Block(t, body) == <<Tag(t)>> \o body

Jump(a)     == <<PushTag(0, a), Operation("JUMP")>>
Branch(a)   == <<PushTag(0, a), Operation("JUMPI")>>
Call(a, b)  == <<PushTag(0, a), PushTag(0, b), Operation("JUMP")>>
Halt(o)     == <<Operation(o)>>

(* A program of n blocks jumps to its last one; block t is labelled t.     *)
Program(n, bodies) ==
  LET from[t \in 1 .. n + 1] ==
        IF t > n THEN <<>> ELSE Block(t, bodies[t]) \o from[t + 1]
  IN  Jump(n) \o from[1]

(* Blocks that stop, jump, or branch and fall through to the next block.   *)
MixedPrograms ==
  {Program(4, bodies) : bodies \in [1 .. 4 -> {Halt("STOP"), Halt("REVERT")}
                                      \cup {Jump(a) : a \in 1 .. 4}
                                      \cup {Branch(1)}]}

(* Two leaves and loops that differ in the leaf they mention: blocks *)
(* that become equal only after others have been merged.                   *)
LoopPrograms ==
  {Program(5, [t \in 1 .. 5 |-> IF t = 1 THEN Halt("STOP") ELSE IF t = 2 THEN Halt(leaf)
                                ELSE bodies[t]]) :
     leaf \in {"STOP", "REVERT"},
     bodies \in [3 .. 5 -> {Call(a, b) : a \in {1, 3, 4, 5}, b \in 1 .. 2}]}

(* Two leaves that are merged at once, and one that only jumps to a leaf   *)
(* at first.  The loops that mention them are merged in two rounds: a loop *)
(* that is kept for the parent although it was replaced is replaced again. *)
TwiceReplaced ==
  Call(2, 3) \o Block(1, Call(1, 7)) \o Block(2, Call(1, 6)) \o Block(3, Call(3, 9))
    \o Block(5, Call(5, 9)) \o Block(6, Jump(8)) \o Block(7, Halt("STOP"))
    \o Block(8, Halt("STOP")) \o Block(9, Halt("STOP"))

MCTags == 1 .. 9

AllPrograms == MixedPrograms \cup LoopPrograms \cup {TwiceReplaced}
-----------------------------------------------------------------------------
(* The stack the code is entered with when behaviours are compared.        *)
Entry == <<1, 2, 0, 1>>

(* Code entered at its start or through a tag the parent pushes, which is  *)
(* still there, ends in the same way with the same effects as before       *)
(* optimisation.                                                           *)
EntriesPreserved ==
  LET same(before, after) ==
        \/ before.status \in {"running", "invalid"}
        \/ after.status = before.status /\ after.log = before.log
  IN  pc = "done" =>
        /\ same(Outcome(source, 1, Entry), Outcome(items, 1, Entry))
        /\ \A t \in DOMAIN entries :
             /\ entries[t] \in Labels(items)
             /\ same(Outcome(source, JumpTarget(source, t), Entry),
                     Outcome(items, JumpTarget(items, entries[t]), Entry))
=============================================================================
