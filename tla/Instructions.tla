---------------------------- MODULE Instructions ----------------------------
(***************************************************************************)
(* Assembly items and the instruction table of libevmasm.                  *)
(*                                                                         *)
(* An AssemblyItem is a record with its type, its opcode (operations       *)
(* only), its data (pushed value or tag id) and, for a PushTag, the sub    *)
(* assembly the tag lives in: 0 is the assembly itself, k > 0 its sub      *)
(* assembly number k - 1 (the code keeps subId + 1 in the upper bits).     *)
(***************************************************************************)
EXTENDS Naturals, Sequences

NoOp == ""

Operation(o)    == [type |-> "Operation", op |-> o,    data |-> 0, sub |-> 0]
Push(v)         == [type |-> "Push",      op |-> NoOp, data |-> v, sub |-> 0]
Tag(t)          == [type |-> "Tag",       op |-> NoOp, data |-> t, sub |-> 0]
PushTag(s, t)   == [type |-> "PushTag",   op |-> NoOp, data |-> t, sub |-> s]

Info(a, r, s) == [args |-> a, ret |-> r, sideEffects |-> s]

(* c_instructionInfo, for one or more representatives of every kind of     *)
(* instruction that the optimiser tells apart.                             *)
instructionInfo ==
  [ STOP         |-> Info(0, 0, TRUE),   REVERT       |-> Info(2, 0, TRUE),
    ADD          |-> Info(2, 1, FALSE),  SUB          |-> Info(2, 1, FALSE),
    AND          |-> Info(2, 1, FALSE),  NOT          |-> Info(1, 1, FALSE),
    LT           |-> Info(2, 1, FALSE),  GT           |-> Info(2, 1, FALSE),
    ISZERO       |-> Info(1, 1, FALSE),  ADDMOD       |-> Info(3, 1, FALSE),
    CALLER       |-> Info(0, 1, FALSE),  POP          |-> Info(1, 0, FALSE),
    DUP1         |-> Info(1, 2, FALSE),  DUP2         |-> Info(2, 3, FALSE),
    SWAP1        |-> Info(2, 2, FALSE),  SWAP2        |-> Info(3, 3, FALSE),
    JUMP         |-> Info(1, 0, TRUE),   JUMPI        |-> Info(2, 0, TRUE),
    SSTORE       |-> Info(2, 0, TRUE),   SLOAD        |-> Info(1, 1, FALSE),
    MSTORE       |-> Info(2, 0, TRUE),   MLOAD        |-> Info(1, 1, TRUE),
    KECCAK256    |-> Info(2, 1, TRUE),   CREATE       |-> Info(3, 1, TRUE),
    CREATESIGNAL |-> Info(1, 1, FALSE),  DELETESIGNAL |-> Info(1, 1, FALSE),
    SIGBIND      |-> Info(11, 1, FALSE), SIGDETACH    |-> Info(3, 1, FALSE),
    SIGEMIT      |-> Info(6, 1, FALSE) ]

DupNumber  == [DUP1 |-> 1, DUP2 |-> 2]
SwapNumber == [SWAP1 |-> 1, SWAP2 |-> 2]

IsOp(item, ops)   == item.type = "Operation" /\ item.op \in ops
IsDup(item)       == IsOp(item, DOMAIN DupNumber)
IsSwap(item)      == IsOp(item, DOMAIN SwapNumber)

isCommutativeOperation(item) == IsOp(item, {"ADD", "AND"})
altersControlFlow(item) == IsOp(item, {"JUMP", "JUMPI", "STOP", "REVERT"})

(* AssemblyItem::bytesRequired for the given address length; every pushed  *)
(* value of the model fits one byte.                                       *)
BytesRequired(item, addressLength) ==
  CASE item.type \in {"Operation", "Tag"} -> 1
    [] item.type = "Push"                 -> 2
    [] item.type = "PushTag"              -> 1 + addressLength
=============================================================================
