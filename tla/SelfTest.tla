-------------------------------- MODULE SelfTest --------------------------------
(***************************************************************************)
(* The server's program (Server/src/Main.cpp): before it starts up, a loop  *)
(* sends every int, from INT_MAX down, through a CWriteStream and a         *)
(* CReadStream of its own on one buffer, as type and body of a              *)
(* CSimpleMessage, and traps where another value comes out.                 *)
(*                                                                         *)
(* The macros return false from main when a type is refused, which ends the *)
(* program.  Serialize of the message returns false instead, and the loop   *)
(* does not look at it.                                                     *)
(***************************************************************************)
EXTENDS Streams

CONSTANTS
  SIMPLE_MESSAGE,   \* ETypes: 0,
  LENGTH            \*   and the number of types, 2

INT_MIN == -(UINT32_MOD \div 2)
INT_MAX == UINT32_MOD \div 2 - 1

TypeField == [kind |-> "int", min |-> 0, max |-> LENGTH]
\* The range of the whole type (SimpleMessage.h:33), not the one in the comment on
\* m_message: min = 0, max = 1000 (line 28).
MessageField == [kind |-> "int", min |-> INT_MIN, max |-> INT_MAX]

ASSUME SelfTestAssumption ==
  /\ SIMPLE_MESSAGE \in 0 .. LENGTH - 1
  /\ LENGTH \in 1 .. INT_MAX
  /\ Field = {TypeField, MessageField}
  /\ MaxFields >= 2
  /\ BufferWords >= 2   \* transmissionBuf has 16 bytes, which are four words

VARIABLES
  i,        \* the loop's counter
  pc,       \* where main is
  msgRecv   \* the number in the message received, in whose place the message
            \* has an uninitialized one when it is refused

selfTestVars == <<streamVars, i, pc, msgRecv>>

-----------------------------------------------------------------------------
SelfTestInit ==
  /\ StreamInit
  /\ i = INT_MAX
  /\ pc = "type"
  /\ msgRecv \in int32

GoTo(from, to) == pc = from /\ pc' = to

\* The new message's type and the counter, and the flush.
SendType ==
  /\ GoTo("type", "message")
  /\ WriteField(TypeField, SIMPLE_MESSAGE)
  /\ UNCHANGED <<i, msgRecv>>

SendMessage ==
  /\ GoTo("message", "flush")
  /\ WriteField(MessageField, i)
  /\ UNCHANGED <<i, msgRecv>>

FlushStream ==
  /\ GoTo("flush", "receive")
  /\ Flush
  /\ UNCHANGED <<i, msgRecv>>

\* CreateMessage of CSimpleMsgFactory: there is a class for one type only.
Creates(type) == type = SIMPLE_MESSAGE

\* A type without a message is passed over.
ReceiveType ==
  /\ ReadField(TypeField)
  /\ GoTo("receive", CASE trapped' -> "failed"
                       [] outcome' = "refused" -> "ended"
                       [] OTHER -> IF Creates(got'[1]) THEN "body" ELSE "skipped")
  /\ UNCHANGED <<i, msgRecv>>

\* The message is received whatever Serialize returns, and compared.
ReceiveMessage ==
  /\ ReadField(MessageField)
  /\ IF Len(got') = 2 THEN msgRecv' = got'[2] ELSE msgRecv' \in int32
  /\ GoTo("body", IF ~trapped' /\ msgRecv' = i THEN "passed" ELSE "failed")
  /\ UNCHANGED i

\* i--, which wraps as the compiler of this project makes it: for i >= INT_MIN
\* it always does.
Decremented_Wider(n) == n - 1

Decremented(n) == ToSigned(ToUnsigned(n - 1))

\* The streams of the next iteration find the buffer as it was left.
NextInt ==
  /\ pc \in {"passed", "skipped"}
  /\ i' = Decremented(i)
  /\ pc' = IF i' >= INT_MIN THEN "type" ELSE "startUp"
  /\ writer' = NewWriter
  /\ reader' = NewReader
  /\ flushed' = FALSE
  /\ outcome' = "running"
  /\ written' = <<>> /\ output' = <<>>
  /\ asked' = 0
  /\ touched' = {}
  /\ fields' = <<>> /\ values' = <<>>
  /\ wanted' = <<>> /\ got' = <<>>
  /\ UNCHANGED <<m_buffer, trapped, msgRecv>>

-----------------------------------------------------------------------------
SelfTestNext ==
  \/ SendType
  \/ SendMessage
  \/ FlushStream
  \/ ReceiveType
  \/ ReceiveMessage
  \/ NextInt

\* The program runs.
SelfTestSpec ==
  SelfTestInit /\ [][SelfTestNext]_selfTestVars /\ WF_selfTestVars(SelfTestNext)

-----------------------------------------------------------------------------
(* Properties *)

(* The trap of Main.cpp:62 never fails, and none of those below it does: no  *)
(* int is refused, mistaken for another or passed over, whatever the message *)
(* before it left in the buffer.  This is the code and not its comment: by   *)
(* SimpleMessage.h:28 a message lies between 0 and 1000, but line 33         *)
(* serializes INT_MIN to INT_MAX, and so ints pass here that, by the         *)
(* comment, no message has.                                                  *)
EveryIntPasses ==
  /\ pc \in {"type", "message", "flush", "receive", "body", "passed"}
  /\ outcome = "running" /\ ~trapped
  /\ pc = "passed" => msgRecv = i

(* The loop of Main.cpp:39 has no last iteration: every int is tested again  *)
(* and again, so that the server behind the loop is never started.           *)
NoLastInt == \A n \in int32 : []<>(pc = "passed" /\ i = n)
=============================================================================
