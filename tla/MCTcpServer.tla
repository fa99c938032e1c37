----------------------------- MODULE MCTcpServer -----------------------------
(* Instances of TcpServer for TLC: the programs that use the library.          *)
EXTENDS TcpServer

CONSTANTS t1, m1, m2

NoThreads   == {}
OneThread   == {t1}
TwoMessages == {m1, m2}

CloseOps == {"send", "shutdown", "forceClose", "forceCloseWithDelay"}
ReadOps  == {"send", "shutdown", "stopRead", "startRead"}
AllOps   == CloseOps \cup ReadOps

Program(ops, threadOps, messages, sameLoop) ==
  [ops |-> ops, threadOps |-> threadOps, messages |-> messages, sameLoop |-> sameLoop]

(* The loop thread only: each program keeps to operations that go together. *)
LoopPrograms ==
  {Program(CloseOps, {}, TwoMessages, TRUE),
   Program(CloseOps, {}, {m1}, FALSE),
   Program(ReadOps, {}, {m1}, TRUE),
   Program({"send", "destroyServer"}, {}, {m1}, TRUE)}

ASSUME LoopDisciplined == \A p \in LoopPrograms : Disciplined(p)

ThreadPrograms ==
  {Program({"send"}, {"send"}, TwoMessages, FALSE),
   Program({}, AllOps, {m1}, TRUE)}

StopReadProgram       == {Program({"stopRead", "forceClose"}, {}, {}, TRUE)}
DestroyClosingProgram == {Program({"shutdown", "destroyServer"}, {}, {}, TRUE)}
ThreadShutdownProgram == {Program({}, {"shutdown"}, {}, FALSE)}

==============================================================================
