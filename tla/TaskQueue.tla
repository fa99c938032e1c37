------------------------------ MODULE TaskQueue ------------------------------
(***************************************************************************)
(* What an EventLoop promises to the callers of runInLoop and queueInLoop: *)
(* a callback given from another thread, or queued, runs exactly once, in  *)
(* the order in which the callbacks were queued; a callback given to       *)
(* runInLoop by the loop thread itself runs at once.                       *)
(***************************************************************************)
EXTENDS Sequences

CONSTANT Functors        \* the callbacks, each given to the loop at most once

VARIABLES
  todo,                  \* callbacks accepted and not yet started, oldest first
  done,                  \* queued callbacks that were started, oldest first
  inline                 \* callbacks runInLoop started in its caller

vars == <<todo, done, inline>>

Elements(s) == {s[i] : i \in DOMAIN s}

Fresh(f) == f \notin Elements(todo) \cup Elements(done) \cup inline

Init ==
  /\ todo = <<>>
  /\ done = <<>>
  /\ inline = {}

Submit(f) ==
  /\ Fresh(f)
  /\ todo' = Append(todo, f)
  /\ UNCHANGED <<done, inline>>

Run ==
  /\ todo # <<>>
  /\ done' = Append(done, Head(todo))
  /\ todo' = Tail(todo)
  /\ UNCHANGED inline

RunNow(f) ==
  /\ Fresh(f)
  /\ inline' = inline \cup {f}
  /\ UNCHANGED <<todo, done>>

Next ==
  \/ \E f \in Functors : Submit(f) \/ RunNow(f)
  \/ Run

Spec == Init /\ [][Next]_vars

==============================================================================
