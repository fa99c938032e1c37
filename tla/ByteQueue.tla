------------------------------ MODULE ByteQueue ------------------------------
(***************************************************************************)
(* What Buffer promises its users (the picture in net/Buffer.h): CONTENT   *)
(* is a sequence of bytes that grows at its end, is consumed from its      *)
(* front, and takes a header in front of it.  Where the bytes are, and     *)
(* when they move, is not visible.                                         *)
(***************************************************************************)
EXTENDS Naturals, Sequences

CONSTANT Chunks          \* the data one call puts in

VARIABLE content

Init == content = <<>>

Put(data) == content' = content \o data

PutFront(data) == content' = data \o content

Take(n) ==
  /\ n <= Len(content)
  /\ content' = SubSeq(content, n + 1, Len(content))

DropLast(n) ==
  /\ n <= Len(content)
  /\ content' = SubSeq(content, 1, Len(content) - n)

Next ==
  \/ \E data \in Chunks : Put(data) \/ PutFront(data)
  \/ \E n \in 0 .. Len(content) : Take(n) \/ DropLast(n)

Spec == Init /\ [][Next]_content
=============================================================================
