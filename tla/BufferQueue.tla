----------------------------- MODULE BufferQueue -----------------------------
(***************************************************************************)
(* A Buffer and the calls its owner makes, in any order.  The calls are    *)
(* those whose assertions hold, as the callers in net/ ensure.             *)
(***************************************************************************)
EXTENDS Buffer

CONSTANTS
  Chunks,                \* the data one call puts in
  IntSizes,              \* sizes of the integers: 1, 2, 4 and 8 in the program
  MaxSize                \* bound: size of buffer_ beyond which nothing is put in

ASSUME IntSizesAssumption == IntSizes \subseteq Nat /\ MaxSize \in Nat

VARIABLE buf

Init == buf = NewBuffer(kInitialSize)

DoAppend(data) == buf' = AppendData(buf, data)

(* The owner writes at beginWrite() itself, then calls hasWritten. *)
DoHasWritten(data) ==
  /\ Len(data) <= WritableBytes(buf)
  /\ buf' = HasWritten(buf, data)

DoPrepend(data) ==
  /\ Len(data) <= PrependableBytes(buf)
  /\ buf' = Prepend(buf, data)

DoReadFd(data) ==
  /\ Len(data) <= ReadFdRoom(buf)
  /\ buf' = ReadFd(buf, data)

DoRetrieve(len) == buf' = Retrieve(buf, len)
DoUnwrite(len)  == buf' = Unwrite(buf, len)
DoEnsureWritableBytes(len) == buf' = EnsureWritableBytes(buf, len)
DoShrink(reserve) == buf' = Shrink(buf, reserve)

Next ==
  \/ /\ buf.size <= MaxSize
     /\ \/ \E data \in Chunks :
             DoAppend(data) \/ DoHasWritten(data) \/ DoPrepend(data) \/ DoReadFd(data)
        \/ \E len \in IntSizes : DoEnsureWritableBytes(len)
  \/ \E len \in 0 .. ReadableBytes(buf) : DoRetrieve(len) \/ DoUnwrite(len)
  \/ \E reserve \in IntSizes : DoShrink(reserve)

Spec == Init /\ [][Next]_buf

------------------------------------------------------------------------------

(* 0 <= readerIndex <= writerIndex <= size, as the picture in Buffer.h says. *)
Indices ==
  /\ buf.readerIndex_ \in Nat /\ buf.writerIndex_ \in Nat /\ buf.size \in Nat
  /\ buf.readerIndex_ <= buf.writerIndex_
  /\ buf.writerIndex_ <= buf.size
  /\ kCheapPrepend <= buf.size
  /\ DOMAIN buf.buffer_ = 0 .. buf.size - 1

(* makeSpace moves the readable bytes only towards the front and                *)
(* ensureWritableBytes always finds the room: no assertion of either can fail,  *)
(* whatever calls came before.                                                  *)
RoomIsFound == \A len \in 0 .. MaxSize : EnsureWritableBytesAsserts(buf, len)

(* An integer of any size reads back as it was written: prepended to whatever   *)
(* the buffer holds, and appended to an empty one.                              *)
IntegersReadBack ==
  \A n \in IntSizes : \A x \in Integers_(n) :
    /\ n <= PrependableBytes(buf) => PeekInt(PrependInt(buf, n, x), n) = x
    /\ ReadableBytes(buf) = 0 => PeekInt(AppendInt(buf, n, x), n) = x

Queue == INSTANCE ByteQueue WITH content <- ToStringPiece(buf)

(* The buffer is the queue of bytes its users take it for: moving the bytes,    *)
(* growing, shrinking and reading through extrabuf lose, repeat and reorder     *)
(* nothing.                                                                     *)
IsByteQueue == Queue!Spec
=============================================================================
