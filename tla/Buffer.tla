------------------------------- MODULE Buffer -------------------------------
(***************************************************************************)
(* The class Buffer (net/Buffer.h, net/Buffer.cc) as operators: each       *)
(* method takes the buffer before the call, a record of the vector         *)
(* buffer_ and its two indices, and gives the buffer after it.  What a     *)
(* method asserts is the operator of the same name ending in Asserts.      *)
(* The byte is any value: a number below ByteBase where a number is        *)
(* encoded, a token of a text where only its place matters.                *)
(***************************************************************************)
EXTENDS Integers, Sequences

CONSTANTS
  kCheapPrepend,
  kInitialSize,
  ExtraBuf,              \* sizeof extrabuf in readFd
  ByteBase,              \* values of a byte: 256 in the program
  ZeroByte               \* what a new element of buffer_ holds

ASSUME SizesAssumption ==
  kCheapPrepend \in Nat /\ kInitialSize \in Nat /\ ExtraBuf \in Nat

NULL == -1
kCRLF == <<"CR", "LF">>

ReadableBytes(b)    == b.writerIndex_ - b.readerIndex_
WritableBytes(b)    == b.size - b.writerIndex_
PrependableBytes(b) == b.readerIndex_

(* Buffer(initialSize).  size is buffer_.size(), buffer_ its elements from 0. *)
NewBuffer(initialSize) ==
  [size         |-> kCheapPrepend + initialSize,
   buffer_      |-> [i \in 0 .. kCheapPrepend + initialSize - 1 |-> ZeroByte],
   readerIndex_ |-> kCheapPrepend,
   writerIndex_ |-> kCheapPrepend]

(* The bytes from peek() to beginWrite(). *)
ToStringPiece(b) ==
  [i \in 1 .. ReadableBytes(b) |-> b.buffer_[b.readerIndex_ + i - 1]]

(* The offset from peek() of the first \r\n, of the first \n; NULL when none. *)
FirstOffset(S) == IF S = {} THEN NULL ELSE CHOOSE i \in S : \A j \in S : i <= j

FindCRLF(b) ==
  LET s == ToStringPiece(b)
  IN  FirstOffset({i \in 0 .. Len(s) - 2 : SubSeq(s, i + 1, i + 2) = kCRLF})

FindEOL(b) ==
  LET s == ToStringPiece(b)
  IN  FirstOffset({i \in 0 .. Len(s) - 1 : s[i + 1] = kCRLF[2]})

------------------------------------------------------------------------------
(* Taking bytes out.                                                        *)

RetrieveAll(b) ==
  [b EXCEPT !.readerIndex_ = kCheapPrepend, !.writerIndex_ = kCheapPrepend]

(* retrieve, retrieveUntil, retrieveAsString and retrieveIntN. *)
Retrieve(b, len) ==
  IF len < ReadableBytes(b)
  THEN [b EXCEPT !.readerIndex_ = @ + len]
  ELSE RetrieveAll(b)

Unwrite(b, len) == [b EXCEPT !.writerIndex_ = @ - len]

------------------------------------------------------------------------------
(* Making room and putting bytes in.                                        *)

(* buffer_.resize(n): the new elements are zero. *)
Resize(b, n) ==
  [b EXCEPT !.size = n,
            !.buffer_ = [i \in 0 .. n - 1 |-> IF i < b.size THEN b.buffer_[i] ELSE ZeroByte]]

(* The readable bytes copied to kCheapPrepend. *)
MoveToFront(b) ==
  LET readable == ReadableBytes(b)
  IN  [b EXCEPT !.buffer_ =
                  [i \in 0 .. b.size - 1 |->
                     IF i >= kCheapPrepend /\ i < kCheapPrepend + readable
                     THEN b.buffer_[b.readerIndex_ + i - kCheapPrepend]
                     ELSE b.buffer_[i]],
                !.readerIndex_ = kCheapPrepend,
                !.writerIndex_ = kCheapPrepend + readable]

(* Faulty: the prependable bytes all count as room. *)
MustGrow_KeepNoPrepend(b, len) == WritableBytes(b) + PrependableBytes(b) < len

MustGrow(b, len) == WritableBytes(b) + PrependableBytes(b) < len + kCheapPrepend

MakeSpace(b, len) ==
  IF MustGrow(b, len) THEN Resize(b, b.writerIndex_ + len) ELSE MoveToFront(b)

EnsureWritableBytes(b, len) ==
  IF WritableBytes(b) < len THEN MakeSpace(b, len) ELSE b

EnsureWritableBytesAsserts(b, len) ==
  /\ (WritableBytes(b) < len /\ ~MustGrow(b, len)) =>
        /\ kCheapPrepend < b.readerIndex_
        /\ ReadableBytes(MoveToFront(b)) = ReadableBytes(b)
  /\ WritableBytes(EnsureWritableBytes(b, len)) >= len

(* The elements from place at on are the bytes of data. *)
Overwrite(f, at, data) ==
  [i \in DOMAIN f |-> IF i >= at /\ i < at + Len(data) THEN data[i - at + 1] ELSE f[i]]

(* data copied to beginWrite(), then hasWritten(Len(data)). *)
HasWritten(b, data) ==
  [b EXCEPT !.buffer_ = Overwrite(@, b.writerIndex_, data),
            !.writerIndex_ = @ + Len(data)]

AppendData(b, data) == HasWritten(EnsureWritableBytes(b, Len(data)), data)

Prepend(b, data) ==
  [b EXCEPT !.buffer_ = Overwrite(@, b.readerIndex_ - Len(data), data),
            !.readerIndex_ = @ - Len(data)]

Shrink(b, reserve) ==
  AppendData(EnsureWritableBytes(NewBuffer(kInitialSize), ReadableBytes(b) + reserve),
             ToStringPiece(b))

(* The bytes that readv has room for. *)
ReadFdRoom(b) ==
  WritableBytes(b) + (IF WritableBytes(b) < ExtraBuf THEN ExtraBuf ELSE 0)

(* Faulty: what is in extrabuf is appended before writerIndex_ moves. *)
ReadFd_ExtraFirst(b, data) ==
  IF Len(data) <= WritableBytes(b)
  THEN HasWritten(b, data)
  ELSE AppendData(b, SubSeq(data, WritableBytes(b) + 1, Len(data)))

(* readFd when readv returns data: first the writable bytes, then extrabuf. *)
ReadFd(b, data) ==
  LET writable == WritableBytes(b)
  IN  IF Len(data) <= writable
      THEN HasWritten(b, data)
      ELSE AppendData(HasWritten(b, SubSeq(data, 1, writable)),
                      SubSeq(data, writable + 1, Len(data)))

------------------------------------------------------------------------------
(* Integers of n bytes in network byte order, two's complement.             *)

Integers_(n) == -(ByteBase ^ n \div 2) .. (ByteBase ^ n \div 2) - 1

HostToNetwork(x, n) ==
  [i \in 1 .. n |-> ((x % ByteBase ^ n) \div ByteBase ^ (n - i)) % ByteBase]

Unsigned(s) ==
  LET sum[i \in 0 .. Len(s)] == IF i = 0 THEN 0 ELSE sum[i - 1] * ByteBase + s[i]
  IN  sum[Len(s)]

NetworkToHost(s) ==
  IF Unsigned(s) < ByteBase ^ Len(s) \div 2
  THEN Unsigned(s)
  ELSE Unsigned(s) - ByteBase ^ Len(s)

(* appendIntN, prependIntN, peekIntN. *)
AppendInt(b, n, x)  == AppendData(b, HostToNetwork(x, n))
PrependInt(b, n, x) == Prepend(b, HostToNetwork(x, n))
PeekInt(b, n)       == NetworkToHost(SubSeq(ToStringPiece(b), 1, n))
=============================================================================
