----------------------------- MODULE WireProofs ------------------------------
(***************************************************************************)
(* Buffer is a queue of bytes, for any sizes, bytes and chunks: what each  *)
(* method does to the indices and to the readable bytes is a lemma of its  *)
(* own, and the theorems follow, call by call.  Then RpcChannel, for any   *)
(* calls, nested in closures or not, any errors and any programs.          *)
(***************************************************************************)
EXTENDS BufferQueue, RpcChannel, TLAPS

(* The members of a Buffer. *)
Fields == {"size", "buffer_", "readerIndex_", "writerIndex_"}

(* A buffer whose bytes are of Byte and whose indices are in order. *)
IsBuffer(b, Byte) ==
  /\ DOMAIN b = Fields
  /\ b.size \in Nat /\ b.readerIndex_ \in Nat /\ b.writerIndex_ \in Nat
  /\ b.buffer_ \in [0 .. b.size - 1 -> Byte]
  /\ b.readerIndex_ <= b.writerIndex_
  /\ b.writerIndex_ <= b.size
  /\ kCheapPrepend <= b.size

-----------------------------------------------------------------------------
(* Two sequences with the same elements are equal. *)
LEMMA SameElements ==
  ASSUME NEW S, NEW s \in Seq(S), NEW t \in Seq(S), Len(s) = Len(t),
         \A i \in 1 .. Len(s) : s[i] = t[i]
  PROVE  s = t
  OBVIOUS

(* The readable bytes are a sequence. *)
LEMMA ReadableIsSequence ==
  ASSUME NEW Byte, NEW b, IsBuffer(b, Byte)
  PROVE  /\ ToStringPiece(b) \in Seq(Byte)
         /\ Len(ToStringPiece(b)) = b.writerIndex_ - b.readerIndex_
         /\ \A i \in 1 .. b.writerIndex_ - b.readerIndex_ :
              ToStringPiece(b)[i] = b.buffer_[b.readerIndex_ + i - 1]
<1> DEFINE n == b.writerIndex_ - b.readerIndex_
<1>1. n \in Nat
  BY DEF IsBuffer
<1>2. \A i \in 1 .. n : b.buffer_[b.readerIndex_ + i - 1] \in Byte
  BY SMTT(60) DEF IsBuffer
<1>3. ToStringPiece(b) = [i \in 1 .. n |-> b.buffer_[b.readerIndex_ + i - 1]]
  BY DEF ToStringPiece, ReadableBytes
<1> HIDE DEF n
<1>4. ToStringPiece(b) \in [1 .. n -> Byte]
  BY <1>2, <1>3
<1>5. ToStringPiece(b) \in Seq(Byte) /\ Len(ToStringPiece(b)) = n
  BY <1>1, <1>4
<1> QED
  BY <1>3, <1>5, Zenon DEF n

(* Two buffers with the same number of readable bytes, byte by byte. *)
LEMMA SameReadable ==
  ASSUME NEW Byte, NEW a, IsBuffer(a, Byte), NEW b, IsBuffer(b, Byte),
         a.writerIndex_ - a.readerIndex_ = b.writerIndex_ - b.readerIndex_,
         \A i \in 1 .. b.writerIndex_ - b.readerIndex_ :
           a.buffer_[a.readerIndex_ + i - 1] = b.buffer_[b.readerIndex_ + i - 1]
  PROVE  ToStringPiece(a) = ToStringPiece(b)
<1> DEFINE n == b.writerIndex_ - b.readerIndex_
           s == ToStringPiece(a)
           t == ToStringPiece(b)
<1>1. s \in Seq(Byte) /\ Len(s) = n /\ \A i \in 1 .. n : s[i] = a.buffer_[a.readerIndex_ + i - 1]
  BY ReadableIsSequence
<1>2. t \in Seq(Byte) /\ Len(t) = n /\ \A i \in 1 .. n : t[i] = b.buffer_[b.readerIndex_ + i - 1]
  BY ReadableIsSequence
<1>3. \A i \in 1 .. Len(s) : s[i] = t[i]
  BY <1>1, <1>2
<1> HIDE DEF s, t, n
<1>4. s = t
  BY <1>1, <1>2, <1>3, SameElements
<1> QED
  BY <1>4 DEF s, t

-----------------------------------------------------------------------------
(* What the methods do.  Buffer(initialSize) is empty. *)
LEMMA NewBufferLemma ==
  ASSUME NEW Byte, ZeroByte \in Byte
  PROVE  /\ IsBuffer(NewBuffer(kInitialSize), Byte)
         /\ ToStringPiece(NewBuffer(kInitialSize)) = <<>>
<1> DEFINE m == NewBuffer(kInitialSize)
<1>1. /\ DOMAIN m = Fields
      /\ m.size = kCheapPrepend + kInitialSize
      /\ m.readerIndex_ = kCheapPrepend
      /\ m.writerIndex_ = kCheapPrepend
      /\ m.buffer_ \in [0 .. kCheapPrepend + kInitialSize - 1 -> Byte]
  BY DEF NewBuffer, Fields
<1> HIDE DEF m
<1>2. IsBuffer(m, Byte)
  BY <1>1, SizesAssumption DEF IsBuffer
<1>3. ToStringPiece(m) \in Seq(Byte) /\ Len(ToStringPiece(m)) = 0
  BY <1>1, <1>2, ReadableIsSequence, SizesAssumption
<1> QED
  BY <1>2, <1>3 DEF m

(* resize keeps the bytes that are there. *)
LEMMA ResizeLemma ==
  ASSUME NEW Byte, ZeroByte \in Byte, NEW b, IsBuffer(b, Byte), NEW n \in Nat, n >= b.size
  PROVE  /\ IsBuffer(Resize(b, n), Byte)
         /\ ToStringPiece(Resize(b, n)) = ToStringPiece(b)
         /\ WritableBytes(Resize(b, n)) = n - b.writerIndex_
<1> DEFINE m == Resize(b, n)
<1>1. /\ DOMAIN m = Fields
      /\ m.size = n
      /\ m.readerIndex_ = b.readerIndex_
      /\ m.writerIndex_ = b.writerIndex_
      /\ \A i \in 0 .. n - 1 : m.buffer_[i] = IF i < b.size THEN b.buffer_[i] ELSE ZeroByte
  BY DEF Resize, IsBuffer, Fields
<1>2. m.buffer_ \in [0 .. n - 1 -> Byte]
  BY DEF Resize, IsBuffer, Fields
<1> HIDE DEF m
<1>3. IsBuffer(m, Byte)
  BY <1>1, <1>2, SizesAssumption DEF IsBuffer
<1>4. \A i \in 1 .. b.writerIndex_ - b.readerIndex_ :
        m.buffer_[m.readerIndex_ + i - 1] = b.buffer_[b.readerIndex_ + i - 1]
  BY <1>1 DEF IsBuffer
<1>5. ToStringPiece(m) = ToStringPiece(b)
  BY <1>1, <1>3, <1>4, SameReadable
<1> QED
  BY <1>1, <1>3, <1>5 DEF m, WritableBytes

(* Moving the readable bytes to the front, when they start behind it. *)
LEMMA MoveToFrontLemma ==
  ASSUME NEW Byte, NEW b, IsBuffer(b, Byte), kCheapPrepend <= b.readerIndex_
  PROVE  /\ IsBuffer(MoveToFront(b), Byte)
         /\ ToStringPiece(MoveToFront(b)) = ToStringPiece(b)
         /\ WritableBytes(MoveToFront(b)) = WritableBytes(b) + b.readerIndex_ - kCheapPrepend
         /\ ReadableBytes(MoveToFront(b)) = ReadableBytes(b)
<1> DEFINE n == b.writerIndex_ - b.readerIndex_
           m == MoveToFront(b)
<1>1. n \in Nat /\ kCheapPrepend \in Nat /\ kCheapPrepend + n <= b.size
  BY SizesAssumption DEF IsBuffer
<1>2. /\ DOMAIN m = Fields
      /\ m.size = b.size
      /\ m.readerIndex_ = kCheapPrepend
      /\ m.writerIndex_ = kCheapPrepend + n
  BY DEF MoveToFront, ReadableBytes, IsBuffer, Fields
<1>3. \A i \in 0 .. b.size - 1 :
        m.buffer_[i] = IF i >= kCheapPrepend /\ i < kCheapPrepend + n
                       THEN b.buffer_[b.readerIndex_ + i - kCheapPrepend] ELSE b.buffer_[i]
  BY DEF MoveToFront, ReadableBytes, IsBuffer, Fields
<1>f. m.buffer_ = [i \in 0 .. b.size - 1 |-> m.buffer_[i]]
  BY DEF MoveToFront, ReadableBytes, IsBuffer, Fields
<1> HIDE DEF m
<1>4. m.buffer_ \in [0 .. b.size - 1 -> Byte]
  <2>1. ASSUME NEW i \in 0 .. b.size - 1 PROVE m.buffer_[i] \in Byte
    <3>1. CASE i >= kCheapPrepend /\ i < kCheapPrepend + n
      <4>1. b.readerIndex_ + i - kCheapPrepend \in 0 .. b.size - 1
        BY <3>1, <1>1, SMTT(60) DEF IsBuffer
      <4> QED
        BY <4>1, <3>1, <1>3 DEF IsBuffer
    <3>2. CASE ~(i >= kCheapPrepend /\ i < kCheapPrepend + n)
      BY <3>2, <1>3, Zenon DEF IsBuffer
    <3> QED
      BY <3>1, <3>2
  <2> QED
    BY <2>1, <1>f
<1>5. IsBuffer(m, Byte)
  BY <1>1, <1>2, <1>4 DEF IsBuffer
<1>6. ASSUME NEW i \in 1 .. n
      PROVE  m.buffer_[m.readerIndex_ + i - 1] = b.buffer_[b.readerIndex_ + i - 1]
  <2> DEFINE k == kCheapPrepend + i - 1
  <2>1. k \in 0 .. b.size - 1 /\ k >= kCheapPrepend /\ k < kCheapPrepend + n
    BY <1>1 DEF IsBuffer
  <2>2. b.readerIndex_ + k - kCheapPrepend = b.readerIndex_ + i - 1
    BY <1>1 DEF IsBuffer
  <2> HIDE DEF k
  <2>3. m.buffer_[k] = b.buffer_[b.readerIndex_ + i - 1]
    BY <2>1, <2>2, <1>3
  <2> QED
    BY <2>3, <1>2 DEF k
<1>7. m.writerIndex_ - m.readerIndex_ = n
  BY <1>1, <1>2
<1>8. ToStringPiece(m) = ToStringPiece(b)
  BY <1>5, <1>6, <1>7, SameReadable
<1> QED
  BY <1>1, <1>2, <1>5, <1>7, <1>8, SMTT(60) DEF m, WritableBytes, ReadableBytes, IsBuffer

(* ensureWritableBytes moves the bytes or grows, and always finds the room. *)
LEMMA EnsureWritableLemma ==
  ASSUME NEW Byte, ZeroByte \in Byte, NEW b, IsBuffer(b, Byte), NEW len \in Nat
  PROVE  /\ IsBuffer(EnsureWritableBytes(b, len), Byte)
         /\ ToStringPiece(EnsureWritableBytes(b, len)) = ToStringPiece(b)
         /\ WritableBytes(EnsureWritableBytes(b, len)) >= len
         /\ EnsureWritableBytesAsserts(b, len)
<1> DEFINE e == EnsureWritableBytes(b, len)
<1>1. WritableBytes(b) \in Nat /\ WritableBytes(b) = b.size - b.writerIndex_
  BY DEF IsBuffer, WritableBytes
<1>2. CASE WritableBytes(b) >= len
  BY <1>1, <1>2 DEF EnsureWritableBytes, EnsureWritableBytesAsserts
<1>3. CASE WritableBytes(b) < len /\ MustGrow(b, len)
  <2> DEFINE n == b.writerIndex_ + len
  <2>1. e = Resize(b, n)
    BY <1>1, <1>3 DEF EnsureWritableBytes, MakeSpace
  <2>2. n \in Nat /\ n >= b.size
    BY <1>1, <1>3 DEF IsBuffer
  <2> HIDE DEF e, n
  <2>r. /\ IsBuffer(Resize(b, n), Byte) /\ ToStringPiece(Resize(b, n)) = ToStringPiece(b)
        /\ WritableBytes(Resize(b, n)) = n - b.writerIndex_
    BY <2>2, ResizeLemma
  <2>3. /\ IsBuffer(e, Byte) /\ ToStringPiece(e) = ToStringPiece(b)
        /\ WritableBytes(e) = n - b.writerIndex_
    BY <2>1, <2>r
  <2>4. WritableBytes(e) >= len
    BY <2>3 DEF IsBuffer, n
  <2>5. EnsureWritableBytesAsserts(b, len)
    BY <1>3, <2>4, Zenon DEF EnsureWritableBytesAsserts, e
  <2> QED
    BY <2>3, <2>4, <2>5 DEF e
<1>4. CASE WritableBytes(b) < len /\ ~MustGrow(b, len)
  <2>1. e = MoveToFront(b)
    BY <1>1, <1>4 DEF EnsureWritableBytes, MakeSpace
  <2>2. b.readerIndex_ > kCheapPrepend /\ WritableBytes(b) + b.readerIndex_ - kCheapPrepend >= len
    BY <1>1, <1>4, SizesAssumption DEF MustGrow, PrependableBytes, IsBuffer
  <2>m. kCheapPrepend <= b.readerIndex_
    BY <2>2, SizesAssumption DEF IsBuffer
  <2> HIDE DEF e
  <2>r. /\ IsBuffer(MoveToFront(b), Byte) /\ ToStringPiece(MoveToFront(b)) = ToStringPiece(b)
        /\ WritableBytes(MoveToFront(b)) = WritableBytes(b) + b.readerIndex_ - kCheapPrepend
        /\ ReadableBytes(MoveToFront(b)) = ReadableBytes(b)
    BY <2>m, MoveToFrontLemma
  <2>3. /\ IsBuffer(e, Byte) /\ ToStringPiece(e) = ToStringPiece(b)
        /\ WritableBytes(e) = WritableBytes(b) + b.readerIndex_ - kCheapPrepend
    BY <2>1, <2>r
  <2>4. kCheapPrepend < b.readerIndex_ /\ WritableBytes(e) >= len
    BY <2>2, <2>3, SizesAssumption DEF IsBuffer
  <2>5. EnsureWritableBytesAsserts(b, len)
    BY <2>r, <2>4, Zenon DEF EnsureWritableBytesAsserts, e
  <2> QED
    BY <2>3, <2>4, <2>5 DEF e
<1> QED
  BY <1>1, <1>2, <1>3, <1>4

(* Writing data at a place that has room for it. *)
LEMMA OverwriteLemma ==
  ASSUME NEW Byte, NEW n \in Nat, NEW f \in [0 .. n - 1 -> Byte], NEW data \in Seq(Byte),
         NEW place \in Nat, place + Len(data) <= n
  PROVE  /\ Overwrite(f, place, data) \in [0 .. n - 1 -> Byte]
         /\ \A i \in 0 .. n - 1 :
              (i < place \/ i >= place + Len(data)) => Overwrite(f, place, data)[i] = f[i]
         /\ \A i \in 1 .. Len(data) : Overwrite(f, place, data)[place + i - 1] = data[i]
<1> DEFINE o == Overwrite(f, place, data)
<1>1. /\ o = [i \in 0 .. n - 1 |-> o[i]]
      /\ \A i \in 0 .. n - 1 :
           o[i] = IF i >= place /\ i < place + Len(data) THEN data[i - place + 1] ELSE f[i]
  BY DEF Overwrite
<1> HIDE DEF o
<1>2. ASSUME NEW i \in 0 .. n - 1 PROVE o[i] \in Byte
  <2>1. CASE i >= place /\ i < place + Len(data)
    <3>1. i - place + 1 \in 1 .. Len(data)
      BY <2>1
    <3> QED
      BY <2>1, <3>1, <1>1
  <2>2. CASE ~(i >= place /\ i < place + Len(data))
    BY <2>2, <1>1
  <2> QED
    BY <2>1, <2>2
<1>3. o \in [0 .. n - 1 -> Byte]
  BY <1>1, <1>2
<1>4. ASSUME NEW i \in 1 .. Len(data) PROVE o[place + i - 1] = data[i]
  <2>1. /\ place + i - 1 \in 0 .. n - 1 /\ place + i - 1 >= place
        /\ place + i - 1 < place + Len(data) /\ (place + i - 1) - place + 1 = i
    OBVIOUS
  <2> QED
    BY <2>1, <1>1
<1>5. ASSUME NEW i \in 0 .. n - 1, i < place \/ i >= place + Len(data) PROVE o[i] = f[i]
  BY <1>1, <1>5
<1> QED
  BY <1>3, <1>4, <1>5 DEF o

(* The same for the vector of a buffer. *)
LEMMA OverwriteBuffer ==
  ASSUME NEW Byte, NEW b, IsBuffer(b, Byte), NEW data \in Seq(Byte),
         NEW place \in Nat, place + Len(data) <= b.size
  PROVE  LET o == Overwrite(b.buffer_, place, data)
         IN  /\ o \in [0 .. b.size - 1 -> Byte]
             /\ \A i \in 0 .. b.size - 1 :
                  (i < place \/ i >= place + Len(data)) => o[i] = b.buffer_[i]
             /\ \A i \in 1 .. Len(data) : o[place + i - 1] = data[i]
<1> DEFINE k == b.size
           f == b.buffer_
<1>1. k \in Nat /\ f \in [0 .. k - 1 -> Byte] /\ place + Len(data) <= k
  BY DEF IsBuffer
<1> HIDE DEF k, f
<1>2. /\ Overwrite(f, place, data) \in [0 .. k - 1 -> Byte]
      /\ \A i \in 0 .. k - 1 :
           (i < place \/ i >= place + Len(data)) => Overwrite(f, place, data)[i] = f[i]
      /\ \A i \in 1 .. Len(data) : Overwrite(f, place, data)[place + i - 1] = data[i]
  BY <1>1, OverwriteLemma, SMTT(60)
<1> QED
  BY <1>2 DEF k, f

(* A sequence that continues another is its concatenation with the rest. *)
LEMMA IsConcatenation ==
  ASSUME NEW S, NEW s \in Seq(S), NEW t \in Seq(S), NEW u \in Seq(S), Len(u) = Len(s) + Len(t),
         \A i \in 1 .. Len(s) : u[i] = s[i],
         \A i \in 1 .. Len(t) : u[Len(s) + i] = t[i]
  PROVE  u = s \o t
<1> DEFINE c == s \o t
<1>1. c \in Seq(S) /\ Len(c) = Len(s) + Len(t)
  OBVIOUS
<1>2. \A i \in 1 .. Len(s) + Len(t) : c[i] = IF i <= Len(s) THEN s[i] ELSE t[i - Len(s)]
  OBVIOUS
<1> HIDE DEF c
<1>3. ASSUME NEW i \in 1 .. Len(u) PROVE u[i] = c[i]
  <2>1. CASE i <= Len(s)
    BY <2>1, <1>2
  <2>2. CASE i > Len(s)
    <3>1. i - Len(s) \in 1 .. Len(t) /\ Len(s) + (i - Len(s)) = i /\ ~(i <= Len(s))
      BY <2>2
    <3>2. u[i] = t[i - Len(s)]
      BY <3>1
    <3> QED
      BY <3>1, <3>2, <1>2, Zenon
  <2> QED
    BY <2>1, <2>2
<1>4. u = c
  BY <1>1, <1>3, SameElements
<1> QED
  BY <1>4 DEF c

(* Data written at beginWrite() comes after the readable bytes. *)
LEMMA HasWrittenLemma ==
  ASSUME NEW Byte, NEW b, IsBuffer(b, Byte), NEW data \in Seq(Byte), Len(data) <= WritableBytes(b)
  PROVE  /\ IsBuffer(HasWritten(b, data), Byte)
         /\ ToStringPiece(HasWritten(b, data)) = ToStringPiece(b) \o data
         /\ WritableBytes(HasWritten(b, data)) = WritableBytes(b) - Len(data)
<1> DEFINE m == HasWritten(b, data)
           o == Overwrite(b.buffer_, b.writerIndex_, data)
           n == b.writerIndex_ - b.readerIndex_
<1>1. b.writerIndex_ + Len(data) <= b.size /\ Len(data) \in Nat /\ n \in Nat
  BY DEF IsBuffer, WritableBytes
<1>2. /\ o \in [0 .. b.size - 1 -> Byte]
      /\ \A i \in 0 .. b.size - 1 :
           (i < b.writerIndex_ \/ i >= b.writerIndex_ + Len(data)) => o[i] = b.buffer_[i]
      /\ \A i \in 1 .. Len(data) : o[b.writerIndex_ + i - 1] = data[i]
  <2>1. b.writerIndex_ \in Nat
    BY DEF IsBuffer
  <2> QED
    BY <2>1, <1>1, OverwriteBuffer
<1> HIDE DEF o
<1>3. /\ DOMAIN m = Fields
      /\ m.size = b.size
      /\ m.readerIndex_ = b.readerIndex_
      /\ m.writerIndex_ = b.writerIndex_ + Len(data)
      /\ m.buffer_ = o
  BY DEF HasWritten, IsBuffer, Fields, o
<1> HIDE DEF m
<1>4. IsBuffer(m, Byte)
  BY <1>1, <1>2, <1>3 DEF IsBuffer
<1> DEFINE s == ToStringPiece(b)
           u == ToStringPiece(m)
<1>5. s \in Seq(Byte) /\ Len(s) = n /\ \A i \in 1 .. n : s[i] = b.buffer_[b.readerIndex_ + i - 1]
  BY ReadableIsSequence
<1>6. /\ u \in Seq(Byte) /\ Len(u) = n + Len(data)
      /\ \A i \in 1 .. n + Len(data) : u[i] = o[b.readerIndex_ + i - 1]
  <2>1. m.writerIndex_ - m.readerIndex_ = n + Len(data)
    BY <1>1, <1>3 DEF IsBuffer
  <2> QED
    BY <2>1, <1>3, <1>4, ReadableIsSequence, Zenon
<1> HIDE DEF s, u
<1>7. ASSUME NEW i \in 1 .. Len(s) PROVE u[i] = s[i]
  <2>1. /\ b.readerIndex_ + i - 1 \in 0 .. b.size - 1 /\ b.readerIndex_ + i - 1 < b.writerIndex_
        /\ i \in 1 .. n + Len(data) /\ i \in 1 .. n
    <3>1. i \in 1 .. n /\ Len(data) \in Nat
      BY <1>5
    <3>2. /\ b.readerIndex_ \in Nat /\ b.writerIndex_ \in Nat /\ b.size \in Nat
          /\ n = b.writerIndex_ - b.readerIndex_ /\ b.writerIndex_ <= b.size
      BY <1>1 DEF IsBuffer
    <3> HIDE DEF n
    <3> QED
      BY <3>1, <3>2, SMTT(60)
  <2> QED
    BY <2>1, <1>2, <1>5, <1>6, Zenon
<1>8. ASSUME NEW i \in 1 .. Len(data) PROVE u[Len(s) + i] = data[i]
  <2>1. /\ Len(s) + i \in 1 .. n + Len(data)
        /\ b.readerIndex_ + (Len(s) + i) - 1 = b.writerIndex_ + i - 1
    BY <1>1, <1>5, SMTT(60) DEF IsBuffer
  <2> QED
    BY <2>1, <1>2, <1>6
<1>9. u = s \o data
  <2>1. s \in Seq(Byte) /\ u \in Seq(Byte) /\ Len(u) = Len(s) + Len(data)
    BY <1>5, <1>6
  <2>2. /\ \A i \in 1 .. Len(s) : u[i] = s[i]
        /\ \A i \in 1 .. Len(data) : u[Len(s) + i] = data[i]
    BY <1>7, <1>8
  <2> QED
    BY <2>1, <2>2, IsConcatenation, Zenon
<1>10. m.size - m.writerIndex_ = (b.size - b.writerIndex_) - Len(data)
  BY <1>1, <1>3 DEF IsBuffer
<1> QED
  BY <1>4, <1>9, <1>10 DEF m, s, u, WritableBytes

(* append, after the readable bytes. *)
LEMMA AppendLemma ==
  ASSUME NEW Byte, ZeroByte \in Byte, NEW b, IsBuffer(b, Byte), NEW data \in Seq(Byte)
  PROVE  /\ IsBuffer(AppendData(b, data), Byte)
         /\ ToStringPiece(AppendData(b, data)) = ToStringPiece(b) \o data
<1> DEFINE e == EnsureWritableBytes(b, Len(data))
<1>1. Len(data) \in Nat
  OBVIOUS
<1>2. IsBuffer(e, Byte) /\ ToStringPiece(e) = ToStringPiece(b) /\ WritableBytes(e) >= Len(data)
  BY <1>1, EnsureWritableLemma
<1>3. AppendData(b, data) = HasWritten(e, data)
  BY DEF AppendData
<1> HIDE DEF e
<1>4. Len(data) <= WritableBytes(e)
  BY <1>1, <1>2 DEF IsBuffer, WritableBytes
<1>5. /\ IsBuffer(HasWritten(e, data), Byte)
      /\ ToStringPiece(HasWritten(e, data)) = ToStringPiece(e) \o data
  BY <1>2, <1>4, HasWrittenLemma, Zenon
<1> QED
  BY <1>2, <1>3, <1>5

(* prepend, before the readable bytes. *)
LEMMA PrependLemma ==
  ASSUME NEW Byte, NEW b, IsBuffer(b, Byte), NEW data \in Seq(Byte),
      Len(data) <= PrependableBytes(b)
  PROVE  /\ IsBuffer(Prepend(b, data), Byte)
         /\ ToStringPiece(Prepend(b, data)) = data \o ToStringPiece(b)
<1> DEFINE m == Prepend(b, data)
           p == b.readerIndex_ - Len(data)
           o == Overwrite(b.buffer_, p, data)
           n == b.writerIndex_ - b.readerIndex_
<1>1. p \in Nat /\ p + Len(data) = b.readerIndex_ /\ Len(data) \in Nat /\ n \in Nat
  BY DEF IsBuffer, PrependableBytes
<1> HIDE DEF p
<1>2. /\ o \in [0 .. b.size - 1 -> Byte]
      /\ \A i \in 0 .. b.size - 1 : (i < p \/ i >= p + Len(data)) => o[i] = b.buffer_[i]
      /\ \A i \in 1 .. Len(data) : o[p + i - 1] = data[i]
  <2>1. p + Len(data) <= b.size
    BY <1>1 DEF IsBuffer
  <2> QED
    BY <1>1, <2>1, OverwriteBuffer
<1> HIDE DEF o
<1>3. /\ DOMAIN m = Fields
      /\ m.size = b.size
      /\ m.readerIndex_ = p
      /\ m.writerIndex_ = b.writerIndex_
      /\ m.buffer_ = o
  BY DEF Prepend, IsBuffer, Fields, o, p
<1> HIDE DEF m
<1>4. IsBuffer(m, Byte)
  BY <1>1, <1>2, <1>3 DEF IsBuffer
<1> DEFINE s == ToStringPiece(b)
           u == ToStringPiece(m)
<1>5. s \in Seq(Byte) /\ Len(s) = n /\ \A i \in 1 .. n : s[i] = b.buffer_[b.readerIndex_ + i - 1]
  BY ReadableIsSequence
<1>6. /\ u \in Seq(Byte) /\ Len(u) = Len(data) + n
      /\ \A i \in 1 .. Len(data) + n : u[i] = o[p + i - 1]
  <2>1. m.writerIndex_ - m.readerIndex_ = Len(data) + n
    BY <1>1, <1>3 DEF IsBuffer
  <2> QED
    BY <2>1, <1>3, <1>4, ReadableIsSequence, Zenon
<1> HIDE DEF s, u
<1>7. ASSUME NEW i \in 1 .. Len(data) PROVE u[i] = data[i]
  <2>1. i \in 1 .. Len(data) + n
    BY <1>1
  <2> QED
    BY <1>2, <1>6, <2>1, Zenon
<1>8. ASSUME NEW i \in 1 .. Len(s) PROVE u[Len(data) + i] = s[i]
  <2>1. /\ Len(data) + i \in 1 .. Len(data) + n
        /\ p + (Len(data) + i) - 1 = b.readerIndex_ + i - 1
        /\ b.readerIndex_ + i - 1 \in 0 .. b.size - 1
        /\ b.readerIndex_ + i - 1 >= p + Len(data)
    <3> DEFINE d == Len(data)
               r == b.readerIndex_
    <3>1. /\ i \in Nat /\ i >= 1 /\ i <= n /\ n \in Nat
          /\ d \in Nat /\ p \in Nat /\ r \in Nat /\ p + d = r
      BY <1>1, <1>5 DEF IsBuffer
    <3>2. r + n <= b.size /\ b.size \in Nat
      BY DEF IsBuffer
    <3> HIDE DEF d, r, n
    <3>3. /\ d + i \in 1 .. d + n
          /\ p + (d + i) - 1 = r + i - 1
          /\ r + i - 1 \in 0 .. b.size - 1
          /\ r + i - 1 >= p + d
      BY <3>1, <3>2
    <3> QED
      BY <3>3 DEF d, r, n
  <2>2. u[Len(data) + i] = o[b.readerIndex_ + i - 1]
    BY <2>1, <1>6
  <2>3. o[b.readerIndex_ + i - 1] = b.buffer_[b.readerIndex_ + i - 1]
    BY <2>1, <1>2
  <2> QED
    BY <2>2, <2>3, <1>5
<1>9. u = data \o s
  <2>1. s \in Seq(Byte) /\ u \in Seq(Byte) /\ Len(u) = Len(data) + Len(s)
    BY <1>5, <1>6
  <2>2. /\ \A i \in 1 .. Len(data) : u[i] = data[i]
        /\ \A i \in 1 .. Len(s) : u[Len(data) + i] = s[i]
    BY <1>7, <1>8
  <2> QED
    BY <2>1, <2>2, IsConcatenation, Zenon
<1> QED
  BY <1>4, <1>9 DEF m, s, u

(* A sequence with the elements of a part of another. *)
LEMMA IsPart ==
  ASSUME NEW S, NEW s \in Seq(S), NEW u \in Seq(S), NEW lo \in Nat, NEW hi \in Nat,
         1 <= lo, lo <= hi + 1, hi <= Len(s), Len(u) = hi - lo + 1,
         \A i \in 1 .. Len(u) : u[i] = s[lo + i - 1]
  PROVE  u = SubSeq(s, lo, hi)
<1> DEFINE c == SubSeq(s, lo, hi)
<1>1. c \in Seq(S) /\ Len(c) = hi - lo + 1
  OBVIOUS
<1>2. \A i \in 1 .. hi - lo + 1 : c[i] = s[lo + i - 1]
  OBVIOUS
<1> HIDE DEF c
<1>3. Len(u) = Len(c) /\ \A i \in 1 .. Len(u) : u[i] = c[i]
  BY <1>1, <1>2
<1>4. u = c
  BY <1>1, <1>3, SameElements
<1> QED
  BY <1>4 DEF c

(* retrieve drops bytes at the front. *)
LEMMA RetrieveLemma ==
  ASSUME NEW Byte, NEW b, IsBuffer(b, Byte), NEW len \in 0 .. ReadableBytes(b)
  PROVE  /\ IsBuffer(Retrieve(b, len), Byte)
         /\ ToStringPiece(Retrieve(b, len))
              = SubSeq(ToStringPiece(b), len + 1, Len(ToStringPiece(b)))
<1> DEFINE m == Retrieve(b, len)
           s == ToStringPiece(b)
           u == ToStringPiece(m)
           n == b.writerIndex_ - b.readerIndex_
<1>1. n \in Nat /\ len \in Nat /\ len <= n
  BY DEF ReadableBytes, IsBuffer
<1>2. s \in Seq(Byte) /\ Len(s) = n /\ \A i \in 1 .. n : s[i] = b.buffer_[b.readerIndex_ + i - 1]
  BY ReadableIsSequence
<1>3. CASE len < n
  <2>1. /\ DOMAIN m = Fields
        /\ m.size = b.size
        /\ m.readerIndex_ = b.readerIndex_ + len
        /\ m.writerIndex_ = b.writerIndex_
        /\ m.buffer_ = b.buffer_
    BY <1>3 DEF Retrieve, ReadableBytes, IsBuffer, Fields
  <2> HIDE DEF m, s
  <2>2. IsBuffer(m, Byte)
    BY <1>1, <2>1 DEF IsBuffer
  <2>3. m.writerIndex_ - m.readerIndex_ = n - len
    BY <1>1, <2>1 DEF IsBuffer
  <2>4. /\ u \in Seq(Byte) /\ Len(u) = n - len
        /\ \A i \in 1 .. n - len : u[i] = b.buffer_[(b.readerIndex_ + len) + i - 1]
    BY <2>1, <2>2, <2>3, ReadableIsSequence
  <2> HIDE DEF u
  <2>5. ASSUME NEW i \in 1 .. Len(u) PROVE u[i] = s[(len + 1) + i - 1]
    <3>1. /\ i \in 1 .. n - len /\ (len + 1) + i - 1 \in 1 .. n
          /\ b.readerIndex_ + ((len + 1) + i - 1) - 1 = (b.readerIndex_ + len) + i - 1
      <4> DEFINE r == b.readerIndex_
      <4>1. /\ r \in Nat /\ n \in Nat /\ len \in Nat /\ len <= n
            /\ i \in Nat /\ 1 <= i /\ i <= n - len
        BY <1>1, <2>4 DEF IsBuffer
      <4> HIDE DEF r, n
      <4>2. /\ i \in 1 .. n - len /\ (len + 1) + i - 1 \in 1 .. n
            /\ r + ((len + 1) + i - 1) - 1 = (r + len) + i - 1
        BY <4>1
      <4> QED
        BY <4>2 DEF r
    <3>2. u[i] = b.buffer_[(b.readerIndex_ + len) + i - 1]
      BY <3>1, <2>4
    <3> DEFINE k == (len + 1) + i - 1
    <3>3. k \in 1 .. n /\ b.readerIndex_ + k - 1 = (b.readerIndex_ + len) + i - 1
      BY <3>1
    <3> HIDE DEF k
    <3>4. s[k] = b.buffer_[b.readerIndex_ + k - 1]
      BY <3>3, <1>2
    <3> QED
      BY <3>2, <3>3, <3>4 DEF k
  <2>6. /\ len + 1 \in Nat /\ Len(s) \in Nat /\ 1 <= len + 1 /\ len + 1 <= Len(s) + 1
        /\ Len(s) <= Len(s) /\ Len(u) = Len(s) - (len + 1) + 1
    BY <1>1, <1>2, <2>4
  <2>7. u = SubSeq(s, len + 1, Len(s))
    BY <1>2, <2>4, <2>5, <2>6, IsPart
  <2> QED
    BY <2>2, <2>7 DEF m, s, u
<1>4. CASE len = n
  <2>1. /\ DOMAIN m = Fields
        /\ m.size = b.size
        /\ m.readerIndex_ = kCheapPrepend
        /\ m.writerIndex_ = kCheapPrepend
        /\ m.buffer_ = b.buffer_
    BY <1>1, <1>4 DEF Retrieve, RetrieveAll, ReadableBytes, IsBuffer, Fields
  <2> HIDE DEF m, s
  <2>2. IsBuffer(m, Byte)
    BY <2>1, SizesAssumption DEF IsBuffer
  <2>3. u \in Seq(Byte) /\ Len(u) = 0
    BY <2>1, <2>2, ReadableIsSequence, SizesAssumption
  <2>4. SubSeq(s, len + 1, Len(s)) = <<>>
    BY <1>2, <1>4
  <2> QED
    BY <2>2, <2>3, <2>4 DEF m, s, u
<1> QED
  BY <1>1, <1>3, <1>4

(* unwrite drops bytes at the end. *)
LEMMA UnwriteLemma ==
  ASSUME NEW Byte, NEW b, IsBuffer(b, Byte), NEW len \in 0 .. ReadableBytes(b)
  PROVE  /\ IsBuffer(Unwrite(b, len), Byte)
         /\ ToStringPiece(Unwrite(b, len))
              = SubSeq(ToStringPiece(b), 1, Len(ToStringPiece(b)) - len)
<1> DEFINE m == Unwrite(b, len)
           s == ToStringPiece(b)
           u == ToStringPiece(m)
           n == b.writerIndex_ - b.readerIndex_
<1>1. n \in Nat /\ len \in Nat /\ len <= n
  BY DEF ReadableBytes, IsBuffer
<1>2. s \in Seq(Byte) /\ Len(s) = n /\ \A i \in 1 .. n : s[i] = b.buffer_[b.readerIndex_ + i - 1]
  BY ReadableIsSequence
<1>3. /\ DOMAIN m = Fields
      /\ m.size = b.size
      /\ m.readerIndex_ = b.readerIndex_
      /\ m.writerIndex_ = b.writerIndex_ - len
      /\ m.buffer_ = b.buffer_
  BY DEF Unwrite, IsBuffer, Fields
<1> HIDE DEF m, s
<1>4. IsBuffer(m, Byte)
  <2>1. /\ b.writerIndex_ - len \in Nat
        /\ b.readerIndex_ <= b.writerIndex_ - len
        /\ b.writerIndex_ - len <= b.size
    BY <1>1 DEF IsBuffer
  <2> QED
    BY <2>1, <1>3 DEF IsBuffer
<1>5. m.writerIndex_ - m.readerIndex_ = n - len
  BY <1>1, <1>3 DEF IsBuffer
<1>6. /\ u \in Seq(Byte) /\ Len(u) = n - len
      /\ \A i \in 1 .. n - len : u[i] = b.buffer_[b.readerIndex_ + i - 1]
  BY <1>3, <1>4, <1>5, ReadableIsSequence
<1> HIDE DEF u
<1>7. ASSUME NEW i \in 1 .. Len(u) PROVE u[i] = s[1 + i - 1]
  <2>1. i \in 1 .. n - len /\ 1 + i - 1 = i /\ i \in 1 .. n
    BY <1>1, <1>6
  <2> QED
    BY <2>1, <1>2, <1>6
<1>8. /\ Len(s) - len \in Nat /\ 1 <= 1 /\ 1 <= (Len(s) - len) + 1 /\ 1 \in Nat
      /\ Len(s) - len <= Len(s) /\ Len(u) = (Len(s) - len) - 1 + 1
  BY <1>1, <1>2, <1>6
<1>9. u = SubSeq(s, 1, Len(s) - len)
  <2> DEFINE hi == Len(s) - len
  <2>1. /\ hi \in Nat /\ 1 <= hi + 1 /\ hi <= Len(s) /\ Len(u) = hi - 1 + 1
        /\ 1 \in Nat /\ 1 <= 1
    BY <1>8
  <2>2. \A i \in 1 .. Len(u) : u[i] = s[1 + i - 1]
    BY <1>7
  <2> HIDE DEF hi
  <2>3. u = SubSeq(s, 1, hi)
    BY <2>1, <2>2, <1>2, <1>6, IsPart
  <2> QED
    BY <2>3 DEF hi
<1> QED
  BY <1>4, <1>9 DEF m, s, u

(* A sequence is what two of its parts make. *)
LEMMA CutInTwo ==
  ASSUME NEW S, NEW s \in Seq(S), NEW k \in Nat, k <= Len(s)
  PROVE  /\ SubSeq(s, 1, k) \in Seq(S) /\ Len(SubSeq(s, 1, k)) = k
         /\ SubSeq(s, k + 1, Len(s)) \in Seq(S)
         /\ s = SubSeq(s, 1, k) \o SubSeq(s, k + 1, Len(s))
<1> DEFINE a == SubSeq(s, 1, k)
           z == SubSeq(s, k + 1, Len(s))
<1>1. a \in Seq(S) /\ Len(a) = k /\ \A i \in 1 .. k : a[i] = s[i]
  OBVIOUS
<1>2. z \in Seq(S) /\ Len(z) = Len(s) - k /\ \A i \in 1 .. Len(s) - k : z[i] = s[k + i]
  OBVIOUS
<1> HIDE DEF a, z
<1>3. /\ Len(s) = Len(a) + Len(z)
      /\ \A i \in 1 .. Len(a) : s[i] = a[i]
      /\ \A i \in 1 .. Len(z) : s[Len(a) + i] = z[i]
  <2>1. k + (Len(s) - k) = Len(s)
    OBVIOUS
  <2> QED
    BY <1>1, <1>2, <2>1, Zenon
<1>4. s = a \o z
  BY <1>1, <1>2, <1>3, IsConcatenation, Zenon
<1> QED
  BY <1>1, <1>2, <1>4, Zenon DEF a, z

(* readFd, through extrabuf or not, puts the data after the readable bytes. *)
LEMMA ReadFdLemma ==
  ASSUME NEW Byte, ZeroByte \in Byte, NEW b, IsBuffer(b, Byte), NEW data \in Seq(Byte)
  PROVE  /\ IsBuffer(ReadFd(b, data), Byte)
         /\ ToStringPiece(ReadFd(b, data)) = ToStringPiece(b) \o data
<1> DEFINE w == WritableBytes(b)
           s == ToStringPiece(b)
<1>1. w \in Nat /\ Len(data) \in Nat /\ s \in Seq(Byte)
  BY ReadableIsSequence DEF WritableBytes, IsBuffer
<1>2. CASE Len(data) <= w
  BY <1>2, HasWrittenLemma DEF ReadFd
<1>3. CASE ~(Len(data) <= w)
  <2> DEFINE d1 == SubSeq(data, 1, w)
             d2 == SubSeq(data, w + 1, Len(data))
             h  == HasWritten(b, d1)
  <2>1. ReadFd(b, data) = AppendData(h, d2)
    BY <1>3 DEF ReadFd
  <2>2. w <= Len(data)
    BY <1>1, <1>3
  <2> HIDE DEF h
  <2>3. d1 \in Seq(Byte) /\ Len(d1) = w /\ d2 \in Seq(Byte) /\ data = d1 \o d2
    BY <1>1, <2>2, CutInTwo, Zenon
  <2> HIDE DEF d1, d2
  <2>4. Len(d1) <= WritableBytes(b)
    BY <1>1, <2>3
  <2>5. IsBuffer(h, Byte) /\ ToStringPiece(h) = s \o d1
    BY <2>3, <2>4, HasWrittenLemma DEF h
  <2>6. /\ IsBuffer(AppendData(h, d2), Byte)
        /\ ToStringPiece(AppendData(h, d2)) = ToStringPiece(h) \o d2
    BY <2>3, <2>5, AppendLemma, Zenon
  <2>7. (s \o d1) \o d2 = s \o (d1 \o d2)
    BY <1>1, <2>3
  <2> QED
    BY <2>1, <2>3, <2>5, <2>6, <2>7
<1> QED
  BY <1>2, <1>3

(* shrink swaps in a new vector with the same bytes. *)
LEMMA ShrinkLemma ==
  ASSUME NEW Byte, ZeroByte \in Byte, NEW b, IsBuffer(b, Byte), NEW reserve \in Nat
  PROVE  /\ IsBuffer(Shrink(b, reserve), Byte)
         /\ ToStringPiece(Shrink(b, reserve)) = ToStringPiece(b)
<1> DEFINE s == ToStringPiece(b)
           e == EnsureWritableBytes(NewBuffer(kInitialSize), ReadableBytes(b) + reserve)
<1>1. s \in Seq(Byte)
  BY ReadableIsSequence
<1>2. ReadableBytes(b) + reserve \in Nat
  BY DEF ReadableBytes, IsBuffer
<1>3. IsBuffer(e, Byte) /\ ToStringPiece(e) = <<>>
  BY <1>2, NewBufferLemma, EnsureWritableLemma
<1>4. Shrink(b, reserve) = AppendData(e, s)
  BY DEF Shrink
<1> HIDE DEF e, s
<1>5. IsBuffer(AppendData(e, s), Byte) /\ ToStringPiece(AppendData(e, s)) = <<>> \o s
  BY <1>1, <1>3, AppendLemma, Zenon
<1>6. <<>> \o s = s
  BY <1>1
<1> QED
  BY <1>4, <1>5, <1>6 DEF s

-----------------------------------------------------------------------------
(* One call: the buffer stays one, and its readable bytes make a step of the *)
(* byte queue, or none.                                                      *)
LEMMA StepLemma ==
  ASSUME NEW Byte, ZeroByte \in Byte, Chunks \subseteq Seq(Byte),
         IsBuffer(buf, Byte), [Next]_buf
  PROVE  /\ IsBuffer(buf, Byte)'
         /\ Queue!Next \/ UNCHANGED ToStringPiece(buf)
<1> DEFINE s == ToStringPiece(buf)
           t == ToStringPiece(buf')
<1>1. s \in Seq(Byte) /\ Len(s) = ReadableBytes(buf) /\ ReadableBytes(buf) \in Nat
  <2>1. s \in Seq(Byte) /\ Len(s) = buf.writerIndex_ - buf.readerIndex_
    BY ReadableIsSequence
  <2> HIDE DEF s
  <2> QED
    BY <2>1 DEF ReadableBytes, IsBuffer
<1>2. ASSUME NEW data \in Chunks,
             DoAppend(data) \/ DoHasWritten(data) \/ DoPrepend(data) \/ DoReadFd(data)
      PROVE  IsBuffer(buf', Byte) /\ (t = s \o data \/ t = data \o s)
  <2>1. data \in Seq(Byte)
    OBVIOUS
  <2>2. CASE DoAppend(data)
    BY <2>1, <2>2, AppendLemma, Zenon DEF DoAppend
  <2>3. CASE DoHasWritten(data)
    BY <2>1, <2>3, HasWrittenLemma DEF DoHasWritten
  <2>4. CASE DoPrepend(data)
    BY <2>1, <2>4, PrependLemma DEF DoPrepend
  <2>5. CASE DoReadFd(data)
    BY <2>1, <2>5, ReadFdLemma, Zenon DEF DoReadFd
  <2> QED
    BY <1>2, <2>2, <2>3, <2>4, <2>5
<1>3. ASSUME NEW len \in IntSizes, DoEnsureWritableBytes(len)
      PROVE  IsBuffer(buf', Byte) /\ t = s
  <2>1. len \in Nat
    BY IntSizesAssumption
  <2> QED
    BY <2>1, <1>3, EnsureWritableLemma DEF DoEnsureWritableBytes
<1>4. ASSUME NEW len \in 0 .. ReadableBytes(buf), DoRetrieve(len)
      PROVE  IsBuffer(buf', Byte) /\ t = SubSeq(s, len + 1, Len(s))
  BY <1>4, RetrieveLemma DEF DoRetrieve
<1>5. ASSUME NEW len \in 0 .. ReadableBytes(buf), DoUnwrite(len)
      PROVE  IsBuffer(buf', Byte) /\ t = SubSeq(s, 1, Len(s) - len)
  BY <1>5, UnwriteLemma DEF DoUnwrite
<1>6. ASSUME NEW reserve \in IntSizes, DoShrink(reserve)
      PROVE  IsBuffer(buf', Byte) /\ t = s
  <2>1. reserve \in Nat
    BY IntSizesAssumption
  <2> QED
    BY <2>1, <1>6, ShrinkLemma DEF DoShrink
<1>7. CASE buf' = buf
  BY <1>7
<1> HIDE DEF s, t
<1>8. /\ IsBuffer(buf', Byte)
      /\ \/ \E data \in Chunks : t = s \o data \/ t = data \o s
         \/ \E n \in 0 .. Len(s) : t = SubSeq(s, n + 1, Len(s)) \/ t = SubSeq(s, 1, Len(s) - n)
         \/ t = s
  <2>1. CASE \E data \in Chunks :
               DoAppend(data) \/ DoHasWritten(data) \/ DoPrepend(data) \/ DoReadFd(data)
    BY <2>1, <1>2, Zenon
  <2>2. CASE \E len \in IntSizes : DoEnsureWritableBytes(len)
    BY <2>2, <1>3
  <2>3. CASE \E len \in 0 .. ReadableBytes(buf) : DoRetrieve(len) \/ DoUnwrite(len)
    BY <2>3, <1>1, <1>4, <1>5
  <2>4. CASE \E reserve \in IntSizes : DoShrink(reserve)
    BY <2>4, <1>6
  <2>5. CASE buf' = buf
    BY <2>5 DEF s, t
  <2> QED
    BY <2>1, <2>2, <2>3, <2>4, <2>5, Zenon DEF Next
<1>9. CASE \E data \in Chunks : t = s \o data \/ t = data \o s
  BY <1>8, <1>9, Zenon DEF Queue!Next, Queue!Put, Queue!PutFront, s, t
<1>10. CASE \E n \in 0 .. Len(s) : t = SubSeq(s, n + 1, Len(s)) \/ t = SubSeq(s, 1, Len(s) - n)
  <2>1. PICK n \in 0 .. Len(s) : t = SubSeq(s, n + 1, Len(s)) \/ t = SubSeq(s, 1, Len(s) - n)
    BY <1>10
  <2>2. n <= Len(s)
    BY <1>1
  <2>3. Queue!Take(n) \/ Queue!DropLast(n)
    BY <2>1, <2>2 DEF Queue!Take, Queue!DropLast, s, t
  <2>4. n \in 0 .. Len(ToStringPiece(buf))
    BY DEF s
  <2>5. Queue!Next
    BY <2>3, <2>4, Zenon DEF Queue!Next
  <2> QED
    BY <1>8, <2>5
<1>11. CASE t = s
  BY <1>8, <1>11 DEF s, t
<1> QED
  BY <1>8, <1>9, <1>10, <1>11

(* The buffer is one in every state. *)
LEMMA Invariance ==
  ASSUME NEW Byte, ZeroByte \in Byte, Chunks \subseteq Seq(Byte)
  PROVE  Spec => []IsBuffer(buf, Byte)
<1>1. Init => IsBuffer(buf, Byte)
  BY NewBufferLemma DEF Init
<1>2. IsBuffer(buf, Byte) /\ [Next]_buf => IsBuffer(buf, Byte)'
  BY StepLemma
<1> QED
  BY <1>1, <1>2, PTL DEF Spec

(* Indices for any sizes and data: the picture in Buffer.h holds after any *)
(* calls.                                                                  *)
THEOREM IndicesInOrder ==
  ASSUME NEW Byte, ZeroByte \in Byte, Chunks \subseteq Seq(Byte)
  PROVE  Spec => []Indices
<1>1. IsBuffer(buf, Byte) => Indices
  BY DEF IsBuffer, Indices
<1> QED
  BY <1>1, Invariance, PTL

(* RoomIsFound for any sizes and data: ensureWritableBytes and makeSpace   *)
(* (Buffer.h:411-434) find the room and never fail an assertion.           *)
THEOREM RoomAlwaysFound ==
  ASSUME NEW Byte, ZeroByte \in Byte, Chunks \subseteq Seq(Byte)
  PROVE  Spec => []RoomIsFound
<1>1. IsBuffer(buf, Byte) => RoomIsFound
  BY EnsureWritableLemma, IntSizesAssumption DEF RoomIsFound
<1> QED
  BY <1>1, Invariance, PTL

(* IsByteQueue for any sizes and data: Buffer implements ByteQueue, so     *)
(* makeSpace, shrink and readFd lose, repeat and reorder nothing.          *)
THEOREM Refinement ==
  ASSUME NEW Byte, ZeroByte \in Byte, Chunks \subseteq Seq(Byte)
  PROVE  Spec => IsByteQueue
<1>1. Init => Queue!Init
  BY NewBufferLemma DEF Init, Queue!Init
<1>2. IsBuffer(buf, Byte) /\ [Next]_buf => [Queue!Next]_(ToStringPiece(buf))
  BY StepLemma
<1> QED
  BY <1>1, <1>2, Invariance, PTL DEF Spec, Queue!Spec, IsByteQueue

-----------------------------------------------------------------------------
(* RpcChannel.  A call is in outstandings_ under its own id from StoreCall   *)
(* to its response, and a message on the way has the id of such a call.      *)

(* The messages in the two directions; a call has its answer or an error. *)
Request == [id : Nat, request : Calls]
OutcomesOf(c) == {<<"answer to", c>>, <<ErrorOf[c]>>}
Reply   == [id : Nat, result : UNION {OutcomesOf(c) : c \in Calls}]

(* The types of the variables. *)
RpcTypes ==
  /\ id_ \in Nat
  /\ outstandings_ \subseteq [id : Nat, call : Calls]
  /\ pc \in [Calls -> {"idle", "id", "stored", "sent"}]
  /\ idOf \in [Calls -> Nat]
  /\ toServer \in Seq(Request) /\ toClient \in Seq(Reply)
  /\ running \subseteq Request
  /\ up \in BOOLEAN /\ clientChannel \in BOOLEAN /\ serverChannel \in BOOLEAN
  /\ outcome \in [Calls -> {<<>>} \cup UNION {OutcomesOf(c) : c \in Calls}]
  /\ rpcFreed \in [Calls -> {0, 1}]

(* id_ counts the calls: an id is not in the future, and no two calls have the *)
(* same one.                                                                   *)
IdsDiffer ==
  /\ \A c \in Calls : pc[c] # "idle" => idOf[c] <= id_
  /\ \A c, d \in Calls : (pc[c] # "idle" /\ pc[d] # "idle" /\ c # d) => idOf[c] # idOf[d]

(* The call is in outstandings_ under its id. *)
IsOutstanding(c) == [id |-> idOf[c], call |-> c] \in outstandings_

(* Each call is in outstandings_ from the moment it is stored there until its  *)
(* response object is deleted.                                                 *)
CallsOwned ==
  /\ \A o \in outstandings_ : o.id = idOf[o.call]
  /\ \A c \in Calls :
       /\ pc[c] \in {"idle", "id"} => ~IsOutstanding(c) /\ rpcFreed[c] = 0
       /\ pc[c] = "stored" => IsOutstanding(c)
       /\ pc[c] \in {"stored", "sent"} => (IsOutstanding(c) <=> rpcFreed[c] = 0)
  /\ ~clientChannel =>
       ~up /\ outstandings_ = {} /\ \A c \in Calls : pc[c] \in {"idle", "sent"}
  /\ ~up => toServer = <<>> /\ toClient = <<>>

(* The request was sent and the client's channel waits for the response. *)
Waits(c) == pc[c] = "sent" /\ (clientChannel => IsOutstanding(c))

(* A message belongs to a call that waits for it.                              *)
IsRequestOf(m, c) == m.request = c /\ m.id = idOf[c] /\ Waits(c)
IsReplyTo(m, c)   == m.id = idOf[c] /\ m.result \in OutcomesOf(c) /\ Waits(c)

(* Every message on the way belongs to such a call. *)
MessagesRight ==
  /\ \A i \in 1 .. Len(toServer) : IsRequestOf(toServer[i], toServer[i].request)
  /\ \A m \in running : IsRequestOf(m, m.request)
  /\ \A i \in 1 .. Len(toClient) : \E c \in Calls : IsReplyTo(toClient[i], c)

(* A call has one message on the way, in one direction or in the service.      *)
OneMessage ==
  /\ \A i, j \in 1 .. Len(toServer) : i # j => toServer[i].id # toServer[j].id
  /\ \A i, j \in 1 .. Len(toClient) : i # j => toClient[i].id # toClient[j].id
  /\ \A i \in 1 .. Len(toServer), j \in 1 .. Len(toClient) : toServer[i].id # toClient[j].id
  /\ \A m \in running :
       /\ \A i \in 1 .. Len(toServer) : toServer[i].id # m.id
       /\ \A i \in 1 .. Len(toClient) : toClient[i].id # m.id
  /\ \A m, n \in running : m.id = n.id => m = n

(* The inductive invariant of RpcChannel. *)
RpcInv == RpcTypes /\ IdsDiffer /\ CallsOwned /\ MessagesRight /\ OneMessage /\ DoneWithOwn

-----------------------------------------------------------------------------
(* What pop_front leaves of a sequence. *)
LEMMA TailOf ==
  ASSUME NEW Elem, NEW s \in Seq(Elem), s # <<>>
  PROVE  /\ Tail(s) \in Seq(Elem) /\ Len(s) \in Nat \ {0} /\ Len(Tail(s)) = Len(s) - 1
         /\ Head(s) = s[1] /\ Head(s) \in Elem
         /\ \A i \in 1 .. Len(Tail(s)) : i + 1 \in 2 .. Len(s) /\ Tail(s)[i] = s[i + 1]
<1>1. Len(s) \in Nat \ {0} /\ Tail(s) \in Seq(Elem) /\ Len(Tail(s)) = Len(s) - 1
      /\ \A i \in 1 .. Len(Tail(s)) : Tail(s)[i] = s[i + 1]
  OBVIOUS
<1>2. Head(s) = s[1] /\ Head(s) \in Elem
  OBVIOUS
<1> QED
  BY <1>1, <1>2

(* What push_back adds to a sequence. *)
LEMMA AppendOf ==
  ASSUME NEW Elem, NEW s \in Seq(Elem), NEW e \in Elem
  PROVE  /\ Append(s, e) \in Seq(Elem) /\ Len(s) \in Nat /\ Len(Append(s, e)) = Len(s) + 1
         /\ Append(s, e)[Len(s) + 1] = e
         /\ \A i \in 1 .. Len(s) : Append(s, e)[i] = s[i]
         /\ \A i \in 1 .. Len(Append(s, e)) : i \in 1 .. Len(s) \/ i = Len(s) + 1
<1>1. /\ Append(s, e) \in Seq(Elem) /\ Len(s) \in Nat /\ Len(Append(s, e)) = Len(s) + 1
      /\ Append(s, e)[Len(s) + 1] = e
      /\ \A i \in 1 .. Len(s) : Append(s, e)[i] = s[i]
  OBVIOUS
<1> QED
  BY <1>1

(* The invariant holds in the initial states. *)
LEMMA RpcInitially == RpcInit => RpcInv
<1> SUFFICES ASSUME RpcInit PROVE RpcInv
  OBVIOUS
<1>1. toServer = <<>> /\ toClient = <<>> /\ Len(toServer) = 0 /\ Len(toClient) = 0
  BY DEF RpcInit
<1>2. RpcTypes
  <2>1. /\ up \in BOOLEAN /\ clientChannel \in BOOLEAN /\ serverChannel \in BOOLEAN
        /\ toServer \in Seq(Request) /\ toClient \in Seq(Reply)
    BY <1>1 DEF RpcInit
  <2>2. /\ id_ \in Nat /\ outstandings_ = {} /\ running = {}
        /\ pc \in [Calls -> {"idle", "id", "stored", "sent"}] /\ idOf \in [Calls -> Nat]
        /\ rpcFreed \in [Calls -> {0, 1}]
        /\ outcome \in [Calls -> {<<>>} \cup UNION {OutcomesOf(c) : c \in Calls}]
    BY DEF RpcInit
  <2> QED
    BY <2>1, <2>2 DEF RpcTypes
<1>3. IdsDiffer /\ CallsOwned
  BY <1>1 DEF RpcInit, IdsDiffer, CallsOwned, IsOutstanding
<1>4. MessagesRight /\ OneMessage
  BY <1>1 DEF RpcInit, MessagesRight, OneMessage
<1>5. DoneWithOwn
  BY DEF RpcInit, DoneWithOwn
<1> QED
  BY <1>2, <1>3, <1>4, <1>5 DEF RpcInv

-----------------------------------------------------------------------------
(* What the invariant says of an entry of outstandings_.                     *)
LEMMA EntryIs ==
  ASSUME RpcTypes, CallsOwned, NEW o \in outstandings_
  PROVE  /\ o.call \in Calls /\ o.id = idOf[o.call] /\ o = [id |-> idOf[o.call], call |-> o.call]
         /\ IsOutstanding(o.call) /\ pc[o.call] \in {"stored", "sent"}
<1>1. o \in [id : Nat, call : Calls] /\ o.id = idOf[o.call]
  BY DEF RpcTypes, CallsOwned
<1>2. o.call \in Calls /\ o = [id |-> idOf[o.call], call |-> o.call]
  BY <1>1
<1>3. IsOutstanding(o.call)
  BY <1>2 DEF IsOutstanding
<1> QED
  BY <1>1, <1>2, <1>3 DEF CallsOwned, RpcTypes

(* Messages stay right while calls go on waiting for them. *)
LEMMA MessagesKept ==
  ASSUME RpcTypes, MessagesRight, OneMessage, UNCHANGED <<toServer, toClient, running>>,
         \A c \in Calls : Waits(c) => (Waits(c)' /\ idOf'[c] = idOf[c])
  PROVE  MessagesRight' /\ OneMessage'
<1>1. OneMessage'
  BY DEF OneMessage
<1>2. ASSUME NEW m, NEW c \in Calls
      PROVE  /\ IsRequestOf(m, c) => IsRequestOf(m, c)'
             /\ IsReplyTo(m, c) => IsReplyTo(m, c)'
  BY Zenon DEF IsRequestOf, IsReplyTo, OutcomesOf
<1>3. \A i \in 1 .. Len(toServer) : toServer[i].request \in Calls
  <2>1. \A i \in 1 .. Len(toServer) : toServer[i] \in Request
    BY DEF RpcTypes
  <2> QED
    BY <2>1 DEF Request
<1>4. \A m \in running : m.request \in Calls
  BY DEF RpcTypes, Request
<1>5. \A i \in 1 .. Len(toServer) : IsRequestOf(toServer[i], toServer[i].request)'
  BY <1>2, <1>3 DEF MessagesRight
<1>6. \A m \in running : IsRequestOf(m, m.request)'
  BY <1>2, <1>4 DEF MessagesRight
<1>7. \A i \in 1 .. Len(toClient) : \E c \in Calls : IsReplyTo(toClient[i], c)'
  BY <1>2 DEF MessagesRight
<1> QED
  BY <1>1, <1>5, <1>6, <1>7 DEF MessagesRight

(* CallMethod takes an id. *)
LEMMA TakeIdStep ==
  ASSUME RpcInv, NEW c \in Calls, TakeId(c)
  PROVE  RpcInv'
<1>0. RpcTypes /\ IdsDiffer /\ CallsOwned /\ MessagesRight /\ OneMessage /\ DoneWithOwn
  BY DEF RpcInv
<1>1. /\ pc[c] = "idle" /\ id_ \in Nat /\ id_' = id_ + 1 /\ clientChannel
      /\ idOf' = [idOf EXCEPT ![c] = id_ + 1] /\ pc' = [pc EXCEPT ![c] = "id"]
      /\ UNCHANGED <<outstandings_, outcome, rpcFreed, toServer, toClient, running, up,
                     clientChannel, serverChannel>>
  BY <1>0 DEF TakeId, RpcTypes, MayCallMethod
<1>2. /\ idOf'[c] = id_ + 1 /\ pc'[c] = "id"
      /\ \A d \in Calls \ {c} : idOf'[d] = idOf[d] /\ pc'[d] = pc[d]
  BY <1>0, <1>1 DEF RpcTypes
<1>3. RpcTypes'
  BY <1>0, <1>1 DEF RpcTypes
<1>4. IdsDiffer'
  <2>1. \A d \in Calls \ {c} : pc[d] # "idle" => idOf[d] <= id_ /\ idOf[d] \in Nat
    BY <1>0 DEF IdsDiffer, RpcTypes
  <2>2. \A d \in Calls \ {c} : pc[d] # "idle" => idOf[d] <= id_ + 1 /\ idOf[d] # id_ + 1
    BY <1>1, <2>1
  <2> QED
    BY <1>0, <1>1, <1>2, <2>2 DEF IdsDiffer
<1>5. \A o \in outstandings_ : o.call # c /\ o.id = idOf'[o.call]
  BY <1>0, <1>1, <1>2, EntryIs
<1>6. ~IsOutstanding(c)'
  <2>1. [id |-> idOf'[c], call |-> c].call = c
    OBVIOUS
  <2> QED
    BY <1>1, <1>5, <2>1 DEF IsOutstanding
<1>7. \A d \in Calls \ {c} : IsOutstanding(d)' <=> IsOutstanding(d)
  BY <1>1, <1>2 DEF IsOutstanding
<1>8. CallsOwned'
  BY <1>0, <1>1, <1>2, <1>5, <1>6, <1>7 DEF CallsOwned
<1>9. \A d \in Calls : Waits(d) => (Waits(d)' /\ idOf'[d] = idOf[d])
  BY <1>1, <1>2, <1>7 DEF Waits
<1>10. MessagesRight' /\ OneMessage'
  BY <1>0, <1>1, <1>9, MessagesKept
<1>11. DoneWithOwn'
  BY <1>0, <1>1, Zenon DEF DoneWithOwn
<1> QED
  BY <1>3, <1>4, <1>8, <1>10, <1>11 DEF RpcInv

(* CallMethod stores the call in outstandings_. *)
LEMMA StoreStep ==
  ASSUME RpcInv, NEW c \in Calls, Store(c)
  PROVE  RpcInv'
<1>0. RpcTypes /\ IdsDiffer /\ CallsOwned /\ MessagesRight /\ OneMessage /\ DoneWithOwn
  BY DEF RpcInv
<1> DEFINE entry == [id |-> idOf[c], call |-> c]
<1>1. /\ pc[c] = "id" /\ pc' = [pc EXCEPT ![c] = "stored"]
      /\ outstandings_' = {o \in outstandings_ : o.id # idOf[c]} \cup {entry}
      /\ UNCHANGED <<id_, idOf, outcome, rpcFreed, toServer, toClient, running, up,
                     clientChannel, serverChannel>>
  BY DEF Store
<1>2. pc'[c] = "stored" /\ \A d \in Calls \ {c} : pc'[d] = pc[d]
  BY <1>0, <1>1 DEF RpcTypes
<1>3. \A o \in outstandings_ : o.call # c /\ o.id # idOf[c]
  <2>1. ASSUME NEW o \in outstandings_ PROVE o.call # c /\ o.id # idOf[c]
    <3>1. o.call \in Calls /\ o.id = idOf[o.call] /\ pc[o.call] \in {"stored", "sent"}
      BY <1>0, EntryIs
    <3> QED
      BY <1>0, <1>1, <3>1 DEF IdsDiffer
  <2> QED
    BY <2>1
<1>4. outstandings_' = outstandings_ \cup {entry}
  BY <1>1, <1>3
<1>5. entry \in [id : Nat, call : Calls] /\ entry.id = idOf[c] /\ entry.call = c
  BY <1>0 DEF RpcTypes
<1>6. RpcTypes'
  BY <1>0, <1>1, <1>4, <1>5 DEF RpcTypes
<1>7. IdsDiffer' /\ DoneWithOwn'
  BY <1>0, <1>1, <1>2, ZenonT(60) DEF IdsDiffer, DoneWithOwn
<1>8. IsOutstanding(c)'
  BY <1>1, <1>4, Zenon DEF IsOutstanding
<1>9. \A d \in Calls \ {c} : IsOutstanding(d)' <=> IsOutstanding(d)
  <2>1. \A d \in Calls \ {c} : [id |-> idOf[d], call |-> d] # entry
    BY <1>5
  <2> QED
    BY <1>1, <1>4, <2>1 DEF IsOutstanding
<1>10. clientChannel
  BY <1>0, <1>1 DEF CallsOwned
<1>11. CallsOwned'
  <2>1. \A o \in outstandings_' : o.id = idOf'[o.call]
    BY <1>0, <1>1, <1>4, <1>5 DEF CallsOwned
  <2>2. rpcFreed[c] = 0
    BY <1>0, <1>1 DEF CallsOwned
  <2> QED
    BY <1>0, <1>1, <1>2, <1>8, <1>9, <1>10, <2>1, <2>2 DEF CallsOwned
<1>12. MessagesRight' /\ OneMessage'
  <2>1. \A d \in Calls : Waits(d) => (Waits(d)' /\ idOf'[d] = idOf[d])
    BY <1>1, <1>2, <1>9 DEF Waits
  <2> QED
    BY <1>0, <1>1, <2>1, MessagesKept
<1> QED
  BY <1>6, <1>7, <1>11, <1>12 DEF RpcInv

(* The types of messages and what they belong to. *)
LEMMA MessageIs ==
  ASSUME RpcTypes, MessagesRight
  PROVE  /\ Len(toServer) \in Nat /\ Len(toClient) \in Nat
         /\ \A i \in 1 .. Len(toServer) :
              toServer[i] \in Request /\ toServer[i].request \in Calls
              /\ IsRequestOf(toServer[i], toServer[i].request)
         /\ \A m \in running : m \in Request /\ m.request \in Calls /\ IsRequestOf(m, m.request)
         /\ \A i \in 1 .. Len(toClient) :
              toClient[i] \in Reply /\ \E c \in Calls : IsReplyTo(toClient[i], c)
<1>1. \A i \in 1 .. Len(toServer) : toServer[i] \in Request
  BY DEF RpcTypes
<1>2. \A i \in 1 .. Len(toClient) : toClient[i] \in Reply
  BY DEF RpcTypes
<1>3. \A m \in running : m \in Request
  BY DEF RpcTypes
<1>4. \A m \in Request : m.request \in Calls
  BY DEF Request
<1>5. Len(toServer) \in Nat /\ Len(toClient) \in Nat
  BY DEF RpcTypes
<1> HIDE DEF Request, Reply
<1> QED
  BY <1>1, <1>2, <1>3, <1>4, <1>5 DEF MessagesRight

(* CallMethod sends the request. *)
LEMMA SendRequestStep ==
  ASSUME RpcInv, NEW c \in Calls, SendRequest(c)
  PROVE  RpcInv'
<1>0. RpcTypes /\ IdsDiffer /\ CallsOwned /\ MessagesRight /\ OneMessage /\ DoneWithOwn
  BY DEF RpcInv
<1>1. /\ pc[c] = "stored" /\ pc' = [pc EXCEPT ![c] = "sent"]
      /\ UNCHANGED <<id_, outstandings_, idOf, outcome, rpcFreed, toClient, running, up,
                     clientChannel, serverChannel>>
  BY DEF SendRequest
<1>2. pc'[c] = "sent" /\ \A d \in Calls \ {c} : pc'[d] = pc[d]
  BY <1>0, <1>1 DEF RpcTypes
<1>3. \A d \in Calls : IsOutstanding(d)' <=> IsOutstanding(d)
  BY <1>1 DEF IsOutstanding
<1>4. IsOutstanding(c) /\ clientChannel
  BY <1>0, <1>1 DEF CallsOwned
<1>5. \A d \in Calls : Waits(d)' <=> (Waits(d) \/ d = c)
  BY <1>1, <1>2, <1>3, <1>4 DEF Waits
<1>6. ~Waits(c)
  BY <1>1 DEF Waits
<1>7. IdsDiffer' /\ DoneWithOwn'
  BY <1>0, <1>1, <1>2, ZenonT(60) DEF IdsDiffer, DoneWithOwn
<1>8. pc' \in [Calls -> {"idle", "id", "stored", "sent"}]
  BY <1>0, <1>1 DEF RpcTypes
<1>9. CASE ~up
  <2>1. UNCHANGED toServer
    BY <1>9 DEF SendRequest
  <2>2. RpcTypes'
    BY <1>0, <1>1, <1>8, <2>1 DEF RpcTypes
  <2>3. CallsOwned'
    BY <1>0, <1>1, <1>2, <1>3, <1>4, <2>1 DEF CallsOwned
  <2>4. MessagesRight' /\ OneMessage'
    BY <1>0, <1>1, <1>5, <2>1, MessagesKept
  <2> QED
    BY <1>7, <2>2, <2>3, <2>4 DEF RpcInv
<1>10. CASE up
  <2> DEFINE m == [id |-> idOf[c], request |-> c]
  <2>1. toServer' = Append(toServer, m)
    BY <1>10 DEF SendRequest
  <2>2. m \in Request /\ m.id = idOf[c] /\ m.request = c
    BY <1>0 DEF RpcTypes, Request
  <2> HIDE DEF m
  <2>3. /\ toServer' \in Seq(Request) /\ Len(toServer) \in Nat /\ Len(toServer') = Len(toServer) + 1
        /\ toServer'[Len(toServer) + 1] = m
        /\ \A i \in 1 .. Len(toServer) : toServer'[i] = toServer[i]
        /\ \A i \in 1 .. Len(toServer') : i \in 1 .. Len(toServer) \/ i = Len(toServer) + 1
    BY <1>0, <2>1, <2>2, AppendOf DEF RpcTypes
  <2>4. RpcTypes'
    BY <1>0, <1>1, <1>8, <2>3 DEF RpcTypes
  <2>5. CallsOwned'
    BY <1>0, <1>1, <1>2, <1>3, <1>4, <1>10 DEF CallsOwned
  <2>6. \A d \in Calls : Waits(d) => idOf[d] # m.id
    BY <1>0, <1>1, <1>6, <2>2, ZenonT(60) DEF IdsDiffer, Waits
  <2>7. /\ \A i \in 1 .. Len(toServer) : toServer[i].id # m.id
        /\ \A n \in running : n.id # m.id
        /\ \A i \in 1 .. Len(toClient) : toClient[i].id # m.id
    BY <1>0, <2>6, MessageIs, ZenonT(60) DEF IsRequestOf, IsReplyTo
  <2>8. OneMessage'
    BY <1>0, <1>1, <2>3, <2>7, SMTT(60) DEF OneMessage
  <2>9. ASSUME NEW n, NEW d \in Calls
        PROVE  /\ IsRequestOf(n, d) => IsRequestOf(n, d)'
               /\ IsReplyTo(n, d) => IsReplyTo(n, d)'
    BY <1>1, <1>5, Zenon DEF IsRequestOf, IsReplyTo, OutcomesOf
  <2>11. \A i \in 1 .. Len(toServer') : IsRequestOf(toServer[i], toServer[i].request)'
    <3> SUFFICES ASSUME NEW i \in 1 .. Len(toServer')
                 PROVE  IsRequestOf(toServer[i], toServer[i].request)'
      OBVIOUS
    <3>1. CASE i \in 1 .. Len(toServer)
      <4>1. toServer[i].request \in Calls /\ IsRequestOf(toServer[i], toServer[i].request)
        BY <1>0, <3>1, MessageIs
      <4>2. IsRequestOf(toServer[i], toServer[i].request) /\ toServer'[i] = toServer[i]
        BY <2>3, <3>1, <4>1
      <4> QED
        BY <1>1, <1>5, <4>1, <4>2, Zenon DEF IsRequestOf
    <3>2. CASE i = Len(toServer) + 1
      <4>1. toServer'[i] = m
        BY <2>3, <3>2
      <4> QED
        BY <1>1, <1>5, <2>2, <4>1 DEF IsRequestOf
    <3> QED
      BY <2>3, <3>1, <3>2
  <2>12. \A n \in running' : IsRequestOf(n, n.request)'
    BY <1>0, <1>1, <2>9, MessageIs
  <2>13. \A i \in 1 .. Len(toClient') : \E d \in Calls : IsReplyTo(toClient[i], d)'
    BY <1>0, <1>1, <1>5, MessageIs, Zenon DEF IsReplyTo, OutcomesOf
  <2>14. MessagesRight'
    BY <2>11, <2>12, <2>13 DEF MessagesRight
  <2> QED
    BY <1>7, <2>4, <2>5, <2>8, <2>14 DEF RpcInv
<1> QED
  BY <1>9, <1>10

(* A reply to a request that is sent to the client. *)
LEMMA ReplySent ==
  ASSUME RpcInv, NEW m \in Request, m.request \in Calls, IsRequestOf(m, m.request),
         \A i \in 1 .. Len(toClient) : toClient[i].id # m.id,
         NEW r \in OutcomesOf(m.request), toClient' = Append(toClient, Response(m, r)),
         UNCHANGED <<outstandings_, pc, idOf, clientChannel>>
  PROVE  /\ toClient' \in Seq(Reply)
         /\ \A i \in 1 .. Len(toClient') : \E c \in Calls : IsReplyTo(toClient'[i], c)
         /\ \A i, j \in 1 .. Len(toClient') : i # j => toClient'[i].id # toClient'[j].id
         /\ \A i \in 1 .. Len(toClient') :
              toClient'[i].id = m.id \/
                  \E j \in 1 .. Len(toClient) : toClient'[i].id = toClient[j].id
<1>0. RpcTypes /\ MessagesRight /\ OneMessage
  BY DEF RpcInv
<1> DEFINE e == Response(m, r)
<1>1. e \in Reply /\ e.id = m.id /\ e.result = r
  BY DEF Request, Reply, Response
<1> HIDE DEF e
<1>2. /\ toClient' \in Seq(Reply) /\ Len(toClient) \in Nat
      /\ toClient'[Len(toClient) + 1] = e
      /\ \A i \in 1 .. Len(toClient) : toClient'[i] = toClient[i]
      /\ \A i \in 1 .. Len(toClient') : i \in 1 .. Len(toClient) \/ i = Len(toClient) + 1
  BY <1>0, <1>1, AppendOf DEF RpcTypes, e
<1>3. IsReplyTo(e, m.request)
  BY <1>1 DEF IsRequestOf, IsReplyTo
<1>4. \A i \in 1 .. Len(toClient') : \E c \in Calls : IsReplyTo(toClient'[i], c)
  BY <1>0, <1>2, <1>3 DEF MessagesRight
<1>5. \A i, j \in 1 .. Len(toClient') : i # j => toClient'[i].id # toClient'[j].id
  BY <1>0, <1>1, <1>2 DEF OneMessage
<1>6. \A i \in 1 .. Len(toClient') :
        toClient'[i].id = m.id \/ \E j \in 1 .. Len(toClient) : toClient'[i].id = toClient[j].id
  BY <1>1, <1>2
<1> QED
  BY <1>2, <1>4, <1>5, <1>6

(* The server's side sends a reply or nothing; the request was in the way to   *)
(* it or with a service.                                                       *)
LEMMA ServerAnswers ==
  ASSUME RpcInv, NEW m \in Request, m.request \in Calls, IsRequestOf(m, m.request), up,
         \A i \in 1 .. Len(toClient) : toClient[i].id # m.id,
         \/ \E r \in OutcomesOf(m.request) :
              toClient' = Append(toClient, Response(m, r)) /\ running' \subseteq running \ {m}
         \/ UNCHANGED toClient /\ running' = running \cup {m},
         toServer' \in Seq(Request),
         \A i \in 1 .. Len(toServer') :
           toServer'[i].id # m.id /\ \E j \in 1 .. Len(toServer) : toServer'[i] = toServer[j],
         \A i, j \in 1 .. Len(toServer') : i # j => toServer'[i].id # toServer'[j].id,
         \A n \in running \ {m} : n.id # m.id,
         UNCHANGED <<id_, outstandings_, pc, idOf, outcome, rpcFreed, up, clientChannel,
             serverChannel>>
  PROVE  RpcInv'
<1>0. RpcTypes /\ IdsDiffer /\ CallsOwned /\ MessagesRight /\ OneMessage /\ DoneWithOwn
  BY ZenonT(60) DEF RpcInv
<1>1. /\ toClient' \in Seq(Reply)
      /\ \A i \in 1 .. Len(toClient') : \E c \in Calls : IsReplyTo(toClient'[i], c)
      /\ \A i, j \in 1 .. Len(toClient') : i # j => toClient'[i].id # toClient'[j].id
      /\ \/ /\ running' \subseteq running \ {m}
            /\ \A i \in 1 .. Len(toClient') :
                 toClient'[i].id = m.id
                 \/ \E j \in 1 .. Len(toClient) : toClient'[i].id = toClient[j].id
         \/ UNCHANGED toClient /\ running' = running \cup {m}
  <2>1. CASE \E r \in OutcomesOf(m.request) :
               toClient' = Append(toClient, Response(m, r)) /\ running' \subseteq running \ {m}
    BY <2>1, ReplySent, Zenon
  <2>2. CASE UNCHANGED toClient /\ running' = running \cup {m}
    BY <1>0, <2>2, ZenonT(60) DEF RpcTypes, MessagesRight, OneMessage
  <2> QED
    BY <2>1, <2>2, Zenon
<1>2. \A i \in 1 .. Len(toServer), j \in 1 .. Len(toClient) : toServer[i].id # toClient[j].id
  BY <1>0, Zenon DEF OneMessage
<1>3. \A i \in 1 .. Len(toServer'), j \in 1 .. Len(toClient') : toServer'[i].id # toClient'[j].id
  <2> SUFFICES ASSUME NEW i \in 1 .. Len(toServer'), NEW j \in 1 .. Len(toClient')
               PROVE  toServer'[i].id # toClient'[j].id
    BY Zenon
  <2>1. toServer'[i].id # m.id
    BY Zenon
  <2>2. PICK k \in 1 .. Len(toServer) : toServer'[i] = toServer[k]
    BY Zenon
  <2>3. toClient'[j].id = m.id \/ \E l \in 1 .. Len(toClient) : toClient'[j].id = toClient[l].id
    BY <1>1, Zenon
  <2> QED
    BY <1>2, <2>1, <2>2, <2>3, Zenon
<1>4. ASSUME NEW n \in running'
      PROVE  /\ n \in running \/ n = m
             /\ \A i \in 1 .. Len(toServer') : toServer'[i].id # n.id
             /\ \A i \in 1 .. Len(toClient') : toClient'[i].id # n.id
  <2>1. n \in running \/ n = m
    BY <1>1, Zenon
  <2>2. n \in running => /\ \A i \in 1 .. Len(toServer) : toServer[i].id # n.id
                         /\ \A i \in 1 .. Len(toClient) : toClient[i].id # n.id
    BY <1>0, Zenon DEF OneMessage
  <2>3. \A i \in 1 .. Len(toServer') : toServer'[i].id # n.id
    <3> SUFFICES ASSUME NEW i \in 1 .. Len(toServer') PROVE toServer'[i].id # n.id
      BY Zenon
    <3>1. toServer'[i].id # m.id
      BY Zenon
    <3>2. PICK k \in 1 .. Len(toServer) : toServer'[i] = toServer[k]
      BY Zenon
    <3> QED
      BY <2>1, <2>2, <3>1, <3>2, Zenon
  <2>4. \A i \in 1 .. Len(toClient') : toClient'[i].id # n.id
    <3>1. CASE UNCHANGED toClient /\ running' = running \cup {m}
      <4>1. toClient' = toClient
        BY <3>1, Zenon
      <4>2. n \in running => \A i \in 1 .. Len(toClient) : toClient[i].id # n.id
        BY <2>2, Zenon
      <4>3. n = m => \A i \in 1 .. Len(toClient) : toClient[i].id # n.id
        BY Zenon
      <4> QED
        BY <2>1, <4>1, <4>2, <4>3, Zenon
    <3>2. CASE /\ running' \subseteq running \ {m}
               /\ \A i \in 1 .. Len(toClient') :
                    toClient'[i].id = m.id
                    \/ \E j \in 1 .. Len(toClient) : toClient'[i].id = toClient[j].id
      <4>1. n \in running /\ n.id # m.id
        BY <3>2, Zenon
      <4>2. \A j \in 1 .. Len(toClient) : toClient[j].id # n.id
        BY <2>2, <4>1, Zenon
      <4> SUFFICES ASSUME NEW i \in 1 .. Len(toClient') PROVE toClient'[i].id # n.id
        BY Zenon
      <4>3. toClient'[i].id = m.id \/ \E j \in 1 .. Len(toClient) : toClient'[i].id = toClient[j].id
        BY <3>2, Zenon
      <4> QED
        BY <4>1, <4>2, <4>3, Zenon
    <3> QED
      BY <1>1, <3>1, <3>2, Zenon
  <2> QED
    BY <2>1, <2>3, <2>4, Zenon
<1>5. \A n, l \in running' : n.id = l.id => n = l
  <2>1. \A n, l \in running : n.id = l.id => n = l
    BY <1>0, ZenonT(60) DEF OneMessage
  <2> QED
    BY <1>4, <2>1, ZenonT(60)
<1>6. OneMessage'
  BY <1>1, <1>3, <1>4, <1>5, ZenonT(60) DEF OneMessage
<1>7. \A c \in Calls : Waits(c)' <=> Waits(c)
  BY ZenonT(60) DEF Waits, IsOutstanding
<1>8. MessagesRight'
  <2>1. \A i \in 1 .. Len(toServer') : IsRequestOf(toServer'[i], toServer'[i].request)
                                       /\ toServer'[i].request \in Calls
    BY <1>0, MessageIs, Zenon
  <2>2. \A n \in running' : IsRequestOf(n, n.request) /\ n.request \in Calls
    BY <1>0, <1>4, MessageIs, ZenonT(60)
  <2>3. \A i \in 1 .. Len(toServer') : IsRequestOf(toServer[i], toServer[i].request)'
    BY <1>7, <2>1, Zenon DEF IsRequestOf
  <2>4. \A n \in running' : IsRequestOf(n, n.request)'
    BY <1>7, <2>2, Zenon DEF IsRequestOf
  <2>5. \A i \in 1 .. Len(toClient') : \E c \in Calls : IsReplyTo(toClient[i], c)'
    BY <1>1, <1>7, Zenon DEF IsReplyTo, OutcomesOf
  <2> QED
    BY <2>3, <2>4, <2>5, ZenonT(60) DEF MessagesRight
<1>9. RpcTypes'
  BY <1>0, <1>1, <1>4, Zenon DEF RpcTypes
<1>10. IdsDiffer' /\ CallsOwned' /\ DoneWithOwn'
  BY <1>0, Zenon DEF IdsDiffer, CallsOwned, DoneWithOwn, IsOutstanding
<1> QED
  BY <1>6, <1>8, <1>9, <1>10 DEF RpcInv

(* onRpcMessage takes a request to the service. *)
LEMMA OnRequestStep ==
  ASSUME RpcInv, OnRequest
  PROVE  RpcInv'
<1>0. RpcTypes /\ CallsOwned /\ MessagesRight /\ OneMessage
  BY DEF RpcInv
<1> DEFINE m == Head(toServer)
<1>1. toServer # <<>> /\ toServer' = Tail(toServer)
  BY DEF OnRequest
<1>2. /\ toServer' \in Seq(Request) /\ Len(toServer) \in Nat \ {0}
      /\ Len(toServer') = Len(toServer) - 1
      /\ m = toServer[1] /\ m \in Request
      /\ \A i \in 1 .. Len(toServer') : i + 1 \in 2 .. Len(toServer) /\
          toServer'[i] = toServer[i + 1]
  BY <1>0, <1>1, TailOf DEF RpcTypes
<1>3. up
  BY <1>0, <1>1 DEF CallsOwned, RpcTypes
<1>4. /\ UNCHANGED <<id_, outstandings_, pc, idOf, outcome, rpcFreed, up, clientChannel,
           serverChannel>>
      /\ \/ \E r \in OutcomesOf(m.request) :
              toClient' = Append(toClient, Response(m, r)) /\ UNCHANGED running
         \/ UNCHANGED toClient /\ running' = running \cup {m}
  BY <1>3, Zenon DEF OnRequest, Answer, OutcomesOf, callVars
<1> HIDE DEF m
<1>5. 1 \in 1 .. Len(toServer) /\ m.request \in Calls /\ IsRequestOf(m, m.request)
  BY <1>0, <1>2, MessageIs
<1>6. /\ \A n \in running : n.id # m.id
      /\ \A i \in 1 .. Len(toClient) : toClient[i].id # m.id
  BY <1>0, <1>2, <1>5 DEF OneMessage
<1>7. ASSUME NEW i \in 1 .. Len(toServer')
      PROVE  /\ toServer'[i].id # m.id
             /\ \E j \in 1 .. Len(toServer) : toServer'[i] = toServer[j]
  <2>1. i + 1 \in 1 .. Len(toServer) /\ i + 1 # 1 /\ toServer'[i] = toServer[i + 1]
    BY <1>2
  <2> QED
    BY <1>0, <1>2, <1>5, <2>1 DEF OneMessage
<1>8. ASSUME NEW i \in 1 .. Len(toServer'), NEW j \in 1 .. Len(toServer'), i # j
      PROVE  toServer'[i].id # toServer'[j].id
  <2>1. /\ i + 1 \in 1 .. Len(toServer) /\ toServer'[i] = toServer[i + 1]
        /\ j + 1 \in 1 .. Len(toServer) /\ toServer'[j] = toServer[j + 1] /\ i + 1 # j + 1
    BY <1>2, <1>8
  <2> QED
    BY <1>0, <2>1 DEF OneMessage
<1>9. \/ \E r \in OutcomesOf(m.request) :
           toClient' = Append(toClient, Response(m, r)) /\ running' \subseteq running \ {m}
      \/ UNCHANGED toClient /\ running' = running \cup {m}
  BY <1>4, <1>6
<1> QED
  BY <1>2, <1>3, <1>4, <1>5, <1>6, <1>7, <1>8, <1>9, ServerAnswers, Zenon

(* doneCallback sends the response. *)
LEMMA DoneCallbackStep ==
  ASSUME RpcInv, NEW m \in running, DoneCallback(m)
  PROVE  RpcInv'
<1>0. RpcTypes /\ CallsOwned /\ MessagesRight /\ OneMessage
  BY DEF RpcInv
<1>1. m \in Request /\ m.request \in Calls /\ IsRequestOf(m, m.request)
  BY <1>0, MessageIs
<1>2. /\ running' = running \ {m} /\ toClient' = Answer(m)
      /\ UNCHANGED <<id_, outstandings_, pc, idOf, outcome, rpcFreed, toServer, up, clientChannel,
                     serverChannel>>
  BY DEF DoneCallback, callVars
<1>3. CASE up
  <2>1. \E r \in OutcomesOf(m.request) :
          toClient' = Append(toClient, Response(m, r)) /\ running' \subseteq running \ {m}
    BY <1>2, <1>3, Zenon DEF Answer, OutcomesOf
  <2>2. /\ \A n \in running \ {m} : n.id # m.id
        /\ \A i \in 1 .. Len(toClient) : toClient[i].id # m.id
        /\ \A i \in 1 .. Len(toServer') :
             toServer'[i].id # m.id /\ \E j \in 1 .. Len(toServer) : toServer'[i] = toServer[j]
        /\ \A i, j \in 1 .. Len(toServer') : i # j => toServer'[i].id # toServer'[j].id
        /\ toServer' \in Seq(Request)
    BY <1>0, <1>2 DEF OneMessage, RpcTypes
  <2> QED
    BY <1>1, <1>2, <1>3, <2>1, <2>2, ServerAnswers
<1>4. CASE ~up
  <2>1. UNCHANGED toClient
    BY <1>2, <1>4 DEF Answer
  <2>2. \A c \in Calls : Waits(c)' <=> Waits(c)
    BY <1>2 DEF Waits, IsOutstanding
  <2>3. OneMessage'
    BY <1>0, <1>2, <2>1 DEF OneMessage
  <2>4. \A n \in running' : IsRequestOf(n, n.request)'
    BY <1>0, <1>2, <2>2, MessageIs, ZenonT(60) DEF IsRequestOf
  <2>5. Len(toServer') = 0 /\ Len(toClient') = 0
    BY <1>0, <1>2, <1>4, <2>1 DEF CallsOwned
  <2>6. MessagesRight'
    BY <2>4, <2>5 DEF MessagesRight
  <2>7. RpcTypes' /\ IdsDiffer' /\ CallsOwned' /\ DoneWithOwn'
    BY <1>2, <2>1, Zenon
       DEF RpcInv, RpcTypes, IdsDiffer, CallsOwned, DoneWithOwn, IsOutstanding
  <2> QED
    BY <2>3, <2>6, <2>7 DEF RpcInv
<1> QED
  BY <1>3, <1>4

(* A response finds exactly the entry of its own call. *)
LEMMA FoundIs ==
  ASSUME RpcInv, clientChannel, NEW c \in Calls, Waits(c)
  PROVE  /\ {o \in outstandings_ : o.id = idOf[c]} = {[id |-> idOf[c], call |-> c]}
         /\ rpcFreed[c] = 0
<1>0. RpcTypes /\ IdsDiffer /\ CallsOwned
  BY DEF RpcInv
<1> DEFINE entry == [id |-> idOf[c], call |-> c]
<1>1. entry \in outstandings_ /\ entry.id = idOf[c] /\ pc[c] = "sent"
  BY DEF Waits, IsOutstanding
<1>2. ASSUME NEW o \in outstandings_, o.id = idOf[c] PROVE o = entry
  <2>1. /\ o.call \in Calls /\ o.id = idOf[o.call] /\ pc[o.call] \in {"stored", "sent"}
        /\ o = [id |-> idOf[o.call], call |-> o.call]
    BY <1>0, EntryIs
  <2>2. o.call = c
    BY <1>0, <1>1, <1>2, <2>1, Zenon DEF IdsDiffer
  <2> QED
    BY <2>1, <2>2
<1>3. rpcFreed[c] = 0
  BY <1>0, <1>1 DEF CallsOwned, Waits
<1> QED
  BY <1>1, <1>2, <1>3

(* onRpcMessage takes a response to the call that waits for it. *)
LEMMA OnResponseStep ==
  ASSUME RpcInv, OnResponse
  PROVE  RpcInv'
<1>0. RpcTypes /\ IdsDiffer /\ CallsOwned /\ MessagesRight /\ OneMessage /\ DoneWithOwn
  BY DEF RpcInv
<1> DEFINE m == Head(toClient)
           found == {o \in outstandings_ : o.id = m.id}
<1>1. /\ toClient # <<>> /\ toClient' = Tail(toClient) /\ clientChannel
      /\ UNCHANGED <<id_, pc, idOf, toServer, running, up, clientChannel, serverChannel>>
  BY Zenon DEF OnResponse
<1>2. /\ toClient' \in Seq(Reply) /\ Len(toClient) \in Nat \ {0}
      /\ Len(toClient') = Len(toClient) - 1
      /\ m = toClient[1] /\ m \in Reply
      /\ \A i \in 1 .. Len(toClient') : i + 1 \in 2 .. Len(toClient) /\
          toClient'[i] = toClient[i + 1]
  BY <1>0, <1>1, TailOf DEF RpcTypes
<1>3. /\ outstandings_' = outstandings_ \ found
      /\ outcome' = [d \in Calls |-> IF \E o \in found : o.call = d THEN m.result ELSE outcome[d]]
      /\ rpcFreed' =
          [d \in Calls |-> IF \E o \in found : o.call = d THEN rpcFreed[d] + 1 ELSE rpcFreed[d]]
  BY DEF OnResponse
<1> HIDE DEF m
<1>4. 1 \in 1 .. Len(toClient)
  BY <1>2
<1>5. PICK c \in Calls : IsReplyTo(m, c)
  BY <1>0, <1>2, <1>4, MessageIs
<1>6. Waits(c) /\ m.id = idOf[c] /\ m.result \in OutcomesOf(c) /\ pc[c] = "sent"
  BY <1>5 DEF IsReplyTo, Waits
<1>7. found = {[id |-> idOf[c], call |-> c]} /\ rpcFreed[c] = 0
  BY <1>1, <1>6, FoundIs, Zenon
<1> HIDE DEF found
<1>8. \A d \in Calls : (\E o \in found : o.call = d) <=> d = c
  BY <1>7
<1>9. /\ outcome'[c] = m.result /\ rpcFreed'[c] = 1
      /\ \A d \in Calls \ {c} : outcome'[d] = outcome[d] /\ rpcFreed'[d] = rpcFreed[d]
  BY <1>3, <1>7, <1>8
<1>10. /\ ~IsOutstanding(c)'
       /\ \A d \in Calls \ {c} : IsOutstanding(d)' <=> IsOutstanding(d)
  <2>1. \A d \in Calls \ {c} : [id |-> idOf[d], call |-> d] # [id |-> idOf[c], call |-> c]
    OBVIOUS
  <2> QED
    BY <1>1, <1>3, <1>7, <2>1 DEF IsOutstanding
<1>11. RpcTypes'
  <2>1. outcome' \in [Calls -> {<<>>} \cup UNION {OutcomesOf(d) : d \in Calls}]
    <3>1. m.result \in UNION {OutcomesOf(d) : d \in Calls}
      BY <1>6
    <3>2. \A d \in Calls : outcome[d] \in {<<>>} \cup UNION {OutcomesOf(x) : x \in Calls}
      BY <1>0 DEF RpcTypes
    <3> QED
      BY <1>3, <3>1, <3>2
  <2>2. rpcFreed' \in [Calls -> {0, 1}]
    BY <1>0, <1>3, <1>8, <1>9 DEF RpcTypes
  <2>3. outstandings_' \subseteq [id : Nat, call : Calls]
    BY <1>0, <1>3 DEF RpcTypes
  <2> QED
    BY <1>0, <1>1, <1>2, <2>1, <2>2, <2>3 DEF RpcTypes
<1>12. IdsDiffer'
  BY <1>0, <1>1 DEF IdsDiffer
<1>13. CallsOwned'
  <2>1. up
    BY <1>0, <1>1 DEF CallsOwned, RpcTypes
  <2>2. \A o \in outstandings_' : o.id = idOf'[o.call]
    BY <1>0, <1>1, <1>3 DEF CallsOwned
  <2> QED
    BY <1>0, <1>1, <1>6, <1>9, <1>10, <2>1, <2>2 DEF CallsOwned
<1>14. \A d \in Calls \ {c} : Waits(d)' <=> Waits(d)
  BY <1>1, <1>10 DEF Waits
<1>15. ASSUME NEW d \in Calls, Waits(d), idOf[d] # m.id
       PROVE  Waits(d)' /\ d # c
  BY <1>6, <1>14, <1>15
<1>16. /\ \A i \in 1 .. Len(toServer) : toServer[i].id # m.id
       /\ \A n \in running : n.id # m.id
  BY <1>0, <1>2, <1>4 DEF OneMessage
<1>17. ASSUME NEW i \in 1 .. Len(toClient')
       PROVE  /\ i + 1 \in 1 .. Len(toClient) /\ toClient'[i] = toClient[i + 1]
              /\ toClient'[i].id # m.id
  <2>1. i + 1 \in 1 .. Len(toClient) /\ i + 1 # 1 /\ toClient'[i] = toClient[i + 1]
    BY <1>2
  <2> QED
    BY <1>0, <1>2, <1>4, <2>1 DEF OneMessage
<1>18. OneMessage'
  <2>1. ASSUME NEW i \in 1 .. Len(toClient'), NEW j \in 1 .. Len(toClient'), i # j
        PROVE  toClient'[i].id # toClient'[j].id
    <3>1. i + 1 # j + 1
      BY <1>2, <2>1
    <3> QED
      BY <1>0, <1>17, <3>1, ZenonT(60) DEF OneMessage
  <2>2. \A i \in 1 .. Len(toServer), j \in 1 .. Len(toClient') : toServer[i].id # toClient'[j].id
    BY <1>0, <1>17, Zenon DEF OneMessage
  <2>3. \A n \in running : \A i \in 1 .. Len(toClient') : toClient'[i].id # n.id
    BY <1>0, <1>17 DEF OneMessage
  <2> QED
    BY <1>0, <1>1, <2>1, <2>2, <2>3, ZenonT(60) DEF OneMessage
<1>19. MessagesRight'
  <2>1. \A i \in 1 .. Len(toServer) : IsRequestOf(toServer[i], toServer[i].request)'
    BY <1>0, <1>1, <1>15, <1>16, MessageIs, ZenonT(60) DEF IsRequestOf
  <2>2. \A n \in running : IsRequestOf(n, n.request)'
    BY <1>0, <1>1, <1>15, <1>16, MessageIs, Zenon DEF IsRequestOf
  <2>3. ASSUME NEW i \in 1 .. Len(toClient')
        PROVE  \E d \in Calls : IsReplyTo(toClient[i], d)'
    <3>1. PICK d \in Calls : IsReplyTo(toClient[i + 1], d)
      BY <1>0, <1>17, MessageIs, ZenonT(60)
    <3>2. /\ toClient'[i].id = idOf[d] /\ toClient'[i].result \in OutcomesOf(d) /\ Waits(d)
          /\ idOf[d] # m.id
      BY <1>17, <3>1, ZenonT(60) DEF IsReplyTo
    <3>3. Waits(d)'
      BY <1>15, <3>2
    <3> QED
      BY <1>1, <3>2, <3>3, Zenon DEF IsReplyTo, OutcomesOf
  <2> QED
    BY <1>1, <2>1, <2>2, <2>3 DEF MessagesRight
<1>20. DoneWithOwn'
  BY <1>0, <1>6, <1>9, Zenon DEF DoneWithOwn, OutcomesOf
<1> QED
  BY <1>11, <1>12, <1>13, <1>18, <1>19, <1>20 DEF RpcInv

(* The connection goes down, and what is on the way is lost. *)
LEMMA ConnectionDownStep ==
  ASSUME RpcInv, ConnectionDown
  PROVE  RpcInv'
<1>0. RpcTypes /\ IdsDiffer /\ CallsOwned /\ MessagesRight /\ OneMessage /\ DoneWithOwn
  BY DEF RpcInv
<1>1. /\ up /\ up' = FALSE /\ toServer' = <<>> /\ toClient' = <<>> /\ serverChannel' = FALSE
      /\ UNCHANGED <<id_, outstandings_, pc, idOf, outcome, rpcFreed, running, clientChannel>>
  BY DEF ConnectionDown, callVars
<1>2. up' \in BOOLEAN /\ serverChannel' \in BOOLEAN
  BY <1>1, Zenon
<1>3. RpcTypes'
  BY <1>0, <1>1, <1>2 DEF RpcTypes
<1>4. IdsDiffer' /\ CallsOwned' /\ DoneWithOwn'
  BY <1>0, <1>1, Zenon DEF IdsDiffer, CallsOwned, DoneWithOwn, IsOutstanding
<1>5. Len(toServer') = 0 /\ Len(toClient') = 0
  BY <1>1
<1>6. OneMessage'
  BY <1>0, <1>1, <1>5 DEF OneMessage
<1>7. \A n \in running : IsRequestOf(n, n.request)'
  BY <1>0, <1>1, Zenon DEF MessagesRight, IsRequestOf, Waits, IsOutstanding
<1>8. MessagesRight'
  BY <1>1, <1>5, <1>7 DEF MessagesRight
<1> QED
  BY <1>3, <1>4, <1>6, <1>8 DEF RpcInv

(* The destructor of RpcChannel deletes what is outstanding. *)
LEMMA DestroyChannelStep ==
  ASSUME RpcInv, DestroyChannel
  PROVE  RpcInv'
<1>0. RpcTypes /\ IdsDiffer /\ CallsOwned /\ MessagesRight /\ OneMessage /\ DoneWithOwn
  BY DEF RpcInv
<1>1. /\ ~up /\ clientChannel' = FALSE /\ outstandings_' = {}
      /\ \A c \in Calls : pc[c] \in {"idle", "sent"}
      /\ rpcFreed' =
          [c \in Calls |-> IF \E o \in outstandings_ : o.call = c THEN rpcFreed[c] + 1
              ELSE rpcFreed[c]]
      /\ UNCHANGED <<id_, pc, idOf, outcome, toServer, toClient, running, up, serverChannel>>
  BY ZenonT(60) DEF DestroyChannel
<1>2. \A c \in Calls : (\E o \in outstandings_ : o.call = c) <=> IsOutstanding(c)
  <2>1. \A c \in Calls : [id |-> idOf[c], call |-> c].call = c
    OBVIOUS
  <2> QED
    BY <1>0, <2>1, EntryIs DEF IsOutstanding
<1>3. ASSUME NEW c \in Calls
      PROVE  rpcFreed'[c] = IF pc[c] = "sent" THEN 1 ELSE 0
  <2>1. rpcFreed'[c] = IF IsOutstanding(c) THEN rpcFreed[c] + 1 ELSE rpcFreed[c]
    BY <1>1, <1>2
  <2>2. rpcFreed[c] \in {0, 1}
    BY <1>0 DEF RpcTypes
  <2> QED
    BY <1>0, <1>1, <2>1, <2>2 DEF CallsOwned
<1>4. RpcTypes'
  <2>1. rpcFreed' \in [Calls -> {0, 1}]
    BY <1>1, <1>3
  <2>2. clientChannel' \in BOOLEAN
    BY <1>1, Zenon
  <2> QED
    BY <1>0, <1>1, <2>1, <2>2, ZenonT(60) DEF RpcTypes
<1>5. IdsDiffer' /\ DoneWithOwn'
  BY <1>0, <1>1, Zenon DEF IdsDiffer, DoneWithOwn
<1>6. CallsOwned'
  BY <1>0, <1>1, <1>3 DEF CallsOwned, IsOutstanding
<1>7. MessagesRight' /\ OneMessage'
  <2>1. \A c \in Calls : Waits(c) => (Waits(c)' /\ idOf'[c] = idOf[c])
    BY <1>1, ZenonT(60) DEF Waits
  <2> QED
    BY <1>0, <1>1, <2>1, MessagesKept
<1> QED
  BY <1>4, <1>5, <1>6, <1>7 DEF RpcInv

(* A step that changes nothing keeps the invariant. *)
LEMMA RpcStutters ==
  ASSUME RpcInv, UNCHANGED rpcVars
  PROVE  RpcInv'
<1>1. /\ UNCHANGED <<id_, outstandings_, pc, idOf, outcome, rpcFreed, toServer, toClient, running,
           up>>
      /\ UNCHANGED <<clientChannel, serverChannel>>
  BY DEF rpcVars, callVars
<1>2. RpcTypes' /\ IdsDiffer' /\ CallsOwned' /\ DoneWithOwn'
  BY <1>1, Zenon DEF RpcInv, RpcTypes, IdsDiffer, CallsOwned, DoneWithOwn, IsOutstanding
<1>3. \A c \in Calls : Waits(c) => (Waits(c)' /\ idOf'[c] = idOf[c])
  BY <1>1, Zenon DEF Waits, IsOutstanding
<1>4. MessagesRight' /\ OneMessage'
  BY <1>1, <1>3, MessagesKept DEF RpcInv
<1> QED
  BY <1>2, <1>4 DEF RpcInv

-----------------------------------------------------------------------------
(* The inductive invariant holds in every state of every behaviour. *)
THEOREM RpcInvariance == RpcSpec => []RpcInv
<1>1. RpcInv /\ [RpcNext]_rpcVars => RpcInv'
  BY TakeIdStep, StoreStep, SendRequestStep, OnResponseStep, OnRequestStep,
     DoneCallbackStep,
     ConnectionDownStep, DestroyChannelStep, RpcStutters DEF RpcNext, RpcStep
<1> QED
  BY <1>1, RpcInitially, PTL DEF RpcSpec

(* RpcChannel::onRpcMessage finds the entry of a response in outstandings_,    *)
(* whatever calls other threads and closures make meanwhile, and it is the     *)
(* entry of the call that was answered.                                        *)
THEOREM ResponsesFindTheirCalls == RpcSpec => []ResponseFindsCall
<1>1. RpcInv => ResponseFindsCall
  <2> SUFFICES ASSUME RpcTypes, MessagesRight, CallsOwned, clientChannel, NEW i \in DOMAIN toClient
               PROVE  \E o \in outstandings_ : o.id = toClient[i].id /\ idOf[o.call] = o.id
    BY DEF RpcInv, ResponseFindsCall
  <2>1. i \in 1 .. Len(toClient)
    BY DEF RpcTypes
  <2>2. PICK c \in Calls : IsReplyTo(toClient[i], c)
    BY <2>1 DEF MessagesRight
  <2>3. [id |-> idOf[c], call |-> c] \in outstandings_ /\ toClient[i].id = idOf[c]
    BY <2>2, Zenon DEF IsReplyTo, Waits, IsOutstanding
  <2> QED
    BY <2>3, ZenonT(60)
<1> QED
  BY <1>1, RpcInvariance, PTL

(* done runs with the answer to its own request, or with its own error.        *)
THEOREM OutcomeIsOwn == RpcSpec => []DoneWithOwn
  BY RpcInvariance, PTL DEF RpcInv

(* onRpcMessage or ~RpcChannel deletes a response object, never both, and once *)
(* the channel is gone no object of a call is left.                            *)
THEOREM ResponsesFreedOnce == RpcSpec => []FreedOnce
<1>1. RpcInv => FreedOnce
  <2> SUFFICES ASSUME RpcTypes, CallsOwned, NEW c \in Calls
               PROVE  rpcFreed[c] <= 1 /\ ((~clientChannel /\ pc[c] = "sent") => rpcFreed[c] = 1)
    BY Zenon DEF RpcInv, FreedOnce
  <2>1. rpcFreed[c] \in {0, 1}
    BY DEF RpcTypes
  <2>2. ~clientChannel => ~IsOutstanding(c)
    BY Zenon DEF CallsOwned, IsOutstanding
  <2> QED
    BY <2>1, <2>2 DEF CallsOwned
<1> QED
  BY <1>1, RpcInvariance, PTL


(* RPC: whatever threads and closures call at the same time, done runs with   *)
(* the outcome of its own call, the response finds that call in               *)
(* outstandings_, and each response object is deleted once.                   *)
THEOREM RpcOutcomes == RpcSpec => []OwnOutcome
  BY ResponsesFindTheirCalls, OutcomeIsOwn, ResponsesFreedOnce, PTL DEF OwnOutcome

==============================================================================
