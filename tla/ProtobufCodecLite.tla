-------------------------- MODULE ProtobufCodecLite --------------------------
(***************************************************************************)
(* ProtobufCodecLite (net/protobuf): messages framed by a length, a tag    *)
(* and a checksum, written with fillEmptyBuffer and read back by onMessage *)
(* from a stream that TCP cuts anywhere.  The lengths of the fields and    *)
(* the base of a byte are small; a payload is a sequence of bytes.         *)
(***************************************************************************)
EXTENDS Buffer, SequencesExt

CONSTANTS
  kHeaderLen, kChecksumLen,  \* sizeof(int32_t) in the program
  kMaxMessageLen,
  tag_,
  Unparsable,                \* payloads that ParseFromArray refuses
  Filtered,                  \* payloads for which rawCb_ returns false
  Programs                   \* sequences of frames: see Frame

VARIABLES
  program, arrived,          \* what the peer sends; how much of it was read
  inputBuffer_, connected,   \* of the connection
  delivered,                 \* payloads given to messageCallback_
  errors                     \* error codes given to errorCallback_

vars == <<program, arrived, inputBuffer_, connected, delivered, errors>>

kMinMessageLen == Len(tag_) + kChecksumLen

(* zlib's adler32, with a smaller modulus, as the int32_t it is stored in. *)
Adler32(s) ==
  LET modulus == ByteBase + 1
      a[i \in 0 .. Len(s)] == IF i = 0 THEN 1 ELSE (a[i - 1] + s[i]) % modulus
      b[i \in 0 .. Len(s)] == IF i = 0 THEN 0 ELSE (b[i - 1] + a[i]) % modulus
  IN  NetworkToHost(HostToNetwork(b[Len(s)] * ByteBase + a[Len(s)], kChecksumLen))

(* serializeToBuffer: room for the checksum too, so that it does not move twice. *)
SerializeToBuffer(buf, payload) ==
  HasWritten(EnsureWritableBytes(buf, Len(payload) + kChecksumLen), payload)

FillEmptyBuffer(buf, tag, payload) ==
  LET body   == SerializeToBuffer(AppendData(buf, tag), payload)
      summed == AppendInt(body, kChecksumLen, Adler32(ToStringPiece(body)))
  IN  PrependInt(summed, kHeaderLen, ReadableBytes(summed))

------------------------------------------------------------------------------

ValidateChecksum(s) ==
  NetworkToHost(SubSeq(s, Len(s) - kChecksumLen + 1, Len(s)))
    = Adler32(SubSeq(s, 1, Len(s) - kChecksumLen))

Payload(s) == SubSeq(s, Len(tag_) + 1, Len(s) - kChecksumLen)

Parse(s) ==
  CASE ~ValidateChecksum(s) -> "kCheckSumError"
    [] SubSeq(s, 1, Len(tag_)) # tag_ -> "kUnknownMessageType"
    [] Payload(s) \in Unparsable -> "kParseError"
    [] OTHER -> "kNoError"

(* defaultErrorCallback. *)
ErrorCallback(d, code) ==
  [d EXCEPT !.errors = Append(@, code), !.connected = FALSE]

(* A whole frame: rawCb_, parse, messageCallback_; then retrieve. *)
Dispatch(d, frame) ==
  LET consumed == [d EXCEPT !.buf = Retrieve(@, kHeaderLen + Len(frame))]
  IN  IF Payload(frame) \in Filtered THEN consumed
      ELSE IF Parse(frame) = "kNoError"
           THEN [consumed EXCEPT !.delivered = Append(@, Payload(frame))]
           ELSE ErrorCallback(d, Parse(frame))

(* The loop of onMessage from d: buf, delivered, errors and connected. *)
RECURSIVE OnMessage(_)

(* Faulty: one frame for each read. *)
OnMessage_Once(d) ==
  LET len == PeekInt(d.buf, kHeaderLen)
  IN  IF ReadableBytes(d.buf) < kMinMessageLen + kHeaderLen THEN d
      ELSE IF len > kMaxMessageLen \/ len < kMinMessageLen THEN ErrorCallback(d, "kInvalidLength")
      ELSE IF ReadableBytes(d.buf) < kHeaderLen + len THEN d
      ELSE Dispatch(d, SubSeq(ToStringPiece(d.buf), kHeaderLen + 1, kHeaderLen + len))

OnMessage(d) ==
  LET len   == PeekInt(d.buf, kHeaderLen)
      after == Dispatch(d, SubSeq(ToStringPiece(d.buf), kHeaderLen + 1, kHeaderLen + len))
  IN  IF ReadableBytes(d.buf) < kMinMessageLen + kHeaderLen THEN d
      ELSE IF len > kMaxMessageLen \/ len < kMinMessageLen THEN ErrorCallback(d, "kInvalidLength")
      ELSE IF ReadableBytes(d.buf) < kHeaderLen + len THEN d
      ELSE IF Len(after.errors) > Len(d.errors) THEN after
      ELSE OnMessage(after)

(***************************************************************************)
(* What the peer sends: messages as send() frames them, and frames that    *)
(* are wrong in one way: another tag, a checksum or a length that is not   *)
(* the right one.                                                          *)
(***************************************************************************)
Frame(f) ==
  LET right == ToStringPiece(FillEmptyBuffer(NewBuffer(kInitialSize), tag_, f.payload))
  IN  CASE f.kind = "good" -> right
        [] f.kind = "tag" ->
             ToStringPiece(FillEmptyBuffer(NewBuffer(kInitialSize),
                                           [i \in 1 .. Len(tag_) |-> 0], f.payload))
        [] f.kind = "checksum" -> [right EXCEPT ![Len(right)] = (@ + 1) % ByteBase]
        [] f.kind = "length" ->
             HostToNetwork(f.length, kHeaderLen)
               \o SubSeq(right, kHeaderLen + 1, Len(right))

Stream(frames) == FlattenSeq([i \in DOMAIN frames |-> Frame(frames[i])])

Init ==
  /\ program \in Programs
  /\ arrived = 0
  /\ inputBuffer_ = NewBuffer(kInitialSize)
  /\ connected = TRUE
  /\ delivered = <<>>
  /\ errors = <<>>

(* TcpConnection::handleRead: n bytes arrive, then messageCallback_ is onMessage. *)
HandleRead(n) ==
  LET piece == SubSeq(Stream(program), arrived + 1, arrived + n)
      d == OnMessage([buf |-> ReadFd(inputBuffer_, piece), delivered |-> delivered,
                      errors |-> errors, connected |-> connected])
  IN  /\ n <= ReadFdRoom(inputBuffer_)
      /\ arrived + n <= Len(Stream(program))
      /\ arrived' = arrived + n
      /\ inputBuffer_' = d.buf
      /\ delivered' = d.delivered
      /\ errors' = d.errors
      /\ connected' = d.connected
      /\ UNCHANGED program

Next == \E n \in 1 .. Len(Stream(program)) : HandleRead(n)

Spec == Init /\ [][Next]_vars

------------------------------------------------------------------------------

Wrong(f) ==
  \/ f.kind # "good" /\ ~(f.payload \in Filtered /\ f.kind # "length")
  \/ f.payload \in Unparsable \ Filtered

FirstWrong == CHOOSE i \in 1 .. Len(program) + 1 :
                /\ \A j \in 1 .. i - 1 : ~Wrong(program[j])
                /\ i <= Len(program) => Wrong(program[i])

(* The good frames that have arrived whole before the first wrong one. *)
Whole ==
  LET n == CHOOSE n \in 0 .. FirstWrong - 1 :
             /\ Len(Stream(SubSeq(program, 1, n))) <= arrived
             /\ n + 1 < FirstWrong => Len(Stream(SubSeq(program, 1, n + 1))) > arrived
  IN  SelectSeq([i \in 1 .. n |-> program[i].payload], LAMBDA p : p \notin Filtered)

(* However the stream is cut, messageCallback_ has been given exactly the       *)
(* messages that have arrived whole, in their order.                            *)
FramesInOrder == delivered = Whole

(* A frame with a wrong length, checksum, tag or payload ends the conversation: *)
(* it is reported once it can be told, nothing after it is delivered, and the   *)
(* connection is shut down exactly when something was reported.                 *)
WrongFrameEnds ==
  /\ connected <=> errors = <<>>
  /\ errors # <<>> => FirstWrong <= Len(program)
  /\ (FirstWrong <= Len(program) /\ arrived >= Len(Stream(SubSeq(program, 1, FirstWrong))))
        => errors # <<>>
=============================================================================
