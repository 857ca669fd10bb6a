-------------------------------- MODULE Frame --------------------------------
(***************************************************************************)
(* The control protocol (internal/protocol/control.go): a frame is a       *)
(* two-byte length and a body; OPEN and PROBE carry a direction and five   *)
(* strings, ERROR a code.  A frame is the start of a stream whose next     *)
(* bytes belong to the tunnelled TCP connection, so the reader must take   *)
(* exactly the frame, however the bytes are cut up on the way.             *)
(*                                                                         *)
(* The writer hands its bytes to the stream in pieces (writeFull), the     *)
(* stream may break at any point, and the peer may also be one that does   *)
(* not speak this protocol: then its bytes are those of a frame with one   *)
(* byte wrong.  Bytes are the numbers below Base (256 in the code).        *)
(***************************************************************************)
EXTENDS Integers, Sequences

CONSTANTS
    Base,           \* 256: a byte is a number below Base
    MaxFrameLen,    \* 4096
    Frames,         \* frames the program may try to send
    Payload         \* the bytes that follow the frame on the stream

(* The types, codes and lengths all fit: MaxFrameLen in a two-byte length. *)
ASSUME WidthAssumption ==
    /\ Base \in Nat /\ Base >= 5
    /\ MaxFrameLen \in 13..(Base * Base - 1)

Version == 2
TypeOpen == 1
TypeOK_ == 2
TypeError == 3
TypeProbe == 4
Directions == {1, 2}
StringFields == <<"Service", "PeerID", "Listener", "SourceAddr", "ConnectionID">>

Bytes == 0..(Base - 1)

NoStrings == [i \in DOMAIN StringFields |-> << >>]

(* Go's Frame{}, which ReadFrame returns with every error. *)
NoFrame == [type |-> 0, code |-> 0, dir |-> 0, strings |-> NoStrings]

(* The program sends frames in which only the fields of their type are set. *)
ASSUME FramesAssumption ==
    /\ Payload \in Seq(Bytes)
    /\ Frames \subseteq [type : 1..4, code : 0..4, dir : 0..2,
                         strings : [DOMAIN StringFields -> Seq(Bytes)]]
    /\ \A f \in Frames :
         /\ f.type = TypeError <=> f.code # 0
         /\ f.type \notin {TypeOpen, TypeProbe} =>
              f.dir = 0 /\ f.strings = NoStrings

-----------------------------------------------------------------------------
(* WriteFrame.  No body is empty: the empty sequence stands for an error. *)

Failed == << >>

(* binary.BigEndian.PutUint16(uint16(n)) *)
PutUint16(n) == <<(n \div Base) % Base, n % Base>>

Uint16(b) == b[1] * Base + b[2]

(* Mutant of appendString: a body of exactly MaxFrameLen is refused. *)
appendStringBelowLimit(body, s) ==
    LET longer == body \o PutUint16(Len(s)) \o s IN
    IF Len(longer) >= MaxFrameLen THEN Failed ELSE longer

appendString(body, s) ==
    LET longer == body \o PutUint16(Len(s)) \o s IN
    IF Len(s) > MaxFrameLen \/ Len(longer) > MaxFrameLen THEN Failed ELSE longer

(* One after the other; the first that does not fit ends it. *)
appendStrings(body, strings) ==
    LET add(b, i) == IF b = Failed THEN Failed ELSE appendString(b, strings[i])
    IN  add(add(add(add(add(body, 1), 2), 3), 4), 5)

frameBody(f) ==
    CASE f.type \in {TypeOpen, TypeProbe} ->
           IF f.dir \in Directions
             THEN appendStrings(<<Version, f.type, f.dir>>, f.strings)
             ELSE Failed
      [] f.type = TypeError -> <<Version, f.type, f.code>>
      [] OTHER -> <<Version, f.type>>

(* What WriteFrame writes, length included, or Failed. *)
Encode(f) ==
    LET body == frameBody(f)
    IN  IF body = Failed \/ Len(body) > MaxFrameLen
          THEN Failed ELSE PutUint16(Len(body)) \o body

-----------------------------------------------------------------------------
(* ReadFrame, once it has the body *)

(* Mutant of StringFits: a string that ends with the body is refused. *)
StringFitsStrictly(body) == Len(body) >= 2 /\ Uint16(body) < Len(body) - 2

StringFits(body) == Len(body) >= 2 /\ Uint16(body) <= Len(body) - 2

readString(body) ==
    IF StringFits(body)
      THEN [ok |-> TRUE, string |-> SubSeq(body, 3, 2 + Uint16(body)),
            rest |-> SubSeq(body, 3 + Uint16(body), Len(body))]
      ELSE [ok |-> FALSE, string |-> << >>, rest |-> << >>]

readStrings(body) ==
    LET r1 == readString(body)
        r2 == readString(r1.rest)
        r3 == readString(r2.rest)
        r4 == readString(r3.rest)
        r5 == readString(r4.rest)
    IN  [ok |-> r1.ok /\ r2.ok /\ r3.ok /\ r4.ok /\ r5.ok, rest |-> r5.rest,
         strings |-> <<r1.string, r2.string, r3.string, r4.string, r5.string>>]

validErrorCode(code) == code \in 1..4

(* Mutant of Decode: bytes behind the strings or the code are ignored. *)
DecodeLoosely(body) ==
    LET type == body[2]
        strings == readStrings(SubSeq(body, 4, Len(body)))
    IN  CASE /\ body[1] = Version /\ type \in {TypeOpen, TypeProbe}
             /\ Len(body) >= 3 /\ body[3] \in Directions /\ strings.ok ->
               [NoFrame EXCEPT !.type = type, !.dir = body[3],
                               !.strings = strings.strings]
          [] body[1] = Version /\ type = TypeOK_ -> [NoFrame EXCEPT !.type = type]
          [] OTHER -> NoFrame

Decode(body) ==
    LET type == body[2]
        strings == readStrings(SubSeq(body, 4, Len(body)))
    IN  CASE /\ body[1] = Version /\ type \in {TypeOpen, TypeProbe}
             /\ Len(body) >= 3 /\ body[3] \in Directions
             /\ strings.ok /\ strings.rest = << >> ->
               [NoFrame EXCEPT !.type = type, !.dir = body[3],
                               !.strings = strings.strings]
          [] body[1] = Version /\ type = TypeOK_ /\ Len(body) = 2 ->
               [NoFrame EXCEPT !.type = type]
          [] /\ body[1] = Version /\ type = TypeError
             /\ Len(body) = 3 /\ validErrorCode(body[3]) ->
               [NoFrame EXCEPT !.type = type, !.code = body[3]]
          [] OTHER -> NoFrame

-----------------------------------------------------------------------------
(* The two ends of a stream *)

VARIABLES
    given,     \* the frame WriteFrame was called with, or NoFrame
    writer,    \* "idle", "frame", "payload", "raw" or "ended"
    out,       \* bytes the writer has yet to write
    wire,      \* bytes written and not yet read
    reader,    \* "header", "body", "done" or "failed"
    need,      \* bytes io.ReadFull waits for
    taken,     \* bytes ReadFrame has consumed
    got        \* what it returned

vars == <<given, writer, out, wire, reader, need, taken, got>>

TypeOK ==
    /\ writer \in {"idle", "frame", "payload", "raw", "ended"}
    /\ out \in Seq(Bytes) /\ wire \in Seq(Bytes) /\ taken \in Seq(Bytes)
    /\ reader \in {"header", "body", "done", "failed"}
    /\ need \in 2..MaxFrameLen
    /\ got.type \in 0..4 /\ got.code \in 0..4 /\ got.dir \in 0..2
    /\ DOMAIN got.strings = DOMAIN StringFields

Init ==
    /\ given = NoFrame /\ writer = "idle"
    /\ out = << >> /\ wire = << >>
    /\ reader = "header" /\ need = 2
    /\ taken = << >> /\ got = NoFrame

readerVars == <<reader, need, taken, got>>

WriteFrame(f) ==
    /\ given' = f
    /\ out' = Encode(f)
    /\ writer' = IF Encode(f) = Failed THEN "ended" ELSE "frame"
    /\ UNCHANGED <<wire, readerVars>>

(* A peer that writes, at once, byte b where the frame has another one. *)
WriteOther(f, i, b) ==
    /\ i \in DOMAIN Encode(f) /\ Encode(f)[i] # b
    /\ wire' = [Encode(f) EXCEPT ![i] = b]
    /\ writer' = "raw"
    /\ UNCHANGED <<given, out, readerVars>>

(* One w.Write of writeFull takes n bytes; then the payload follows. *)
writeFull(n) ==
    /\ writer \in {"frame", "payload"} /\ n \in 1..Len(out)
    /\ wire' = wire \o SubSeq(out, 1, n)
    /\ IF n = Len(out) /\ writer = "frame"
         THEN writer' = "payload" /\ out' = Payload
         ELSE writer' = writer /\ out' = SubSeq(out, n + 1, Len(out))
    /\ UNCHANGED <<given, readerVars>>

(* A Write fails or takes nothing, the stream is closed, or it breaks. *)
EndStream ==
    /\ writer # "ended"
    /\ writer' = "ended"
    /\ UNCHANGED <<given, out, wire, readerVars>>

(* Mutant of ReadHeader: no lower bound on the length. *)
ReadHeaderUnchecked ==
    LET n == Uint16(wire) IN
    /\ reader = "header" /\ Len(wire) >= 2
    /\ taken' = SubSeq(wire, 1, 2) /\ wire' = SubSeq(wire, 3, Len(wire))
    /\ IF n > MaxFrameLen
         THEN reader' = "failed" /\ UNCHANGED need
         ELSE reader' = "body" /\ need' = n
    /\ UNCHANGED <<given, writer, out, got>>

(* io.ReadFull has the two bytes of the length. *)
ReadHeader ==
    LET n == Uint16(wire) IN
    /\ reader = "header" /\ Len(wire) >= 2
    /\ taken' = SubSeq(wire, 1, 2) /\ wire' = SubSeq(wire, 3, Len(wire))
    /\ IF n > MaxFrameLen \/ n < 2
         THEN reader' = "failed" /\ UNCHANGED need
         ELSE reader' = "body" /\ need' = n
    /\ UNCHANGED <<given, writer, out, got>>

(* Mutant of ReadBody: a buffered reader takes all that has arrived. *)
ReadBodyBuffered ==
    LET body == SubSeq(wire, 1, need) IN
    /\ reader = "body" /\ Len(wire) >= need
    /\ taken' = taken \o body /\ wire' = << >>
    /\ got' = Decode(body)
    /\ reader' = IF Decode(body) = NoFrame THEN "failed" ELSE "done"
    /\ UNCHANGED <<given, writer, out, need>>

(* io.ReadFull has the body. *)
ReadBody ==
    LET body == SubSeq(wire, 1, need) IN
    /\ reader = "body" /\ Len(wire) >= need
    /\ taken' = taken \o body /\ wire' = SubSeq(wire, need + 1, Len(wire))
    /\ got' = Decode(body)
    /\ reader' = IF Decode(body) = NoFrame THEN "failed" ELSE "done"
    /\ UNCHANGED <<given, writer, out, need>>

(* io.ReadFull meets the end: io.EOF or io.ErrUnexpectedEOF. *)
ReadEOF ==
    /\ reader \in {"header", "body"} /\ writer = "ended" /\ Len(wire) < need
    /\ reader' = "failed"
    /\ UNCHANGED <<given, writer, out, wire, need, taken, got>>

Begin ==
    /\ writer = "idle"
    /\ \E f \in Frames :
         \/ WriteFrame(f)
         \/ \E i \in 1..(MaxFrameLen + 2), b \in Bytes : WriteOther(f, i, b)

Next ==
    \/ Begin
    \/ \E n \in 1..(MaxFrameLen + 2) : writeFull(n)
    \/ EndStream
    \/ ReadHeader \/ ReadBody \/ ReadEOF

Spec == Init /\ [][Next]_vars

-----------------------------------------------------------------------------
(* Properties *)

(***************************************************************************)
(* What WriteFrame was given arrives: the reader returns that frame and    *)
(* nothing else, has consumed its bytes and not one of the payload behind  *)
(* it, and fails only if the stream ended before the whole frame was       *)
(* written (or it was refused), however the bytes were cut up.             *)
(***************************************************************************)
RoundTrip ==
    given # NoFrame =>
      /\ reader = "done" => got = given /\ taken = Encode(given)
      /\ reader = "failed" =>
           \/ Encode(given) = Failed
           \/ Len(taken \o wire) < Len(Encode(given))

(***************************************************************************)
(* The payload is intact behind the frame: when ReadFrame returns, every   *)
(* byte of the payload is still on the stream or yet to be written, in     *)
(* order, with no byte of the frame in front of it.                        *)
(***************************************************************************)
PayloadFollows ==
    given # NoFrame /\ reader = "done" => wire \o out = Payload

(***************************************************************************)
(* ReadFrame accepts only what WriteFrame writes: bytes that differ from a *)
(* frame are refused or are exactly the encoding of the frame returned, so *)
(* two different byte strings never mean the same frame.                   *)
(***************************************************************************)
Canonical == reader = "done" => Encode(got) = taken

(* The length a body needs, computed at once. *)
StringsLen(ss) ==
    (2 + Len(ss[1])) + (2 + Len(ss[2])) + (2 + Len(ss[3]))
      + (2 + Len(ss[4])) + (2 + Len(ss[5]))

BodyLen(f) ==
    CASE f.type \in {TypeOpen, TypeProbe} -> 3 + StringsLen(f.strings)
      [] f.type = TypeError -> 3
      [] OTHER -> 2

(***************************************************************************)
(* WriteFrame refuses a frame exactly when its body would not fit in       *)
(* MaxFrameLen or its direction is none, although appendString checks the  *)
(* length piecewise; what it does write has its true length in front.      *)
(***************************************************************************)
RefusesExactlyTooLarge ==
    given # NoFrame =>
      LET refused == Encode(given) = Failed
          noDirection == given.type \in {TypeOpen, TypeProbe}
                           /\ given.dir \notin Directions
      IN  /\ refused <=> BodyLen(given) > MaxFrameLen \/ noDirection
          /\ ~refused => Uint16(Encode(given)) = BodyLen(given)
==============================================================================
