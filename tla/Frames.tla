---- MODULE Frames ----
(***************************************************************************)
(* Messages on a byte line, from encodeMessage() on one end to FrameDecoder *)
(* and decodeMessage() on the other (vm_protocol.js; the guest's frame.rs   *)
(* and proto.rs are held to it by shared fixtures). The line may carry      *)
(* noise, or a frame that was cut short by a guest that died.               *)
(*                                                                         *)
(*   line   the bytes on their way                                         *)
(*   dec    the decoder: its buffer, and whether it overflowed              *)
(*   heard  what came out, in order                                        *)
(*   tail   the bytes sent since the last delimiter                         *)
(*   due    what has to come out                                           *)
(* A byte is 0..Block, Block standing for 255, so a block of COBS is        *)
(* Block - 1 bytes long. The id is left out: it is more payload. Of a JSON  *)
(* body it matters only whether it is one, and whether its fields are right.*)
(***************************************************************************)
EXTENDS Integers, Sequences, SequencesExt

CONSTANTS
  Block,       \* 0xff
  MaxPayload,  \* MAX_PAYLOAD_TO_HOST or MAX_PAYLOAD_TO_AGENT
  MaxSends     \* bounds the frames and the noises of a history

ASSUME BoundsAssumption == Block \in Nat /\ Block > 2 /\ {MaxPayload, MaxSends} \subseteq Nat

VARIABLES line, dec, heard, tail, due, sends
lineVars == <<line, dec, heard, tail, due, sends>>

Octet == 0..Block
Payloads == UNION {[1..n -> Octet] : n \in 0..MaxPayload}
None == <<-1>>  \* null: no byte is -1

VERSION == 1
FRAME_OVERHEAD == 3
maxEncodedLength(maxPayload) == LET n == FRAME_OVERHEAD + maxPayload IN n + 1 + n \div (Block - 1)

\* The types: one with data and one with a JSON body that this sender sends, and one of the other's.
DATA == 2
JSON == 3
FOREIGN == 1
TYPES == {FOREIGN, DATA, JSON}

---------------------------------------------------------------------------
(* COBS and frames. *)

\* Any sum that tells most damage; the code's is CRC-32.
crcByte(c, b) == (2 * c + b + 1) % (Block + 1)
crc32(bytes) == FoldLeft(crcByte, 0, bytes)

\* Each block is preceded by its length; the last is written even when it is empty.
Closed(s) == s.out \o <<Len(s.block) + 1>> \o s.block
EncodeByte(s, b) ==
  IF b = 0 THEN [out |-> Closed(s), block |-> <<>>]
  ELSE LET t == [s EXCEPT !.block = Append(@, b)] IN
       IF Len(t.block) + 1 = Block THEN [out |-> Closed(t), block |-> <<>>] ELSE t
cobsEncode(data) == Closed(FoldLeft(EncodeByte, [out |-> <<>>, block |-> <<>>], data))

\* A zero stands between two blocks, unless the first is a full one. None is null.
DecodeByte(s, b) ==
  IF s.left = 0
  THEN [out |-> IF s.code \in {0, Block} THEN s.out ELSE Append(s.out, 0), code |-> b, left |-> b - 1, bad |-> s.bad \/ b = 0]
  ELSE [s EXCEPT !.out = Append(@, b), !.left = @ - 1, !.bad = @ \/ b = 0]
cobsDecode(encoded) ==
  LET end == FoldLeft(DecodeByte, [out |-> <<>>, code |-> 0, left |-> 0, bad |-> FALSE], encoded)
  IN IF encoded = <<>> \/ end.bad \/ end.left # 0 THEN None ELSE end.out

\* Without the delimiter.
encodeFrame(frame) ==
  LET raw == <<VERSION, frame.type>> \o frame.payload IN cobsEncode(Append(raw, crc32(raw)))

Error(why) == [error |-> why, type |-> 0, payload |-> <<>>]
Frame(type, payload) == [error |-> "none", type |-> type, payload |-> payload]

decodeFrame(chunk) ==
  LET raw == cobsDecode(chunk)
      crcAt == Len(raw)
      payload == SubSeq(raw, 3, crcAt - 1)
  IN IF Len(chunk) > maxEncodedLength(MaxPayload) THEN Error("oversize")
     ELSE IF raw = None THEN Error("cobs")
     ELSE IF Len(raw) < FRAME_OVERHEAD THEN Error("short")
     ELSE IF crc32(SubSeq(raw, 1, crcAt - 1)) # raw[crcAt] THEN Error("crc")
     ELSE IF raw[1] # VERSION THEN Error("version")
     ELSE IF Len(payload) > MaxPayload THEN Error("oversize")
     ELSE Frame(raw[2], payload)

---------------------------------------------------------------------------
(* Messages. *)

\* JSON.parse and the table of bodies, of which one stands for all.
Parsed(payload) ==
  IF payload = <<1>> THEN "valid" ELSE IF payload = <<2>> THEN "field" ELSE IF payload = <<3>> THEN "not_object" ELSE "bad_json"

decodeMessage(event) ==
  IF event.error # "none" THEN event
  ELSE IF event.type = FOREIGN THEN Error("direction")
  ELSE IF event.type \notin TYPES THEN Error("unknown_type")
  ELSE IF event.type = DATA \/ Parsed(event.payload) = "valid" THEN event
  ELSE Error(Parsed(event.payload))

\* What encodeMessage() does not throw at; it takes a type's name, so one this sender may send.
Encodable(type, payload) == /\ type \in {DATA, JSON} /\ Len(payload) <= MaxPayload
                            /\ type = JSON => Parsed(payload) = "valid"

---------------------------------------------------------------------------
(* The line and the decoder. *)

NewDecoder == [buffer |-> <<>>, overflowed |-> FALSE]

LineInit ==
  /\ line = <<>> /\ dec = NewDecoder /\ heard = <<>>
  /\ tail = <<>> /\ due = <<>> /\ sends = 0

\* What must come of a chunk: a frame that starts behind a delimiter is heard as it was sent,
\* and anything else as what it is taken for.
SendFrame(type, payload) ==
  LET encoded == encodeFrame([type |-> type, payload |-> payload]) IN
  /\ sends < MaxSends /\ Encodable(type, payload)
  /\ line' = line \o encoded \o <<0>>
  /\ due' = Append(due, IF tail = <<>> THEN Frame(type, payload) ELSE decodeMessage(decodeFrame(tail \o encoded)))
  /\ tail' = <<>> /\ sends' = sends + 1
  /\ UNCHANGED <<dec, heard>>

\* Bytes that are no frame, or the start of one that never ends.
Noise(bytes) ==
  /\ sends < MaxSends
  /\ line' = line \o bytes
  /\ tail' = tail \o bytes
  /\ sends' = sends + 1
  /\ UNCHANGED <<dec, heard, due>>

\* A lone delimiter, which ends what was there.
Delimiter ==
  /\ tail # <<>>
  /\ line' = Append(line, 0)
  /\ due' = Append(due, decodeMessage(decodeFrame(tail)))
  /\ tail' = <<>>
  /\ UNCHANGED <<dec, heard, sends>>

\* Mutant: an overflow is forgotten when the buffer is emptied.
AppendedAnyway(d, part) ==
  IF Len(d.buffer) + Len(part) > maxEncodedLength(MaxPayload) THEN [buffer |-> <<>>, overflowed |-> FALSE]
  ELSE [d EXCEPT !.buffer = @ \o part]

\* #append()
Appended(d, part) ==
  IF d.overflowed \/ part = <<>> THEN d
  ELSE IF Len(d.buffer) + Len(part) > maxEncodedLength(MaxPayload) THEN [d EXCEPT !.overflowed = TRUE]
  ELSE [d EXCEPT !.buffer = @ \o part]

\* #finish(): what the zero ends, unless nothing was there.
Finished(d) ==
  IF d.overflowed THEN <<Error("oversize")>>
  ELSE IF d.buffer = <<>> THEN <<>>
  ELSE <<decodeMessage(decodeFrame(d.buffer))>>

\* push(): the bytes of one read, split at the zeros; a part is appended as a whole.
ReadByte(s, b) ==
  IF b = 0 THEN [dec |-> NewDecoder, heard |-> s.heard \o Finished(Appended(s.dec, s.part)), part |-> <<>>]
  ELSE [s EXCEPT !.part = Append(@, b)]
Push(count) ==
  LET end == FoldLeft(ReadByte, [dec |-> dec, heard |-> heard, part |-> <<>>], SubSeq(line, 1, count)) IN
  /\ dec' = Appended(end.dec, end.part)
  /\ heard' = end.heard
  /\ line' = SubSeq(line, count + 1, Len(line))
  /\ UNCHANGED <<tail, due, sends>>

\* reset(), as after a restore: the guest is another one, and the line is empty.
Reset ==
  /\ line' = <<>> /\ dec' = NewDecoder
  /\ tail' = <<>> /\ due' = heard
  /\ UNCHANGED <<heard, sends>>

Noises == {<<1>>, <<Block>>, <<1, 1, 1, 1, 1, 1, 1, 1, 1>>} \cup {SubSeq(encodeFrame(Frame(DATA, <<2, 0>>)), 1, k) : k \in 1..5}

LineNext ==
  \/ \E type \in TYPES, payload \in Payloads : SendFrame(type, payload)
  \/ \E bytes \in Noises : Noise(bytes)
  \/ Delimiter \/ Reset
  \/ \E count \in 1..Len(line) : Push(count)

LineSpec == LineInit /\ [][LineNext]_lineVars

---------------------------------------------------------------------------
(* Properties *)

LineTypeOK ==
  /\ line \in Seq(Octet) /\ tail \in Seq(Octet) /\ sends \in 0..MaxSends
  /\ dec.buffer \in Seq(Octet) /\ dec.overflowed \in BOOLEAN /\ Len(dec.buffer) <= maxEncodedLength(MaxPayload)
  /\ \A e \in ToSet(heard) \cup ToSet(due) : e.payload \in Payloads

\* However the bytes are split into reads, what comes out is what the sender's chunks say, in
\* order: every message sent behind a delimiter as it was sent, none lost after noise, after a
\* cut frame or after more bytes than a frame can have.
HeardIsDue ==
  /\ IsPrefix(heard, due)
  /\ line = <<>> => heard = due

\* FrameDecoder with decodeMessage() on one end undoes encodeMessage() on the other, for every line.
MessagesArrive == LineTypeOK /\ HeardIsDue

====
