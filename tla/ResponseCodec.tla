------------------------------ MODULE ResponseCodec -----------------------------
(***************************************************************************)
(* How meshscope_edge.h keeps a response of the gateway in the cache:       *)
(* compress_response turns it into sequences of a token, literals and a     *)
(* match at most Window bytes back; decompress_response expands it in one   *)
(* piece and stream_decompressed_response byte by byte, with no more than   *)
(* the last Window bytes in a ring.                                         *)
(*                                                                         *)
(* The format is kept byte for byte, at a smaller scale: a byte has         *)
(* (Nibble + 1)^2 values (the code: Nibble = 15, Window = 8192, MinMatch =  *)
(* 4).  Offsets count from 0, as in the code.                               *)
(***************************************************************************)
EXTENDS Integers, Sequences, FiniteSets

CONSTANTS
  Letters,    (* the bytes responses are made of                              *)
  MaxLength,  (* bound: the longest response                                  *)
  Slot,       (* hash_at: the slot of MinMatch letters                        *)
  MinMatch, Nibble, Window,
  Slack,      (* room beside the extensions in compress_response's maximum    *)
  Limits,     (* max_compressed_buffer                                        *)
  SendBuffer, (* SEND_BUFFER_SIZE                                             *)
  Patience    (* chunks after which a client may go away                      *)

Byte == (Nibble + 1) * (Nibble + 1)
LengthStep == Byte - 1
Grams == [1..MinMatch -> Letters]
Slots == {Slot[g] : g \in Grams}

ASSUME CodecAssumption ==
  /\ Nibble \in Nat \ {0} /\ Letters \subseteq 0..LengthStep
  /\ MaxLength \in Nat /\ MinMatch \in Nat \ {0}
  /\ Window \in Nat \ {0} /\ Window < Byte * Byte
  /\ DOMAIN Slot = Grams
  /\ Slack \in Nat /\ Limits \subseteq Nat
  /\ SendBuffer \in Nat \ {0} /\ Patience \subseteq Nat

VARIABLES
  source,          (* the response                                            *)
  limit, patience, (* chosen once                                             *)
  phase,
  output,          (* the compressed response                                 *)
  hash,            (* the last offset looked at, per slot, or -1              *)
  anchor, offset,  (* start of the literals; place of the search              *)
  input,           (* place in output of the reader                           *)
  decoded,         (* decompress_response's result                            *)
  run,             (* what the streamer is in the middle of                   *)
  history,         (* its ring of Window bytes                                *)
  chunk, sent      (* its send buffer, and what the client has received       *)

chosen == <<source, limit, patience>>
search == <<hash, anchor, offset>>
stream == <<run, history, chunk, sent>>
vars == <<chosen, phase, output, search, input, decoded, stream>>

--------------------------------------------------------------------------------
(* The format. *)

Smaller(a, b) == IF a < b THEN a ELSE b
Part(s, from, length) == SubSeq(s, from + 1, from + length)

\* emit_length, called for a length that fills its nibble.
Extension(n) ==
  IF n < Nibble THEN <<>>
  ELSE [i \in 1..((n - Nibble) \div LengthStep) |-> LengthStep]
         \o <<(n - Nibble) % LengthStep>>

Token(literals, match) ==
  (Nibble + 1) * Smaller(literals, Nibble) + Smaller(match, Nibble)
LiteralNibble(token) == token \div (Nibble + 1)
MatchNibble(token)   == token % (Nibble + 1)

WithLiterals(from, length, match) ==
  <<Token(length, match)>> \o Extension(length) \o Part(source, from, length)
MatchAt(distance, match) ==
  <<distance % Byte, distance \div Byte>> \o Extension(match)

\* Mutation of ReadLength: the first extension byte ends the length.
ReadOneByte(initial, at) ==
  IF initial # Nibble THEN [length |-> initial, next |-> at]
  ELSE [length |-> initial + output[at + 1], next |-> at + 1]

\* read_length: bytes of LengthStep go on, any other byte ends the length.  A
\* length that runs off the end has no next.
ReadLength(initial, at) ==
  LET ends == {k \in at..(Len(output) - 1) :
                 /\ output[k + 1] # LengthStep
                 /\ \A j \in at..(k - 1) : output[j + 1] = LengthStep}
      end == CHOOSE k \in ends : TRUE
  IN CASE initial # Nibble -> [length |-> initial, next |-> at]
       [] initial = Nibble /\ ends = {} -> [length |-> 0, next |-> -1]
       [] OTHER -> [length |-> initial + (end - at) * LengthStep + output[end + 1],
                    next   |-> end + 1]

--------------------------------------------------------------------------------
(* compress_response. *)

Sources == UNION {[1..n -> Letters] : n \in 0..MaxLength}
Idle == [kind |-> "token", left |-> 0, token |-> 0, distance |-> 0]

Init ==
  /\ source \in Sources /\ limit \in Limits /\ patience \in Patience
  /\ phase = "compress" /\ output = <<>>
  /\ hash = [s \in Slots |-> -1] /\ anchor = 0 /\ offset = 0
  /\ input = 0 /\ decoded = <<>>
  /\ run = Idle /\ history = [i \in 0..(Window - 1) |-> 0]
  /\ chunk = <<>> /\ sent = <<>>

\* Mutation of Maximum: no room for the extensions of a long run of literals.
MaximumWithoutExtensions == Len(source) + 1
Maximum == Len(source) + Len(source) \div LengthStep + Slack
Capacity == Smaller(Maximum, limit)

\* Mutation of Put: the room is not looked at.
PutAnyway(bytes, next) == output' = output \o bytes /\ phase' = next
\* emit_byte and emit_bytes: the next sequence fits, or there is no result.
Put(bytes, next) ==
  \/ /\ Len(output) + Len(bytes) <= Capacity
     /\ output' = output \o bytes /\ phase' = next
  \/ /\ Len(output) + Len(bytes) > Capacity
     /\ output' = <<>> /\ phase' = "refused"

Gram(at) == Part(source, at, MinMatch)
\* Mutation of Reachable: a match may be one byte farther than the ring is long.
ReachableAndOne(from) == from >= 0 /\ offset - from <= Window + 1
Reachable(from) == from >= 0 /\ offset - from <= Window
Repeats(from) == Reachable(from) /\ Gram(from) = Gram(offset)
\* The match goes on as long as the bytes agree; it may overlap itself.
MatchLength(from) ==
  CHOOSE m \in MinMatch..(Len(source) - offset) :
    /\ \A k \in 0..(m - 1) : source[from + k + 1] = source[offset + k + 1]
    /\ \/ offset + m = Len(source)
       \/ source[from + m + 1] # source[offset + m + 1]

\* The heap has no room for the hash table and the output.
NoMemory ==
  /\ phase = "compress" /\ offset = 0 /\ phase' = "no-memory"
  /\ UNCHANGED <<chosen, output, search, input, decoded, stream>>

Search ==
  /\ phase = "compress" /\ offset + MinMatch <= Len(source)
  /\ LET slot == Slot[Gram(offset)]
         from == hash[slot]
     IN /\ hash' = [hash EXCEPT ![slot] = offset]
        /\ \/ /\ ~Repeats(from)
              /\ offset' = offset + 1
              /\ UNCHANGED <<phase, output, anchor>>
           \/ /\ Repeats(from)
              /\ LET m == MatchLength(from)
                 IN /\ Put(WithLiterals(anchor, offset - anchor, m - MinMatch)
                             \o MatchAt(offset - from, m - MinMatch), "compress")
                    /\ offset' = offset + m /\ anchor' = offset + m
  /\ UNCHANGED <<chosen, input, decoded, stream>>

\* The last sequence has a token and literals only.
EndSearch ==
  /\ phase = "compress" /\ offset + MinMatch > Len(source)
  /\ Put(WithLiterals(anchor, Len(source) - anchor, 0), "cached")
  /\ UNCHANGED <<chosen, search, input, decoded, stream>>

--------------------------------------------------------------------------------
(* decompress_response. *)

\* An entry whose buffer the collector took over has a size and no bytes.
HandOver == /\ phase = "cached" /\ phase' = "handed-over" /\ output' = <<>>
            /\ UNCHANGED <<chosen, search, input, decoded, stream>>

BeginDecode ==
  /\ phase \in {"cached", "handed-over"} /\ phase' \in {"decode", "no-memory"}
  /\ UNCHANGED <<chosen, output, search, input, decoded, stream>>

\* match bytes, each copied from distance bytes back.
Copy(text, distance, match) ==
  LET f[n \in 0..match] ==
        IF n = 0 THEN text
        ELSE Append(f[n - 1], f[n - 1][Len(f[n - 1]) + 1 - distance])
  IN f[match]

Distance(at) == output[at + 1] + Byte * output[at + 2]

\* One sequence.  What the bounds refuse is not a compressed response.
DecodeSequence ==
  /\ phase = "decode" /\ input < Len(output)
  /\ LET literals == ReadLength(LiteralNibble(output[input + 1]), input + 1)
         at   == literals.next + literals.length
         text == decoded \o Part(output, literals.next, literals.length)
         match == ReadLength(MatchNibble(output[input + 1]), at + 2)
     IN IF \/ literals.next < 0 \/ at > Len(output)
           \/ Len(text) > Len(source) \/ at + 1 = Len(output)
        THEN phase' = "undecodable" /\ UNCHANGED <<input, decoded>>
        ELSE IF at = Len(output)
        THEN input' = at /\ decoded' = text /\ UNCHANGED phase
        ELSE IF \/ Distance(at) \notin 1..Len(text) \/ match.next < 0
                \/ Len(text) + match.length + MinMatch > Len(source)
        THEN phase' = "undecodable" /\ UNCHANGED <<input, decoded>>
        ELSE /\ decoded' = Copy(text, Distance(at), match.length + MinMatch)
             /\ input' = match.next /\ UNCHANGED phase
  /\ UNCHANGED <<chosen, output, search, stream>>

\* Only an entry without its bytes ends with too little.
EndDecode ==
  /\ phase = "decode" /\ input = Len(output)
  /\ phase' = IF Len(decoded) = Len(source) THEN "decoded" ELSE "undecodable"
  /\ UNCHANGED <<chosen, output, search, input, decoded, stream>>

--------------------------------------------------------------------------------
(* stream_decompressed_response. *)

output_size == Len(sent) + Len(chunk)

BeginStream ==
  /\ phase \in {"cached", "handed-over"} /\ phase' \in {"stream", "no-memory"}
  /\ UNCHANGED <<chosen, output, search, input, decoded, stream>>

StreamToken ==
  /\ phase = "stream" /\ run.kind = "token" /\ input < Len(output)
  /\ LET token == output[input + 1]
         literals == ReadLength(LiteralNibble(token), input + 1)
     IN IF literals.next < 0 \/ literals.next + literals.length > Len(output)
        THEN phase' = "stopped" /\ UNCHANGED <<input, run>>
        ELSE /\ run' = [run EXCEPT !.kind = "literals", !.left = literals.length,
                                   !.token = token]
             /\ input' = literals.next /\ UNCHANGED phase
  /\ UNCHANGED <<chosen, output, search, decoded, history, chunk, sent>>

\* Mutation of RingPlace: the ring is turned before it is written.
NextRingPlace == (output_size + 1) % Window
RingPlace == output_size % Window

\* emit: a full send buffer is flushed; a client that has gone ends the stream.
Gone == Len(sent) \div SendBuffer >= patience
Emit(value) ==
  /\ history' = [history EXCEPT ![RingPlace] = value]
  /\ \/ /\ Len(chunk) + 1 < SendBuffer
        /\ chunk' = Append(chunk, value) /\ UNCHANGED <<sent, phase>>
     \/ /\ Len(chunk) + 1 = SendBuffer /\ ~Gone
        /\ sent' = sent \o Append(chunk, value) /\ chunk' = <<>>
        /\ UNCHANGED phase
     \/ /\ Len(chunk) + 1 = SendBuffer /\ Gone
        /\ phase' = "stopped" /\ chunk' = <<>> /\ UNCHANGED sent

Overflows == output_size >= Len(source)
Stop == phase' = "stopped" /\ UNCHANGED <<history, chunk, sent>>

StreamLiteral ==
  /\ phase = "stream" /\ run.kind = "literals" /\ run.left > 0
  /\ IF Overflows THEN Stop ELSE Emit(output[input + 1])
  /\ input' = input + 1 /\ run' = [run EXCEPT !.left = @ - 1]
  /\ UNCHANGED <<chosen, output, search, decoded>>

InRing(distance) == distance \in 1..output_size /\ distance <= Window

StreamDistance ==
  /\ phase = "stream" /\ run.kind = "literals" /\ run.left = 0
  /\ input < Len(output)
  /\ IF input + 1 = Len(output) THEN phase' = "stopped" /\ UNCHANGED <<input, run>>
     ELSE LET match == ReadLength(MatchNibble(run.token), input + 2)
          IN IF ~InRing(Distance(input)) \/ match.next < 0
             THEN phase' = "stopped" /\ UNCHANGED <<input, run>>
             ELSE /\ run' = [run EXCEPT !.kind = "match",
                                        !.left = match.length + MinMatch,
                                        !.distance = Distance(input)]
                  /\ input' = match.next /\ UNCHANGED phase
  /\ UNCHANGED <<chosen, output, search, decoded, history, chunk, sent>>

StreamMatch ==
  /\ phase = "stream" /\ run.kind = "match"
  /\ IF Overflows THEN Stop
     ELSE Emit(history[(output_size - run.distance) % Window])
  /\ run' = IF run.left = 1 THEN Idle ELSE [run EXCEPT !.left = @ - 1]
  /\ UNCHANGED <<chosen, output, search, input, decoded>>

\* The rest of the send buffer is flushed when the size is right.
EndStream ==
  /\ phase = "stream" /\ input = Len(output) /\ run.left = 0
  /\ \/ /\ output_size = Len(source) /\ (chunk = <<>> \/ ~Gone)
        /\ phase' = "streamed" /\ sent' = sent \o chunk
     \/ /\ output_size # Len(source) \/ (chunk # <<>> /\ Gone)
        /\ phase' = "stopped" /\ UNCHANGED sent
  /\ chunk' = <<>>
  /\ UNCHANGED <<chosen, output, search, input, decoded, run, history>>

--------------------------------------------------------------------------------

Next == \/ NoMemory \/ Search \/ EndSearch \/ HandOver
        \/ BeginDecode \/ DecodeSequence \/ EndDecode
        \/ BeginStream \/ StreamToken \/ StreamLiteral \/ StreamDistance
        \/ StreamMatch \/ EndStream

Spec == Init /\ [][Next]_vars

--------------------------------------------------------------------------------
(* Properties. *)

\* Types and bounds; the compressed response stays within its buffer.
TypeOK ==
  /\ source \in Seq(Letters) /\ limit \in Limits /\ patience \in Patience
  /\ phase \in {"compress", "refused", "no-memory", "cached", "handed-over",
                "decode", "decoded", "undecodable", "stream", "streamed",
                "stopped"}
  /\ output \in Seq(0..LengthStep) /\ Len(output) <= Capacity
  /\ hash \in [Slots -> -1..offset]
  /\ anchor \in 0..offset /\ offset \in 0..Len(source)
  /\ input \in 0..Len(output)
  /\ decoded \in Seq(0..LengthStep)
  /\ run.kind \in {"token", "literals", "match"} /\ run.left \in 0..Len(source)
  /\ history \in [0..(Window - 1) -> 0..LengthStep]
  /\ chunk \in Seq(0..LengthStep) /\ Len(chunk) < SendBuffer
  /\ sent \in Seq(0..LengthStep)

\* A response that was compressed expands to itself, and nothing compress_response
\* produces is refused by decompress_response.  (Its reader compares a distance
\* with all it has written, never with the window.)
RoundTrip ==
  /\ phase = "decoded" => decoded = source
  /\ phase = "undecodable" => output = <<>>

\* A client receives the response from its beginning, whole chunks of it, and all
\* of it unless it goes away; no compressed response stops the stream.  (The
\* reader with the ring refuses distances the other one would accept.)
StreamIsResponse ==
  /\ sent = Part(source, 0, Len(sent))
  /\ phase = "streamed" => sent = source
  /\ phase = "stopped" => output = <<>> \/ Gone

\* The ring holds the last Window bytes of the stream, each at its offset.
\* (history is written at every byte, across chunks that have left already.)
RingHoldsWindow ==
  phase = "stream" =>
    \A i \in 0..(output_size - 1) :
      i + Window >= output_size => history[i % Window] = (sent \o chunk)[i + 1]

\* compress_response's maximum is the worst case: a response is refused only when
\* max_compressed_buffer is smaller.
CompressionFits == phase = "refused" => limit < Maximum

================================================================================
