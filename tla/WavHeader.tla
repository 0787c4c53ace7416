----------------------------- MODULE WavHeader -----------------------------
(***************************************************************************)
(* parse_header() of src/wav.rs: a walk over the chunks of the leading     *)
(* bytes of a file, stepping by the sizes the chunks declare.              *)
(*                                                                         *)
(* A file is a record: whether it begins with the two markers of a WAVE    *)
(* file, and the chunks the walk meets, each with its id, its declared     *)
(* size and, for "fmt", the byte rate.  The lengths are constants so that  *)
(* a model may scale them.                                                 *)
(***************************************************************************)
EXTENDS Naturals, Sequences

CONSTANTS
    RIFF_LEN,       \* 12: the markers and the container's size
    CHUNK_HEAD_LEN, \* 8: id and size of a chunk
    FMT_BODY_LEN    \* 16

ASSUME WavAssumption ==
    /\ RIFF_LEN \in Nat \ {0}
    /\ CHUNK_HEAD_LEN \in Nat \ {0}
    /\ FMT_BODY_LEN \in Nat

ChunkRecords ==
    [id : {"fmt"}, size : Nat, byte_rate : Nat]
    \cup [id : STRING \ {"fmt"}, size : Nat]

\* Seeded bug: the padding of an odd chunk is forgotten.
SeededAdvance(chunk) == CHUNK_HEAD_LEN + chunk.size

\* The distance to the next chunk: an odd size is padded.
Advance(chunk) == CHUNK_HEAD_LEN + chunk.size + (chunk.size % 2)

\* One turn of the loop, with len bytes at hand.
ScanChunk(len, scan, chunk) ==
    LET body == scan.offset + CHUNK_HEAD_LEN
        next == [scan EXCEPT !.offset = @ + Advance(chunk)]
    IN  IF scan.stopped \/ body > len
        THEN [scan EXCEPT !.stopped = TRUE]
        ELSE IF chunk.id = "fmt"
        THEN IF body + FMT_BODY_LEN > len
             THEN [scan EXCEPT !.stopped = TRUE, !.malformed = TRUE]
             ELSE [next EXCEPT !.fmt = <<chunk>>]
        ELSE IF chunk.id = "data"
        THEN [scan EXCEPT !.stopped = TRUE, !.data = <<chunk>>]
        ELSE next

\* What the walk knows after each chunk.
Scanning(file, len) ==
    LET scan[i \in 0..Len(file.chunks)] ==
            IF i = 0
            THEN [offset |-> RIFF_LEN, stopped |-> FALSE, malformed |-> FALSE,
                  fmt |-> <<>>, data |-> <<>>]
            ELSE ScanChunk(len, scan[i - 1], file.chunks[i])
    IN  scan

Scan(file, len) == Scanning(file, len)[Len(file.chunks)]

\* Whether the leading len bytes of the file parse.
Parses(file, len) ==
    /\ len >= RIFF_LEN
    /\ file.markers
    /\ LET scan == Scan(file, len)
       IN  ~scan.malformed /\ scan.fmt # <<>>

\* duration_ms(), with 0 for None.
duration_ms(file, len) ==
    LET scan == Scan(file, len)
    IN  IF scan.data # <<>> /\ scan.fmt[1].byte_rate > 0
        THEN (scan.data[1].size * 1000) \div scan.fmt[1].byte_rate
        ELSE 0
=============================================================================
