----------------------------- MODULE Submission -----------------------------
(***************************************************************************)
(* What one request body becomes: the multipart loop of the upload handler *)
(* (ingest() in src/http/api.rs), with the one byte budget every field is  *)
(* charged to, then the tags, recorded_at and the WAV header, and at last  *)
(* the Sink the Routing Rules select.  The body arrives in pieces whose    *)
(* boundaries the network chooses, and may break off.                      *)
(*                                                                         *)
(* The files, the rows and the requests that race for one key are module   *)
(* Intake; here the request is new and its files and rows can be written.  *)
(***************************************************************************)
EXTENDS Configuration, WavHeader, FiniteSets, FiniteSetsExt

CONSTANTS
    RawConfigs,           \* configuration files
    Requests,             \* request headers and bodies
    max_upload_bytes,
    MAX_TEXT_FIELD_BYTES, \* 64 KiB
    HEADER_SCAN_BYTES,    \* 64 KiB
    MAX_RECORDED_AT_SKEW  \* 24 h

ASSUME SubmissionAssumption ==
    {max_upload_bytes, MAX_TEXT_FIELD_BYTES, HEADER_SCAN_BYTES,
     MAX_RECORDED_AT_SKEW} \subseteq Nat

\* What the parsers of the file and of the body produce: a part carries
\* everything a field of its name may carry.
RawTags == [tag : STRING, spelling : STRING]
RawClients == [name : STRING, fingerprint : STRING]
RawSinks == [name : STRING, type : STRING, url : STRING,
             secret_env : STRING, match_tags : Seq(RawTags)]
PartRecords == [name : STRING, size : Nat, utf8 : BOOLEAN, json : BOOLEAN,
                values : Seq(RawTags), parses : BOOLEAN, ahead : Nat,
                file : [markers : BOOLEAN, chunks : Seq(ChunkRecords)]]

ASSUME InputAssumption ==
    /\ \A r \in RawConfigs : /\ r.clients \in Seq(RawClients)
                             /\ r.sinks \in Seq(RawSinks)
    /\ \A r \in Requests : r.parts \in Seq(PartRecords)

VARIABLES
    raw,       \* the configuration file
    config,    \* the validated configuration, once there is one
    request,   \* the request: headers, parts, and whether the last is cut
    point,     \* where the process and the handler are
    at,        \* the part being read, 0 before the first
    left,      \* bytes of it still to come
    remaining, \* the byte budget that is left
    kept,      \* the fields read so far: audio, tags, recorded_at
    written,   \* bytes in the temp file
    buffered,  \* bytes of the text field in memory
    answer,    \* what the client is told
    sink       \* the routing decision

input == <<raw, request>>
reading == <<at, left, remaining, kept, written, buffered>>
vars == <<raw, config, request, point, reading, answer, sink>>

Part == request.parts[at]
IsText(part) == part.name \in {"tags", "recorded_at"}

Init ==
    /\ raw \in RawConfigs
    /\ request \in Requests
    /\ config = Err
    /\ point = "loading"
    /\ at = 0
    /\ left = 0
    /\ remaining = max_upload_bytes
    /\ kept = [audio |-> <<>>, tags |-> <<>>, recorded_at |-> <<>>]
    /\ written = 0
    /\ buffered = 0
    /\ answer = "none"
    /\ sink = "none"

\* The handler returns; on an error the temp file is removed.
Answer(with) ==
    /\ answer' = with
    /\ point' = "answered"
    /\ written' = IF with = "created" THEN written ELSE 0
    /\ buffered' = 0
    /\ UNCHANGED <<config, at, left, remaining, kept, sink>>
-----------------------------------------------------------------------------
\* Startup: a configuration that does not validate stops the process.
Load ==
    /\ point = "loading"
    /\ config' = validate(raw)
    /\ point' = IF config'.ok THEN "listening" ELSE "refused"
    /\ UNCHANGED <<reading, answer, sink>>

\* The headers, before the body is touched.
Identify ==
    /\ point = "listening"
    /\ IF request.fingerprint = ""
       THEN Answer("missing_client_identity")
       ELSE IF ~client_by_fingerprint(config.value, request.fingerprint).ok
       THEN Answer("unknown_client")
       ELSE IF request.client_recording_id = ""
       THEN Answer("missing_recording_id")
       ELSE /\ point' = "between_fields"
            /\ UNCHANGED <<config, reading, answer, sink>>

\* next_field(): the next part begins.
NextField ==
    /\ point = "between_fields"
    /\ at < Len(request.parts)
    /\ LET next == request.parts[at + 1]
       IN  IF next.name = "audio" /\ kept.audio # <<>>
           THEN Answer("multiple_audio")
           ELSE /\ point' = "in_field"
                /\ at' = at + 1
                /\ left' = next.size
                /\ UNCHANGED <<config, remaining, kept, written, buffered,
                               answer, sink>>

Fits(bytes) == bytes <= remaining

\* Seeded bug: text fields are not charged, they have a cap of their own.
SeededCharged(bytes) ==
    IF IsText(Part) THEN remaining ELSE remaining - bytes

\* charge(): the budget left after bytes more.
Charged(bytes) == remaining - bytes

\* The next piece of the field.
Chunk(bytes) ==
    /\ point = "in_field"
    /\ bytes \in 1..left
    /\ IF \/ ~Fits(bytes)
          \/ IsText(Part) /\ buffered + bytes > MAX_TEXT_FIELD_BYTES
       THEN Answer("payload_too_large")
       ELSE /\ remaining' = Charged(bytes)
            /\ left' = left - bytes
            /\ written' = IF Part.name = "audio"
                          THEN written + bytes
                          ELSE written
            /\ buffered' = IF IsText(Part)
                           THEN buffered + bytes
                           ELSE buffered
            /\ UNCHANGED <<config, point, at, kept, answer, sink>>

\* The field ends, or the body does where it should not.
EndField ==
    /\ point = "in_field"
    /\ left = 0
    /\ IF \/ request.cut /\ at = Len(request.parts)
          \/ IsText(Part) /\ ~Part.utf8
       THEN Answer("invalid_multipart")
       ELSE /\ kept' = IF Part.name \in DOMAIN kept
                       THEN [kept EXCEPT ![Part.name] = <<Part>>]
                       ELSE kept
            /\ buffered' = 0
            /\ point' = "between_fields"
            /\ UNCHANGED <<config, at, left, remaining, written, answer,
                           sink>>
-----------------------------------------------------------------------------
(* The end of the body.                                                    *)

parse_tags(tags) ==
    IF tags = <<>> THEN Ok(<<>>)
    ELSE IF tags[1].json THEN NewTags(tags[1].values) ELSE Err

\* The bytes at hand: read_leading_bytes().
Leading(audio) ==
    IF audio.size <= HEADER_SCAN_BYTES THEN audio.size ELSE HEADER_SCAN_BYTES

\* The checks in their order; the first that fails is the answer.
Checks ==
    LET audio == kept.audio
        recorded_at == kept.recorded_at
    IN  <<[fails |-> audio = <<>>, error |-> "missing_audio"],
          [fails |-> ~parse_tags(kept.tags).ok, error |-> "invalid_tags"],
          [fails |-> recorded_at # <<>> /\ ~recorded_at[1].parses,
           error |-> "invalid_recorded_at"],
          [fails |-> /\ recorded_at # <<>>
                     /\ recorded_at[1].ahead > MAX_RECORDED_AT_SKEW,
           error |-> "recorded_at_in_future"],
          [fails |-> audio # <<>>
                     /\ ~Parses(audio[1].file, Leading(audio[1])),
           error |-> "unsupported_audio"]>>

EndBody ==
    /\ point = "between_fields"
    /\ at = Len(request.parts)
    /\ LET failed == {i \in DOMAIN Checks : Checks[i].fails}
       IN  Answer(IF request.cut THEN "invalid_multipart"
                  ELSE IF failed # {} THEN Checks[Min(failed)].error
                  ELSE "created")

\* What is stored of the fields.
tags == parse_tags(kept.tags).value
audio_duration_ms == duration_ms(kept.audio[1].file, Leading(kept.audio[1]))

\* The routing worker, once there is a Transcript.
Route ==
    /\ point = "answered"
    /\ answer = "created"
    /\ point' = "routed"
    /\ sink' = route(routing_rules(config.value), tags)
    /\ UNCHANGED <<config, reading, answer>>

Next ==
    /\ \/ Load \/ Identify \/ NextField
       \/ \E bytes \in 1..left : Chunk(bytes)
       \/ EndField \/ EndBody \/ Route
    /\ UNCHANGED input

Spec == Init /\ [][Next]_vars
-----------------------------------------------------------------------------
(* What the handler ought to answer, said of the whole body at once and    *)
(* without the pieces it came in.                                          *)

Positions == DOMAIN request.parts
PartAt(i) == request.parts[i]
Named(name) == {i \in Positions : PartAt(i).name = name}
Texts(values) == {values[i].tag : i \in DOMAIN values}

AllDistinct(entries, field) ==
    \A i, j \in DOMAIN entries :
        entries[i][field] = entries[j][field] => i = j

AcceptableTags(values) ==
    /\ Texts(values) \subseteq ValidTags
    /\ Cardinality(Texts(values)) <= MAX_TAGS

WellFormed ==
    /\ AllDistinct(raw.clients, "name")
    /\ AllDistinct(raw.clients, "fingerprint")
    /\ AllDistinct(raw.sinks, "name")
    /\ \A i \in DOMAIN raw.clients :
            "" \notin {raw.clients[i].name, raw.clients[i].fingerprint}
    /\ \A i \in DOMAIN raw.sinks :
            /\ "" \notin {raw.sinks[i].name, raw.sinks[i].secret_env}
            /\ raw.sinks[i].type = "webhook"
            /\ raw.sinks[i].url = "http"
            /\ AcceptableTags(raw.sinks[i].match_tags)
    /\ "" \notin {raw.username, raw.password_hash_env, raw.api_key_env}

\* Where each chunk of the file ends and the next begins, and whether the
\* header scan meets a chunk.
Ends(file) ==
    LET end[i \in 0..Len(file.chunks)] ==
            IF i = 0 THEN RIFF_LEN
            ELSE end[i - 1] + CHUNK_HEAD_LEN
                     + 2 * ((file.chunks[i].size + 1) \div 2)
    IN  end

Seen(audio, id) ==
    {i \in DOMAIN audio.file.chunks :
        /\ audio.file.chunks[i].id = id
        /\ Ends(audio.file)[i - 1] + CHUNK_HEAD_LEN <= Leading(audio)
        /\ \A j \in 1..(i - 1) : audio.file.chunks[j].id # "data"}

AcceptableAudio(audio) ==
    /\ audio.file.markers
    /\ Leading(audio) >= RIFF_LEN
    /\ Seen(audio, "fmt") # {}
    /\ \A i \in Seen(audio, "fmt") :
            Ends(audio.file)[i - 1] + CHUNK_HEAD_LEN + FMT_BODY_LEN
                <= Leading(audio)

SpecifiedDuration(audio) ==
    LET fmt == audio.file.chunks[Max(Seen(audio, "fmt"))]
        data == Seen(audio, "data")
    IN  IF data = {} \/ fmt.byte_rate = 0
        THEN 0
        ELSE (audio.file.chunks[Min(data)].size * 1000) \div fmt.byte_rate

\* The bytes of the first i parts.
Sent ==
    LET sent[i \in 0..Len(request.parts)] ==
            IF i = 0 THEN 0 ELSE sent[i - 1] + PartAt(i).size
    IN  sent

\* What is wrong with the part at position i, given those before it.
SecondAudio(i) == i \in Named("audio") /\ \E j \in Named("audio") : j < i
TooLarge(i) ==
    \/ Sent[i] > max_upload_bytes
    \/ IsText(PartAt(i)) /\ PartAt(i).size > MAX_TEXT_FIELD_BYTES
Unreadable(i) ==
    \/ request.cut /\ i = Len(request.parts)
    \/ IsText(PartAt(i)) /\ ~PartAt(i).utf8

Refused ==
    {i \in Positions : SecondAudio(i) \/ TooLarge(i) \/ Unreadable(i)}

\* The last field of its name counts.
LastNamed(name) == PartAt(Max(Named(name)))

SpecifiedAnswer ==
    IF request.fingerprint = ""
    THEN "missing_client_identity"
    ELSE IF \A i \in DOMAIN raw.clients :
                raw.clients[i].fingerprint # request.fingerprint
    THEN "unknown_client"
    ELSE IF request.client_recording_id = ""
    THEN "missing_recording_id"
    ELSE IF Refused # {}
    THEN LET i == Min(Refused)
         IN  IF SecondAudio(i) THEN "multiple_audio"
             ELSE IF TooLarge(i) THEN "payload_too_large"
             ELSE "invalid_multipart"
    ELSE IF request.cut
    THEN "invalid_multipart"
    ELSE IF Named("audio") = {}
    THEN "missing_audio"
    ELSE IF /\ Named("tags") # {}
            /\ \/ ~LastNamed("tags").json
               \/ ~AcceptableTags(LastNamed("tags").values)
    THEN "invalid_tags"
    ELSE IF Named("recorded_at") # {} /\ ~LastNamed("recorded_at").parses
    THEN "invalid_recorded_at"
    ELSE IF /\ Named("recorded_at") # {}
            /\ LastNamed("recorded_at").ahead > MAX_RECORDED_AT_SKEW
    THEN "recorded_at_in_future"
    ELSE IF ~AcceptableAudio(LastNamed("audio"))
    THEN "unsupported_audio"
    ELSE "created"

SentTags ==
    IF Named("tags") = {} THEN {} ELSE Texts(LastNamed("tags").values)

\* The first Sink of the file that shares a tag, whatever their spelling.
SpecifiedSink ==
    LET sharing == {i \in DOMAIN raw.sinks :
                        Texts(raw.sinks[i].match_tags) \cap SentTags # {}}
    IN  IF sharing = {} THEN "backlog" ELSE raw.sinks[Min(sharing)].name
-----------------------------------------------------------------------------
(* Properties.                                                             *)

\* Whatever the body sends and in whatever pieces, no more bytes are on disk
\* and in memory than the budget has paid for, no text field outgrows its
\* cap, and an error leaves nothing behind: the limit counts every field,
\* the ignored ones included, and is never overdrawn.
BudgetHeld ==
    /\ remaining \in 0..max_upload_bytes
    /\ written + buffered <= max_upload_bytes - remaining
    /\ buffered <= MAX_TEXT_FIELD_BYTES
    /\ answer \notin {"none", "created"} => written + buffered = 0

\* The process starts exactly with a well-formed configuration.  The answer
\* to a body, the stored tags and duration and the Sink are those the body
\* and the file as a whole determine: they do not depend on the pieces the
\* body came in, on how a tag was spelled or repeated, or on padding between
\* the chunks of the audio.
DecidedAsSpecified ==
    /\ point # "loading" => (point = "refused" <=> ~WellFormed)
    /\ answer # "none" => answer = SpecifiedAnswer
    /\ answer = "created" =>
            /\ written = LastNamed("audio").size
            /\ ToSet(tags) = SentTags
            /\ Len(tags) = Cardinality(SentTags)
            /\ audio_duration_ms = SpecifiedDuration(LastNamed("audio"))
    /\ point = "routed" => sink = SpecifiedSink
=============================================================================
