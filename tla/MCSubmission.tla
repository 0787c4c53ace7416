---------------------------- MODULE MCSubmission ----------------------------
(***************************************************************************)
(* Instances of Submission for TLC: configuration files, and bodies of up  *)
(* to three parts, around every limit.  Sizes are scaled: see              *)
(* Submission.cfg.                                                         *)
(***************************************************************************)
EXTENDS Submission

Tag(tag, spelling) == [tag |-> tag, spelling |-> spelling]
A == Tag("a", "plain")
PaddedA == Tag("a", " A ")
B == Tag("b", "plain")
C == Tag("c", "plain")
Bad == Tag("no good", "plain")

\* A part with everything a field of its name may carry.
Blank == [name |-> "other", size |-> 1, utf8 |-> TRUE, json |-> TRUE,
          values |-> <<>>, parses |-> TRUE, ahead |-> 0,
          file |-> [markers |-> FALSE, chunks |-> <<>>]]

Fmt(size, rate) == [id |-> "fmt", size |-> size, byte_rate |-> rate]
Data(size) == [id |-> "data", size |-> size]
Other(size) == [id |-> "other", size |-> size]

Audio(size, chunks) ==
    [Blank EXCEPT !.name = "audio", !.size = size,
                  !.file = [markers |-> TRUE, chunks |-> chunks]]

\* RIFF_LEN 2, CHUNK_HEAD_LEN 1, FMT_BODY_LEN 2, HEADER_SCAN_BYTES 8.
AudioParts ==
    {Audio(6, <<Fmt(2, 2), Data(40)>>),           \* data cut off
     Audio(5, <<Fmt(2, 2)>>),                     \* no data
     Audio(4, <<Fmt(2, 2)>>),                     \* fmt cut off
     Audio(1, <<>>),                              \* shorter than the markers
     Audio(6, <<Fmt(2, 0), Data(40)>>),           \* no byte rate
     Audio(6, <<Data(3), Fmt(2, 2)>>),            \* data first
     Audio(8, <<Other(1), Fmt(2, 2), Data(4)>>),  \* the scan ends in padding
     Audio(9, <<Other(0), Fmt(2, 2), Data(4)>>),  \* beyond the scan
     Audio(9, <<Fmt(2, 2), Fmt(2, 1), Data(1)>>), \* two fmt chunks
     [Audio(6, <<Fmt(2, 2), Data(40)>>) EXCEPT !.file.markers = FALSE]}

TagsPart(size, values) ==
    [Blank EXCEPT !.name = "tags", !.size = size, !.values = values]

TagsParts ==
    {TagsPart(1, <<>>), TagsPart(2, <<A>>), TagsPart(3, <<PaddedA, B, A>>),
     TagsPart(3, <<B, PaddedA>>), TagsPart(3, <<A, B, C>>),
     TagsPart(2, <<A, Bad>>), TagsPart(4, <<A>>),
     [TagsPart(2, <<A>>) EXCEPT !.json = FALSE],
     [TagsPart(2, <<A>>) EXCEPT !.utf8 = FALSE]}

TimeParts ==
    {[Blank EXCEPT !.name = "recorded_at", !.ahead = 1],
     [Blank EXCEPT !.name = "recorded_at", !.ahead = 2],
     [Blank EXCEPT !.name = "recorded_at", !.parses = FALSE],
     [Blank EXCEPT !.name = "recorded_at", !.size = 4]}

OtherParts == {Blank, [Blank EXCEPT !.size = 5]}

Fields == TagsParts \cup TimeParts \cup OtherParts
Parts == AudioParts \cup Fields

Bodies ==
    {<<>>} \cup {<<p>> : p \in Parts} \cup (Parts \X Parts)
    \cup (Fields \X AudioParts \X Fields)
    \cup (AudioParts \X Fields \X Fields)

Headers == {<<"", "key">>, <<"f1", "">>, <<"f3", "key">>}

MCRequests ==
    {[fingerprint |-> "f1", client_recording_id |-> "key", parts |-> b,
      cut |-> c] : b \in Bodies, c \in BOOLEAN}
    \cup {[fingerprint |-> h[1], client_recording_id |-> h[2],
           parts |-> <<Audio(5, <<Fmt(2, 2)>>)>>, cut |-> FALSE]
          : h \in Headers}

Client(name, fingerprint) == [name |-> name, fingerprint |-> fingerprint]
Hook(name, match_tags) ==
    [name |-> name, type |-> "webhook", url |-> "http",
     secret_env |-> "SECRET", match_tags |-> match_tags]

Config1 ==
    [clients |-> <<Client("c1", "f1"), Client("c2", "f2")>>,
     sinks |-> <<Hook("s1", <<B, B>>), Hook("s2", <<PaddedA, B>>)>>,
     username |-> "operator", password_hash_env |-> "HASH",
     api_key_env |-> "KEY"]

Config2 ==
    [Config1 EXCEPT !.sinks = <<Hook("s1", <<>>), Hook("s2", <<A>>),
                                Hook("s3", <<B, A>>)>>]

MCRawConfigs ==
    {Config1, Config2,
     [Config1 EXCEPT !.clients[2].name = "c1"],
     [Config1 EXCEPT !.clients[2].fingerprint = "f1"],
     [Config1 EXCEPT !.clients[1].fingerprint = ""],
     [Config1 EXCEPT !.sinks[2].name = "s1"],
     [Config1 EXCEPT !.sinks[2].url = "other"],
     [Config1 EXCEPT !.sinks[1].type = "other"],
     [Config1 EXCEPT !.sinks[1].secret_env = ""],
     [Config1 EXCEPT !.sinks[1].match_tags = <<Bad>>],
     [Config1 EXCEPT !.sinks[2].match_tags = <<A, B, C>>],
     [Config1 EXCEPT !.username = ""],
     [Config1 EXCEPT !.api_key_env = ""]}
=============================================================================
