--------------------------- MODULE Configuration ---------------------------
(***************************************************************************)
(* Tags (src/domain.rs), the validation of the configuration file          *)
(* (src/config.rs) and the Routing Rules derived from it (src/routing.rs). *)
(* Each is a pure function; module Submission uses them and states what    *)
(* they ought to compute.                                                  *)
(*                                                                         *)
(* A raw tag is a record: the text it normalises to (trimmed, in lower     *)
(* case) and the spelling it came in.  "" stands for a blank or absent     *)
(* text.                                                                   *)
(***************************************************************************)
EXTENDS Naturals, Sequences, SequencesExt, FiniteSetsExt

CONSTANTS
    MAX_TAGS,   \* 16
    ValidTags   \* the normal forms is_valid_tag() accepts

ASSUME TagsAssumption == MAX_TAGS \in Nat

\* Result<T, E>; which error it is does not matter here.
Ok(value) == [ok |-> TRUE, value |-> value]
Err == [ok |-> FALSE]

is_valid_tag(tag) == tag \in ValidTags

\* Trim, lower case, and drop what was seen before.
AddTag(seen, item) ==
    IF Contains(seen, item.tag) THEN seen ELSE Append(seen, item.tag)

\* The tags kept of each prefix of the list.
Normalizing(raw) ==
    LET seen[i \in 0..Len(raw)] ==
            IF i = 0 THEN <<>> ELSE AddTag(seen[i - 1], raw[i])
    IN  seen

Normalized(raw) == Normalizing(raw)[Len(raw)]

\* Tags::new
NewTags(raw) ==
    LET normalized == Normalized(raw)
    IN  IF /\ Len(normalized) <= MAX_TAGS
           /\ \A i \in DOMAIN normalized : is_valid_tag(normalized[i])
        THEN Ok(normalized)
        ELSE Err

intersects(tags, other) == ToSet(tags) \cap ToSet(other) # {}
-----------------------------------------------------------------------------
Taken(accepted, field, value) ==
    \E i \in DOMAIN accepted : accepted[i][field] = value

AddClient(clients, client) ==
    IF /\ clients.ok
       /\ client.name # "" /\ client.fingerprint # ""
       /\ ~Taken(clients.value, "name", client.name)
       /\ ~Taken(clients.value, "fingerprint", client.fingerprint)
    THEN Ok(Append(clients.value, client))
    ELSE Err

AcceptingClients(raw) ==
    LET accepted[i \in 0..Len(raw)] ==
            IF i = 0 THEN Ok(<<>>) ELSE AddClient(accepted[i - 1], raw[i])
    IN  accepted

validate_clients(raw) == AcceptingClients(raw)[Len(raw)]

AddSink(sinks, sink) ==
    LET match_tags == NewTags(sink.match_tags)
    IN  IF /\ sinks.ok
           /\ sink.name # ""
           /\ ~Taken(sinks.value, "name", sink.name)
           /\ sink.type = "webhook"
           /\ sink.url = "http"
           /\ sink.secret_env # ""
           /\ match_tags.ok
        THEN Ok(Append(sinks.value, [sink EXCEPT !.match_tags =
                                         match_tags.value]))
        ELSE Err

AcceptingSinks(raw) ==
    LET accepted[i \in 0..Len(raw)] ==
            IF i = 0 THEN Ok(<<>>) ELSE AddSink(accepted[i - 1], raw[i])
    IN  accepted

validate_sinks(raw) == AcceptingSinks(raw)[Len(raw)]

\* The operator's and the provider's settings, all of them required.
validate_settings(raw) ==
    raw.username # "" /\ raw.password_hash_env # "" /\ raw.api_key_env # ""

\* AppConfig::from_toml_str after the parser.
validate(raw) ==
    LET clients == validate_clients(raw.clients)
        sinks == validate_sinks(raw.sinks)
    IN  IF clients.ok /\ sinks.ok /\ validate_settings(raw)
        THEN Ok([clients |-> clients.value, sinks |-> sinks.value])
        ELSE Err

\* Find the Client; the identity of a Recording's owner is its name.
client_by_fingerprint(config, fingerprint) ==
    LET known == {i \in DOMAIN config.clients :
                      config.clients[i].fingerprint = fingerprint}
    IN  IF known = {} THEN Err ELSE Ok(config.clients[Min(known)].name)

\* One rule per Sink, in the file's order.
routing_rules(config) ==
    [i \in DOMAIN config.sinks |->
        [sink_name |-> config.sinks[i].name,
         match_tags |-> config.sinks[i].match_tags]]

\* The first rule that matches, or the Backlog.
route(rules, tags) ==
    LET matching == {i \in DOMAIN rules :
                         intersects(rules[i].match_tags, tags)}
    IN  IF matching = {} THEN "backlog" ELSE rules[Min(matching)].sink_name
=============================================================================
