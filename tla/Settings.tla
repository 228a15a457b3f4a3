------------------------------ MODULE Settings ------------------------------
(***************************************************************************)
(* How settings are put together at start-up (_envconfig and the from_env  *)
(* loaders): the defaults of a model, a JSON blob over them, and scalars   *)
(* of the environment over both, then validation.                          *)
(*                                                                         *)
(* A configuration has a scalar "top" and one section, the scout's, with   *)
(* the fields "a" and "b"; the other sections are loaded the same way.     *)
(* Raw values are named by what a caster makes of them: "good", "bad", the *)
(* empty string, or "far", well-formed but out of the field's bounds.  A   *)
(* value is [from, of]: the layer it came from and the raw value.          *)
(***************************************************************************)
VARIABLE seQuery   \* the kinds of the fields, the blob and the environment

Kinds == {"bool", "number", "text", "list"}
Raws == {"good", "bad", "empty", "far"}
Fields == {"a", "b"}
Partial(keys, values) == UNION {[ks -> values] : ks \in SUBSET keys}

\* The blob: none, not JSON, or a mapping; its section may be absent, or not a mapping.
Blobs ==
    [kind : {"none", "malformed"}, top : {"absent"}, section : {<<>>}]
    \cup [kind : {"mapping"}, top : {"absent", "good", "bad"},
          section : Partial(Fields, {"good", "bad", "far"})]
    \cup [kind : {"no_section"}, top : {"absent"}, section : {<<>>}]

Queries == [kind : Kinds, blob : Blobs, env : Partial({"top", "a", "b"}, Raws)]

Init == seQuery \in Queries

-----------------------------------------------------------------------------
(* _envconfig.py and _parsing.py *)

\* caster_for, and what its caster accepts: an empty bool is False, an empty list is empty,
\* any text is text, and there is no empty number.
Casts(kind, raw) ==
    \/ raw \in {"good", "far"}
    \/ (raw = "empty" /\ kind # "number")
    \/ raw = "bad" /\ kind = "text"

\* What the model's validation makes of a cast value, or of a blob's.
Valid(kind, raw) == raw = "good" \/ (raw = "empty" /\ kind # "number")

Default == [from |-> "default", of |-> "good"]

\* merge_config_json
BlobFails(blob) == blob.kind = "malformed"

\* apply_overrides: each key that is present, though it be empty, goes over what is there.
Overlaid(data, keys, env) ==
    [k \in DOMAIN data \cup (keys \cap DOMAIN env) |->
        IF k \in keys \cap DOMAIN env THEN [from |-> "env", of |-> env[k]] ELSE data[k]]

FromBlob(blob) == [k \in DOMAIN blob.section |-> [from |-> "blob", of |-> blob.section[k]]]

\* load_sections: a section of the blob is overlaid, not replaced.
Section(q) == Overlaid(FromBlob(q.blob), Fields, q.env)

Filled(data, keys) == [k \in keys |-> IF k \in DOMAIN data THEN data[k] ELSE Default]

Top(q) ==
    IF "top" \in DOMAIN q.env THEN [from |-> "env", of |-> q.env["top"]]
    ELSE IF q.blob.top = "absent" THEN Default ELSE [from |-> "blob", of |-> q.blob.top]

\* The top-level scalars of a node and of the commander have no bounds, or bounds that warn.
TopValid(q) == Valid(q.kind, Top(q).of) \/ Top(q).of = "far"

-----------------------------------------------------------------------------
(* The loaders: what they raise, and what they return otherwise *)

\* A scalar of the environment that its caster refuses ends the loading at once.
CastsAll(q, keys) == \A k \in keys \cap DOMAIN q.env : Casts(q.kind, q.env[k])

SectionFails(q) ==
    \/ BlobFails(q.blob) \/ q.blob.kind = "no_section"
    \/ ~CastsAll(q, Fields)
    \/ \E k \in Fields : ~Valid(q.kind, Filled(Section(q), Fields)[k].of)

\* ScoutConfig.from_env: the section alone.
ScoutConfig(q) == IF SectionFails(q) THEN {} ELSE {Filled(Section(q), Fields)}

\* NodeConfig.from_env: the scalar too.
NodeConfig(q) ==
    IF SectionFails(q) \/ ~CastsAll(q, {"top"}) \/ ~TopValid(q) THEN {}
    ELSE {[top |-> Top(q), section |-> Filled(Section(q), Fields)]}

\* CommanderConfig.from_env: a flat model.
CommanderConfig(q) ==
    IF BlobFails(q.blob) \/ ~CastsAll(q, {"top"}) \/ ~TopValid(q) THEN {} ELSE {Top(q)}

\* FpvSettings.from_env: the blob alone, but for one text whose empty value means unset.
FpvSettings(q) ==
    LET root == IF "a" \in DOMAIN q.env /\ q.env["a"] # "empty" THEN {"a"} ELSE {}
        data == Filled(Overlaid(FromBlob(q.blob), root, q.env), Fields)
    IN  IF \/ BlobFails(q.blob) \/ q.blob.kind = "no_section"
           \/ \E k \in Fields : data[k].from = "blob" /\ ~Valid(q.kind, data[k].of)
        THEN {} ELSE {data}

\* ServerConfig and AgentKnobs: the environment alone, with bounds in the casters.
ServerConfig(q) ==
    LET data == Filled(Overlaid(<<>>, Fields, q.env), Fields)
    IN  IF CastsAll(q, Fields) /\ \A k \in Fields : q.kind = "number" => data[k].of # "far"
        THEN {data} ELSE {}

\* Settings of jetson_yolo_gcs: a .env file, whose place the blob's section takes here, under
\* the environment.  Every value is validated as its field, and only a text may be empty.
DotenvValid(kind, raw) == raw = "good" \/ (raw = "empty" /\ kind = "text")
JetsonSettings(q) ==
    LET data == Filled(Section(q), Fields)
    IN  IF \A k \in Fields : DotenvValid(q.kind, data[k].of) THEN {data} ELSE {}

-----------------------------------------------------------------------------
(* Properties *)

\* The layer that is to win: the environment over the blob over the default.
Winner(q, k, inBlob) ==
    IF k \in DOMAIN q.env THEN "env" ELSE IF inBlob THEN "blob" ELSE "default"

\* In whatever layers a field is set, the topmost counts: a section that is set in part in
\* the environment keeps the rest of the blob, and what is set nowhere has its default.
LayersKept ==
    /\ \A c \in NodeConfig(seQuery) :
           /\ c.top.from = Winner(seQuery, "top", seQuery.blob.top # "absent")
           /\ \A k \in Fields :
                  c.section[k].from = Winner(seQuery, k, k \in DOMAIN seQuery.blob.section)
    /\ \A c \in ServerConfig(seQuery), k \in Fields : c[k].from = Winner(seQuery, k, FALSE)
    /\ \A c \in JetsonSettings(seQuery), k \in Fields :
           c[k].from = Winner(seQuery, k, k \in DOMAIN seQuery.blob.section)

\* A mistake does not pass for a default: settings that were accepted are valid, and no
\* variable that was set is passed over, but for the one whose empty value means unset.
MistakesSurface ==
    /\ \A c \in NodeConfig(seQuery), k \in Fields :
           Valid(seQuery.kind, c.section[k].of) /\ (k \in DOMAIN seQuery.env =>
               Casts(seQuery.kind, seQuery.env[k]) /\ c.section[k].of = seQuery.env[k])
    /\ \A c \in FpvSettings(seQuery) :
           c["a"].from # "env" /\ "a" \in DOMAIN seQuery.env => seQuery.env["a"] = "empty"

\* A configuration written for a node behaves the same when the scout runs by itself; what
\* the scout accepts, the node refuses for reasons of its own alone.
ScoutAsInNode ==
    /\ \A c \in NodeConfig(seQuery) : ScoutConfig(seQuery) = {c.section}
    /\ ScoutConfig(seQuery) # {} /\ NodeConfig(seQuery) = {} =>
           ~TopValid(seQuery) \/ ~CastsAll(seQuery, {"top"})
=============================================================================
