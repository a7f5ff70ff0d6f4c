------------------------------- MODULE Config -------------------------------
(* Configuration (core/config/mod.rs): two TOML files, merged key by key, and *)
(* decoded against a schema in which every field has a default. No state.     *)
(*                                                                            *)
(* A value is a table or a leaf. Numbers of leaves stand for themselves, and  *)
(* decimal fractions for their hundredths; 0 and 1 are false and true; texts  *)
(* and lists are numbered, and Builtin is the list the source gives. A leaf   *)
(* that is absent, None in the source, is Unset.                              *)
EXTENDS Integers, FiniteSets

Builtin == 0
Unset == -1

Table(f) == [kind |-> "table", keys |-> f]
Leaf(kind, n) == [kind |-> kind, is |-> n]
Field(kind, n) == [kind |-> "field", type |-> kind, default |-> n]

IsTable(v) == v.kind = "table"

-----------------------------------------------------------------------------
(* The schema, with its defaults.                                            *)

IndexConfig ==
    Table([include_remote_refs |-> Field("bool", 1), include_tags |-> Field("bool", 1),
           max_initial_commits |-> Field("int", 50000)])

Bm25Weights ==
    Table([subject |-> Field("float", 400), body |-> Field("float", 100),
           expanded |-> Field("float", 150), paths |-> Field("float", 200)])

SearchConfig ==
    Table([default_limit |-> Field("int", 50), soft_cap |-> Field("int", 1000),
           recency_half_life_days |-> Field("int", 180), bm25 |-> Bm25Weights])

StoryConfig ==
    Table([coherence_threshold |-> Field("float", 50), time_window_hours |-> Field("int", 24),
           require_author_overlap |-> Field("bool", 0)])

RiskWeights ==
    Table([files |-> Field("float", 20), dirs |-> Field("float", 15),
           infra |-> Field("float", 20), tests |-> Field("float", 15),
           churn |-> Field("float", 15), revert |-> Field("float", 10),
           release |-> Field("float", 5)])
RiskLabelCutoffs == Table([medium |-> Field("float", 34), high |-> Field("float", 67)])
RiskConfig == Table([weights |-> RiskWeights, label_cutoffs |-> RiskLabelCutoffs])

OwnershipConfig ==
    Table([recency_half_life_days |-> Field("int", 365), coauthor_weight |-> Field("float", 50),
           top_n |-> Field("int", 5), include_bots |-> Field("bool", 0)])

KeysConfig ==
    Table([k \in {"help", "focus_search", "submit", "clear"} |-> Field("char", Unset)])
\* Auto, Light, Dark.
Theme == 0 .. 2
TuiConfig ==
    Table([theme |-> Field("theme", 0), color_blind_safe |-> Field("bool", 0),
           mouse |-> Field("bool", 0), keys |-> KeysConfig])

ClassificationConfig ==
    Table([k \in {"test_globs", "config_globs", "infra_globs", "bot_authors"} |->
              Field("list", Builtin)])

Schema ==
    Table([index |-> IndexConfig, search |-> SearchConfig, story |-> StoryConfig,
           risk |-> RiskConfig, ownership |-> OwnershipConfig, tui |-> TuiConfig,
           classification |-> ClassificationConfig])

-----------------------------------------------------------------------------
(* Decoding. An error is the key it names, [error |-> ...]; the rest is a     *)
(* table of leaves with all fields of the schema.                            *)

Failure(what) == [kind |-> "error", of |-> what]
Failed(v) == v.kind = "error"

\* serde: an integer may stand for a fraction, a number of days is not negative, a theme is
\* one of three words and a key binding is one character.
Accepts(type, leaf) ==
    CASE type = "int" -> leaf.kind = "int" /\ leaf.is >= 0
      [] type = "float" -> leaf.kind \in {"float", "int"}
      [] type = "theme" -> leaf.kind = "text" /\ leaf.is \in Theme
      [] type = "char" -> leaf.kind = "char"
      [] type = "bool" -> leaf.kind = "bool"
      [] type = "list" -> leaf.kind = "list"

DecodeField(field, v) ==
    IF IsTable(v) \/ ~Accepts(field.type, v) THEN Failure("type")
    ELSE IF field.type = "float" /\ v.kind = "int" THEN Leaf("float", 100 * v.is)
    ELSE v

\* The value of a field or section that is absent: `default` all the way down.
RECURSIVE Defaults(_)
Defaults(schema) ==
    IF IsTable(schema) THEN Table([k \in DOMAIN schema.keys |-> Defaults(schema.keys[k])])
    ELSE Leaf(schema.type, schema.default)

RECURSIVE Decode(_, _)
Decode(schema, v) ==
    IF ~IsTable(schema) THEN DecodeField(schema, v)
    ELSE IF ~IsTable(v) THEN Failure("type")
    ELSE IF ~(DOMAIN v.keys \subseteq DOMAIN schema.keys) THEN Failure("unknown key")
    ELSE LET parts == [k \in DOMAIN schema.keys |->
                 IF k \in DOMAIN v.keys THEN Decode(schema.keys[k], v.keys[k])
                 ELSE Defaults(schema.keys[k])]
             bad == {k \in DOMAIN parts : Failed(parts[k])}
         IN  IF bad = {} THEN Table(parts) ELSE parts[CHOOSE k \in bad : TRUE]

-----------------------------------------------------------------------------
(* Files.                                                                    *)

\* deep_merge: tables key by key; anything else of the override replaces.
RECURSIVE DeepMerge(_, _)
DeepMerge(base, override) ==
    IF ~(IsTable(base) /\ IsTable(override)) THEN override
    ELSE Table([k \in DOMAIN base.keys \cup DOMAIN override.keys |->
             IF k \notin DOMAIN override.keys THEN base.keys[k]
             ELSE IF k \notin DOMAIN base.keys THEN override.keys[k]
             ELSE DeepMerge(base.keys[k], override.keys[k])])

\* A file is absent, unreadable, malformed, or a table.
Absent == [kind |-> "absent", of |-> 0]
IsAbsent(file) == file.kind = "absent"
Unreadable == Failure("io")
Malformed == Failure("parse")
ReadTomlValue(file) == file

\* $XDG_CONFIG_HOME if it is set and not empty, else $HOME/.config, else nothing.
UserGlobalConfigPath(env) ==
    CASE env.xdg \notin {"unset", ""} -> [under |-> "xdg", dir |-> env.xdg]
      [] env.xdg \in {"unset", ""} /\ env.home # "unset" -> [under |-> ".config", dir |-> env.home]
      [] OTHER -> [under |-> "none"]

\* The files are read in order, and the first error wins; only what is merged is decoded.
LoadFromPaths(user, repo) ==
    IF Failed(ReadTomlValue(user)) THEN user
    ELSE IF Failed(ReadTomlValue(repo)) THEN repo
    ELSE IF IsAbsent(user) /\ IsAbsent(repo) THEN Defaults(Schema)
    ELSE Decode(Schema, IF IsAbsent(repo) THEN user
                        ELSE IF IsAbsent(user) THEN repo ELSE DeepMerge(user, repo))

\* Indexer::open_with_provider reports an error; run_tui takes the defaults of the tui
\* section instead, and commands that search never look.
ConfigOfIndexer(user, repo) == LoadFromPaths(user, repo)
ConfigOfTui(isRepo, user, repo) ==
    LET loaded == LoadFromPaths(user, repo)
    IN  IF isRepo /\ ~Failed(loaded) THEN loaded.keys["tui"] ELSE Defaults(TuiConfig)

=============================================================================
