---------------------------- MODULE CommandLine -----------------------------
(* The command line (crates/gitlore/src/cli.rs, main.rs, output/) and the      *)
(* error catalogue (core/error.rs): which handler a command gets, what it      *)
(* prints on which stream, and how the process ends. No state.                 *)
(*                                                                             *)
(* A line is [form |-> "json", has |-> the keys] or [form |-> "text", of |->   *)
(* what it shows].                                                             *)
EXTENDS Integers, Sequences

LOCAL INSTANCE SequencesExt
LOCAL INSTANCE Functions

Text(what) == [form |-> "text", of |-> what]
Json(keys) == [form |-> "json", has |-> keys]

-----------------------------------------------------------------------------
(* Errors: a variant of Error and its code on the wire.                      *)

Variants ==
    {"NotARepo", "SchemaVersionTooNew", "LockContention", "ModelNotInstalled",
     "ModelDownloadFailed", "ModelShaMismatch", "ExtensionLoadFailed", "InvalidRef",
     "ShaNotFound", "ShaAmbiguousPrefix", "PathNotIndexed", "ConfigInvalidKey",
     "ConfigTypeMismatch", "Io", "Sqlite", "Git", "Unimplemented", "InvalidQuery",
     "IndexNotReady"}

Code(v) ==
    CASE v = "NotARepo" -> "not_a_repo" [] v = "SchemaVersionTooNew" -> "schema_version_too_new"
      [] v = "LockContention" -> "lock_contention" [] v = "InvalidRef" -> "invalid_ref"
      [] v = "ModelNotInstalled" -> "model_not_installed"
      [] v = "ModelDownloadFailed" -> "model_download_failed"
      [] v = "ModelShaMismatch" -> "model_sha_mismatch"
      [] v = "ExtensionLoadFailed" -> "extension_load_failed"
      [] v = "ShaNotFound" -> "sha_not_found" [] v = "PathNotIndexed" -> "path_not_indexed"
      [] v = "ShaAmbiguousPrefix" -> "sha_ambiguous_prefix"
      [] v = "ConfigInvalidKey" -> "config_invalid_key"
      [] v = "ConfigTypeMismatch" -> "config_type_mismatch" [] v = "Io" -> "io"
      [] v = "Sqlite" -> "sqlite" [] v = "Git" -> "git" [] v = "Unimplemented" -> "unimplemented"
      [] v = "InvalidQuery" -> "invalid_query" [] v = "IndexNotReady" -> "index_not_ready"

Ok(lines) == [ok |-> TRUE, lines |-> lines]
Err(variant) == [ok |-> FALSE, error |-> variant]

\* The line of an error; outside a repository it says what to do.
EmitError(variant, json) ==
    IF json THEN Json({"error"})
    ELSE IF variant = "NotARepo" THEN Text("run gitlore inside a repo") ELSE Text(variant)

-----------------------------------------------------------------------------
(* Commands. A command is [name, ...] with the arguments of its kind.        *)

Wired == {"index", "status", "identities", "classify", "search"}
Planned == {"story", "risk", "hotspots", "explain", "between", "setup-embeddings", "config get",
            "config set", "config list"}

\* clap refuses a dry run that rebuilds and a classification of both kinds.
Parses(cmd) ==
    /\ cmd.name = "index" => ~(cmd.dryRun /\ cmd.rebuild)
    /\ cmd.name = "classify" => ~(cmd.glob /\ cmd.explain)

\* `library` is what the library call of the handler returns: [ok, value] or an error;
\* `lines` is what the handler prints of its value.
Rendered(library, lines) == IF library.ok THEN Ok(lines) ELSE Err(library.error)

EmitIndexReport(report, json) ==
    IF json THEN <<Json({"commits_indexed", "commits_total", "ref_count", "duration_ms",
                         "watermark"})>>
    ELSE <<Text("report")>>

\* A dry run looks to a script like a run that indexed nothing, and says that it is none.
EmitDryRun(plan, json) ==
    IF json THEN <<Json({"commits_indexed", "commits_total", "ref_count", "duration_ms",
                         "watermark", "refs", "dry_run"})>>
    ELSE <<Text("plan")>> \o [i \in DOMAIN plan |-> Text(plan[i])]

RunIndex(cmd, library, json) ==
    IF cmd.dryRun THEN Rendered(library, EmitDryRun(library.value, json))
    ELSE Rendered(library, EmitIndexReport(library.value, json))

StatusKeys == <<"db_path", "schema_version", "commit_count", "db_size_bytes",
                "embeddings_enabled", "writer_lock">>
EmitStatus(report, json) ==
    IF json THEN <<Json(ToSet(StatusKeys) \cup {"model"})>>
    ELSE [i \in DOMAIN StatusKeys |-> Text(StatusKeys[i])]

EmitIdentities(rows, json) ==
    IF json THEN <<Json({"clustered_count", "raw_count", "identities"})>>
    ELSE <<Text("counts")>> \o [i \in DOMAIN rows |-> Text(rows[i])]

EmitClassifyGlob(files, json) ==
    IF json THEN <<Json({"glob", "matched_files", "category"})>>
    ELSE [i \in DOMAIN files |-> Text(files[i])]
EmitClassifyExplain(files, json) ==
    IF json THEN <<Json({"sha", "files"})>>
    ELSE [i \in DOMAIN files |-> Text(files[i])]

\* `git ls-files -z`: pieces between NULs, the empty ones left out.
ListFiles(git) ==
    IF git.code = 0 THEN [ok |-> TRUE, value |-> SelectSeq(git.out, LAMBDA p : p # "")]
    ELSE [ok |-> FALSE, error |-> "Git"]

\* --explain first, then the glob: one that does not compile, and a git that fails, end it.
RunClassify(cmd, library, git, json) ==
    CASE cmd.explain -> Rendered(library, EmitClassifyExplain(library.value, json))
      [] ~cmd.explain /\ ~cmd.glob -> Err("Unimplemented")
      [] OTHER -> IF ~cmd.compiles THEN Err("Io")
                  ELSE IF ~ListFiles(git).ok THEN Err(ListFiles(git).error)
                  ELSE Rendered(library, EmitClassifyGlob(library.value, json))

\* Only a search wraps its answer in the envelope of output/json.rs.
EmitSearch(hits, json) ==
    IF json THEN <<Json({"schema_version", "data"})>>
    ELSE [i \in DOMAIN hits |-> Text(hits[i])] \o <<Text("shown")>>

Dispatch(cmd, library, git, json) ==
    CASE cmd.name = "index" -> RunIndex(cmd, library, json)
      [] cmd.name = "status" -> Rendered(library, EmitStatus(library.value, json))
      [] cmd.name = "identities" -> Rendered(library, EmitIdentities(library.value, json))
      [] cmd.name = "classify" -> RunClassify(cmd, library, git, json)
      [] cmd.name = "search" -> Rendered(library, EmitSearch(library.value, json))
      [] cmd.name \in Planned -> Err("Unimplemented")

\* Lines of progress, one a second, on stderr; never with --json, and otherwise on a
\* terminal or on demand.
Progress(cmd, json, tty, always) ==
    IF cmd.name = "index" /\ ~cmd.dryRun /\ ~json /\ (tty \/ always)
    THEN {Text("progress")} ELSE {}

\* run and main: an error is printed once, in the form asked for, and any error is exit 1.
Process(cmd, library, git, json, tty, always) ==
    LET outcome == Dispatch(cmd, library, git, json)
        line == EmitError(outcome.error, json)
    IN  IF outcome.ok
        THEN [out |-> outcome.lines, err |-> Progress(cmd, json, tty, always), exit |-> 0]
        ELSE [out |-> IF json THEN <<line>> ELSE << >>,
              err |-> (IF json THEN {} ELSE {line}) \cup Progress(cmd, json, tty, always),
              exit |-> 1]

-----------------------------------------------------------------------------
(* The terminal around the UI. `fails` is the set of calls that fail.        *)

Plain == [raw |-> FALSE, alternate |-> FALSE]

\* TerminalGuard::install: the guard exists only after the last call.
Install(fails) ==
    CASE "raw mode" \in fails -> [armed |-> FALSE, terminal |-> Plain]
      [] "raw mode" \notin fails /\ "alternate" \in fails ->
            [armed |-> FALSE, terminal |-> [Plain EXCEPT !.raw = TRUE]]
      [] fails \cap {"raw mode", "alternate"} = {} ->
            [armed |-> "size" \notin fails, terminal |-> [raw |-> TRUE, alternate |-> TRUE]]

\* restore: disarmed first, so that Drop does not try again what failed.
Restore(terminal, fails) ==
    IF "cooked mode" \in fails THEN terminal
    ELSE [raw |-> FALSE, alternate |-> terminal.alternate /\ "leave" \in fails]

\* However the loop ends, by a key, an error or a panic, an installed guard is restored;
\* the error goes to main, which prints nothing.
RunTui(fails) ==
    LET installed == Install(fails)
    IN  [terminal |-> IF installed.armed THEN Restore(installed.terminal, fails)
                      ELSE installed.terminal,
         exit |-> IF fails = {} THEN 0 ELSE 1, printed |-> << >>]

-----------------------------------------------------------------------------
(* Cells of a search hit.                                                    *)

ShouldUseColor(flag, noColor, tty) == ~flag /\ noColor \in {"unset", ""} /\ tty

Truncate(chars, max) ==
    IF Len(chars) <= max THEN chars ELSE SubSeq(chars, 1, max - 3) \o <<".", ".", ".">>

\* The day, in the Gregorian calendar, of a second since 1970.
UnixTsToDate(ts) ==
    LET jdn == (ts \div 86400) + 2440588
        f == jdn + 1401 + (((((4 * jdn) + 274277) \div 146097) * 3) \div 4) - 38
        e == (4 * f) + 3
        h == (5 * ((e % 1461) \div 4)) + 2
        month == (((h \div 153) + 2) % 12) + 1
        year == (e \div 1461) - 4716 + ((14 - month) \div 12)
    IN  IF ts < 0 THEN <<"?", "?", "?">>
        ELSE <<year, month, ((h % 153) \div 5) + 1>>

=============================================================================
