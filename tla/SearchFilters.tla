--------------------------- MODULE SearchFilters ----------------------------
(* What a search filter and a query text become before SQL sees them         *)
(* (core/search/filters.rs, lexical.rs, types.rs). No state.                 *)
(*                                                                           *)
(* A text of --since and --until is [ref, form, at]: whether git knows it as *)
(* a commit, what else it reads as, and the second or day it names. A query  *)
(* is a sequence of characters, of which only a few are told apart.          *)
EXTENDS Integers, Sequences

LOCAL INSTANCE SequencesExt

Ok(value) == [ok |-> TRUE, value |-> value]
Err(variant) == [ok |-> FALSE, error |-> variant]

-----------------------------------------------------------------------------
(* resolve_timestamp.                                                        *)

Providers == {"none", "git", "hung git"}

\* GitCliProvider::rev_parse: what is no commit is ShaNotFound, not InvalidRef.
RevParse(provider, text) ==
    CASE provider = "hung git" -> Err("Git")
      [] provider = "git" -> IF text.ref THEN Ok("sha") ELSE Err("ShaNotFound")

\* The first or the last second of a day.
DayBound(day, bound) == (86400 * day) + (IF bound = "since" THEN 0 ELSE 86399)

ParsedTime(text, bound) ==
    CASE text.form \in {"rfc3339", "integer"} -> Ok(text.at)
      [] text.form = "date" -> Ok(DayBound(text.at, bound))
      [] text.form = "other" -> Err("InvalidRef")

\* The commit that a ref leads to is not looked at.
ResolveTimestamp(text, provider, bound) ==
    IF provider = "none" \/ RevParse(provider, text).ok
       \/ RevParse(provider, text).error = "InvalidRef"
    THEN ParsedTime(text, bound)
    ELSE RevParse(provider, text)

-----------------------------------------------------------------------------
(* resolve: clauses in a fixed order, each with the number of its binding.   *)

NormalizeBranchRef(branch) ==
    IF branch.full THEN branch ELSE [branch EXCEPT !.full = TRUE, !.space = "refs/heads/"]

\* Filters have the fields that the user gave.
Given(filters, what) == what \in DOMAIN filters

Binding(filters, what, provider) ==
    CASE what \in {"since", "until"} -> ResolveTimestamp(filters[what], provider, what)
      [] what = "branch" -> Ok(NormalizeBranchRef(filters.branch))
      [] what = "author" -> Ok([filters.author EXCEPT !.case = "lower"])
      [] what = "path" -> Ok([like |-> filters.path])

Order == <<"author", "path", "since", "until", "branch">>

\* The first filter that does not resolve ends it.
Resolve(filters, provider) ==
    LET given == SelectSeq(Order, LAMBDA what : Given(filters, what))
        Add(sql, what) ==
            IF ~sql.ok THEN sql
            ELSE LET b == Binding(filters, what, provider)
                 IN  IF ~b.ok THEN b
                     ELSE Ok([clauses |-> Append(sql.value.clauses,
                                                 [on |-> what,
                                                  parameter |-> Len(sql.value.bindings) + 1]),
                              bindings |-> Append(sql.value.bindings, b.value)])
    IN  FoldLeft(Add, Ok([clauses |-> << >>, bindings |-> << >>]), given)

IsEmpty(sql) == sql.clauses = << >>

\* filters_to_legacy_clause: nothing of it reaches the MATCH statement.
FiltersToLegacyClause(sql) == << >>

-----------------------------------------------------------------------------
(* escape_query. "A" is an upper-case letter, "a" its lower case, and the     *)
(* rest are themselves.                                                      *)

Quote == "quote"
Lower(c) == IF c = "A" THEN "a" ELSE c

Trimmed(text) ==
    LET ink == {i \in DOMAIN text : text[i] # "blank"}
    IN  IF ink = {} THEN << >>
        ELSE SubSeq(text, CHOOSE i \in ink : \A j \in ink : i <= j,
                          CHOOSE i \in ink : \A j \in ink : j <= i)

Doubled(text) ==
    FoldLeft(LAMBDA out, c : out \o (IF c = Quote THEN <<c, c>> ELSE <<c>>), << >>, text)

IsPhrase(text) == Len(text) >= 2 /\ Head(text) = Quote /\ Last(text) = Quote

EscapeQuery(query) ==
    LET lowered == [i \in DOMAIN query |-> Lower(query[i])]
        kept == SelectSeq(lowered, LAMBDA c : c # "nul")
        t == Trimmed(kept)
        escaped == IF IsPhrase(t)
                   THEN <<Quote>> \o Doubled(SubSeq(t, 2, Len(t) - 1)) \o <<Quote>>
                   ELSE Doubled(kept)
    IN  IF Trimmed(escaped) = << >> THEN Err("InvalidQuery") ELSE Ok(escaped)

\* build_match_query: one placeholder for the text, one for each part of the legacy clause
\* that is there, one for the limit; search binds two values.
LegacyParts == {"author_identity_id", "story_id", "risk_label", "min_authored_at",
                "max_authored_at"}
Placeholders(clause) == 2 + Len(SelectSeq(clause, LAMBDA part : part \in LegacyParts))
Bound == 2

=============================================================================
