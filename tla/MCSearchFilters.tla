-------------------------- MODULE MCSearchFilters ---------------------------
(* Filters and query texts of every kind; TLC evaluates the assumptions.     *)
EXTENDS Integers, Sequences, FiniteSets

F == INSTANCE SearchFilters

LOCAL Times == {[ref |-> r, form |-> f, at |-> 3] :
                   r \in BOOLEAN, f \in {"rfc3339", "date", "integer", "other"}}
LOCAL Branches == {[full |-> FALSE, space |-> "", name |-> "main"],
                   [full |-> TRUE, space |-> "refs/remotes/", name |-> "main"]}
LOCAL Names == {"author", "path", "since", "until", "branch"}
LOCAL All == [author : {[case |-> "mixed"]}, path : {"src"}, since : Times, until : Times,
              branch : Branches]
LOCAL Filters == {[w \in given |-> f[w]] : f \in All, given \in SUBSET Names}

LOCAL Alphabet == {"a", "A", F!Quote, "blank", "nul"}
LOCAL Queries == UNION {[1 .. n -> Alphabet] : n \in 0 .. 4}

\* Every placeholder of a resolved filter is bound by the value of its own filter: the
\* numbers of the clauses are those of the bindings, whichever filters are given
\* (filters.rs:63-154), and each filter given has a clause.
ASSUME PlaceholdersMatch ==
    \A f \in Filters :
        LET sql == F!Resolve(f, "none")
        IN  sql.ok =>
              /\ Len(sql.value.clauses) = Len(sql.value.bindings)
              /\ \A i \in DOMAIN sql.value.clauses :
                    /\ sql.value.clauses[i].parameter = i
                    /\ F!Given(f, sql.value.clauses[i].on)
              /\ Len(sql.value.clauses) = Cardinality(DOMAIN f)
              /\ F!IsEmpty(sql.value) <=> DOMAIN f = {}

\* A day given as both bounds is that day, whole (filters.rs:175): its last second is in,
\* the next one is not.
ASSUME DayIsWhole ==
    \A d \in 0 .. 5 :
        LET day == [ref |-> FALSE, form |-> "date", at |-> d]
            from == F!ResolveTimestamp(day, "none", "since").value
            to == F!ResolveTimestamp(day, "none", "until").value
        IN  /\ to - from = 86399
            /\ F!ResolveTimestamp([day EXCEPT !.at = d + 1], "none", "since").value = to + 1

\* The two resolutions of filters.rs:170-175, a ref first and then a date, exist in no
\* build: without a provider, as run_query calls it (orchestrator.rs:70), a ref is
\* refused; with the git provider, whose rev_parse says ShaNotFound where resolve_timestamp
\* looks for InvalidRef (git/cli.rs:232, filters.rs:197), a date is.
ASSUME RefOrDate ==
    LET ref == [ref |-> TRUE, form |-> "other", at |-> 0]
        date == [ref |-> FALSE, form |-> "date", at |-> 0]
    IN  /\ ~F!ResolveTimestamp(ref, "none", "since").ok
        /\ ~F!ResolveTimestamp(ref, "git", "since").ok
        /\ F!ResolveTimestamp(date, "none", "since").ok
        /\ F!ResolveTimestamp(date, "git", "since") = F!Err("ShaNotFound")

\* A branch is looked up by its full name, however it was given, and looking up the full
\* name changes nothing (filters.rs:231-237).
ASSUME FullBranches ==
    \A b \in Branches :
        LET n == F!NormalizeBranchRef(b)
        IN  n.full /\ n.name = b.name /\ F!NormalizeBranchRef(n) = n

\* What is left of a query has ink in it, in lower case and without NUL; quotes inside come
\* in pairs, so that a phrase ends where the user ended it; and escaping refuses exactly
\* the texts without ink (lexical.rs:106-133).
ASSUME Escaped ==
    \A q \in Queries :
        LET e == F!EscapeQuery(q)
            quotes(t) == Cardinality({i \in DOMAIN t : t[i] = F!Quote})
        IN  /\ e.ok <=> \E i \in DOMAIN q : q[i] \notin {"blank", "nul"}
            /\ e.ok => /\ \A i \in DOMAIN e.value : e.value[i] \notin {"A", "nul"}
                       /\ quotes(e.value) % 2 = 0

\* The statement of a search that has filters binds as many values as it has placeholders
\* only because no filter ever reaches it (orchestrator.rs:306 makes an empty clause of any).
ASSUME BindsAll ==
    /\ \A f \in Filters :
          LET sql == F!Resolve(f, "none")
          IN  sql.ok => F!Placeholders(F!FiltersToLegacyClause(sql.value)) = F!Bound
    /\ F!Placeholders(<<"story_id">>) # F!Bound

=============================================================================
