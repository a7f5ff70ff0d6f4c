------------------------------ MODULE Identity ------------------------------
(***************************************************************************)
(* Who wrote a commit: the (name, email) pairs of the history collapsed    *)
(* into rows of identities and identity_aliases (index/identity.rs), as    *)
(* phase 2 of an indexing run drives it.                                   *)
(*                                                                         *)
(* A pair goes through three layers and the first answer counts: the       *)
(* user's overrides, `git check-mailmap`, and a union-find over            *)
(* lowercased emails and normalised names that works on a cache loaded     *)
(* from the two tables when the run starts.  Every statement commits by    *)
(* itself, so a run that is killed leaves whatever it has written.         *)
(***************************************************************************)
EXTENDS Integers, Sequences, FiniteSetsExt

CONSTANTS
    Name, Email,        \* raw display names and raw email addresses
    NormName,           \* normalize_name: NFKC, trimmed, collapsed, lowercase
    LowerEmail,         \* to_ascii_lowercase
    NoEmail,            \* the empty address, which no mailmap answer carries
    GithubNoreply,      \* lowercase addresses under users.noreply.github.com
    BotName, BotEmail,  \* what the bot heuristic recognises
    Commit,
    People,             \* of a commit: author, committer, co-authors
    Mailmaps,           \* the states git may be in: [works, map]
    OverrideFiles,      \* the states identities.toml may be in: [parses, entries]
    NoId,
    Window,             \* NAME_MERGE_WINDOW_SECS
    MaxTime, MaxDisturbances, MaxRuns     \* bounds

Pair == Name \X Email
\* An override entry: [pair, name, email, bot]; a file is unreadable or lists some.
Entry == [pair : Pair, name : Name, email : Email, bot : BOOLEAN]

ASSUME NamesAssumption == NormName \in [Name -> Name]
ASSUME EmailsAssumption == LowerEmail \in [Email -> Email] /\ NoEmail \in Email
ASSUME NoIdAssumption == NoId \notin Nat \ {0}
ASSUME FilesAssumption ==
    /\ \A m \in Mailmaps : /\ m.works \in BOOLEAN
                           /\ DOMAIN m.map \subseteq Pair
                           /\ \A p \in DOMAIN m.map : m.map[p] \in Pair
    /\ \A f \in OverrideFiles : f.parses \in BOOLEAN /\ f.entries \in Seq(Entry)
ASSUME PeopleAssumption == \A c \in Commit : People[c] \in Seq(Pair) /\ People[c] # << >>
ASSUME BoundsAssumption == {Window, MaxTime, MaxDisturbances, MaxRuns} \subseteq Nat

VARIABLES
    identities,     \* table: a sequence of [name, email, bot, seen], the id its index
    aliases,        \* table: a sequence of [id, pair] with UNIQUE(pair)
    rows,           \* commits.author_identity_id etc.: ids of People[c], or << >>
    mailmap, overrideFile,      \* files the user edits
    now,            \* wall clock, in units of the merge window's granularity
    overrides, cache,           \* of the running indexer
    todo, done, call,           \* its commits, its answers, and the pair it resolves
    fuzzyOnly,      \* history: no override and no mailmap has ever answered
    disturbances,   \* how often a file was edited or a call failed
    runs

tables == <<identities, aliases, rows>>
files == <<mailmap, overrideFile>>
process == <<overrides, cache, todo, done, call>>
vars == <<tables, files, now, process, fuzzyOnly, disturbances, runs>>

-----------------------------------------------------------------------------
(* Pure helpers. *)

Norm(p) == NormName[p[1]]
Lower(p) == LowerEmail[p[2]]
Key(p) == <<Norm(p), Lower(p)>>
IsBot(p) == Lower(p) \in BotEmail \/ p[1] \in BotName
IsGithubNoreply(email) == LowerEmail[email] \in GithubNoreply

Upserted(name, email, bot) ==
    IF \E i \in DOMAIN identities : identities[i].email = email
    THEN [i \in DOMAIN identities |->
             IF identities[i].email = email
             THEN [identities[i] EXCEPT !.name = name, !.bot = bot, !.seen = now]
             ELSE identities[i]]
    ELSE Append(identities, [name |-> name, email |-> email, bot |-> bot, seen |-> now])

IdPastInsert(table, email) == Len(table) + 1
IdLastInserted(table, email) == Len(table)
IdOf(table, email) == CHOOSE i \in DOMAIN table : table[i].email = email

AliasesWith(id, p) ==
    IF \E i \in DOMAIN aliases : aliases[i].pair = p
    THEN aliases
    ELSE Append(aliases, [id |-> id, pair |-> p])

Touched(id) == [identities EXCEPT ![id].seen = now]

-----------------------------------------------------------------------------
(* The union-find cache. *)

NoCache == [byPair |-> << >>, byEmail |-> << >>, byName |-> << >>, lastTouched |-> << >>]

\* HashMap::insert, and entry().or_insert().
Insert(map, key, value) ==
    [k \in DOMAIN map \union {key} |-> IF k = key THEN value ELSE map[k]]
OrInsert(map, key, value) ==
    [k \in DOMAIN map \union {key} |-> IF k \in DOMAIN map THEN map[k] ELSE value]

\* The identities of a name, each with its last place in the Vec.
Bucket(c, n) == IF n \in DOMAIN c.byName THEN c.byName[n] ELSE << >>
Pushed(bucket, id) ==
    Insert(bucket, id, 1 + Max({bucket[i] : i \in DOMAIN bucket} \union {0}))
Listed(bucket, id) == IF id \in DOMAIN bucket THEN bucket ELSE Pushed(bucket, id)

EnteredWithoutEmail(c, id, p, bucket) ==
    [c EXCEPT !.byPair = Insert(@, Key(p), id), !.byName = Insert(@, Norm(p), bucket)]
EnteredUnderFirstName(c, id, p, bucket) ==
    [c EXCEPT !.byPair = Insert(@, Key(p), id),
              !.byEmail = OrInsert(@, Lower(p), id),
              !.byName = OrInsert(@, Norm(p), bucket)]
\* The newest row of a pair wins, and the first of an email.
Entered(c, id, p, bucket) ==
    [c EXCEPT !.byPair = Insert(@, Key(p), id),
              !.byEmail = OrInsert(@, Lower(p), id),
              !.byName = Insert(@, Norm(p), bucket)]

\* A name lists its identities once each, in the order in which they came.
Attached(c, id, p) == Entered(c, id, p, Listed(Bucket(c, Norm(p)), id))

CacheTouched(c, id) == [c EXCEPT !.lastTouched = Insert(@, id, now)]

\* What hot_load reads, in this order: canonical rows first, so that they win an email
\* over the aliases.
Stored ==
    [i \in DOMAIN identities |->
        [id |-> i, pair |-> <<identities[i].name, identities[i].email>>]] \o aliases

\* The cache after Stored has been attached row by row.
HotLoad ==
    LET WithKey(k) == {i \in DOMAIN Stored : Key(Stored[i].pair) = k}
        WithEmail(e) == {i \in DOMAIN Stored : Lower(Stored[i].pair) = e}
        WithName(n) == {i \in DOMAIN Stored : Norm(Stored[i].pair) = n}
    IN [byPair |-> [k \in {Key(Stored[i].pair) : i \in DOMAIN Stored} |->
                       Stored[Max(WithKey(k))].id],
        byEmail |-> [e \in {Lower(Stored[i].pair) : i \in DOMAIN Stored} |->
                        Stored[Min(WithEmail(e))].id],
        byName |-> [n \in {Norm(Stored[i].pair) : i \in DOMAIN Stored} |->
                       [id \in {Stored[i].id : i \in WithName(n)} |->
                           Min({i \in WithName(n) : Stored[i].id = id})]],
        lastTouched |-> [i \in DOMAIN identities |-> identities[i].seen]]

\* pick_name_candidate, as a set of at most one: the last of the identities that
\* were touched most recently, inside the window.
NameCandidate(n) ==
    LET b == Bucket(cache, n)
        At(id) == cache.lastTouched[id]
        recent == {id \in DOMAIN b \intersect DOMAIN cache.lastTouched :
                      now - At(id) <= Window /\ At(id) - now <= Window}
    IN {id \in recent : \A other \in recent :
           At(other) < At(id) \/ (At(other) = At(id) /\ b[other] <= b[id])}

CandidateIsNoreply(id) == IsGithubNoreply(identities[id].email)

-----------------------------------------------------------------------------
(* Phase 2 of a run. *)

NoCall == [stage |-> "none"]
Idle == todo = {} /\ done = << >> /\ call = NoCall

Init ==
    /\ identities = << >> /\ aliases = << >>
    /\ rows = [c \in Commit |-> << >>]
    /\ mailmap \in Mailmaps /\ overrideFile \in OverrideFiles
    /\ now = 0
    /\ overrides = {} /\ cache = NoCache
    /\ todo = {} /\ done = << >> /\ call = NoCall
    /\ fuzzyOnly = TRUE /\ disturbances = 0 /\ runs = 0

\* from_common_dir: a later entry for a pair replaces the rewrite of an earlier one
\* but not its bot mark; a file that does not parse counts as an empty one.
LoadOverrides ==
    LET es == overrideFile.entries
        Wins(i) == \A j \in DOMAIN es : es[j].pair = es[i].pair => j <= i
        Marked(p) == \E j \in DOMAIN es : es[j].pair = p /\ es[j].bot
    IN IF ~overrideFile.parses THEN {}
       ELSE {[es[i] EXCEPT !.bot = Marked(es[i].pair)] : i \in {i \in DOMAIN es : Wins(i)}}

\* The walk brings some commits; the resolvers are built for this run.
StartRun(cs) ==
    /\ Idle /\ runs < MaxRuns
    /\ overrides' = LoadOverrides
    /\ cache' = HotLoad
    /\ todo' = cs
    /\ runs' = runs + 1
    /\ UNCHANGED <<tables, files, now, done, call, fuzzyOnly, disturbances>>

\* The next pair of the commit under way, or the first of another one.
Resolve(c) ==
    /\ call = NoCall
    /\ c \in todo
    /\ \A d \in DOMAIN done : Len(done[d]) < Len(People[d]) => d = c
    /\ call' = [stage |-> "resolve", commit |-> c,
                pair |-> People[c][Len(IF c \in DOMAIN done THEN done[c] ELSE << >>) + 1]]
    /\ UNCHANGED <<tables, files, now, overrides, cache, todo, done, fuzzyOnly,
                   disturbances, runs>>

\* `chain.resolve(..).ok()`: the answer, or the lack of one, goes to the commit's ids.
Answer(id) ==
    LET c == call.commit
        ids == Append(IF c \in DOMAIN done THEN done[c] ELSE << >>, id)
    IN /\ done' = Insert(done, c, ids)
       /\ todo' = IF Len(ids) = Len(People[c]) THEN todo \ {c} ELSE todo
       /\ call' = NoCall

Overriding == {o \in overrides : o.pair = call.pair}

\* upsert_identity_by_email of an override or of a mailmap answer.
Canonicalise(name, email, bot) ==
    /\ identities' = Upserted(name, email, bot)
    /\ call' = [stage |-> "alias", commit |-> call.commit, pair |-> call.pair,
                id |-> IdOf(identities', email)]
    /\ fuzzyOnly' = FALSE
    /\ UNCHANGED <<aliases, rows, files, now, overrides, cache, todo, done,
                   disturbances, runs>>

OverrideHitUnmarked ==
    /\ call.stage = "resolve"
    /\ \E o \in Overriding : Canonicalise(o.name, o.email, FALSE)
\* OverrideResolver; a pair it does not list falls through to the mailmap.
OverrideHit ==
    /\ call.stage = "resolve"
    /\ \E o \in Overriding : Canonicalise(o.name, o.email, o.bot)

\* git echoes a pair that .mailmap does not list.
MailmapAnswer(p) == IF p \in DOMAIN mailmap.map THEN mailmap.map[p] ELSE p

\* An answer without an address counts as malformed.
MailmapAnswers(p) == mailmap.works /\ MailmapAnswer(p)[2] # NoEmail

MailmapHit ==
    /\ call.stage = "resolve" /\ Overriding = {} /\ MailmapAnswers(call.pair)
    /\ Canonicalise(MailmapAnswer(call.pair)[1], MailmapAnswer(call.pair)[2], FALSE)

\* One call of git fails, or runs into its timeout.
MailmapFails ==
    /\ call.stage = "resolve" /\ Overriding = {} /\ MailmapAnswers(call.pair)
    /\ disturbances < MaxDisturbances
    /\ disturbances' = disturbances + 1
    /\ call' = [call EXCEPT !.stage = "fuzzy"]
    /\ UNCHANGED <<tables, files, now, overrides, cache, todo, done, fuzzyOnly, runs>>

\* insert_alias_if_missing, after an override or a mailmap answer.
RecordAlias ==
    /\ call.stage = "alias"
    /\ aliases' = AliasesWith(call.id, call.pair)
    /\ Answer(call.id)
    /\ UNCHANGED <<identities, rows, files, now, overrides, cache, fuzzyOnly,
                   disturbances, runs>>

\* Neither of the first two layers has an answer.
AtFuzzy ==
    \/ call.stage = "fuzzy"
    \/ call.stage = "resolve" /\ Overriding = {} /\ ~MailmapAnswers(call.pair)

PairHit == Key(call.pair) \in DOMAIN cache.byPair
EmailHit == Lower(call.pair) \in DOMAIN cache.byEmail
NameHitsOfNoreply == {id \in NameCandidate(Norm(call.pair)) : ~CandidateIsNoreply(id)}
\* Rule (b) leaves noreply addresses alone on either side.
NameHits ==
    IF IsGithubNoreply(call.pair[2]) THEN {}
    ELSE {id \in NameCandidate(Norm(call.pair)) : ~CandidateIsNoreply(id)}

\* touch: the identity's last_seen_at and its copy in the cache.
Touch(id) ==
    /\ identities' = Touched(id)
    /\ cache' = CacheTouched(cache, id)
    /\ Answer(id)
    /\ UNCHANGED <<aliases, rows, files, now, overrides, fuzzyOnly, disturbances, runs>>

FuzzyPair ==
    /\ AtFuzzy /\ PairHit
    /\ Touch(cache.byPair[Key(call.pair)])

\* attach_alias.
Merge(id) ==
    /\ aliases' = AliasesWith(id, call.pair)
    /\ cache' = Attached(cache, id, call.pair)
    /\ call' = [stage |-> "touch", commit |-> call.commit, pair |-> call.pair, id |-> id]
    /\ UNCHANGED <<identities, rows, files, now, overrides, todo, done, fuzzyOnly,
                   disturbances, runs>>

FuzzyEmail ==
    /\ AtFuzzy /\ ~PairHit /\ EmailHit
    /\ Merge(cache.byEmail[Lower(call.pair)])

FuzzyName ==
    /\ AtFuzzy /\ ~PairHit /\ ~EmailHit
    /\ \E id \in NameHits : Merge(id)

TouchMerged ==
    /\ call.stage = "touch"
    /\ Touch(call.id)

\* A miss: a new identity under the raw pair.
FuzzyMiss ==
    /\ AtFuzzy /\ ~PairHit /\ ~EmailHit /\ NameHits = {}
    /\ identities' = Upserted(call.pair[1], call.pair[2], IsBot(call.pair))
    /\ call' = [stage |-> "new", commit |-> call.commit, pair |-> call.pair,
                id |-> IdOf(identities', call.pair[2])]
    /\ UNCHANGED <<aliases, rows, files, now, overrides, cache, todo, done, fuzzyOnly,
                   disturbances, runs>>

RecordNew ==
    LET id == call.id
        p == call.pair
    IN /\ call.stage = "new"
       /\ aliases' = AliasesWith(id, p)
       /\ cache' = CacheTouched(Entered(cache, id, p, Pushed(Bucket(cache, Norm(p)), id)), id)
       /\ Answer(id)
       /\ UNCHANGED <<identities, rows, files, now, overrides, fuzzyOnly, disturbances,
                      runs>>

\* A statement of the union-find fails: the commit goes without this id.
FuzzyFails ==
    /\ AtFuzzy \/ call.stage \in {"touch", "new"}
    /\ disturbances < MaxDisturbances
    /\ disturbances' = disturbances + 1
    /\ Answer(NoId)
    /\ UNCHANGED <<tables, files, now, overrides, cache, fuzzyOnly, runs>>

\* Phase 3: the rows of the batch with the ids found for them.
Persist ==
    /\ todo = {} /\ call = NoCall /\ done # << >>
    /\ rows' = [c \in Commit |-> IF c \in DOMAIN done THEN done[c] ELSE rows[c]]
    /\ done' = << >>
    /\ overrides' = {} /\ cache' = NoCache
    /\ UNCHANGED <<identities, aliases, files, now, todo, call, fuzzyOnly, disturbances,
                   runs>>

\* The run is killed; the tables keep every statement that was executed.
Kill ==
    /\ ~Idle
    /\ todo' = {} /\ done' = << >> /\ call' = NoCall
    /\ overrides' = {} /\ cache' = NoCache
    /\ UNCHANGED <<tables, files, now, fuzzyOnly, disturbances, runs>>

-----------------------------------------------------------------------------
(* What happens around the run. *)

EditMailmap ==
    /\ disturbances < MaxDisturbances /\ disturbances' = disturbances + 1
    /\ mailmap' \in Mailmaps \ {mailmap}
    /\ UNCHANGED <<tables, overrideFile, now, process, fuzzyOnly, runs>>

EditOverrides ==
    /\ disturbances < MaxDisturbances /\ disturbances' = disturbances + 1
    /\ overrideFile' \in OverrideFiles \ {overrideFile}
    /\ UNCHANGED <<tables, mailmap, now, process, fuzzyOnly, runs>>

Tick ==
    /\ now < MaxTime
    /\ now' = now + 1
    /\ UNCHANGED <<tables, files, process, fuzzyOnly, disturbances, runs>>

RunStep ==
    \/ \E c \in Commit : Resolve(c)
    \/ OverrideHit \/ MailmapHit \/ RecordAlias
    \/ MailmapFails
    \/ FuzzyPair \/ FuzzyEmail \/ FuzzyName \/ TouchMerged
    \/ FuzzyMiss \/ RecordNew \/ FuzzyFails
    \/ Persist

Next ==
    \/ \E cs \in SUBSET Commit : cs # {} /\ StartRun(cs)
    \/ RunStep
    \/ Kill
    \/ EditMailmap \/ EditOverrides \/ Tick

Spec == Init /\ [][Next]_vars

-----------------------------------------------------------------------------
(* Properties. *)

Settled == disturbances = 0

Id == 1 .. Len(identities)
Written == UNION {{People[c][i] : i \in DOMAIN People[c]} : c \in Commit}
AliasOf(p) == {aliases[i].id : i \in {i \in DOMAIN aliases : aliases[i].pair = p}}

TablesTypeOK ==
    /\ identities \in Seq([name : Name, email : Email, bot : BOOLEAN, seen : 0 .. MaxTime])
    /\ aliases \in Seq([id : Id, pair : Pair])
    /\ rows \in [Commit -> Seq(Id \union {NoId})]
CacheTypeOK ==
    /\ DOMAIN cache.byPair \subseteq (Name \X Email)
    /\ \A k \in DOMAIN cache.byPair : cache.byPair[k] \in Id
    /\ \A e \in DOMAIN cache.byEmail : cache.byEmail[e] \in Id
    /\ \A n \in DOMAIN cache.byName : DOMAIN cache.byName[n] \subseteq Id
    /\ DOMAIN cache.lastTouched \subseteq Id

\* The tables, the cache and the run's answers have the shapes of the schema and of
\* UnionFindCache; every id that is stored anywhere names an identity.
TypeOK ==
    /\ TablesTypeOK /\ CacheTypeOK
    /\ mailmap \in Mailmaps /\ overrideFile \in OverrideFiles
    /\ overrides \subseteq Entry
    /\ todo \subseteq Commit /\ DOMAIN done \subseteq Commit
    /\ call.stage \in {"none", "resolve", "fuzzy", "alias", "touch", "new"}
    /\ now \in 0 .. MaxTime /\ disturbances \in 0 .. MaxDisturbances
    /\ runs \in 0 .. MaxRuns

\* Rule (a), "merges unconditionally" (identity.rs:29, :251): as long as only the
\* union-find has answered, one lowercased address never belongs to two identities,
\* over several runs, kills and cache reloads.  With a mailmap it may: its upsert
\* conflicts on the address as written and does not look at the cache.
FuzzyMergesEmails ==
    fuzzyOnly /\ Settled =>
        \A i, j \in DOMAIN aliases :
            Lower(aliases[i].pair) = Lower(aliases[j].pair) => aliases[i].id = aliases[j].id

\* Rule (b), "unless either side is a GitHub noreply address" (identity.rs:30,
\* :254): the pairs of a noreply address share an identity with no other address.
NoreplyStandsAlone ==
    fuzzyOnly /\ Settled =>
        \A i, j \in DOMAIN aliases :
            /\ aliases[i].id = aliases[j].id
            /\ IsGithubNoreply(aliases[i].pair[2])
            => Lower(aliases[i].pair) = Lower(aliases[j].pair)

\* Between two pairs the cache the union-find keeps up to date by hand is the one it
\* would load from the tables (identity.rs:281): what a later run resolves does not
\* depend on where the earlier one stopped.  Buckets are compared as sets: two
\* identities of a name may come in another order after a reload.  A miss reads the
\* clock again for the cache, which may so be ahead of the row.
CacheMirrorsTables ==
    fuzzyOnly /\ Settled /\ call = NoCall /\ (todo # {} \/ done # << >>) =>
        /\ cache.byPair = HotLoad.byPair
        /\ cache.byEmail = HotLoad.byEmail
        /\ DOMAIN cache.lastTouched = Id
        /\ \A i \in Id : cache.lastTouched[i] >= identities[i].seen
        /\ DOMAIN cache.byName = DOMAIN HotLoad.byName
        /\ \A n \in DOMAIN cache.byName :
              DOMAIN cache.byName[n] = DOMAIN HotLoad.byName[n]

\* The address that an override or the mailmap gives a pair, in a set of at most one.
CuratedEmail(p) ==
    LET entries == {o \in LoadOverrides : o.pair = p}
    IN IF entries # {} THEN {o.email : o \in entries}
       ELSE {MailmapAnswer(q)[2] : q \in {q \in {p} : MailmapAnswers(q)}}
Curated(p) == CuratedEmail(p) # {}

\* Some pair of the address, or some answer with it, is curated.
Contested(email) ==
    \E p \in Written : Curated(p) /\ email \in {Lower(p)} \union {LowerEmail[e] : e \in CuratedEmail(p)}

\* While the configuration stays as it is and no call fails, the ids in the commit rows
\* (indexer.rs:478) are those the tables give for the same pairs, whichever layers
\* answered and however often a killed run resolved them before.  After an edit of
\* .mailmap they differ: the alias is kept (INSERT OR IGNORE), the row is not.  The
\* tables give an id by the alias of the pair; an uncurated pair without one, because its
\* spelling hit the cache under the normalised form or because the run that created
\* its identity was killed before the alias, by a row with its normalised form.  Left out
\* are uncurated pairs of an address that another pair has curated: the alias of that
\* one, once it is loaded, answers for them (identity.rs:325).
RowsNameAliases ==
    Settled => \A c \in Commit : \A i \in DOMAIN rows[c] :
        LET p == People[c][i]
            id == rows[c][i]
        IN (Curated(p) \/ fuzzyOnly \/ ~Contested(Lower(p))) =>
              \/ AliasOf(p) = {id}
              \/ /\ AliasOf(p) = {} /\ ~Curated(p)
                 /\ \/ \E a \in DOMAIN aliases :
                          aliases[a].id = id /\ Key(aliases[a].pair) = Key(p)
                    \/ Key(<<identities[id].name, identities[id].email>>) = Key(p)

\* An identity that identities.toml declares a bot stays one, provided that every
\* pair that ends up at its address is declared too.  The proviso is needed: an upsert
\* overwrites is_bot, and mailmap always writes 0 (identity.rs:213).
CuratedBotStays ==
    Settled => \A o \in LoadOverrides :
        /\ o.bot
        /\ \A other \in LoadOverrides : other.email = o.email => other.bot
        /\ \A p \in Written \ {other.pair : other \in LoadOverrides} :
              o.email \notin {p[2], MailmapAnswer(p)[2]}
        => \A i \in Id : identities[i].email = o.email => identities[i].bot

=============================================================================
