---------------------------- MODULE IdentityProofs ----------------------------
(***************************************************************************)
(* Proofs about identity resolution, for every history, .mailmap,          *)
(* identities.toml, normalisation, merge window and number of runs.        *)
(*                                                                         *)
(* The inductive invariant IInv has four parts, each proved on top of the  *)
(* ones before it: Typed (shapes, the UNIQUE constraints, whose turn it    *)
(* is), Steady (the overrides of a run are those of the file), Past (no    *)
(* row was seen after now) and Sound, which says how the tables, the cache *)
(* and the answers belong together.  Sound speaks of rows: a Row gives a   *)
(* pair to an identity, as its own name and address or as an alias.  A     *)
(* curated answer can give an address to several identities, so Sound is   *)
(* about pure addresses: all of them while only the union-find answers,    *)
(* those that no curated answer touches otherwise.                         *)
(***************************************************************************)
EXTENDS Identity, WellFoundedInduction, FiniteSetTheorems, TLAPS

Field == {"byPair", "byEmail", "byName", "lastTouched"}

\* The ids found so far for a commit, and whose turn it is next.
Found(c) == IF c \in DOMAIN done THEN done[c] ELSE << >>

CallOK ==
    \/ call = NoCall
    \/ call \in [stage : {"resolve", "fuzzy"}, commit : Commit, pair : Pair]
    \/ call \in [stage : {"alias", "touch", "new"}, commit : Commit, pair : Pair, id : Id]

Turn ==
    /\ \A c \in DOMAIN done : done[c] \in Seq(Id \union {NoId}) /\ Len(done[c]) <= Len(People[c])
    /\ \A c \in todo : Len(Found(c)) < Len(People[c])
    /\ call # NoCall => /\ call.commit \in todo
                        /\ call.pair = People[call.commit][Len(Found(call.commit)) + 1]

RowsFit == \A c \in Commit : Len(rows[c]) <= Len(People[c])

Shape ==
    /\ DOMAIN cache = Field
    /\ cache.byPair = [k \in DOMAIN cache.byPair |-> cache.byPair[k]]
    /\ cache.byEmail = [e \in DOMAIN cache.byEmail |-> cache.byEmail[e]]

\* UNIQUE(canonical_email) and UNIQUE(raw_name, raw_email).
Unique ==
    /\ \A i, j \in DOMAIN identities : identities[i].email = identities[j].email => i = j
    /\ \A a, b \in DOMAIN aliases : aliases[a].pair = aliases[b].pair => a = b

-----------------------------------------------------------------------------
\* A row of either table that gives pair p to identity i.
Row(i, p) ==
    \/ i \in DOMAIN identities /\ p = <<identities[i].name, identities[i].email>>
    \/ \E a \in DOMAIN aliases : aliases[a].id = i /\ aliases[a].pair = p

Running == todo # {} \/ done # << >>
Pure(e) == fuzzyOnly \/ ~Contested(e)
Pending(e) == call.stage = "new" /\ e = Lower(call.pair)

\* The overrides of a run are those of the file, and no call has got past a mailmap that
\* would have answered.
Steady == Settled => (todo # {} => overrides = LoadOverrides) /\ call.stage # "fuzzy"

\* No row was seen after now.
Past == \A i \in Id : identities[i].seen <= now

Stage ==
    call # NoCall =>
        /\ call.stage = "alias" => /\ identities[call.id].email \in CuratedEmail(call.pair)
                                   /\ ~fuzzyOnly
        /\ call.stage \in {"touch", "new"} => ~Curated(call.pair)
        /\ call.stage = "touch" /\ Pure(Lower(call.pair)) => Row(call.id, call.pair)
        /\ call.stage = "new" =>
               /\ call.pair = <<identities[call.id].name, identities[call.id].email>>
               /\ Pure(Lower(call.pair)) => \A i \in Id : \A p \in Pair :
                     Row(i, p) /\ Lower(p) = Lower(call.pair) => i = call.id /\ p = call.pair

CuratedAliases ==
    \A a \in DOMAIN aliases :
        /\ aliases[a].pair \in Written
        /\ Curated(aliases[a].pair) =>
              identities[aliases[a].id].email \in CuratedEmail(aliases[a].pair)

OneId ==
    \A i, j \in Id : \A p, q \in Pair :
        Row(i, p) /\ Row(j, q) /\ Lower(p) = Lower(q) /\ Pure(Lower(p)) => i = j

PairMirror ==
    Running =>
        /\ \A i \in Id : \A p \in Pair :
              Row(i, p) /\ Pure(Lower(p)) /\ ~Pending(Lower(p)) =>
                  Key(p) \in DOMAIN cache.byPair /\ cache.byPair[Key(p)] = i
        /\ \A k \in DOMAIN cache.byPair : Pure(k[2]) =>
              /\ ~Pending(k[2])
              /\ \E i \in Id : \E p \in Pair : cache.byPair[k] = i /\ Row(i, p) /\ Key(p) = k

EmailMirror ==
    Running =>
        /\ \A i \in Id : \A p \in Pair :
              Row(i, p) /\ Pure(Lower(p)) /\ ~Pending(Lower(p)) =>
                  Lower(p) \in DOMAIN cache.byEmail /\ cache.byEmail[Lower(p)] = i
        /\ \A e \in DOMAIN cache.byEmail : Pure(e) =>
              /\ ~Pending(e)
              /\ \E i \in Id : \E p \in Pair : cache.byEmail[e] = i /\ Row(i, p) /\ Lower(p) = e

NameMirror ==
    Running /\ fuzzyOnly =>
        /\ \A i \in Id : \A p \in Pair :
              Row(i, p) /\ ~Pending(Lower(p)) =>
                  Norm(p) \in DOMAIN cache.byName /\ i \in DOMAIN cache.byName[Norm(p)]
        /\ \A n \in DOMAIN cache.byName :
              /\ \A i \in DOMAIN cache.byName[n] :
                    \E p \in Pair : Row(i, p) /\ Norm(p) = n /\ ~Pending(Lower(p))
              /\ DOMAIN cache.byName[n] # {}

TouchMirror ==
    Running /\ fuzzyOnly =>
        /\ DOMAIN cache.lastTouched = {i \in Id : ~(call.stage = "new" /\ call.id = i)}
        /\ \A i \in DOMAIN cache.lastTouched :
              cache.lastTouched[i] \in Nat /\ cache.lastTouched[i] >= identities[i].seen

Alone ==
    fuzzyOnly => \A i \in Id : \A p, q \in Pair :
        Row(i, p) /\ Row(i, q) /\ Lower(p) \in GithubNoreply => Lower(p) = Lower(q)

Good(p, id) ==
    /\ Curated(p) => AliasOf(p) = {id}
    /\ ~Curated(p) /\ Pure(Lower(p)) => \E q \in Pair : Row(id, q) /\ Key(q) = Key(p)

Answers ==
    /\ \A c \in Commit : \A k \in DOMAIN rows[c] :
          Good(People[c][k], rows[c][k]) /\ rows[c][k] \in Id
    /\ \A c \in DOMAIN done : \A k \in DOMAIN done[c] :
          Good(People[c][k], done[c][k]) /\ done[c][k] \in Id

TablesTyped == TablesTypeOK /\ RowsFit /\ Unique
CacheTyped == CacheTypeOK /\ Shape
CallTyped == CallOK /\ Turn /\ todo \subseteq Commit /\ DOMAIN done \subseteq Commit
RestTyped ==
    /\ mailmap \in Mailmaps /\ overrideFile \in OverrideFiles
    /\ overrides \subseteq Entry
    /\ now \in 0 .. MaxTime /\ disturbances \in 0 .. MaxDisturbances
    /\ runs \in 0 .. MaxRuns
Typed == TablesTyped /\ CacheTyped /\ CallTyped /\ RestTyped

Sound ==
    Settled => /\ Stage /\ CuratedAliases
               /\ OneId /\ PairMirror /\ EmailMirror /\ NameMirror /\ TouchMirror /\ Alone
               /\ Answers
IInv == Typed /\ Steady /\ Past /\ Sound

-----------------------------------------------------------------------------
(* Naturals: the numbers below those of a set are finite sets, of which     *)
(* one is a subset of all others.                                           *)
LEMMA LeastNatural ==
    ASSUME NEW S, S \subseteq Nat, S # {}
    PROVE  \E x \in S : \A y \in S : x <= y
<1> DEFINE Below(n) == 0 .. n
           Segments == {Below(n) : n \in S}
<1>1. Segments # {} /\ \A s \in Segments : s \subseteq Nat /\ IsFiniteSet(s)
  <2>1. \A n \in S : Below(n) \subseteq Nat /\ IsFiniteSet(Below(n))
    BY FS_Interval
  <2> QED
    BY <2>1
<1>2. PICK s \in Segments : \A t \in Segments : <<t, s>> \notin StrictSubsetOrdering(Nat)
  <2>1. Segments \subseteq FiniteSubsetsOf(Nat)
    BY <1>1 DEF FiniteSubsetsOf
  <2> HIDE DEF Segments
  <2> QED
    BY ONLY <1>1, <2>1, FS_StrictSubsetOrderingWellFounded, WFMin
<1>3. PICK x \in S : s = Below(x)
  OBVIOUS
<1>4. ASSUME NEW y \in S, y < x
      PROVE  FALSE
  <2>1. /\ Below(y) \in Segments /\ Below(y) \subseteq s
        /\ x \in s /\ x \notin Below(y) /\ s \subseteq Nat
    BY <1>3, <1>4
  <2> QED
    BY <2>1, <1>2 DEF StrictSubsetOrdering
<1> QED
  BY <1>4

LEMMA MinExists ==
    ASSUME NEW S, S \subseteq Nat, S # {}
    PROVE  Min(S) \in S
BY LeastNatural DEF Min

LEMMA MaxExists ==
    ASSUME NEW n \in Nat, NEW S, S \subseteq 0 .. n, S # {}
    PROVE  Max(S) \in S
<1> DEFINE Above == {k \in Nat : \A y \in S : y <= k}
<1>1. n \in Above
  OBVIOUS
<1>2. PICK x \in Above : \A y \in Above : x <= y
  <2> HIDE DEF Above
  <2>1. Above \subseteq Nat
    BY DEF Above
  <2> QED
    BY <1>1, <2>1, LeastNatural
<1>3. x \in S
  <2>1. SUFFICES ASSUME x \notin S PROVE FALSE
    OBVIOUS
  <2>2. \A y \in S : y \in Nat /\ y < x
    BY <2>1, <1>2
  <2>3. x - 1 \in Nat /\ \A y \in S : y <= x - 1
    <3>1. PICK y \in S : TRUE
      OBVIOUS
    <3>2. y \in Nat /\ y < x
      BY <2>2, <3>1
    <3> QED
      BY <2>2, <3>2
  <2>4. x - 1 \in Above
    BY <2>3
  <2> QED
    BY <2>4, <1>2
<1>4. \E z \in S : \A y \in S : z >= y
  BY <1>2, <1>3
<1> QED
  BY <1>4 DEF Max

-----------------------------------------------------------------------------
(* The maps of the cache.                                                    *)
LEMMA Entering ==
    ASSUME NEW c, DOMAIN c = Field, NEW id, NEW p, NEW bucket
    PROVE  LET d == Entered(c, id, p, bucket)
           IN /\ DOMAIN d = Field
              /\ d.byPair = Insert(c.byPair, Key(p), id)
              /\ d.byEmail = OrInsert(c.byEmail, Lower(p), id)
              /\ d.byName = Insert(c.byName, Norm(p), bucket)
              /\ d.lastTouched = c.lastTouched
BY DEF Entered, Field

LEMMA Touching ==
    ASSUME NEW c, DOMAIN c = Field, NEW id
    PROVE  LET d == CacheTouched(c, id)
           IN /\ DOMAIN d = Field
              /\ d.byPair = c.byPair /\ d.byEmail = c.byEmail /\ d.byName = c.byName
              /\ d.lastTouched = Insert(c.lastTouched, id, now)
BY DEF CacheTouched, Field

LEMMA Buckets ==
    ASSUME NEW b, NEW id
    PROVE  /\ DOMAIN Pushed(b, id) = DOMAIN b \union {id}
           /\ DOMAIN Listed(b, id) = DOMAIN b \union {id}
BY DEF Pushed, Listed, Insert

LEMMA EmptyCache ==
    /\ DOMAIN NoCache = Field
    /\ NoCache.byPair = << >> /\ NoCache.byEmail = << >>
    /\ NoCache.byName = << >> /\ NoCache.lastTouched = << >>
BY DEF NoCache, Field

-----------------------------------------------------------------------------
(* What the statements on the tables do.                                     *)
Account == [name : Name, email : Email, bot : BOOLEAN, seen : 0 .. MaxTime]
Table == Seq(Account)

LEMMA Upserting ==
    ASSUME identities \in Table, now \in 0 .. MaxTime,
           NEW name \in Name, NEW email \in Email, NEW bot \in BOOLEAN,
           identities' = Upserted(name, email, bot)
    PROVE  /\ identities' \in Table
           /\ Id \subseteq Id'
           /\ IdOf(identities', email) \in Id'
           /\ identities'[IdOf(identities', email)].name = name
           /\ identities'[IdOf(identities', email)].email = email
           /\ identities'[IdOf(identities', email)].bot = bot
           /\ identities'[IdOf(identities', email)].seen = now
           /\ \A i \in Id : /\ identities'[i].email = identities[i].email
                            /\ identities[i].email # email => identities'[i] = identities[i]
           /\ \A i \in Id' : i \in Id \/ identities'[i].email = email
           /\ \A i \in Id' : identities'[i].email = email =>
                 identities'[i].bot = bot /\ identities'[i].name = name
           /\ (\A i \in Id : identities[i].email # email) =>
                 Id' = Id \union {IdOf(identities', email)} /\ IdOf(identities', email) \notin Id
           /\ (\E i \in Id : identities[i].email = email) => Id' = Id
<1> USE DEF Table
<1>0. \A i \in DOMAIN identities : identities[i] \in Account
  OBVIOUS
<1>1. CASE \E i \in DOMAIN identities : identities[i].email = email
  <2> DEFINE new == [name |-> name, email |-> email, bot |-> bot, seen |-> now]
             f(i) == IF identities[i].email = email
                     THEN [identities[i] EXCEPT !.name = name, !.bot = bot, !.seen = now]
                     ELSE identities[i]
  <2>1. identities' = [i \in DOMAIN identities |-> f(i)]
    BY <1>1 DEF Upserted
  <2>2. \A i \in DOMAIN identities : identities[i].email = email => f(i) = new
    BY <1>0 DEF Account
  <2>3. \A i \in DOMAIN identities : identities[i].email # email => f(i) = identities[i]
    OBVIOUS
  <2>4. /\ new \in Account
        /\ new.name = name /\ new.email = email /\ new.bot = bot /\ new.seen = now
    BY DEF Account
  <2>5. \A i \in DOMAIN identities : f(i) \in Account
    BY <2>2, <2>3, <2>4, <1>0
  <2> HIDE DEF f, new
  <2>6. /\ DOMAIN identities' = 1 .. Len(identities) /\ Len(identities') = Len(identities)
        /\ identities' \in Table
    BY <2>1, <2>5
  <2>7. Id' = Id /\ Id = DOMAIN identities
    BY <2>6 DEF Id
  <2>8. \A i \in Id : /\ identities[i].email = email => identities'[i] = new
                      /\ identities[i].email # email => identities'[i] = identities[i]
    BY <2>1, <2>2, <2>3, <2>7
  <2>9. \E i \in DOMAIN identities' : identities'[i].email = email
    BY <1>1, <2>4, <2>6, <2>7, <2>8
  <2>10. IdOf(identities', email) \in DOMAIN identities' /\ identities'[IdOf(identities', email)].email = email
    BY <2>9 DEF IdOf
  <2>11. identities'[IdOf(identities', email)] = new
    BY <2>6, <2>7, <2>8, <2>10, <2>4
  <2>12. \A i \in Id : identities'[i].email = identities[i].email
    BY <2>8, <2>4
  <2>13. \A i \in Id' : identities'[i].email = email => identities'[i] = new
    BY <2>7, <2>8, <2>12
  <2> QED
    BY <1>1, <2>4, <2>6, <2>7, <2>8, <2>10, <2>11, <2>12, <2>13
<1>2. CASE ~ \E i \in DOMAIN identities : identities[i].email = email
  <2> DEFINE new == [name |-> name, email |-> email, bot |-> bot, seen |-> now]
             m == Len(identities) + 1
  <2>1. /\ identities' = Append(identities, new)
    BY <1>2 DEF Upserted
  <2>2. /\ new \in Account
        /\ new.name = name /\ new.email = email /\ new.bot = bot /\ new.seen = now
    BY DEF Account
  <2> HIDE DEF new
  <2>3. /\ identities' \in Table /\ Len(identities') = m
        /\ \A i \in 1 .. Len(identities) : identities'[i] = identities[i]
        /\ identities'[m] = new
    BY <2>1, <2>2
  <2>4. \A i \in 1 .. m : identities'[i].email = email <=> i = m
    BY <2>2, <2>3, <1>2
  <2>5. IdOf(identities', email) = m
    BY <2>2, <2>3, <2>4 DEF IdOf
  <2> QED
    BY <2>2, <2>3, <2>4, <2>5, <1>2 DEF Id
<1> QED
  BY <1>1, <1>2

LEMMA Aliasing ==
    ASSUME aliases \in Seq([id : Id, pair : Pair]), NEW i \in Id, NEW p \in Pair,
           aliases' = AliasesWith(i, p)
    PROVE  /\ aliases' \in Seq([id : Id, pair : Pair])
           /\ \A a \in DOMAIN aliases : a \in DOMAIN aliases' /\ aliases'[a] = aliases[a]
           /\ \A a \in DOMAIN aliases' : a \in DOMAIN aliases \/ aliases'[a] = [id |-> i, pair |-> p]
           /\ \E a \in DOMAIN aliases' : aliases'[a].pair = p
           /\ (\A a \in DOMAIN aliases : aliases[a].pair # p) =>
                 \E a \in DOMAIN aliases' : aliases'[a] = [id |-> i, pair |-> p]
           /\ (\A a, b \in DOMAIN aliases : aliases[a].pair = aliases[b].pair => a = b) =>
                 \A a, b \in DOMAIN aliases' : aliases'[a].pair = aliases'[b].pair => a = b
<1>1. CASE \E a \in DOMAIN aliases : aliases[a].pair = p
  BY <1>1 DEF AliasesWith
<1>2. CASE ~ \E a \in DOMAIN aliases : aliases[a].pair = p
  <2> DEFINE new == [id |-> i, pair |-> p]
             m == Len(aliases) + 1
  <2>1. aliases' = Append(aliases, new) /\ new \in [id : Id, pair : Pair]
    BY <1>2 DEF AliasesWith
  <2>2. /\ aliases' \in Seq([id : Id, pair : Pair]) /\ Len(aliases') = m
        /\ \A a \in 1 .. Len(aliases) : aliases'[a] = aliases[a]
        /\ aliases'[m] = new
    BY <2>1
  <2> QED
    BY <2>2, <1>2
<1> QED
  BY <1>1, <1>2

LEMMA Bumping ==
    ASSUME identities \in Table, now \in 0 .. MaxTime, NEW i \in Id, identities' = Touched(i)
    PROVE  /\ identities' \in Table /\ Id' = Id
           /\ \A j \in Id : /\ identities'[j].name = identities[j].name
                            /\ identities'[j].email = identities[j].email
                            /\ identities'[j].bot = identities[j].bot
                            /\ identities'[j].seen = IF j = i THEN now ELSE identities[j].seen
<1> USE DEF Table
<1> DEFINE bumped == [identities[i] EXCEPT !.seen = now]
<1>1. i \in DOMAIN identities /\ \A j \in DOMAIN identities : identities[j] \in Account
  BY DEF Id
<1>2. identities' = [identities EXCEPT ![i] = bumped]
  BY DEF Touched
<1>3. /\ bumped \in Account /\ bumped.seen = now /\ bumped.name = identities[i].name
      /\ bumped.email = identities[i].email /\ bumped.bot = identities[i].bot
  BY <1>1 DEF Account
<1> HIDE DEF bumped
<1>4. identities' \in Table /\ Len(identities') = Len(identities)
  BY <1>1, <1>2, <1>3
<1>5. \A j \in DOMAIN identities : identities'[j] = IF j = i THEN bumped ELSE identities[j]
  BY <1>1, <1>2
<1> QED
  BY <1>3, <1>4, <1>5 DEF Id

-----------------------------------------------------------------------------
(* What hot_load makes of the tables.                                        *)
Alias == [id : Id, pair : Pair]

LEMMA StoredRows ==
    ASSUME identities \in Table, aliases \in Seq(Alias)
    PROVE  /\ Stored \in Seq(Alias)
           /\ \A k \in DOMAIN Stored : Row(Stored[k].id, Stored[k].pair)
           /\ \A i, p : Row(i, p) => \E k \in DOMAIN Stored : Stored[k].id = i /\ Stored[k].pair = p
<1> DEFINE canonical == [i \in DOMAIN identities |->
                            [id |-> i, pair |-> <<identities[i].name, identities[i].email>>]]
           m == Len(identities)
<1>1. \A i \in DOMAIN identities : identities[i] \in Account
  BY DEF Table
<1>2. DOMAIN identities = 1 .. m /\ m \in Nat /\ Id = 1 .. m
  BY DEF Table, Id
<1>3. \A i \in 1 .. m : [id |-> i, pair |-> <<identities[i].name, identities[i].email>>] \in Alias
  BY <1>1, <1>2 DEF Account, Alias, Pair
<1>4. canonical \in Seq(Alias) /\ Len(canonical) = m
  BY <1>2, <1>3
<1>5. \A i \in 1 .. m : /\ canonical[i].id = i
                        /\ canonical[i].pair = <<identities[i].name, identities[i].email>>
  BY <1>2
<1>6. Stored = canonical \o aliases
  BY DEF Stored
<1> HIDE DEF canonical, m
<1>7. /\ Stored \in Seq(Alias) /\ Len(Stored) = m + Len(aliases)
      /\ \A k \in 1 .. m : Stored[k] = canonical[k]
      /\ \A k \in 1 .. Len(aliases) : Stored[m + k] = aliases[k]
  BY <1>2, <1>4, <1>6
<1>8. ASSUME NEW k \in DOMAIN Stored
      PROVE  Row(Stored[k].id, Stored[k].pair)
  <2>1. CASE k \in 1 .. m
    BY <2>1, <1>2, <1>5, <1>7 DEF Row
  <2>2. CASE k \notin 1 .. m
    <3>1. k - m \in 1 .. Len(aliases) /\ k = m + (k - m)
      BY <2>2, <1>2, <1>7
    <3>2. Stored[k] = aliases[k - m] /\ k - m \in DOMAIN aliases
      BY <3>1, <1>7
    <3> QED
      BY <3>2 DEF Row
  <2> QED
    BY <2>1, <2>2
<1>9. ASSUME NEW i, NEW p, Row(i, p)
      PROVE  \E k \in DOMAIN Stored : Stored[k].id = i /\ Stored[k].pair = p
  <2>1. CASE i \in DOMAIN identities /\ p = <<identities[i].name, identities[i].email>>
    <3>1. i \in DOMAIN Stored /\ Stored[i].id = i /\ Stored[i].pair = p
      BY <2>1, <1>2, <1>5, <1>7
    <3> QED
      BY <3>1
  <2>2. CASE \E a \in DOMAIN aliases : aliases[a].id = i /\ aliases[a].pair = p
    <3>1. PICK a \in DOMAIN aliases : aliases[a].id = i /\ aliases[a].pair = p
      BY <2>2
    <3>2. a \in 1 .. Len(aliases) /\ m + a \in DOMAIN Stored
      BY <3>1, <1>2, <1>7
    <3> QED
      BY <3>1, <3>2, <1>7
  <2> QED
    BY <1>9, <2>1, <2>2 DEF Row
<1> QED
  BY <1>7, <1>8, <1>9

LEMMA RowTypes ==
    ASSUME identities \in Table, aliases \in Seq(Alias), NEW i, NEW p, Row(i, p)
    PROVE  i \in Id /\ p \in Pair
<1>1. PICK k \in DOMAIN Stored : Stored[k].id = i /\ Stored[k].pair = p
  BY StoredRows
<1>2. Stored[k] \in Alias
  BY StoredRows
<1> QED
  BY <1>1, <1>2 DEF Alias

LEMMA HotLoadPairs ==
    ASSUME identities \in Table, aliases \in Seq(Alias)
    PROVE  /\ HotLoad.byPair = [k \in DOMAIN HotLoad.byPair |-> HotLoad.byPair[k]]
           /\ \A k \in DOMAIN HotLoad.byPair :
                 \E p \in Pair : Row(HotLoad.byPair[k], p) /\ Key(p) = k
           /\ \A i, p : Row(i, p) => Key(p) \in DOMAIN HotLoad.byPair
<1> DEFINE With(k) == {i \in DOMAIN Stored : Key(Stored[i].pair) = k}
           Keys == {Key(Stored[i].pair) : i \in DOMAIN Stored}
<1>1. HotLoad.byPair = [k \in Keys |-> Stored[Max(With(k))].id]
  BY DEF HotLoad
<1>2. ASSUME NEW k \in Keys
      PROVE  Max(With(k)) \in With(k)
  <2>1. With(k) # {} /\ With(k) \subseteq 0 .. Len(Stored) /\ Len(Stored) \in Nat
    BY StoredRows
  <2> HIDE DEF With
  <2> QED
    BY <2>1, MaxExists
<1>3. ASSUME NEW k \in Keys
      PROVE  \E p \in Pair : Row(Stored[Max(With(k))].id, p) /\ Key(p) = k
  <2>1. Max(With(k)) \in DOMAIN Stored /\ Key(Stored[Max(With(k))].pair) = k
    BY <1>2
  <2>2. Row(Stored[Max(With(k))].id, Stored[Max(With(k))].pair)
    BY <2>1, StoredRows
  <2> QED
    BY <2>1, <2>2, RowTypes
<1>4. \A i, p : Row(i, p) => Key(p) \in Keys
  BY StoredRows
<1> QED
  BY <1>1, <1>3, <1>4

LEMMA HotLoadEmails ==
    ASSUME identities \in Table, aliases \in Seq(Alias)
    PROVE  /\ HotLoad.byEmail = [e \in DOMAIN HotLoad.byEmail |-> HotLoad.byEmail[e]]
           /\ \A e \in DOMAIN HotLoad.byEmail :
                 \E p \in Pair : Row(HotLoad.byEmail[e], p) /\ Lower(p) = e
           /\ \A i, p : Row(i, p) => Lower(p) \in DOMAIN HotLoad.byEmail
<1> DEFINE With(e) == {i \in DOMAIN Stored : Lower(Stored[i].pair) = e}
           Emails == {Lower(Stored[i].pair) : i \in DOMAIN Stored}
<1>1. HotLoad.byEmail = [e \in Emails |-> Stored[Min(With(e))].id]
  BY DEF HotLoad
<1>2. ASSUME NEW e \in Emails
      PROVE  Min(With(e)) \in With(e)
  <2>1. With(e) # {} /\ With(e) \subseteq Nat
    BY StoredRows
  <2> HIDE DEF With
  <2> QED
    BY <2>1, MinExists
<1>3. ASSUME NEW e \in Emails
      PROVE  \E p \in Pair : Row(Stored[Min(With(e))].id, p) /\ Lower(p) = e
  <2>1. Min(With(e)) \in DOMAIN Stored /\ Lower(Stored[Min(With(e))].pair) = e
    BY <1>2
  <2>2. Row(Stored[Min(With(e))].id, Stored[Min(With(e))].pair)
    BY <2>1, StoredRows
  <2> QED
    BY <2>1, <2>2, RowTypes
<1>4. \A i, p : Row(i, p) => Lower(p) \in Emails
  BY StoredRows
<1> QED
  BY <1>1, <1>3, <1>4

LEMMA HotLoadNames ==
    ASSUME identities \in Table, aliases \in Seq(Alias)
    PROVE  /\ \A n \in DOMAIN HotLoad.byName :
                 /\ DOMAIN HotLoad.byName[n] # {}
                 /\ \A i \in DOMAIN HotLoad.byName[n] : \E p \in Pair : Row(i, p) /\ Norm(p) = n
           /\ \A i, p : Row(i, p) =>
                 Norm(p) \in DOMAIN HotLoad.byName /\ i \in DOMAIN HotLoad.byName[Norm(p)]
<1> DEFINE With(n) == {i \in DOMAIN Stored : Norm(Stored[i].pair) = n}
           Names == {Norm(Stored[i].pair) : i \in DOMAIN Stored}
           Ids(n) == {Stored[i].id : i \in With(n)}
<1>1. /\ DOMAIN HotLoad.byName = Names
      /\ \A n \in Names : DOMAIN HotLoad.byName[n] = Ids(n)
  BY DEF HotLoad
<1>2. ASSUME NEW n \in Names
      PROVE  Ids(n) # {}
  OBVIOUS
<1>3. ASSUME NEW n \in Names, NEW i \in Ids(n)
      PROVE  \E p \in Pair : Row(i, p) /\ Norm(p) = n
  <2>1. PICK k \in DOMAIN Stored : Norm(Stored[k].pair) = n /\ Stored[k].id = i
    OBVIOUS
  <2>2. Row(i, Stored[k].pair)
    BY <2>1, StoredRows
  <2> QED
    BY <2>1, <2>2, RowTypes
<1>4. ASSUME NEW i, NEW p, Row(i, p)
      PROVE  Norm(p) \in Names /\ i \in Ids(Norm(p))
  BY <1>4, StoredRows
<1> HIDE DEF Names, Ids
<1> QED
  BY <1>1, <1>2, <1>3, <1>4

LEMMA HotLoadRest ==
    ASSUME identities \in Table
    PROVE  /\ DOMAIN HotLoad = Field
           /\ DOMAIN HotLoad.lastTouched = Id
           /\ \A i \in Id : HotLoad.lastTouched[i] = identities[i].seen
BY DEF HotLoad, Field, Table, Id

-----------------------------------------------------------------------------
(* Type correctness.                                                         *)
LEMMA TablesTypes ==
    TablesTypeOK => /\ identities \in Table /\ aliases \in Seq(Alias) /\ rows \in [Commit -> Seq(Id \union {NoId})]
BY DEF TablesTypeOK, Table, Account, Alias

LEMMA Grown ==
    ASSUME Id \subseteq Id'
    PROVE  /\ \A s \in Seq(Id \union {NoId}) : s \in Seq(Id' \union {NoId})
           /\ \A s \in Seq(Alias) : s \in Seq(Alias')
<1>1. Id \union {NoId} \subseteq Id' \union {NoId} /\ Alias \subseteq Alias'
  BY DEF Alias
<1> QED
  BY <1>1

LEMMA UpsertTyped ==
    ASSUME TablesTyped, now \in 0 .. MaxTime,
           NEW name \in Name, NEW email \in Email, NEW bot \in BOOLEAN,
           identities' = Upserted(name, email, bot), UNCHANGED <<aliases, rows>>
    PROVE  TablesTyped'
<1> USE TablesTypes DEF TablesTyped
<1>1. /\ identities' \in Table /\ Id \subseteq Id'
      /\ \A i \in Id : identities'[i].email = identities[i].email
      /\ \A i \in Id' : i \in Id \/ identities'[i].email = email
      /\ (\A i \in Id : identities[i].email # email) =>
            Id' = Id \union {IdOf(identities', email)} /\ IdOf(identities', email) \notin Id
      /\ (\E i \in Id : identities[i].email = email) => Id' = Id
  BY Upserting
<1>2. TablesTypeOK'
  BY <1>1, Grown DEF TablesTypeOK, Table, Account, Alias
<1>3. DOMAIN identities = Id /\ DOMAIN identities' = Id'
  BY <1>1 DEF Id, Table
<1>4. ASSUME NEW i \in Id', NEW j \in Id', identities'[i].email = identities'[j].email
      PROVE  i = j
  <2>1. CASE i \in Id /\ j \in Id
    BY <2>1, <1>1, <1>3, <1>4 DEF Unique
  <2>2. CASE \E k \in Id : identities[k].email = email
    <3>1. Id' = Id
      BY <2>2, <1>1
    <3> QED
      BY <2>1, <3>1
  <2>3. CASE \A k \in Id : identities[k].email # email
    BY <2>1, <2>3, <1>1, <1>4
  <2> QED
    BY <2>2, <2>3
<1>5. Unique'
  BY <1>3, <1>4 DEF Unique
<1> QED
  BY <1>2, <1>5 DEF RowsFit

LEMMA AliasTyped ==
    ASSUME TablesTyped, NEW i \in Id, NEW p \in Pair, aliases' = AliasesWith(i, p),
           UNCHANGED <<identities, rows>>
    PROVE  TablesTyped'
<1> USE TablesTypes DEF TablesTyped, Alias
<1>1. /\ aliases' \in Seq(Alias)
      /\ (\A a, b \in DOMAIN aliases : aliases[a].pair = aliases[b].pair => a = b) =>
            \A a, b \in DOMAIN aliases' : aliases'[a].pair = aliases'[b].pair => a = b
  BY Aliasing
<1> QED
  BY <1>1 DEF TablesTypeOK, Unique, RowsFit, Id

LEMMA TouchTyped ==
    ASSUME TablesTyped, now \in 0 .. MaxTime, NEW i \in Id, identities' = Touched(i),
           UNCHANGED <<aliases, rows>>
    PROVE  TablesTyped'
<1> USE TablesTypes DEF TablesTyped
<1>1. /\ identities' \in Table /\ Id' = Id
      /\ \A j \in Id : identities'[j].email = identities[j].email
  BY Bumping
<1>2. TablesTypeOK'
  BY <1>1, Grown DEF TablesTypeOK, Table, Account, Alias
<1>3. DOMAIN identities = Id /\ DOMAIN identities' = Id'
  BY <1>1 DEF Id, Table
<1>4. Unique'
  BY <1>1, <1>3 DEF Unique
<1> QED
  BY <1>2, <1>4 DEF RowsFit

\* A pair that is being resolved, and the id that a later statement of it uses.
LEMMA CallFields ==
    ASSUME CallTyped, call # NoCall
    PROVE  /\ call.pair \in Pair /\ call.commit \in Commit
           /\ call.stage \in {"alias", "touch", "new"} => call.id \in Id
BY DEF CallTyped, CallOK

LEMMA CallStages ==
    /\ call.stage \in {"resolve", "fuzzy", "alias", "touch", "new"} => call # NoCall
    /\ AtFuzzy => call # NoCall
BY DEF NoCall, AtFuzzy

LEMMA MailmapPair ==
    ASSUME mailmap \in Mailmaps, NEW p \in Pair
    PROVE  MailmapAnswer(p) \in Pair
BY FilesAssumption DEF MailmapAnswer

LEMMA LoadTyped ==
    ASSUME overrideFile \in OverrideFiles
    PROVE  LoadOverrides \subseteq Entry
<1> DEFINE es == overrideFile.entries
<1>1. es \in Seq(Entry)
  BY FilesAssumption
<1>2. \A i \in DOMAIN es, b \in BOOLEAN : [es[i] EXCEPT !.bot = b] \in Entry
  <2> TAKE i \in DOMAIN es, b \in BOOLEAN
  <2>1. es[i] \in Entry
    BY <1>1
  <2> QED
    BY <2>1 DEF Entry
<1>3. ASSUME NEW o \in LoadOverrides
      PROVE  o \in Entry
  <2>1. PICK i \in DOMAIN es : \E b \in BOOLEAN : o = [es[i] EXCEPT !.bot = b]
    BY <1>3 DEF LoadOverrides
  <2> QED
    BY <2>1, <1>2
<1> QED
  BY <1>3

LEMMA HitIds ==
    ASSUME CacheTypeOK
    PROVE  /\ PairHit => cache.byPair[Key(call.pair)] \in Id
           /\ EmailHit => cache.byEmail[Lower(call.pair)] \in Id
           /\ NameHits \subseteq Id
<1>1. NameHits \subseteq NameCandidate(Norm(call.pair))
  BY DEF NameHits
<1>2. NameCandidate(Norm(call.pair)) \subseteq DOMAIN cache.lastTouched
  BY DEF NameCandidate
<1> QED
  BY <1>1, <1>2 DEF CacheTypeOK, PairHit, EmailHit

LEMMA Canonicalising ==
    ASSUME Typed, OverrideHit \/ MailmapHit
    PROVE  /\ call.stage = "resolve"
           /\ \E name \in Name, email \in Email, bot \in BOOLEAN : Canonicalise(name, email, bot)
<1>1. call.pair \in Pair /\ call.stage = "resolve"
  BY CallFields, CallStages DEF Typed, OverrideHit, MailmapHit
<1>2. CASE OverrideHit
  <2>1. PICK o \in Overriding : Canonicalise(o.name, o.email, o.bot)
    BY <1>2 DEF OverrideHit
  <2>2. o \in Entry
    BY <2>1 DEF Overriding, Typed, RestTyped
  <2>3. o.name \in Name /\ o.email \in Email /\ o.bot \in BOOLEAN
    BY <2>2 DEF Entry
  <2> QED
    BY <1>1, <2>1, <2>3
<1>3. CASE MailmapHit
  <2>1. MailmapAnswer(call.pair) \in Pair
    BY <1>1, MailmapPair DEF Typed, RestTyped
  <2>2. MailmapAnswer(call.pair)[1] \in Name /\ MailmapAnswer(call.pair)[2] \in Email
    BY <2>1 DEF Pair
  <2> QED
    BY <1>1, <1>3, <2>2 DEF MailmapHit
<1> QED
  BY <1>2, <1>3

\* The steps on identities, on aliases and on rows; all others leave the tables alone.
LEMMA TableSteps ==
    ASSUME Typed, [Next]_vars
    PROVE  \/ /\ OverrideHit \/ MailmapHit
              /\ \E name \in Name, email \in Email, bot \in BOOLEAN : Canonicalise(name, email, bot)
           \/ RecordAlias
           \/ \E i \in Id : Touch(i) /\ call # NoCall
           \/ \E i \in Id : Merge(i) /\ AtFuzzy
           \/ FuzzyMiss
           \/ RecordNew
           \/ Persist
           \/ UNCHANGED tables
<1> USE DEF Typed
<1>1. CASE OverrideHit \/ MailmapHit
  BY <1>1, Canonicalising
<1>2. CASE FuzzyPair
  BY <1>2, HitIds, CallStages DEF FuzzyPair, CacheTyped
<1>3. CASE FuzzyEmail
  BY <1>3, HitIds DEF FuzzyEmail, CacheTyped
<1>4. CASE FuzzyName
  BY <1>4, HitIds DEF FuzzyName, CacheTyped
<1>5. CASE TouchMerged
  BY <1>5, CallFields, CallStages DEF TouchMerged
<1>6. CASE \/ \E cs \in SUBSET Commit : cs # {} /\ StartRun(cs)
           \/ \E c \in Commit : Resolve(c)
           \/ MailmapFails \/ FuzzyFails \/ Kill
           \/ EditMailmap \/ EditOverrides \/ Tick \/ UNCHANGED vars
  BY <1>6 DEF StartRun, Resolve, MailmapFails, FuzzyFails, Kill, EditMailmap, EditOverrides,
              Tick, vars, tables
<1> QED
  BY <1>1, <1>2, <1>3, <1>4, <1>5, <1>6 DEF Next, RunStep

LEMMA PersistTyped ==
    ASSUME TablesTyped, CallTyped, Persist
    PROVE  TablesTyped'
<1> USE TablesTypes DEF TablesTyped
<1>1. \A c \in DOMAIN done : done[c] \in Seq(Id \union {NoId}) /\ Len(done[c]) <= Len(People[c])
  BY DEF CallTyped, Turn
<1>2. rows' \in [Commit -> Seq(Id \union {NoId})]
  BY <1>1 DEF Persist
<1>3. \A c \in Commit : rows'[c] = IF c \in DOMAIN done THEN done[c] ELSE rows[c]
  BY DEF Persist
<1>4. RowsFit'
  BY <1>1, <1>3 DEF RowsFit
<1>5. UNCHANGED <<identities, aliases>>
  BY DEF Persist
<1> QED
  BY <1>2, <1>4, <1>5 DEF TablesTypeOK, Unique, Id

LEMMA TablesKept ==
    ASSUME Typed, [Next]_vars
    PROVE  TablesTyped' /\ Id \subseteq Id'
<1>0. /\ TablesTyped /\ CallTyped /\ now \in 0 .. MaxTime
      /\ identities \in Table
  BY TablesTypes DEF Typed, RestTyped, TablesTyped
<1>1. CASE \E name \in Name, email \in Email, bot \in BOOLEAN : Canonicalise(name, email, bot)
  <2>1. PICK name \in Name, email \in Email, bot \in BOOLEAN : Canonicalise(name, email, bot)
    BY <1>1
  <2>2. identities' = Upserted(name, email, bot) /\ UNCHANGED <<aliases, rows>>
    BY <2>1 DEF Canonicalise
  <2> QED
    BY <1>0, <2>2, UpsertTyped, Upserting
<1>2. CASE RecordAlias
  <2>1. call.id \in Id /\ call.pair \in Pair
    BY <1>0, <1>2, CallFields, CallStages DEF RecordAlias
  <2>2. aliases' = AliasesWith(call.id, call.pair) /\ UNCHANGED <<identities, rows>>
    BY <1>2 DEF RecordAlias
  <2> QED
    BY <1>0, <2>1, <2>2, AliasTyped DEF Id
<1>3. CASE \E i \in Id : Touch(i) /\ call # NoCall
  <2>1. PICK i \in Id : identities' = Touched(i) /\ UNCHANGED <<aliases, rows>>
    BY <1>3 DEF Touch
  <2> QED
    BY <1>0, <2>1, TouchTyped, Bumping
<1>4. CASE \E i \in Id : Merge(i) /\ AtFuzzy
  <2>1. PICK i \in Id : /\ AtFuzzy /\ aliases' = AliasesWith(i, call.pair)
                        /\ UNCHANGED <<identities, rows>>
    BY <1>4 DEF Merge
  <2>2. call.pair \in Pair
    BY <1>0, <2>1, CallFields, CallStages
  <2> QED
    BY <1>0, <2>1, <2>2, AliasTyped DEF Id
<1>5. CASE FuzzyMiss
  <2>1. call.pair \in Pair
    BY <1>0, <1>5, CallFields, CallStages DEF FuzzyMiss
  <2>2. call.pair[1] \in Name /\ call.pair[2] \in Email /\ IsBot(call.pair) \in BOOLEAN
    BY <2>1 DEF Pair, IsBot
  <2>3. /\ identities' = Upserted(call.pair[1], call.pair[2], IsBot(call.pair))
        /\ UNCHANGED <<aliases, rows>>
    BY <1>5 DEF FuzzyMiss
  <2> QED
    BY <1>0, <2>2, <2>3, UpsertTyped, Upserting
<1>6. CASE RecordNew
  <2>1. call.id \in Id /\ call.pair \in Pair
    BY <1>0, <1>6, CallFields, CallStages DEF RecordNew
  <2>2. aliases' = AliasesWith(call.id, call.pair) /\ UNCHANGED <<identities, rows>>
    BY <1>6 DEF RecordNew
  <2> QED
    BY <1>0, <2>1, <2>2, AliasTyped DEF Id
<1>7. CASE Persist
  BY <1>0, <1>7, PersistTyped DEF Persist, Id
<1>8. CASE UNCHANGED tables
  BY <1>0, <1>8 DEF tables, TablesTyped, TablesTypeOK, RowsFit, Unique, Id
<1> QED
  BY <1>1, <1>2, <1>3, <1>4, <1>5, <1>6, <1>7, <1>8, TableSteps

-----------------------------------------------------------------------------
\* The steps on the cache.
LEMMA KeyTypes ==
    ASSUME NEW p \in Pair
    PROVE  Key(p) \in Name \X Email /\ Lower(p) \in Email /\ Norm(p) \in Name /\ Key(p)[2] = Lower(p)
BY NamesAssumption, EmailsAssumption DEF Pair, Key, Norm, Lower

\* What an attachment, by a merge or after a miss, leaves in the cache.
EntersCache(i, p) ==
    /\ DOMAIN cache' = Field
    /\ cache'.byPair = Insert(cache.byPair, Key(p), i)
    /\ cache'.byEmail = OrInsert(cache.byEmail, Lower(p), i)
    /\ \E bucket : /\ DOMAIN bucket = DOMAIN Bucket(cache, Norm(p)) \union {i}
                   /\ cache'.byName = Insert(cache.byName, Norm(p), bucket)

LEMMA MergeEnters ==
    ASSUME DOMAIN cache = Field, NEW i, Merge(i)
    PROVE  EntersCache(i, call.pair) /\ cache'.lastTouched = cache.lastTouched
<1> DEFINE bucket == Listed(Bucket(cache, Norm(call.pair)), i)
<1>1. cache' = Entered(cache, i, call.pair, bucket)
  BY DEF Merge, Attached
<1>2. DOMAIN bucket = DOMAIN Bucket(cache, Norm(call.pair)) \union {i}
  BY Buckets
<1> HIDE DEF bucket
<1> QED
  BY <1>1, <1>2, Entering DEF EntersCache

LEMMA NewEnters ==
    ASSUME DOMAIN cache = Field, RecordNew
    PROVE  /\ EntersCache(call.id, call.pair)
           /\ cache'.lastTouched = Insert(cache.lastTouched, call.id, now)
<1> DEFINE bucket == Pushed(Bucket(cache, Norm(call.pair)), call.id)
           entered == Entered(cache, call.id, call.pair, bucket)
<1>1. cache' = CacheTouched(entered, call.id)
  BY DEF RecordNew
<1>2. DOMAIN bucket = DOMAIN Bucket(cache, Norm(call.pair)) \union {call.id}
  BY Buckets
<1> HIDE DEF bucket
<1>3. /\ DOMAIN entered = Field
      /\ entered.byPair = Insert(cache.byPair, Key(call.pair), call.id)
      /\ entered.byEmail = OrInsert(cache.byEmail, Lower(call.pair), call.id)
      /\ entered.byName = Insert(cache.byName, Norm(call.pair), bucket)
      /\ entered.lastTouched = cache.lastTouched
  BY Entering
<1> HIDE DEF entered
<1> QED
  BY <1>1, <1>2, <1>3, Touching DEF EntersCache

LEMMA EntersTyped ==
    ASSUME CacheTyped, Id \subseteq Id', NEW i \in Id', NEW p \in Pair, EntersCache(i, p),
           DOMAIN cache'.lastTouched \subseteq Id'
    PROVE  CacheTyped'
<1> USE DEF CacheTyped, CacheTypeOK
<1>1. PICK bucket : /\ DOMAIN bucket = DOMAIN Bucket(cache, Norm(p)) \union {i}
                    /\ cache'.byName = Insert(cache.byName, Norm(p), bucket)
  BY DEF EntersCache
<1>2. \A n : DOMAIN Bucket(cache, n) \subseteq Id
  BY DEF Bucket
<1>3. \A n \in DOMAIN cache'.byName : DOMAIN cache'.byName[n] \subseteq Id'
  BY <1>1, <1>2 DEF Insert
<1>4. /\ DOMAIN cache'.byPair \subseteq (Name \X Email)
      /\ \A k \in DOMAIN cache'.byPair : cache'.byPair[k] \in Id'
  BY KeyTypes DEF EntersCache, Insert
<1>5. \A e \in DOMAIN cache'.byEmail : cache'.byEmail[e] \in Id'
  BY DEF EntersCache, OrInsert
<1>6. Shape'
  BY DEF EntersCache, Insert, OrInsert, Shape
<1> QED
  BY <1>3, <1>4, <1>5, <1>6

LEMMA TouchCache ==
    ASSUME DOMAIN cache = Field, NEW i, Touch(i)
    PROVE  /\ DOMAIN cache' = Field
           /\ cache'.byPair = cache.byPair /\ cache'.byEmail = cache.byEmail
           /\ cache'.byName = cache.byName
           /\ cache'.lastTouched = Insert(cache.lastTouched, i, now)
BY Touching DEF Touch

LEMMA LoadCache ==
    ASSUME identities \in Table, aliases \in Seq(Alias), cache' = HotLoad, UNCHANGED tables
    PROVE  CacheTyped'
<1>1. \A k \in DOMAIN HotLoad.byPair : HotLoad.byPair[k] \in Id /\ k \in Name \X Email
  BY HotLoadPairs, RowTypes, KeyTypes
<1>2. \A e \in DOMAIN HotLoad.byEmail : HotLoad.byEmail[e] \in Id
  BY HotLoadEmails, RowTypes
<1>3. \A n \in DOMAIN HotLoad.byName : DOMAIN HotLoad.byName[n] \subseteq Id
  BY HotLoadNames, RowTypes
<1>4. Id' = Id
  BY DEF Id, tables
<1>5. CacheTypeOK'
  BY <1>1, <1>2, <1>3, <1>4, HotLoadRest DEF CacheTypeOK
<1>6. Shape'
  BY HotLoadPairs, HotLoadEmails, HotLoadRest DEF Shape
<1> QED
  BY <1>5, <1>6 DEF CacheTyped

LEMMA NoCacheTyped ==
    ASSUME cache' = NoCache
    PROVE  CacheTyped'
<1>1. DOMAIN << >> = {} /\ << >> = [x \in {} |-> << >>[x]]
  OBVIOUS
<1> QED
  BY <1>1, EmptyCache DEF CacheTyped, CacheTypeOK, Shape

LEMMA CacheKept ==
    ASSUME Typed, [Next]_vars
    PROVE  CacheTyped'
<1>0. /\ CacheTyped /\ DOMAIN cache = Field /\ CallTyped
      /\ identities \in Table /\ aliases \in Seq(Alias) /\ Id \subseteq Id'
  BY TablesTypes, TablesKept DEF Typed, TablesTyped, CacheTyped, Shape
<1>1. CASE \E cs \in SUBSET Commit : cs # {} /\ StartRun(cs)
  BY <1>0, <1>1, LoadCache DEF StartRun, tables
<1>2. CASE \E i \in Id : Touch(i) /\ call # NoCall
  <2>1. PICK i \in Id : Touch(i)
    BY <1>2
  <2>2. /\ DOMAIN cache' = Field
        /\ cache'.byPair = cache.byPair /\ cache'.byEmail = cache.byEmail
        /\ cache'.byName = cache.byName
        /\ cache'.lastTouched = Insert(cache.lastTouched, i, now)
    BY <1>0, <2>1, TouchCache
  <2> QED
    BY <1>0, <2>1, <2>2 DEF CacheTyped, CacheTypeOK, Shape, Insert
<1>3. CASE \E i \in Id : Merge(i) /\ AtFuzzy
  <2>1. PICK i \in Id : Merge(i) /\ AtFuzzy
    BY <1>3
  <2>2. call.pair \in Pair
    BY <1>0, <2>1, CallFields, CallStages
  <2>3. EntersCache(i, call.pair) /\ cache'.lastTouched = cache.lastTouched
    BY <1>0, <2>1, MergeEnters
  <2>4. DOMAIN cache'.lastTouched \subseteq Id'
    BY <1>0, <2>3 DEF CacheTyped, CacheTypeOK
  <2> QED
    BY <1>0, <2>1, <2>2, <2>3, <2>4, EntersTyped
<1>4. CASE RecordNew
  <2>1. call.id \in Id /\ call.pair \in Pair
    BY <1>0, <1>4, CallFields, CallStages DEF RecordNew
  <2>2. /\ EntersCache(call.id, call.pair)
        /\ cache'.lastTouched = Insert(cache.lastTouched, call.id, now)
    BY <1>0, <1>4, NewEnters
  <2>3. DOMAIN cache'.lastTouched \subseteq Id'
    BY <1>0, <2>1, <2>2 DEF CacheTyped, CacheTypeOK, Insert
  <2> QED
    BY <1>0, <2>1, <2>2, <2>3, EntersTyped
<1>5. CASE Persist \/ Kill
  BY <1>5, NoCacheTyped DEF Persist, Kill
<1>6. CASE UNCHANGED cache
  BY <1>0, <1>6 DEF CacheTyped, CacheTypeOK, Shape
<1>7. CASE FuzzyPair \/ TouchMerged
  BY <1>0, <1>2, <1>7, HitIds, CallFields, CallStages DEF FuzzyPair, TouchMerged, CacheTyped
<1>8. CASE FuzzyEmail \/ FuzzyName
  BY <1>0, <1>3, <1>8, HitIds DEF FuzzyEmail, FuzzyName, CacheTyped
<1>9. CASE \/ OverrideHit \/ MailmapHit \/ RecordAlias \/ MailmapFails \/ FuzzyMiss
           \/ FuzzyFails \/ EditMailmap \/ EditOverrides \/ Tick \/ UNCHANGED vars
           \/ \E c \in Commit : Resolve(c)
  BY <1>9, <1>6 DEF OverrideHit, MailmapHit, Canonicalise, RecordAlias, MailmapFails, FuzzyMiss,
         FuzzyFails, EditMailmap, EditOverrides, Tick, Resolve, vars, process
<1> QED
  BY <1>1, <1>4, <1>5, <1>7, <1>8, <1>9 DEF Next, RunStep

-----------------------------------------------------------------------------
\* The steps on a call of the chain.
LEMMA AnswerTyped ==
    ASSUME CallTyped, call # NoCall, Id \subseteq Id', NEW i \in Id' \union {NoId}, Answer(i)
    PROVE  CallTyped'
<1> DEFINE c == call.commit
           ids == Append(Found(c), i)
           I == Id \union {NoId}
<1>1. /\ c \in todo /\ c \in Commit /\ Len(Found(c)) < Len(People[c])
      /\ \A d \in DOMAIN done : done[d] \in Seq(I) /\ Len(done[d]) <= Len(People[d])
      /\ \A d \in todo : Len(Found(d)) < Len(People[d])
  BY DEF CallTyped, Turn
<1>2. Found(c) \in Seq(I)
  BY <1>1 DEF Found
<1>3. Found(c) \in Seq(I')
  BY <1>2, Grown
<1>4. People[c] \in Seq(Pair)
  BY <1>1, PeopleAssumption
<1>5. ids \in Seq(I') /\ Len(ids) <= Len(People[c]) /\ Len(ids) = Len(Found(c)) + 1
  BY <1>1, <1>2, <1>3, <1>4
<1>6. /\ done' = Insert(done, c, ids) /\ call' = NoCall
      /\ todo' = IF Len(ids) = Len(People[c]) THEN todo \ {c} ELSE todo
  BY DEF Answer, Found
<1> HIDE DEF ids
<1>7. /\ DOMAIN done' = DOMAIN done \union {c} /\ done'[c] = ids
      /\ \A d \in DOMAIN done : d # c => done'[d] = done[d]
  BY <1>6 DEF Insert
<1>8. \A d \in DOMAIN done' : done'[d] \in Seq(I') /\ Len(done'[d]) <= Len(People[d])
  <2> TAKE d \in DOMAIN done'
  <2>1. CASE d = c
    BY <2>1, <1>5, <1>7
  <2>2. CASE d # c
    BY <2>2, <1>1, <1>7, Grown
  <2> QED
    BY <2>1, <2>2
<1>9. \A d \in todo' : Len(Found(d)') < Len(People[d])
  <2> TAKE d \in todo'
  <2>1. CASE d = c
    <3>1. Len(ids) # Len(People[c])
      BY <2>1, <1>6
    <3>2. Len(ids) < Len(People[c])
      BY <3>1, <1>4, <1>5
    <3>3. Found(d)' = ids
      BY <2>1, <1>7 DEF Found
    <3> QED
      BY <2>1, <3>2, <3>3
  <2>2. CASE d # c
    <3>1. Found(d)' = Found(d) /\ d \in todo
      BY <2>2, <1>6, <1>7 DEF Found
    <3> QED
      BY <3>1, <1>1
  <2> QED
    BY <2>1, <2>2
<1>10. CallOK' /\ Turn'
  BY <1>6, <1>8, <1>9 DEF CallOK, Turn, Found
<1>11. todo' \subseteq Commit /\ DOMAIN done' \subseteq Commit
  BY <1>1, <1>6, <1>7 DEF CallTyped
<1> QED
  BY <1>10, <1>11 DEF CallTyped

\* The next statement of the same call.
LEMMA NextStage ==
    ASSUME CallTyped, call # NoCall, Id \subseteq Id', UNCHANGED <<todo, done>>,
           NEW s \in {"alias", "touch", "new"}, NEW i \in Id',
           call' = [stage |-> s, commit |-> call.commit, pair |-> call.pair, id |-> i]
    PROVE  CallTyped'
<1>1. call.pair \in Pair /\ call.commit \in Commit
  BY CallFields
<1>2. CallOK'
  BY <1>1 DEF CallOK
<1>3. /\ call'.commit = call.commit /\ call'.pair = call.pair
      /\ call.commit \in todo /\ call.pair = People[call.commit][Len(Found(call.commit)) + 1]
  BY DEF CallTyped, Turn
<1>4. Turn'
  BY <1>3, Grown DEF CallTyped, Turn, Found
<1> QED
  BY <1>2, <1>4 DEF CallTyped

LEMMA ResolveTyped ==
    ASSUME CallTyped, NEW c \in Commit, Resolve(c)
    PROVE  CallTyped'
<1>1. /\ c \in todo /\ UNCHANGED <<identities, todo, done>>
      /\ call' = [stage |-> "resolve", commit |-> c, pair |-> People[c][Len(Found(c)) + 1]]
  BY DEF Resolve, Found, tables
<1>2. People[c] \in Seq(Pair) /\ Len(Found(c)) < Len(People[c])
  BY <1>1, PeopleAssumption DEF CallTyped, Turn
<1>3. Found(c) \in Seq(Id \union {NoId})
  BY DEF CallTyped, Turn, Found
<1>4. People[c][Len(Found(c)) + 1] \in Pair
  BY <1>2, <1>3
<1>5. CallOK'
  BY <1>1, <1>4 DEF CallOK
<1>6. call'.commit = c /\ call'.pair = People[c][Len(Found(c)) + 1]
  BY <1>1
<1>7. Turn'
  BY <1>1, <1>6 DEF CallTyped, Turn, Found, Id
<1> QED
  BY <1>1, <1>5, <1>7 DEF CallTyped

LEMMA StartTyped ==
    ASSUME NEW cs \in SUBSET Commit, StartRun(cs)
    PROVE  CallTyped'
<1>1. todo' = cs /\ done' = << >> /\ call' = NoCall
  BY DEF StartRun, Idle
<1>2. \A c \in cs : Len(People[c]) > 0
  <2> TAKE c \in cs
  <2>1. People[c] \in Seq(Pair) /\ People[c] # << >>
    BY PeopleAssumption
  <2> QED
    BY <2>1
<1> QED
  BY <1>1, <1>2 DEF CallTyped, CallOK, Turn, Found

LEMMA CallKept ==
    ASSUME Typed, [Next]_vars
    PROVE  CallTyped'
<1>0. /\ CallTyped /\ identities \in Table /\ now \in 0 .. MaxTime /\ Id \subseteq Id'
      /\ CacheTypeOK
  BY TablesTypes, TablesKept DEF Typed, TablesTyped, RestTyped, CacheTyped
<1>1. CASE \E cs \in SUBSET Commit : cs # {} /\ StartRun(cs)
  BY <1>1, StartTyped
<1>2. CASE \E c \in Commit : Resolve(c)
  BY <1>0, <1>2, ResolveTyped
<1>3. CASE OverrideHit \/ MailmapHit
  <2>1. PICK name \in Name, email \in Email, bot \in BOOLEAN : Canonicalise(name, email, bot)
    BY <1>3, Canonicalising
  <2>2. /\ identities' = Upserted(name, email, bot) /\ UNCHANGED <<todo, done>>
        /\ call' = [stage |-> "alias", commit |-> call.commit, pair |-> call.pair,
                    id |-> IdOf(identities', email)]
    BY <2>1 DEF Canonicalise
  <2>3. IdOf(identities', email) \in Id'
    BY <1>0, <2>2, Upserting
  <2> QED
    BY <1>0, <1>3, <2>2, <2>3, NextStage, CallStages, Canonicalising
<1>4. CASE \/ \E i \in Id : Touch(i) /\ call # NoCall
           \/ RecordAlias \/ RecordNew \/ FuzzyFails
  <2>1. call # NoCall
    BY <1>4, CallStages DEF RecordAlias, RecordNew, FuzzyFails
  <2>2. \E i \in Id \union {NoId} : Answer(i)
    BY <1>0, <1>4, <2>1, CallFields DEF Touch, RecordAlias, RecordNew, FuzzyFails
  <2> QED
    BY <1>0, <2>1, <2>2, AnswerTyped
<1>5. CASE \E i \in Id : Merge(i) /\ AtFuzzy
  <2>1. PICK i \in Id : Merge(i) /\ AtFuzzy
    BY <1>5
  <2>2. /\ UNCHANGED <<todo, done>>
        /\ call' = [stage |-> "touch", commit |-> call.commit, pair |-> call.pair, id |-> i]
    BY <2>1 DEF Merge
  <2> QED
    BY <1>0, <2>1, <2>2, NextStage, CallStages
<1>6. CASE FuzzyMiss
  <2>1. /\ identities' = Upserted(call.pair[1], call.pair[2], IsBot(call.pair))
        /\ UNCHANGED <<todo, done>> /\ AtFuzzy
        /\ call' = [stage |-> "new", commit |-> call.commit, pair |-> call.pair,
                    id |-> IdOf(identities', call.pair[2])]
    BY <1>6 DEF FuzzyMiss
  <2>2. call # NoCall /\ call.pair \in Pair
    BY <1>0, <2>1, CallFields, CallStages
  <2>3. call.pair[1] \in Name /\ call.pair[2] \in Email /\ IsBot(call.pair) \in BOOLEAN
    BY <2>2 DEF Pair, IsBot
  <2>4. IdOf(identities', call.pair[2]) \in Id'
    BY <1>0, <2>1, <2>3, Upserting
  <2> QED
    BY <1>0, <2>1, <2>2, <2>4, NextStage
<1>7. CASE MailmapFails
  <2>1. /\ call' = [call EXCEPT !.stage = "fuzzy"] /\ call.stage = "resolve"
        /\ UNCHANGED <<identities, todo, done>>
    BY <1>7 DEF MailmapFails, tables
  <2>2. call \in [stage : {"resolve", "fuzzy"}, commit : Commit, pair : Pair]
    BY <1>0, <2>1 DEF CallTyped, CallOK, NoCall
  <2>3. /\ call' \in [stage : {"resolve", "fuzzy"}, commit : Commit, pair : Pair]
        /\ call'.commit = call.commit /\ call'.pair = call.pair
    BY <2>1, <2>2
  <2>4. call # NoCall
    BY <2>1, CallStages
  <2> QED
    BY <1>0, <2>1, <2>3, <2>4 DEF CallTyped, CallOK, Turn, Found, Id
<1>8. CASE Persist \/ Kill
  <2>1. todo' = {} /\ done' = << >> /\ call' = NoCall
    BY <1>8 DEF Persist, Kill
  <2> QED
    BY <2>1 DEF CallTyped, CallOK, Turn
<1>9. CASE EditMailmap \/ EditOverrides \/ Tick \/ UNCHANGED vars
  <2>1. UNCHANGED <<identities, todo, done, call>>
    BY <1>9 DEF EditMailmap, EditOverrides, Tick, vars, tables, process
  <2> QED
    BY <1>0, <2>1 DEF CallTyped, CallOK, Turn, Found, Id
<1>10. CASE FuzzyPair \/ TouchMerged
  BY <1>0, <1>4, <1>10, HitIds, CallFields, CallStages DEF FuzzyPair, TouchMerged
<1>11. CASE FuzzyEmail \/ FuzzyName
  BY <1>0, <1>5, <1>11, HitIds DEF FuzzyEmail, FuzzyName
<1> QED
  BY <1>1, <1>2, <1>3, <1>4, <1>6, <1>7, <1>8, <1>9, <1>10, <1>11 DEF Next, RunStep

LEMMA RestKept ==
    ASSUME Typed, [Next]_vars
    PROVE  RestTyped'
<1> USE DEF Typed, RestTyped
<1>1. CASE \E cs \in SUBSET Commit : cs # {} /\ StartRun(cs)
  BY <1>1, LoadTyped, BoundsAssumption DEF StartRun, files
<1>2. CASE MailmapFails \/ FuzzyFails \/ EditMailmap \/ EditOverrides \/ Tick
  BY <1>2, BoundsAssumption DEF MailmapFails, FuzzyFails, EditMailmap, EditOverrides, Tick,
     files, process
<1>3. CASE Persist \/ Kill
  BY <1>3 DEF Persist, Kill, files
<1>4. CASE \/ \E c \in Commit : Resolve(c)
           \/ OverrideHit \/ MailmapHit \/ RecordAlias
           \/ FuzzyPair \/ FuzzyEmail \/ FuzzyName \/ TouchMerged \/ FuzzyMiss \/ RecordNew
           \/ UNCHANGED vars
  BY <1>4 DEF Resolve, OverrideHit, MailmapHit, Canonicalise, RecordAlias, FuzzyPair, FuzzyEmail,
     FuzzyName, TouchMerged, Touch, Merge, FuzzyMiss, RecordNew, vars, files, process
<1> QED
  BY <1>1, <1>2, <1>3, <1>4 DEF Next, RunStep

LEMMA InitTyped == Init => Typed
<1> SUFFICES ASSUME Init PROVE Typed
  OBVIOUS
<1> USE DEF Init
<1>1. TablesTyped
  BY DEF TablesTyped, TablesTypeOK, RowsFit, Unique, Id
<1>2. CacheTyped
  BY EmptyCache DEF CacheTyped, CacheTypeOK, Shape
<1>3. CallTyped
  BY DEF CallTyped, CallOK, Turn
<1>4. RestTyped
  BY BoundsAssumption DEF RestTyped
<1> QED
  BY <1>1, <1>2, <1>3, <1>4 DEF Typed

LEMMA Types == Spec => []Typed
<1>1. Typed /\ [Next]_vars => Typed'
  BY TablesKept, CacheKept, CallKept, RestKept DEF Typed
<1> QED
  BY <1>1, InitTyped, PTL DEF Spec

\* Every table, cache entry and answer has its shape, and every stored id names an identity.
THEOREM TypeCorrect == Spec => []TypeOK
<1>1. Typed => TypeOK
  BY DEF Typed, TablesTyped, CacheTyped, CallTyped, RestTyped, CallOK, NoCall, TypeOK
<1> QED
  BY <1>1, Types, PTL

-----------------------------------------------------------------------------
(* While the configuration stays as it is and nothing fails.                 *)
LEMMA Calm ==
    ASSUME Typed, [Next]_vars, Settled'
    PROVE  /\ Settled /\ ~MailmapFails /\ ~FuzzyFails /\ ~EditMailmap /\ ~EditOverrides
           /\ UNCHANGED files
<1>1. disturbances \in Nat
  BY BoundsAssumption DEF Typed, RestTyped
<1>2. ~MailmapFails /\ ~FuzzyFails /\ ~EditMailmap /\ ~EditOverrides
  BY <1>1 DEF Settled, MailmapFails, FuzzyFails, EditMailmap, EditOverrides
<1>3. CASE \E cs \in SUBSET Commit : cs # {} /\ StartRun(cs)
  BY <1>3, <1>2 DEF StartRun, Settled
<1>4. CASE \/ \E c \in Commit : Resolve(c)
           \/ OverrideHit \/ MailmapHit \/ RecordAlias
           \/ FuzzyPair \/ FuzzyEmail \/ FuzzyName \/ TouchMerged \/ FuzzyMiss \/ RecordNew
           \/ Persist \/ Kill \/ Tick \/ UNCHANGED vars
  BY <1>4, <1>2 DEF Resolve, OverrideHit, MailmapHit, Canonicalise, RecordAlias, FuzzyPair, FuzzyEmail,
     FuzzyName, TouchMerged, Touch, Merge, FuzzyMiss, RecordNew, Persist, Kill, Tick, vars, Settled
<1> QED
  BY <1>2, <1>3, <1>4 DEF Next, RunStep

LEMMA Constant ==
    ASSUME UNCHANGED files
    PROVE  /\ LoadOverrides' = LoadOverrides
           /\ \A p : MailmapAnswer(p)' = MailmapAnswer(p)
           /\ \A p : CuratedEmail(p)' = CuratedEmail(p) /\ Curated(p)' = Curated(p)
           /\ \A e : Contested(e)' = Contested(e)
BY DEF files, LoadOverrides, MailmapAnswer, MailmapAnswers, CuratedEmail, Curated, Contested

LEMMA SteadyInit == Init => Steady
BY DEF Init, Steady, NoCall

LEMMA SteadyKept ==
    ASSUME Typed, Steady, [Next]_vars
    PROVE  Steady'
<1> SUFFICES ASSUME Settled' PROVE (todo' # {} => overrides' = LoadOverrides') /\ call'.stage # "fuzzy"
  BY DEF Steady
<1>1. /\ Settled /\ LoadOverrides' = LoadOverrides
      /\ ~MailmapFails /\ ~FuzzyFails /\ ~EditMailmap /\ ~EditOverrides
  BY Calm, Constant
<1>2. (todo # {} => overrides = LoadOverrides) /\ call.stage # "fuzzy"
  BY <1>1 DEF Steady
<1>3. CASE \E cs \in SUBSET Commit : cs # {} /\ StartRun(cs)
  BY <1>1, <1>3 DEF StartRun, Idle, NoCall
<1>4. CASE Persist \/ Kill
  BY <1>4 DEF Persist, Kill, NoCall
<1>5. CASE \/ RecordAlias \/ RecordNew \/ FuzzyPair \/ TouchMerged
  <2>1. call # NoCall /\ \E i : Answer(i)
    BY <1>5, CallStages DEF RecordAlias, RecordNew, FuzzyPair, TouchMerged, Touch
  <2>2. call' = NoCall /\ todo' \subseteq todo /\ overrides' = overrides
    BY <1>5, <2>1 DEF Answer, RecordAlias, RecordNew, FuzzyPair, TouchMerged, Touch
  <2> QED
    BY <1>1, <1>2, <2>2 DEF NoCall
<1>6. CASE \/ \E c \in Commit : Resolve(c)
           \/ OverrideHit \/ MailmapHit \/ FuzzyEmail \/ FuzzyName \/ FuzzyMiss \/ Tick \/ UNCHANGED vars
  <2>1. UNCHANGED <<todo, overrides>>
    BY <1>6 DEF Resolve, OverrideHit, MailmapHit, Canonicalise, FuzzyEmail, FuzzyName, Merge, FuzzyMiss, Tick,
                vars, process
  <2>2. call'.stage # "fuzzy"
    <3>1. CASE \E c \in Commit : Resolve(c)
      BY <3>1 DEF Resolve
    <3>2. CASE OverrideHit \/ MailmapHit
      <4>1. PICK name, email, bot : Canonicalise(name, email, bot)
        BY <3>2, Canonicalising
      <4>2. PICK id : call' = [stage |-> "alias", commit |-> call.commit, pair |-> call.pair, id |-> id]
        BY <4>1 DEF Canonicalise
      <4> QED
        BY <4>2
    <3>3. CASE FuzzyEmail \/ FuzzyName
      BY <3>3 DEF FuzzyEmail, FuzzyName, Merge
    <3>4. CASE FuzzyMiss
      BY <3>4 DEF FuzzyMiss
    <3>5. CASE Tick \/ UNCHANGED vars
      BY <1>2, <3>5 DEF Tick, vars, process
    <3> QED
      BY <1>6, <3>1, <3>2, <3>3, <3>4, <3>5
  <2> QED
    BY <1>1, <1>2, <2>1, <2>2
<1> QED
  BY <1>1, <1>3, <1>4, <1>5, <1>6 DEF Next, RunStep

LEMMA Steadily == Spec => []Steady
<1>1. Typed /\ Steady /\ [Next]_vars => Steady'
  BY SteadyKept
<1> QED
  BY <1>1, Types, SteadyInit, PTL DEF Spec

LEMMA CallWritten ==
    ASSUME CallTyped, call # NoCall
    PROVE  call.pair \in Written /\ call.commit \in todo
<1> DEFINE c == call.commit
<1>1. /\ c \in todo /\ c \in Commit /\ call.pair = People[c][Len(Found(c)) + 1]
      /\ Len(Found(c)) < Len(People[c])
  BY DEF CallTyped, Turn
<1>2. People[c] \in Seq(Pair) /\ Found(c) \in Seq(Id \union {NoId})
  BY <1>1, PeopleAssumption DEF CallTyped, Turn, Found
<1>3. Len(Found(c)) + 1 \in DOMAIN People[c]
  BY <1>1, <1>2
<1> QED
  BY <1>1, <1>3 DEF Written

LEMMA OneOverride ==
    ASSUME NEW o \in LoadOverrides, NEW r \in LoadOverrides, o.pair = r.pair,
           overrideFile \in OverrideFiles
    PROVE  o = r
<1> DEFINE es == overrideFile.entries
           Wins(i) == \A j \in DOMAIN es : es[j].pair = es[i].pair => j <= i
           Marked(p) == \E j \in DOMAIN es : es[j].pair = p /\ es[j].bot
           M(i) == [es[i] EXCEPT !.bot = Marked(es[i].pair)]
<1>1. es \in Seq(Entry)
  BY FilesAssumption
<1>2. PICK i \in DOMAIN es : Wins(i) /\ o = M(i)
  BY DEF LoadOverrides
<1>3. PICK j \in DOMAIN es : Wins(j) /\ r = M(j)
  BY DEF LoadOverrides
<1>4. \A k \in DOMAIN es : M(k).pair = es[k].pair
  BY <1>1 DEF Entry
<1>5. es[i].pair = es[j].pair
  BY <1>2, <1>3, <1>4
<1>6. i \in Nat /\ j \in Nat /\ i <= j /\ j <= i
  BY <1>1, <1>2, <1>3, <1>5
<1>7. i = j
  BY <1>6
<1> QED
  BY <1>2, <1>3, <1>7

LEMMA OneCuratedEmail ==
    ASSUME overrideFile \in OverrideFiles, NEW p, NEW e \in CuratedEmail(p), NEW f \in CuratedEmail(p)
    PROVE  e = f
BY OneOverride DEF CuratedEmail

\* What an answer of the curated layers writes.
LEMMA CuratedHit ==
    ASSUME Typed, Steady, Settled, OverrideHit \/ MailmapHit
    PROVE  \E name \in Name, email \in Email, bot \in BOOLEAN :
              /\ Canonicalise(name, email, bot)
              /\ email \in CuratedEmail(call.pair)
              /\ \/ \E o \in LoadOverrides : o.pair = call.pair /\ o.email = email /\ o.bot = bot
                 \/ /\ \A o \in LoadOverrides : o.pair # call.pair
                    /\ email = MailmapAnswer(call.pair)[2]
<1>1. call # NoCall /\ call.pair \in Pair /\ todo # {}
  BY CallFields, CallWritten, CallStages DEF Typed, OverrideHit, MailmapHit
<1>2. overrides = LoadOverrides /\ overrides \subseteq Entry
  BY <1>1 DEF Steady, Typed, RestTyped
<1>3. CASE OverrideHit
  <2>1. PICK o \in Overriding : Canonicalise(o.name, o.email, o.bot)
    BY <1>3 DEF OverrideHit
  <2>2. o \in LoadOverrides /\ o \in Entry /\ o.pair = call.pair
    BY <2>1, <1>2 DEF Overriding
  <2>3. o.name \in Name /\ o.email \in Email /\ o.bot \in BOOLEAN
    BY <2>2 DEF Entry
  <2>4. o.email \in CuratedEmail(call.pair)
    BY <2>2 DEF CuratedEmail
  <2> QED
    BY <2>1, <2>2, <2>3, <2>4
<1>4. CASE MailmapHit
  <2>1. MailmapAnswer(call.pair) \in Pair
    BY <1>1, MailmapPair DEF Typed, RestTyped
  <2>2. MailmapAnswer(call.pair)[1] \in Name /\ MailmapAnswer(call.pair)[2] \in Email
    BY <2>1 DEF Pair
  <2>3. \A o \in LoadOverrides : o.pair # call.pair
    BY <1>2, <1>4 DEF MailmapHit, Overriding
  <2>4. MailmapAnswer(call.pair)[2] \in CuratedEmail(call.pair)
    BY <1>4, <2>3 DEF MailmapHit, CuratedEmail
  <2> QED
    BY <1>4, <2>2, <2>3, <2>4 DEF MailmapHit
<1> QED
  BY <1>3, <1>4

\* The union-find sees no curated pair.
LEMMA Uncurated ==
    ASSUME Typed, Steady, Settled, AtFuzzy
    PROVE  ~Curated(call.pair) /\ \A o \in LoadOverrides : o.pair # call.pair
<1>1. call # NoCall /\ todo # {}
  BY CallWritten, CallStages DEF Typed
<1>2. overrides = LoadOverrides /\ Overriding = {} /\ ~MailmapAnswers(call.pair)
  BY <1>1 DEF Steady, AtFuzzy
<1>3. \A o \in LoadOverrides : o.pair # call.pair
  BY <1>2 DEF Overriding
<1> QED
  BY <1>2, <1>3 DEF Curated, CuratedEmail

\* The steps on the identities.
LEMMA IdentitySteps ==
    ASSUME Typed, [Next]_vars
    PROVE  \/ OverrideHit \/ MailmapHit \/ FuzzyMiss
           \/ \E i \in Id : Touch(i) /\ call # NoCall
           \/ UNCHANGED identities
BY TableSteps DEF RecordAlias, Merge, RecordNew, Persist, tables

LEMMA BotsKept ==
    ASSUME Typed, Steady, CuratedBotStays, [Next]_vars
    PROVE  CuratedBotStays'
<1> SUFFICES ASSUME Settled',
                    NEW o \in LoadOverrides', o.bot,
                    \A other \in LoadOverrides' : other.email = o.email => other.bot,
                    \A p \in Written \ {other.pair : other \in LoadOverrides'} :
                        o.email \notin {p[2], MailmapAnswer(p)'[2]},
                    NEW i \in Id', identities'[i].email = o.email
             PROVE  identities'[i].bot
  BY DEF CuratedBotStays, Written
<1>1. /\ Settled /\ o \in LoadOverrides
      /\ \A other \in LoadOverrides : other.email = o.email => other.bot
      /\ \A p \in Written \ {other.pair : other \in LoadOverrides} : o.email \notin {p[2], MailmapAnswer(p)[2]}
  BY Calm, Constant
<1>2. \A j \in Id : identities[j].email = o.email => identities[j].bot
  BY <1>1 DEF CuratedBotStays
<1>3. identities \in Table /\ now \in 0 .. MaxTime
  BY TablesTypes DEF Typed, TablesTyped, RestTyped
<1>4. CASE OverrideHit \/ MailmapHit
  <2>1. PICK name \in Name, email \in Email, bot \in BOOLEAN :
              /\ Canonicalise(name, email, bot)
              /\ \/ \E r \in LoadOverrides : r.pair = call.pair /\ r.email = email /\ r.bot = bot
                 \/ /\ \A r \in LoadOverrides : r.pair # call.pair
                    /\ email = MailmapAnswer(call.pair)[2]
    BY <1>1, <1>4, CuratedHit
  <2>2. identities' = Upserted(name, email, bot)
    BY <2>1 DEF Canonicalise
  <2>3. call.pair \in Written
    BY <1>4, CallWritten, CallStages DEF Typed, OverrideHit, MailmapHit
  <2>4. email = o.email => bot
    BY <1>1, <2>1, <2>3
  <2>5. /\ \A j \in Id : /\ identities'[j].email = identities[j].email
                         /\ identities[j].email # email => identities'[j] = identities[j]
        /\ \A j \in Id' : j \in Id \/ identities'[j].email = email
        /\ \A j \in Id' : identities'[j].email = email => identities'[j].bot = bot
    BY <1>3, <2>2, Upserting
  <2>6. CASE email = o.email
    BY <2>4, <2>5, <2>6
  <2>7. CASE email # o.email
    BY <1>2, <2>5, <2>7
  <2> QED
    BY <2>6, <2>7
<1>5. CASE FuzzyMiss
  <2>1. /\ identities' = Upserted(call.pair[1], call.pair[2], IsBot(call.pair)) /\ AtFuzzy
    BY <1>5 DEF FuzzyMiss
  <2>2. call.pair \in Pair /\ call.pair \in Written
    BY <2>1, CallFields, CallWritten, CallStages DEF Typed
  <2>3. call.pair[1] \in Name /\ call.pair[2] \in Email /\ IsBot(call.pair) \in BOOLEAN
    BY <2>2 DEF Pair, IsBot
  <2>4. /\ \A j \in Id : /\ identities'[j].email = identities[j].email
                         /\ identities[j].email # call.pair[2] => identities'[j] = identities[j]
        /\ \A j \in Id' : j \in Id \/ identities'[j].email = call.pair[2]
    BY <1>3, <2>1, <2>3, Upserting
  <2>5. call.pair[2] # o.email
    BY <1>1, <2>1, <2>2, Uncurated
  <2> QED
    BY <1>2, <2>4, <2>5
<1>6. CASE \E j \in Id : Touch(j) /\ call # NoCall
  <2>1. PICK j \in Id : identities' = Touched(j)
    BY <1>6 DEF Touch
  <2> QED
    BY <1>2, <1>3, <2>1, Bumping
<1>7. CASE UNCHANGED identities
  BY <1>2, <1>7 DEF Id
<1> QED
  BY <1>4, <1>5, <1>6, <1>7, IdentitySteps

\* An identity that the overrides declare a bot at every pair of its address stays one,
\* whatever the mailmap and the union-find write (the upsert overwrites is_bot).
THEOREM BotStays == Spec => []CuratedBotStays
<1>1. Init => CuratedBotStays
  BY DEF Init, CuratedBotStays, Id
<1>2. Typed /\ Steady /\ CuratedBotStays /\ [Next]_vars => CuratedBotStays'
  BY BotsKept
<1> QED
  BY <1>1, <1>2, Types, Steadily, PTL DEF Spec

-----------------------------------------------------------------------------
(* The rows after each kind of statement.                                    *)
LEMMA RowsUpserted ==
    ASSUME TablesTyped, now \in 0 .. MaxTime,
           NEW name \in Name, NEW email \in Email, NEW bot \in BOOLEAN,
           identities' = Upserted(name, email, bot), UNCHANGED <<aliases, rows>>
    PROVE  /\ \A i : \A p \in Pair : p[2] # email => (Row(i, p)' <=> Row(i, p))
           /\ \A i : \A p \in Pair : Row(i, p)' =>
                 \/ Row(i, p)
                 \/ i = IdOf(identities', email) /\ p = <<name, email>>
           /\ \A i : i = IdOf(identities', email) => Row(i, <<name, email>>)'
<1>1. identities \in Table /\ DOMAIN identities = Id
  BY TablesTypes DEF TablesTyped, Table, Id
<1>2. /\ identities' \in Table /\ Id \subseteq Id' /\ IdOf(identities', email) \in Id'
      /\ identities'[IdOf(identities', email)].name = name
      /\ identities'[IdOf(identities', email)].email = email
      /\ \A i \in Id : /\ identities'[i].email = identities[i].email
                       /\ identities[i].email # email => identities'[i] = identities[i]
      /\ \A i \in Id' : i \in Id \/ identities'[i].email = email
      /\ \A i \in Id' : identities'[i].email = email => identities'[i].name = name
  BY <1>1, Upserting
<1>3. DOMAIN identities' = Id'
  BY <1>2 DEF Table, Id
<1>4. \A i \in Id' : identities'[i].email = email => i = IdOf(identities', email)
  <2>1. Unique'
    BY UpsertTyped DEF TablesTyped
  <2> QED
    BY <1>2, <1>3, <2>1 DEF Unique
<1>5. ASSUME NEW i, NEW p \in Pair, p[2] # email
      PROVE  Row(i, p)' <=> Row(i, p)
  <2>1. ASSUME i \in Id, identities[i].email # email
        PROVE  i \in Id' /\ identities'[i] = identities[i]
    BY <1>2, <2>1
  <2>2. ASSUME p = <<identities[i].name, identities[i].email>>, i \in Id
        PROVE  Row(i, p)'
    BY <1>1, <1>3, <1>5, <2>1, <2>2 DEF Row
  <2>3. ASSUME p = <<identities'[i].name, identities'[i].email>>, i \in Id'
        PROVE  Row(i, p)
    BY <1>1, <1>2, <1>3, <1>5, <2>3 DEF Row
  <2> QED
    BY <1>1, <1>3, <2>2, <2>3 DEF Row
<1>6. ASSUME NEW i, NEW p \in Pair, Row(i, p)', p[2] = email
      PROVE  Row(i, p) \/ (i = IdOf(identities', email) /\ p = <<name, email>>)
  <2>1. CASE i \in Id' /\ p = <<identities'[i].name, identities'[i].email>>
    BY <1>2, <1>4, <1>6, <2>1
  <2>2. CASE \E a \in DOMAIN aliases : aliases[a].id = i /\ aliases[a].pair = p
    BY <2>2 DEF Row
  <2> QED
    BY <1>3, <1>6, <2>1, <2>2 DEF Row
<1>7. ASSUME NEW i, i = IdOf(identities', email)
      PROVE  Row(i, <<name, email>>)'
  <2>1. i \in DOMAIN identities' /\ <<name, email>> = <<identities'[i].name, identities'[i].email>>
    BY <1>2, <1>3, <1>7
  <2> QED
    BY <2>1 DEF Row
<1> QED
  BY <1>5, <1>6, <1>7

LEMMA RowsAliased ==
    ASSUME TablesTyped, NEW i \in Id, NEW p \in Pair, aliases' = AliasesWith(i, p),
           UNCHANGED identities
    PROVE  /\ \A j : \A q \in Pair : Row(j, q) => Row(j, q)'
           /\ \A j : \A q \in Pair : Row(j, q)' => Row(j, q) \/ (j = i /\ q = p)
           /\ (\A j : ~Row(j, p)) => Row(i, p)'
<1>1. aliases \in Seq([id : Id, pair : Pair])
  BY TablesTypes DEF TablesTyped, Alias
<1>2. /\ \A a \in DOMAIN aliases : a \in DOMAIN aliases' /\ aliases'[a] = aliases[a]
      /\ \A a \in DOMAIN aliases' : a \in DOMAIN aliases \/ aliases'[a] = [id |-> i, pair |-> p]
      /\ (\A a \in DOMAIN aliases : aliases[a].pair # p) =>
            \E a \in DOMAIN aliases' : aliases'[a] = [id |-> i, pair |-> p]
  BY <1>1, Aliasing
<1> QED
  BY <1>2 DEF Row

LEMMA RowsTouched ==
    ASSUME TablesTyped, now \in 0 .. MaxTime, NEW i \in Id, identities' = Touched(i),
           UNCHANGED aliases
    PROVE  \A j : \A q \in Pair : Row(j, q)' <=> Row(j, q)
<1>1. identities \in Table
  BY TablesTypes DEF TablesTyped
<1>2. /\ identities' \in Table /\ Id' = Id
      /\ \A j \in Id : identities'[j].name = identities[j].name /\ identities'[j].email = identities[j].email
  BY <1>1, Bumping
<1>3. DOMAIN identities' = Id /\ DOMAIN identities = Id
  BY <1>1, <1>2 DEF Table, Id
<1> QED
  BY <1>2, <1>3 DEF Row

-----------------------------------------------------------------------------
(* Steps after which the configuration is still as it was and nothing has    *)
(* failed.  Pure addresses are those that no curated answer touches.         *)
CalmStep == IInv /\ [Next]_vars /\ Settled'

LEMMA PastKept ==
    ASSUME Typed, Past, [Next]_vars
    PROVE  Past'
<1>0. identities \in Table /\ now \in 0 .. MaxTime /\ now \in Int /\ \A i \in Id : identities[i].seen \in Int
  <2>1. identities \in Table /\ now \in 0 .. MaxTime
    BY TablesTypes DEF Typed, TablesTyped, RestTyped
  <2>2. \A i \in Id : identities[i] \in Account
    BY <2>1 DEF Table, Id
  <2> QED
    BY <2>1, <2>2 DEF Account
<1>1. CASE \E name \in Name, email \in Email, bot \in BOOLEAN :
              identities' = Upserted(name, email, bot) /\ now' = now
  <2>1. PICK name \in Name, email \in Email, bot \in BOOLEAN :
              identities' = Upserted(name, email, bot) /\ now' = now
    BY <1>1
  <2>2. /\ identities'[IdOf(identities', email)].seen = now
        /\ identities'[IdOf(identities', email)].email = email
        /\ IdOf(identities', email) \in Id'
        /\ \A i \in Id : identities[i].email # email => identities'[i] = identities[i]
        /\ \A i \in Id : identities'[i].email = identities[i].email
        /\ \A i \in Id' : i \in Id \/ identities'[i].email = email
    BY <1>0, <2>1, Upserting
  <2>3. \A i \in Id' : identities'[i].email = email => i = IdOf(identities', email)
    <3>1. Unique' /\ DOMAIN identities' = Id'
      BY TablesKept, TablesTypes DEF TablesTyped, Table, Id
    <3> QED
      BY <2>2, <3>1 DEF Unique
  <2>4. \A i \in Id' : identities'[i].email # email => i \in Id /\ identities'[i] = identities[i]
    BY <2>2
  <2> QED
    BY <1>0, <2>1, <2>2, <2>3, <2>4 DEF Past
<1>2. CASE \E i \in Id : identities' = Touched(i) /\ now' = now
  <2>1. PICK i \in Id : identities' = Touched(i) /\ now' = now
    BY <1>2
  <2>2. Id' = Id /\ \A j \in Id : identities'[j].seen = IF j = i THEN now ELSE identities[j].seen
    BY <1>0, <2>1, Bumping
  <2> QED
    BY <1>0, <2>1, <2>2 DEF Past
<1>3. CASE UNCHANGED identities /\ now' \in {now, now + 1}
  BY <1>0, <1>3 DEF Past, Id
<1>4. CASE OverrideHit \/ MailmapHit
  BY <1>1, <1>4, Canonicalising DEF Canonicalise
<1>5. CASE FuzzyMiss
  <2>1. call.pair \in Pair
    BY <1>5, CallFields, CallStages DEF FuzzyMiss, Typed
  <2>2. call.pair[1] \in Name /\ call.pair[2] \in Email /\ IsBot(call.pair) \in BOOLEAN
    BY <2>1 DEF Pair, IsBot
  <2> QED
    BY <1>1, <1>5, <2>2 DEF FuzzyMiss
<1>6. CASE FuzzyPair \/ TouchMerged
  BY <1>2, <1>6, HitIds, CallFields, CallStages DEF FuzzyPair, TouchMerged, Touch, Typed, CacheTyped
<1>7. CASE \/ \E cs \in SUBSET Commit : cs # {} /\ StartRun(cs)
           \/ \E c \in Commit : Resolve(c)
           \/ RecordAlias \/ MailmapFails \/ FuzzyEmail \/ FuzzyName \/ RecordNew \/ FuzzyFails
           \/ Persist \/ Kill \/ EditMailmap \/ EditOverrides \/ Tick \/ UNCHANGED vars
  BY <1>3, <1>7 DEF StartRun, Resolve, RecordAlias, MailmapFails, FuzzyEmail, FuzzyName, Merge, RecordNew,
     FuzzyFails, Persist, Kill, EditMailmap, EditOverrides, Tick, vars, tables
<1> QED
  BY <1>4, <1>5, <1>6, <1>7 DEF Next, RunStep

LEMMA FuzzyOnlyKept ==
    ASSUME [Next]_vars, fuzzyOnly'
    PROVE  fuzzyOnly
BY DEF Next, RunStep, StartRun, Resolve, OverrideHit, MailmapHit, Canonicalise, RecordAlias, MailmapFails,
   FuzzyPair, FuzzyEmail, FuzzyName, TouchMerged, Touch, Merge, FuzzyMiss, RecordNew, FuzzyFails,
   Persist, Kill, EditMailmap, EditOverrides, Tick, vars

LEMMA CalmFacts ==
    ASSUME CalmStep
    PROVE  /\ Typed /\ Typed' /\ Steady /\ Past /\ Settled /\ UNCHANGED files
           /\ Stage /\ CuratedAliases /\ OneId /\ PairMirror /\ EmailMirror /\ NameMirror
           /\ TouchMirror /\ Alone /\ Answers
           /\ TablesTyped /\ TablesTyped' /\ CacheTyped /\ CallTyped /\ now \in 0 .. MaxTime
           /\ identities \in Table /\ aliases \in Seq(Alias) /\ DOMAIN identities = Id
           /\ identities' \in Table /\ aliases' \in Seq(Alias)' /\ DOMAIN identities' = Id'
           /\ Id \subseteq Id' /\ DOMAIN cache = Field
           /\ \A p : CuratedEmail(p)' = CuratedEmail(p) /\ Curated(p)' = Curated(p)
           /\ \A e : Pure(e)' => Pure(e)
           /\ ~MailmapFails /\ ~FuzzyFails /\ ~EditMailmap /\ ~EditOverrides
<1>1. Typed /\ Steady /\ Past /\ Sound /\ [Next]_vars /\ Settled'
  BY DEF CalmStep, IInv
<1>2. /\ Settled /\ UNCHANGED files /\ ~MailmapFails /\ ~FuzzyFails /\ ~EditMailmap /\ ~EditOverrides
  BY <1>1, Calm
<1>3. Typed' /\ Id \subseteq Id'
  BY <1>1, TablesKept, CacheKept, CallKept, RestKept DEF Typed
<1>4. /\ \A p : CuratedEmail(p)' = CuratedEmail(p) /\ Curated(p)' = Curated(p)
      /\ \A e : Contested(e)' = Contested(e)
  BY <1>2, Constant
<1>5. \A e : Pure(e)' => Pure(e)
  BY <1>1, <1>4, FuzzyOnlyKept DEF Pure
<1>6. /\ Stage /\ CuratedAliases /\ OneId /\ PairMirror /\ EmailMirror /\ NameMirror
      /\ TouchMirror /\ Alone /\ Answers
  BY <1>1, <1>2 DEF Sound
<1>7. /\ TablesTyped /\ TablesTyped' /\ CacheTyped /\ CallTyped /\ now \in 0 .. MaxTime
  BY <1>1, <1>3 DEF Typed, RestTyped
<1>8. /\ identities \in Table /\ aliases \in Seq(Alias)
      /\ identities' \in Table /\ aliases' \in Seq(Alias)'
  BY <1>7 DEF TablesTyped, TablesTypeOK, Table, Account, Alias
<1>9. DOMAIN identities = Id /\ DOMAIN identities' = Id'
  BY <1>8 DEF Table, Id
<1>10. DOMAIN cache = Field
  BY <1>7 DEF CacheTyped, Shape
<1> QED
  BY <1>1, <1>2, <1>3, <1>4, <1>5, <1>6, <1>7, <1>8, <1>9, <1>10

\* An address that neither the tables nor, therefore, the cache know.
LEMMA Unknown ==
    ASSUME CalmStep, AtFuzzy, ~EmailHit, Pure(Lower(call.pair))
    PROVE  \A i : \A p \in Pair : Row(i, p) => Lower(p) # Lower(call.pair)
<1>1. /\ call # NoCall /\ call.stage # "new" /\ EmailMirror /\ CallTyped
      /\ identities \in Table /\ aliases \in Seq(Alias)
  BY CalmFacts, CallStages DEF AtFuzzy
<1>2. Running
  BY <1>1, CallWritten DEF Running
<1>3. \A e : ~Pending(e)
  BY <1>1 DEF Pending
<1> QED
  BY <1>1, <1>2, <1>3, RowTypes DEF EmailMirror, EmailHit

\* A pair that none of the tables has in its normalised form.
LEMMA UnknownPair ==
    ASSUME CalmStep, AtFuzzy, ~PairHit, Pure(Lower(call.pair))
    PROVE  \A i : \A p \in Pair : Row(i, p) => Key(p) # Key(call.pair)
<1>1. /\ call # NoCall /\ call.stage # "new" /\ PairMirror /\ CallTyped
      /\ identities \in Table /\ aliases \in Seq(Alias)
  BY CalmFacts, CallStages DEF AtFuzzy
<1>2. Running
  BY <1>1, CallWritten DEF Running
<1>3. \A e : ~Pending(e)
  BY <1>1 DEF Pending
<1>4. \A p : Key(p) = Key(call.pair) => Lower(p) = Lower(call.pair)
  BY DEF Key
<1> QED
  BY <1>1, <1>2, <1>3, <1>4, RowTypes DEF PairMirror, PairHit

\* A hit is an identity that the tables give the address, or the pair.
LEMMA Hits ==
    ASSUME CalmStep, AtFuzzy, Pure(Lower(call.pair))
    PROVE  /\ EmailHit => \E p \in Pair :
                 Row(cache.byEmail[Lower(call.pair)], p) /\ Lower(p) = Lower(call.pair)
           /\ PairHit => \E p \in Pair :
                 Row(cache.byPair[Key(call.pair)], p) /\ Key(p) = Key(call.pair)
<1>1. /\ call # NoCall /\ PairMirror /\ EmailMirror /\ CallTyped
  BY CalmFacts, CallStages
<1>2. Running /\ call.pair \in Pair
  BY <1>1, CallWritten, CallFields DEF Running
<1>3. Key(call.pair)[2] = Lower(call.pair)
  BY DEF Key
<1> QED
  BY <1>1, <1>2, <1>3 DEF PairMirror, EmailMirror, PairHit, EmailHit

\* The pure rows stay, or gain one.
SameRows == \A j : \A p \in Pair : Pure(Lower(p))' => (Row(j, p)' <=> Row(j, p))
Gains(i, q) ==
    \A j : \A p \in Pair : Pure(Lower(p))' => (Row(j, p)' <=> Row(j, p) \/ (j = i /\ p = q))

LEMMA CanonicaliseRows ==
    ASSUME CalmStep, OverrideHit \/ MailmapHit
    PROVE  /\ SameRows /\ ~fuzzyOnly'
           /\ \E i \in Id' : /\ call' = [stage |-> "alias", commit |-> call.commit, pair |-> call.pair, id |-> i]
                             /\ identities'[i].email \in CuratedEmail(call.pair)
           /\ call.stage = "resolve"
           /\ UNCHANGED <<aliases, rows, cache, todo, done>>
<1>0. /\ Typed /\ Steady /\ Settled /\ TablesTyped /\ now \in 0 .. MaxTime /\ identities \in Table
      /\ \A e : Contested(e)' = Contested(e)
  BY CalmFacts, Constant
<1>1. PICK name \in Name, email \in Email, bot \in BOOLEAN :
              Canonicalise(name, email, bot) /\ email \in CuratedEmail(call.pair)
  BY <1>0, CuratedHit
<1>2. /\ identities' = Upserted(name, email, bot) /\ fuzzyOnly' = FALSE
      /\ call' = [stage |-> "alias", commit |-> call.commit, pair |-> call.pair,
                  id |-> IdOf(identities', email)]
      /\ UNCHANGED <<aliases, rows, cache, todo, done>>
  BY <1>1 DEF Canonicalise
<1>3. call.pair \in Written /\ call.stage = "resolve"
  BY <1>0, CallWritten, CallStages DEF Typed, OverrideHit, MailmapHit
<1>4. Contested(LowerEmail[email])
  BY <1>1, <1>3 DEF Contested, Curated
<1>5. \A p \in Pair : Pure(Lower(p))' => p[2] # email
  BY <1>0, <1>2, <1>4 DEF Pure, Lower
<1>6. SameRows
  BY <1>0, <1>2, <1>5, RowsUpserted DEF SameRows
<1>7. IdOf(identities', email) \in Id' /\ identities'[IdOf(identities', email)].email = email
  BY <1>0, <1>2, Upserting
<1> QED
  BY <1>1, <1>2, <1>3, <1>6, <1>7

LEMMA RecordAliasRows ==
    ASSUME CalmStep, RecordAlias
    PROVE  SameRows /\ ~fuzzyOnly'
<1>0. /\ CallTyped /\ TablesTyped /\ Stage /\ call # NoCall /\ identities \in Table /\ aliases \in Seq(Alias)
      /\ UNCHANGED files
  BY CalmFacts, CallStages DEF RecordAlias
<1>1. /\ aliases' = AliasesWith(call.id, call.pair) /\ UNCHANGED <<identities, fuzzyOnly>>
      /\ call.stage = "alias"
  BY DEF RecordAlias
<1>2. call.id \in Id /\ call.pair \in Pair /\ call.pair \in Written
  BY <1>0, <1>1, CallFields, CallWritten
<1>3. Curated(call.pair) /\ ~fuzzyOnly
  BY <1>0, <1>1 DEF Stage, Curated
<1>4. Contested(Lower(call.pair))
  BY <1>2, <1>3 DEF Contested
<1>5. \A p \in Pair : Pure(Lower(p))' => p # call.pair
  BY <1>0, <1>1, <1>3, <1>4, Constant DEF Pure
<1>6. /\ \A j : \A q \in Pair : Row(j, q) => Row(j, q)'
      /\ \A j : \A q \in Pair : Row(j, q)' => Row(j, q) \/ (j = call.id /\ q = call.pair)
  BY <1>0, <1>1, <1>2, RowsAliased
<1> QED
  BY <1>1, <1>3, <1>5, <1>6 DEF SameRows

LEMMA TouchRows ==
    ASSUME CalmStep, NEW i \in Id, Touch(i)
    PROVE  SameRows
BY CalmFacts, RowsTouched DEF Touch, SameRows

LEMMA MergeRows ==
    ASSUME CalmStep, AtFuzzy, ~PairHit, NEW i \in Id, Merge(i)
    PROVE  Gains(i, call.pair)
<1>0. CallTyped /\ TablesTyped /\ call.pair \in Pair
  BY CalmFacts, CallFields, CallStages
<1> PICK c : c = call.pair
  OBVIOUS
<1>1. aliases' = AliasesWith(i, c) /\ UNCHANGED identities
  BY DEF Merge
<1>2. /\ \A j : \A q \in Pair : Row(j, q) => Row(j, q)'
      /\ \A j : \A q \in Pair : Row(j, q)' => Row(j, q) \/ (j = i /\ q = c)
      /\ (\A j : ~Row(j, c)) => Row(i, c)'
  BY <1>0, <1>1, RowsAliased
<1>3. Pure(Lower(call.pair)) => \A j : ~Row(j, c)
  BY <1>0, UnknownPair
<1>4. \A p \in Pair : Pure(Lower(p))' => Pure(Lower(p))
  BY CalmFacts
<1>5. ASSUME NEW j, NEW p \in Pair, Pure(Lower(p))', j = i /\ p = c
      PROVE  Row(j, p)'
  BY <1>2, <1>3, <1>4, <1>5
<1> QED
  BY <1>2, <1>5 DEF Gains

LEMMA MissRows ==
    ASSUME CalmStep, FuzzyMiss
    PROVE  \E i \in Id' :
              /\ call' = [stage |-> "new", commit |-> call.commit, pair |-> call.pair, id |-> i]
              /\ call.pair = <<identities'[i].name, identities'[i].email>>
              /\ Gains(i, call.pair)
              /\ \A j \in Id : identities'[j].email = identities[j].email
              /\ Pure(Lower(call.pair)) =>
                    /\ i \notin Id /\ Id' = Id \union {i}
                    /\ \A j \in Id : identities'[j] = identities[j]
<1>0. /\ CallTyped /\ TablesTyped /\ now \in 0 .. MaxTime /\ identities \in Table /\ DOMAIN identities = Id
      /\ AtFuzzy /\ ~EmailHit
  BY CalmFacts DEF FuzzyMiss
<1>1. call.pair \in Pair
  BY <1>0, CallFields, CallStages
<1> PICK name, email : name = call.pair[1] /\ email = call.pair[2]
  OBVIOUS
<1> DEFINE bot == IsBot(call.pair)
<1>2. /\ identities' = Upserted(name, email, bot) /\ UNCHANGED <<aliases, rows>>
      /\ call' = [stage |-> "new", commit |-> call.commit, pair |-> call.pair, id |-> IdOf(identities', email)]
  BY DEF FuzzyMiss
<1>3. name \in Name /\ email \in Email /\ bot \in BOOLEAN /\ call.pair = <<name, email>>
  BY <1>1 DEF Pair, IsBot
<1> HIDE DEF bot
<1>4. PICK i : i = IdOf(identities', email)
  OBVIOUS
<1>5. /\ i \in Id' /\ identities'[i].name = name /\ identities'[i].email = email
      /\ \A j \in Id : /\ identities'[j].email = identities[j].email
                       /\ identities[j].email # email => identities'[j] = identities[j]
      /\ (\A j \in Id : identities[j].email # email) => Id' = Id \union {i} /\ i \notin Id
  BY <1>0, <1>2, <1>3, <1>4, Upserting
<1>6. /\ \A j : \A p \in Pair : p[2] # email => (Row(j, p)' <=> Row(j, p))
      /\ \A j : \A p \in Pair : Row(j, p)' => Row(j, p) \/ (j = i /\ p = <<name, email>>)
      /\ Row(i, <<name, email>>)'
  BY <1>0, <1>2, <1>3, <1>4, RowsUpserted
<1>7. Pure(Lower(call.pair)) => \A j : \A p \in Pair : Row(j, p) => Lower(p) # Lower(call.pair)
  BY <1>0, Unknown
<1>8. ASSUME Pure(Lower(call.pair)), NEW j \in Id, identities[j].email = email
      PROVE  FALSE
  <2> DEFINE p == <<identities[j].name, identities[j].email>>
  <2>1. identities[j] \in Account
    BY <1>0 DEF Table
  <2>2. p \in Pair /\ Row(j, p)
    BY <1>0, <2>1 DEF Account, Pair, Row
  <2>3. Lower(p) = Lower(call.pair)
    BY <1>3, <1>8 DEF Lower
  <2> QED
    BY <1>7, <1>8, <2>2, <2>3
<1>9. \A p \in Pair : Pure(Lower(p))' => Pure(Lower(p))
  BY CalmFacts
<1>10. ASSUME NEW j, NEW p \in Pair, Pure(Lower(p))', Row(j, p)
       PROVE  Row(j, p)'
  <2>1. p[2] # email
    <3>1. p[2] = email => Lower(p) = Lower(call.pair)
      BY <1>3 DEF Lower
    <3> QED
      BY <1>7, <1>9, <1>10, <3>1
  <2> QED
    BY <1>6, <1>10, <2>1
<1>11. Gains(i, call.pair)
  BY <1>3, <1>6, <1>10 DEF Gains
<1> QED
  BY <1>2, <1>3, <1>4, <1>5, <1>8, <1>11

LEMMA RecordNewRows ==
    ASSUME CalmStep, RecordNew
    PROVE  SameRows
<1>0. /\ CallTyped /\ TablesTyped /\ Stage /\ call # NoCall /\ DOMAIN identities = Id
  BY CalmFacts, CallStages DEF RecordNew
<1>1. /\ aliases' = AliasesWith(call.id, call.pair) /\ UNCHANGED identities
      /\ call.stage = "new"
  BY DEF RecordNew
<1>2. call.id \in Id /\ call.pair \in Pair
  BY <1>0, <1>1, CallFields
<1>3. Row(call.id, call.pair)
  BY <1>0, <1>1, <1>2 DEF Stage, Row
<1>4. /\ \A j : \A q \in Pair : Row(j, q) => Row(j, q)'
      /\ \A j : \A q \in Pair : Row(j, q)' => Row(j, q) \/ (j = call.id /\ q = call.pair)
  BY <1>0, <1>1, <1>2, RowsAliased
<1> QED
  BY <1>3, <1>4 DEF SameRows

-----------------------------------------------------------------------------
(* One address, one identity.                                                *)

\* A merge under rule (a) or rule (b).
Merges(i) ==
    /\ AtFuzzy /\ ~PairHit /\ Merge(i)
    /\ IF EmailHit THEN i = cache.byEmail[Lower(call.pair)] ELSE i \in NameHits

\* A step that neither writes nor answers: the next pair, the clock.
Still ==
    /\ UNCHANGED <<tables, cache, todo, done, fuzzyOnly>>
    /\ now' \in {now, now + 1}
    /\ call' = call \/ (call = NoCall /\ call'.stage = "resolve")

LEMMA CalmSteps ==
    ASSUME CalmStep
    PROVE  \/ \E cs \in SUBSET Commit : StartRun(cs)
           \/ OverrideHit \/ MailmapHit
           \/ RecordAlias
           \/ \E i \in Id : FuzzyPair /\ i = cache.byPair[Key(call.pair)] /\ Touch(i)
           \/ \E i \in Id : TouchMerged /\ i = call.id /\ Touch(i)
           \/ \E i \in Id : Merges(i)
           \/ FuzzyMiss
           \/ RecordNew
           \/ Persist \/ Kill
           \/ Still
<1>0. /\ CacheTypeOK /\ CallTyped /\ [Next]_vars
      /\ ~MailmapFails /\ ~FuzzyFails /\ ~EditMailmap /\ ~EditOverrides
  BY CalmFacts DEF CacheTyped, CalmStep
<1>1. ASSUME FuzzyPair
      PROVE  \E i \in Id : i = cache.byPair[Key(call.pair)] /\ Touch(i)
  BY <1>0, <1>1, HitIds DEF FuzzyPair
<1>2. ASSUME TouchMerged
      PROVE  \E i \in Id : i = call.id /\ Touch(i)
  BY <1>0, <1>2, CallFields, CallStages DEF TouchMerged
<1>3. ASSUME FuzzyEmail \/ FuzzyName
      PROVE  \E i \in Id : Merges(i)
  BY <1>0, <1>3, HitIds DEF FuzzyEmail, FuzzyName, Merges
<1>4. ASSUME (\E c \in Commit : Resolve(c)) \/ Tick \/ UNCHANGED vars
      PROVE  Still
  BY <1>4 DEF Resolve, Tick, vars, tables, process, Still
<1> QED
  BY <1>0, <1>1, <1>2, <1>3, <1>4 DEF Next, RunStep

LEMMA MergesRows ==
    ASSUME CalmStep, NEW i \in Id, Merges(i)
    PROVE  /\ Gains(i, call.pair)
           /\ Pure(Lower(call.pair)) => \A j : \A p \in Pair :
                 Row(j, p) /\ Lower(p) = Lower(call.pair) => j = i /\ EmailHit
<1>1. Gains(i, call.pair)
  BY MergeRows DEF Merges
<1>2. ASSUME Pure(Lower(call.pair)), NEW j, NEW p \in Pair, Row(j, p), Lower(p) = Lower(call.pair)
      PROVE  j = i /\ EmailHit
  <2>1. EmailHit
    BY <1>2, Unknown DEF Merges
  <2>2. PICK q \in Pair : Row(i, q) /\ Lower(q) = Lower(call.pair)
    BY <1>2, <2>1, Hits DEF Merges
  <2>3. OneId /\ j \in Id
    BY <1>2, CalmFacts, RowTypes
  <2> QED
    BY <1>2, <2>1, <2>2, <2>3 DEF OneId
<1> QED
  BY <1>1, <1>2

LEMMA OneIdSame ==
    ASSUME CalmStep, SameRows
    PROVE  OneId'
<1> SUFFICES ASSUME NEW i \in Id', NEW j \in Id', NEW p \in Pair, NEW q \in Pair,
                    Row(i, p)', Row(j, q)', Lower(p) = Lower(q), Pure(Lower(p))'
             PROVE  i = j
  BY DEF OneId
<1>1. Row(i, p) /\ Row(j, q) /\ Pure(Lower(p))
  BY CalmFacts DEF SameRows
<1>2. i \in Id /\ j \in Id /\ OneId
  BY <1>1, CalmFacts, RowTypes
<1> QED
  BY <1>1, <1>2 DEF OneId

LEMMA OneIdGain ==
    ASSUME CalmStep, NEW k, NEW r \in Pair, Gains(k, r),
           Pure(Lower(r)) => \A j : \A p \in Pair : Row(j, p) /\ Lower(p) = Lower(r) => j = k
    PROVE  OneId'
<1> SUFFICES ASSUME NEW i \in Id', NEW j \in Id', NEW p \in Pair, NEW q \in Pair,
                    Row(i, p)', Row(j, q)', Lower(p) = Lower(q), Pure(Lower(p))'
             PROVE  i = j
  BY DEF OneId
<1>1. /\ Row(i, p) \/ (i = k /\ p = r)
      /\ Row(j, q) \/ (j = k /\ q = r)
      /\ Pure(Lower(p))
  BY CalmFacts DEF Gains
<1>2. CASE Row(i, p) /\ Row(j, q)
  <2>1. i \in Id /\ j \in Id /\ OneId
    BY <1>2, CalmFacts, RowTypes
  <2> QED
    BY <1>1, <1>2, <2>1 DEF OneId
<1> QED
  BY <1>1, <1>2

LEMMA TablesStill ==
    ASSUME UNCHANGED <<identities, aliases>>, CalmStep
    PROVE  SameRows
BY DEF Row, SameRows

LEMMA OneIdKept ==
    ASSUME CalmStep
    PROVE  OneId'
<1>1. CASE OverrideHit \/ MailmapHit
  BY <1>1, CanonicaliseRows, OneIdSame
<1>2. CASE RecordAlias
  BY <1>2, RecordAliasRows, OneIdSame
<1>3. CASE \E i \in Id : Touch(i)
  BY <1>3, TouchRows, OneIdSame
<1>4. CASE \E i \in Id : Merges(i)
  <2>1. call.pair \in Pair
    BY <1>4, CalmFacts, CallFields, CallStages DEF Merges
  <2> QED
    BY <1>4, <2>1, MergesRows, OneIdGain
<1>5. CASE FuzzyMiss
  <2>1. call.pair \in Pair /\ AtFuzzy /\ ~EmailHit
    BY <1>5, CalmFacts, CallFields, CallStages DEF FuzzyMiss
  <2>2. PICK i \in Id' : Gains(i, call.pair)
    BY <1>5, MissRows
  <2>3. Pure(Lower(call.pair)) => \A j : \A p \in Pair : Row(j, p) => Lower(p) # Lower(call.pair)
    BY <2>1, Unknown
  <2> QED
    BY <2>1, <2>2, <2>3, OneIdGain
<1>6. CASE RecordNew
  BY <1>6, RecordNewRows, OneIdSame
<1>7. CASE UNCHANGED <<identities, aliases>>
  BY <1>7, TablesStill, OneIdSame
<1>8. CASE (\E cs \in SUBSET Commit : StartRun(cs)) \/ Persist \/ Kill \/ Still
  BY <1>7, <1>8 DEF StartRun, Persist, Kill, Still, tables
<1> QED
  BY <1>1, <1>2, <1>3, <1>4, <1>5, <1>6, <1>8, CalmSteps

-----------------------------------------------------------------------------
(* The cache mirrors the tables.                                             *)
Mirrors == PairMirror /\ EmailMirror /\ NameMirror

\* Steps that leave the maps of the cache and the pure rows alone.
LEMMA MirrorsStay ==
    ASSUME CalmStep, SameRows, Running' => Running,
           cache'.byPair = cache.byPair, cache'.byEmail = cache.byEmail,
           fuzzyOnly' => cache'.byName = cache.byName,
           \A e : Pending(e)' <=> Pending(e)
    PROVE  Mirrors'
<1> SUFFICES ASSUME Running' PROVE Mirrors'
  BY DEF Mirrors, PairMirror, EmailMirror, NameMirror
<1>1. /\ Running /\ PairMirror /\ EmailMirror /\ NameMirror
      /\ identities \in Table /\ aliases \in Seq(Alias) /\ Id \subseteq Id'
      /\ \A e : Pure(e)' => Pure(e)
  BY CalmFacts
<1>2. \A i : \A p \in Pair : Pure(Lower(p))' => (Row(i, p)' <=> Row(i, p))
  BY DEF SameRows
<1>3. \A i, p : Row(i, p) => i \in Id
  BY <1>1, RowTypes
<1>4. PairMirror'
  <2>1. ASSUME NEW i \in Id', NEW p \in Pair, Row(i, p)', Pure(Lower(p))', ~Pending(Lower(p))'
        PROVE  Key(p) \in DOMAIN cache'.byPair /\ cache'.byPair[Key(p)] = i
    BY <2>1, <1>1, <1>2, <1>3 DEF PairMirror
  <2>2. ASSUME NEW k \in DOMAIN cache'.byPair, Pure(k[2])'
        PROVE  ~Pending(k[2])' /\ \E i \in Id' : \E p \in Pair : cache'.byPair[k] = i /\ Row(i, p)' /\ Key(p) = k
    <3>1. PICK i \in Id, p \in Pair : cache.byPair[k] = i /\ Row(i, p) /\ Key(p) = k
      BY <2>2, <1>1 DEF PairMirror
    <3>2. Lower(p) = k[2]
      BY <3>1, KeyTypes
    <3>3. ~Pending(k[2])
      BY <2>2, <1>1 DEF PairMirror
    <3> QED
      BY <2>2, <3>1, <3>2, <3>3, <1>1, <1>2
  <2> QED
    BY <2>1, <2>2 DEF PairMirror
<1>5. EmailMirror'
  <2>1. ASSUME NEW i \in Id', NEW p \in Pair, Row(i, p)', Pure(Lower(p))', ~Pending(Lower(p))'
        PROVE  Lower(p) \in DOMAIN cache'.byEmail /\ cache'.byEmail[Lower(p)] = i
    BY <2>1, <1>1, <1>2, <1>3 DEF EmailMirror
  <2>2. ASSUME NEW e \in DOMAIN cache'.byEmail, Pure(e)'
        PROVE  ~Pending(e)' /\ \E i \in Id' : \E p \in Pair : cache'.byEmail[e] = i /\ Row(i, p)' /\ Lower(p) = e
    BY <2>2, <1>1, <1>2 DEF EmailMirror
  <2> QED
    BY <2>1, <2>2 DEF EmailMirror
<1>6. NameMirror'
  <2> SUFFICES ASSUME fuzzyOnly' PROVE NameMirror'
    BY DEF NameMirror
  <2>1. fuzzyOnly /\ \A e : Pure(e)'
    BY FuzzyOnlyKept DEF CalmStep, Pure
  <2>2. ASSUME NEW i \in Id', NEW p \in Pair, Row(i, p)', ~Pending(Lower(p))'
        PROVE  Norm(p) \in DOMAIN cache'.byName /\ i \in DOMAIN cache'.byName[Norm(p)]
    BY <2>1, <2>2, <1>1, <1>2, <1>3 DEF NameMirror
  <2>3. ASSUME NEW n \in DOMAIN cache'.byName
        PROVE  /\ \A i \in DOMAIN cache'.byName[n] :
                     \E p \in Pair : Row(i, p)' /\ Norm(p) = n /\ ~Pending(Lower(p))'
               /\ DOMAIN cache'.byName[n] # {}
    <3>1. n \in DOMAIN cache.byName /\ DOMAIN cache.byName[n] = DOMAIN cache'.byName[n]
      BY <2>3
    <3>2. /\ DOMAIN cache.byName[n] # {}
          /\ \A i \in DOMAIN cache.byName[n] :
                \E p \in Pair : Row(i, p) /\ Norm(p) = n /\ ~Pending(Lower(p))
      BY <2>1, <3>1, <1>1 DEF NameMirror
    <3> QED
      BY <2>1, <3>1, <3>2, <1>2
  <2> QED
    BY <2>2, <2>3 DEF NameMirror
<1> QED
  BY <1>4, <1>5, <1>6 DEF Mirrors

\* A run begins with what the tables say.
LEMMA MirrorsLoaded ==
    ASSUME CalmStep, NEW cs \in SUBSET Commit, StartRun(cs)
    PROVE  Mirrors'
<1>1. /\ cache' = HotLoad /\ UNCHANGED <<identities, aliases, fuzzyOnly>> /\ \A e : ~Pending(e)'
  BY DEF StartRun, tables, Pending, Idle, NoCall
<1>2. /\ OneId /\ identities \in Table /\ aliases \in Seq(Alias) /\ SameRows /\ Id' = Id
      /\ \A e : Pure(e)' => Pure(e)
  BY <1>1, CalmFacts, TablesStill DEF Id
<1>3. \A i, p : Row(i, p)' <=> Row(i, p)
  BY <1>1 DEF Row
<1>4. \A i, p : Row(i, p) => i \in Id /\ p \in Pair
  BY <1>2, RowTypes
<1>5. PairMirror'
  <2>1. ASSUME NEW i \in Id', NEW p \in Pair, Row(i, p)', Pure(Lower(p))'
        PROVE  Key(p) \in DOMAIN HotLoad.byPair /\ HotLoad.byPair[Key(p)] = i
    <3>1. Row(i, p) /\ Key(p) \in DOMAIN HotLoad.byPair
      BY <2>1, <1>2, <1>3, HotLoadPairs
    <3>2. PICK q \in Pair : Row(HotLoad.byPair[Key(p)], q) /\ Key(q) = Key(p)
      BY <3>1, <1>2, HotLoadPairs
    <3>3. Lower(q) = Lower(p)
      BY <3>2, KeyTypes
    <3> QED
      BY <2>1, <3>1, <3>2, <3>3, <1>2, <1>4 DEF OneId
  <2>2. ASSUME NEW k \in DOMAIN HotLoad.byPair
        PROVE  \E i \in Id' : \E p \in Pair : cache'.byPair[k] = i /\ Row(i, p)' /\ Key(p) = k
    BY <2>2, <1>1, <1>2, <1>3, <1>4, HotLoadPairs
  <2> QED
    BY <2>1, <2>2, <1>1 DEF PairMirror
<1>6. EmailMirror'
  <2>1. ASSUME NEW i \in Id', NEW p \in Pair, Row(i, p)', Pure(Lower(p))'
        PROVE  Lower(p) \in DOMAIN HotLoad.byEmail /\ HotLoad.byEmail[Lower(p)] = i
    <3>1. Row(i, p) /\ Lower(p) \in DOMAIN HotLoad.byEmail
      BY <2>1, <1>2, <1>3, HotLoadEmails
    <3>2. PICK q \in Pair : Row(HotLoad.byEmail[Lower(p)], q) /\ Lower(q) = Lower(p)
      BY <3>1, <1>2, HotLoadEmails
    <3> QED
      BY <2>1, <3>1, <3>2, <1>2, <1>4 DEF OneId
  <2>2. ASSUME NEW e \in DOMAIN HotLoad.byEmail
        PROVE  \E i \in Id' : \E p \in Pair : cache'.byEmail[e] = i /\ Row(i, p)' /\ Lower(p) = e
    BY <2>2, <1>1, <1>2, <1>3, <1>4, HotLoadEmails
  <2> QED
    BY <2>1, <2>2, <1>1 DEF EmailMirror
<1>7. NameMirror'
  <2>1. /\ \A n \in DOMAIN HotLoad.byName :
             /\ DOMAIN HotLoad.byName[n] # {}
             /\ \A i \in DOMAIN HotLoad.byName[n] : \E p \in Pair : Row(i, p) /\ Norm(p) = n
        /\ \A i, p : Row(i, p) =>
             Norm(p) \in DOMAIN HotLoad.byName /\ i \in DOMAIN HotLoad.byName[Norm(p)]
    BY <1>2, HotLoadNames
  <2> QED
    BY <2>1, <1>1, <1>3 DEF NameMirror
<1> QED
  BY <1>5, <1>6, <1>7 DEF Mirrors

\* An attachment, of a merged pair or of a new one.
LEMMA MirrorsEntered ==
    ASSUME CalmStep, NEW i \in Id, NEW c \in Pair, EntersCache(i, c), Running,
           \A e : ~Pending(e)',
           \A j : \A p \in Pair : Pure(Lower(p))' => (Row(j, p)' <=> Row(j, p) \/ (j = i /\ p = c)),
           \A j : \A p \in Pair : Row(j, p) /\ Pure(Lower(p)) /\ ~(j = i /\ p = c) => ~Pending(Lower(p)),
           Pure(Lower(c)) => Key(c) \notin DOMAIN cache.byPair,
           Pure(Lower(c)) /\ Lower(c) \in DOMAIN cache.byEmail => cache.byEmail[Lower(c)] = i
    PROVE  Mirrors'
<1>1. /\ PairMirror /\ EmailMirror /\ NameMirror
      /\ identities \in Table /\ aliases \in Seq(Alias) /\ Id \subseteq Id'
      /\ \A e : Pure(e)' => Pure(e)
  BY CalmFacts
<1>2. \A j, p : Row(j, p) => j \in Id
  BY <1>1, RowTypes
<1>3. /\ cache'.byPair = Insert(cache.byPair, Key(c), i)
      /\ cache'.byEmail = OrInsert(cache.byEmail, Lower(c), i)
  BY DEF EntersCache
<1>4. PairMirror'
  <2>1. ASSUME NEW j \in Id', NEW p \in Pair, Row(j, p)', Pure(Lower(p))'
        PROVE  Key(p) \in DOMAIN cache'.byPair /\ cache'.byPair[Key(p)] = j
    <3>1. CASE j = i /\ p = c
      BY <3>1, <1>3 DEF Insert
    <3>2. CASE ~(j = i /\ p = c)
      <4>1. Row(j, p) /\ Pure(Lower(p)) /\ ~Pending(Lower(p)) /\ j \in Id
        BY <2>1, <3>2, <1>1, <1>2
      <4>2. Key(p) \in DOMAIN cache.byPair /\ cache.byPair[Key(p)] = j
        BY <4>1, <1>1 DEF PairMirror
      <4>3. Key(p) # Key(c)
        BY <4>1, <4>2, KeyTypes
      <4> QED
        BY <4>2, <4>3, <1>3 DEF Insert
    <3> QED
      BY <3>1, <3>2
  <2>2. ASSUME NEW k \in DOMAIN cache'.byPair, Pure(k[2])'
        PROVE  \E j \in Id' : \E p \in Pair : cache'.byPair[k] = j /\ Row(j, p)' /\ Key(p) = k
    <3>1. CASE k = Key(c)
      <4>1. Row(i, c)' /\ cache'.byPair[k] = i
        BY <2>2, <3>1, <1>3, KeyTypes DEF Insert
      <4> QED
        BY <3>1, <4>1, <1>1
    <3>2. CASE k # Key(c)
      <4>1. k \in DOMAIN cache.byPair /\ cache'.byPair[k] = cache.byPair[k]
        BY <3>2, <1>3 DEF Insert
      <4>2. PICK j \in Id, p \in Pair : cache.byPair[k] = j /\ Row(j, p) /\ Key(p) = k
        BY <2>2, <4>1, <1>1 DEF PairMirror
      <4>3. Lower(p) = k[2]
        BY <4>2, KeyTypes
      <4> QED
        BY <2>2, <4>1, <4>2, <4>3, <1>1
    <3> QED
      BY <3>1, <3>2
  <2> QED
    BY <2>1, <2>2 DEF PairMirror
<1>5. EmailMirror'
  <2>1. ASSUME NEW j \in Id', NEW p \in Pair, Row(j, p)', Pure(Lower(p))'
        PROVE  Lower(p) \in DOMAIN cache'.byEmail /\ cache'.byEmail[Lower(p)] = j
    <3>1. CASE j = i /\ p = c
      BY <2>1, <3>1, <1>1, <1>3 DEF OrInsert
    <3>2. CASE ~(j = i /\ p = c)
      <4>1. Row(j, p) /\ Pure(Lower(p)) /\ ~Pending(Lower(p)) /\ j \in Id
        BY <2>1, <3>2, <1>1, <1>2
      <4>2. Lower(p) \in DOMAIN cache.byEmail /\ cache.byEmail[Lower(p)] = j
        BY <4>1, <1>1 DEF EmailMirror
      <4> QED
        BY <4>2, <1>3 DEF OrInsert
    <3> QED
      BY <3>1, <3>2
  <2>2. ASSUME NEW e \in DOMAIN cache'.byEmail, Pure(e)'
        PROVE  \E j \in Id' : \E p \in Pair : cache'.byEmail[e] = j /\ Row(j, p)' /\ Lower(p) = e
    <3>1. CASE e \in DOMAIN cache.byEmail
      <4>1. cache'.byEmail[e] = cache.byEmail[e]
        BY <3>1, <1>3 DEF OrInsert
      <4>2. PICK j \in Id, p \in Pair : cache.byEmail[e] = j /\ Row(j, p) /\ Lower(p) = e
        BY <2>2, <3>1, <1>1 DEF EmailMirror
      <4> QED
        BY <2>2, <4>1, <4>2, <1>1
    <3>2. CASE e \notin DOMAIN cache.byEmail
      <4>1. e = Lower(c) /\ cache'.byEmail[e] = i
        BY <3>2, <1>3 DEF OrInsert
      <4>2. Row(i, c)'
        BY <2>2, <4>1
      <4> QED
        BY <4>1, <4>2, <1>1
    <3> QED
      BY <3>1, <3>2
  <2> QED
    BY <2>1, <2>2 DEF EmailMirror
<1>6. NameMirror'
  <2> SUFFICES ASSUME fuzzyOnly' PROVE NameMirror'
    BY DEF NameMirror
  <2>1. fuzzyOnly /\ (\A e : Pure(e)') /\ \A e : Pure(e)
    BY FuzzyOnlyKept DEF CalmStep, Pure
  <2>2. PICK bucket : /\ DOMAIN bucket = DOMAIN Bucket(cache, Norm(c)) \union {i}
                      /\ cache'.byName = Insert(cache.byName, Norm(c), bucket)
    BY DEF EntersCache
  <2>3. ASSUME NEW j \in Id', NEW p \in Pair, Row(j, p)'
        PROVE  Norm(p) \in DOMAIN cache'.byName /\ j \in DOMAIN cache'.byName[Norm(p)]
    <3>1. CASE j = i /\ p = c
      BY <3>1, <2>2 DEF Insert
    <3>2. CASE ~(j = i /\ p = c)
      <4>1. Row(j, p) /\ ~Pending(Lower(p)) /\ j \in Id
        BY <2>1, <2>3, <3>2, <1>2
      <4>2. Norm(p) \in DOMAIN cache.byName /\ j \in DOMAIN cache.byName[Norm(p)]
        BY <2>1, <4>1, <1>1 DEF NameMirror
      <4> QED
        BY <4>2, <2>2 DEF Insert, Bucket
    <3> QED
      BY <3>1, <3>2
  <2>4. ASSUME NEW n \in DOMAIN cache.byName, NEW j \in DOMAIN cache.byName[n]
        PROVE  \E p \in Pair : Row(j, p)' /\ Norm(p) = n
    <3>1. PICK p \in Pair : Row(j, p) /\ Norm(p) = n
      BY <2>1, <1>1 DEF NameMirror
    <3> QED
      BY <2>1, <3>1
  <2>5. ASSUME NEW n \in DOMAIN cache'.byName
        PROVE  /\ \A j \in DOMAIN cache'.byName[n] : \E p \in Pair : Row(j, p)' /\ Norm(p) = n
               /\ DOMAIN cache'.byName[n] # {}
    <3>1. CASE n = Norm(c)
      <4>1. DOMAIN cache'.byName[n] = DOMAIN Bucket(cache, n) \union {i}
        BY <3>1, <2>2 DEF Insert
      <4>2. \A j \in DOMAIN Bucket(cache, n) : \E p \in Pair : Row(j, p)' /\ Norm(p) = n
        BY <2>4 DEF Bucket
      <4>3. Row(i, c)'
        BY <2>1
      <4> QED
        BY <3>1, <4>1, <4>2, <4>3
    <3>2. CASE n # Norm(c)
      <4>1. n \in DOMAIN cache.byName /\ cache'.byName[n] = cache.byName[n]
        BY <3>2, <2>2 DEF Insert
      <4>2. DOMAIN cache.byName[n] # {}
        BY <2>1, <4>1, <1>1 DEF NameMirror
      <4> QED
        BY <2>4, <4>1, <4>2
    <3> QED
      BY <3>1, <3>2
  <2> QED
    BY <2>3, <2>5 DEF NameMirror
<1> QED
  BY <1>4, <1>5, <1>6 DEF Mirrors

LEMMA MirrorsMerged ==
    ASSUME CalmStep, NEW i \in Id, Merges(i)
    PROVE  Mirrors'
<1>1. /\ call # NoCall /\ call.stage # "new" /\ CallTyped /\ DOMAIN cache = Field
      /\ call'.stage = "touch"
  BY CalmFacts, CallStages DEF Merges, AtFuzzy, Merge
<1>2. call.pair \in Pair /\ Running
  BY <1>1, CallFields, CallWritten DEF Running
<1> PICK c : c = call.pair
  OBVIOUS
<1>3. EntersCache(i, c)
  BY <1>1, MergeEnters DEF Merges
<1>4. \A j : \A p \in Pair : Pure(Lower(p))' => (Row(j, p)' <=> Row(j, p) \/ (j = i /\ p = c))
  BY MergesRows DEF Gains
<1>5. /\ Key(c) \notin DOMAIN cache.byPair
      /\ Lower(c) \in DOMAIN cache.byEmail => cache.byEmail[Lower(c)] = i
  BY DEF Merges, PairHit, EmailHit
<1>6. \A e : ~Pending(e) /\ ~Pending(e)'
  BY <1>1 DEF Pending
<1> QED
  BY <1>2, <1>3, <1>4, <1>5, <1>6, MirrorsEntered

LEMMA MirrorsNew ==
    ASSUME CalmStep, RecordNew
    PROVE  Mirrors'
<1>1. /\ call # NoCall /\ call.stage = "new" /\ CallTyped /\ DOMAIN cache = Field /\ Stage
      /\ call' = NoCall /\ PairMirror /\ EmailMirror /\ identities \in Table /\ aliases \in Seq(Alias)
      /\ DOMAIN identities = Id
  BY CalmFacts, CallStages DEF RecordNew, Answer
<1>2. call.pair \in Pair /\ call.id \in Id /\ Running
  BY <1>1, CallFields, CallWritten DEF Running
<1> PICK c, i : c = call.pair /\ i = call.id
  OBVIOUS
<1>3. EntersCache(i, c)
  BY <1>1, NewEnters
<1>4. Row(i, c)
  BY <1>1, <1>2 DEF Stage, Row
<1>5. \A j : \A p \in Pair : Pure(Lower(p))' => (Row(j, p)' <=> Row(j, p) \/ (j = i /\ p = c))
  BY <1>4, RecordNewRows DEF SameRows
<1>6. \A e : /\ Pending(e) <=> e = Lower(c)
             /\ ~Pending(e)'
  BY <1>1 DEF Pending, NoCall
<1>7. ASSUME NEW j, NEW p \in Pair, Row(j, p), Pure(Lower(p)), ~(j = i /\ p = c)
      PROVE  ~Pending(Lower(p))
  <2>1. j \in Id
    BY <1>1, <1>7, RowTypes
  <2> QED
    BY <1>1, <1>6, <1>7, <2>1 DEF Stage
<1>8. ASSUME Pure(Lower(c))
      PROVE  Key(c) \notin DOMAIN cache.byPair /\ Lower(c) \notin DOMAIN cache.byEmail
  <2>1. Key(c)[2] = Lower(c)
    BY DEF Key
  <2> QED
    BY <1>1, <1>2, <1>6, <1>8, <2>1 DEF PairMirror, EmailMirror
<1> QED
  BY <1>2, <1>3, <1>5, <1>6, <1>7, <1>8, MirrorsEntered

\* The row of a new identity is there before the cache knows of it.
LEMMA MirrorsMissed ==
    ASSUME CalmStep, FuzzyMiss
    PROVE  Mirrors'
<1>1. /\ call # NoCall /\ call.stage # "new" /\ CallTyped /\ AtFuzzy /\ ~EmailHit
      /\ PairMirror /\ EmailMirror /\ NameMirror
      /\ identities \in Table /\ aliases \in Seq(Alias) /\ Id \subseteq Id'
      /\ \A e : Pure(e)' => Pure(e)
      /\ UNCHANGED <<cache, todo, done>>
  BY CalmFacts, CallStages DEF FuzzyMiss, AtFuzzy
<1>2. call.pair \in Pair /\ Running
  BY <1>1, CallFields, CallWritten DEF Running
<1> PICK c : c = call.pair
  OBVIOUS
<1>3. PICK i \in Id' :
          /\ call' = [stage |-> "new", commit |-> call.commit, pair |-> call.pair, id |-> i]
          /\ Gains(i, call.pair)
  BY MissRows
<1>4. \A e : ~Pending(e) /\ (Pending(e)' <=> e = Lower(c))
  <2>1. call'.stage = "new" /\ call'.pair = c
    BY <1>3
  <2> QED
    BY <1>1, <2>1 DEF Pending
<1>5. \A j : \A p \in Pair : Pure(Lower(p))' => (Row(j, p)' <=> Row(j, p) \/ (j = i /\ p = c))
  BY <1>3 DEF Gains
<1>6. \A j, p : Row(j, p) => j \in Id
  BY <1>1, RowTypes
<1>7. \A j : \A p \in Pair : Row(j, p) /\ Pure(Lower(p)) => Lower(p) # Lower(c)
  BY <1>1, Unknown
<1>8. PairMirror'
  <2>1. ASSUME NEW j \in Id', NEW p \in Pair, Row(j, p)', Pure(Lower(p))', ~Pending(Lower(p))'
        PROVE  Key(p) \in DOMAIN cache'.byPair /\ cache'.byPair[Key(p)] = j
    <3>1. Row(j, p) /\ Pure(Lower(p)) /\ ~Pending(Lower(p)) /\ j \in Id
      BY <2>1, <1>1, <1>4, <1>5, <1>6
    <3> QED
      BY <3>1, <1>1, <1>2 DEF PairMirror
  <2>2. ASSUME NEW k \in DOMAIN cache'.byPair, Pure(k[2])'
        PROVE  /\ ~Pending(k[2])'
               /\ \E j \in Id' : \E p \in Pair : cache'.byPair[k] = j /\ Row(j, p)' /\ Key(p) = k
    <3>1. PICK j \in Id, p \in Pair : cache.byPair[k] = j /\ Row(j, p) /\ Key(p) = k
      BY <2>2, <1>1, <1>2 DEF PairMirror
    <3>2. Lower(p) = k[2] /\ Pure(Lower(p))' /\ Pure(Lower(p))
      BY <2>2, <3>1, <1>1, KeyTypes
    <3>3. Row(j, p)' /\ Lower(p) # Lower(c)
      BY <3>1, <3>2, <1>5, <1>7
    <3> QED
      BY <3>1, <3>2, <3>3, <1>1, <1>4
  <2> QED
    BY <2>1, <2>2 DEF PairMirror
<1>9. EmailMirror'
  <2>1. ASSUME NEW j \in Id', NEW p \in Pair, Row(j, p)', Pure(Lower(p))', ~Pending(Lower(p))'
        PROVE  Lower(p) \in DOMAIN cache'.byEmail /\ cache'.byEmail[Lower(p)] = j
    <3>1. Row(j, p) /\ Pure(Lower(p)) /\ ~Pending(Lower(p)) /\ j \in Id
      BY <2>1, <1>1, <1>4, <1>5, <1>6
    <3> QED
      BY <3>1, <1>1, <1>2 DEF EmailMirror
  <2>2. ASSUME NEW e \in DOMAIN cache'.byEmail, Pure(e)'
        PROVE  /\ ~Pending(e)'
               /\ \E j \in Id' : \E p \in Pair : cache'.byEmail[e] = j /\ Row(j, p)' /\ Lower(p) = e
    <3>1. PICK j \in Id, p \in Pair : cache.byEmail[e] = j /\ Row(j, p) /\ Lower(p) = e
      BY <2>2, <1>1, <1>2 DEF EmailMirror
    <3>2. Row(j, p)' /\ Lower(p) # Lower(c)
      BY <2>2, <3>1, <1>1, <1>5, <1>7
    <3> QED
      BY <3>1, <3>2, <1>1, <1>4
  <2> QED
    BY <2>1, <2>2 DEF EmailMirror
<1>10. NameMirror'
  <2> SUFFICES ASSUME fuzzyOnly' PROVE NameMirror'
    BY DEF NameMirror
  <2>1. fuzzyOnly /\ (\A e : Pure(e)') /\ \A e : Pure(e)
    BY FuzzyOnlyKept DEF CalmStep, Pure
  <2>2. ASSUME NEW j \in Id', NEW p \in Pair, Row(j, p)', ~Pending(Lower(p))'
        PROVE  Norm(p) \in DOMAIN cache'.byName /\ j \in DOMAIN cache'.byName[Norm(p)]
    <3>1. Row(j, p) /\ ~Pending(Lower(p)) /\ j \in Id
      BY <2>1, <2>2, <1>4, <1>5, <1>6
    <3> QED
      BY <2>1, <3>1, <1>1, <1>2 DEF NameMirror
  <2>3. ASSUME NEW n \in DOMAIN cache'.byName
        PROVE  /\ \A j \in DOMAIN cache'.byName[n] :
                     \E p \in Pair : Row(j, p)' /\ Norm(p) = n /\ ~Pending(Lower(p))'
               /\ DOMAIN cache'.byName[n] # {}
    <3>1. n \in DOMAIN cache.byName /\ DOMAIN cache.byName[n] = DOMAIN cache'.byName[n]
      BY <2>3, <1>1
    <3>2. /\ DOMAIN cache.byName[n] # {}
          /\ \A j \in DOMAIN cache.byName[n] : \E p \in Pair : Row(j, p) /\ Norm(p) = n
      BY <2>1, <3>1, <1>1, <1>2 DEF NameMirror
    <3> QED
      BY <2>1, <3>1, <3>2, <1>4, <1>5, <1>7
  <2> QED
    BY <2>2, <2>3 DEF NameMirror
<1> QED
  BY <1>8, <1>9, <1>10 DEF Mirrors

LEMMA AnsweredRuns ==
    ASSUME CallTyped, call # NoCall
    PROVE  Running
BY CallWritten DEF Running

LEMMA MirrorsKept ==
    ASSUME CalmStep
    PROVE  Mirrors'
<1>0. DOMAIN cache = Field /\ CallTyped
  BY CalmFacts
<1>1. CASE OverrideHit \/ MailmapHit
  <2>1. /\ SameRows /\ UNCHANGED <<cache, todo, done>> /\ call.stage # "new" /\ call'.stage # "new"
    BY <1>1, CanonicaliseRows
  <2> QED
    BY <2>1, MirrorsStay DEF Running, Pending
<1>2. CASE RecordAlias
  <2>1. /\ SameRows /\ UNCHANGED cache /\ call.stage # "new" /\ call'.stage # "new" /\ call # NoCall
    BY <1>2, RecordAliasRows, CallStages DEF RecordAlias, Answer, NoCall
  <2> QED
    BY <1>0, <2>1, MirrorsStay, AnsweredRuns DEF Pending
<1>3. ASSUME NEW i \in Id, Touch(i), FuzzyPair \/ TouchMerged
      PROVE  Mirrors'
  <2>1. /\ call.stage # "new" /\ call'.stage # "new" /\ call # NoCall /\ SameRows
    BY <1>3, TouchRows, CallStages DEF FuzzyPair, TouchMerged, AtFuzzy, Touch, Answer, NoCall
  <2>2. cache'.byPair = cache.byPair /\ cache'.byEmail = cache.byEmail /\ cache'.byName = cache.byName
    BY <1>0, <1>3, TouchCache
  <2> QED
    BY <1>0, <2>1, <2>2, MirrorsStay, AnsweredRuns DEF Pending
<1>4. CASE Persist \/ Kill
  <2>1. ~Running'
    BY <1>4 DEF Persist, Kill, Running
  <2> QED
    BY <2>1 DEF Mirrors, PairMirror, EmailMirror, NameMirror
<1>5. CASE Still
  <2>1. \A e : Pending(e)' <=> Pending(e)
    <3>1. CASE call' = call
      BY <3>1 DEF Pending
    <3>2. CASE call = NoCall /\ call'.stage = "resolve"
      BY <3>2 DEF Pending, NoCall
    <3> QED
      BY <1>5, <3>1, <3>2 DEF Still
  <2> QED
    BY <1>5, <2>1, TablesStill, MirrorsStay DEF Still, tables, Running
<1> QED
  BY <1>1, <1>2, <1>3, <1>4, <1>5, CalmSteps, MirrorsLoaded, MirrorsMerged, MirrorsMissed, MirrorsNew

-----------------------------------------------------------------------------
(* When an identity was seen last.                                           *)
LEMMA TouchMirrorKept ==
    ASSUME CalmStep
    PROVE  TouchMirror'
<1> SUFFICES ASSUME Running', fuzzyOnly' PROVE TouchMirror'
  BY DEF TouchMirror
<1>0. /\ DOMAIN cache = Field /\ CallTyped /\ TouchMirror /\ fuzzyOnly /\ now \in Nat /\ Past
      /\ identities \in Table /\ identities' \in Table /\ DOMAIN identities = Id /\ DOMAIN identities' = Id'
  <2>1. now \in 0 .. MaxTime
    BY CalmFacts
  <2> QED
    BY <2>1, CalmFacts, FuzzyOnlyKept DEF CalmStep
<1>1. \A i \in Id : identities[i].seen \in Nat
  <2>1. \A i \in Id : identities[i] \in Account
    BY <1>0 DEF Table
  <2> QED
    BY <2>1 DEF Account
<1> DEFINE Fits(i) == cache.lastTouched[i] \in Nat /\ cache.lastTouched[i] >= identities[i].seen
<1>2. Running => /\ DOMAIN cache.lastTouched = {i \in Id : ~(call.stage = "new" /\ call.id = i)}
                 /\ \A i \in DOMAIN cache.lastTouched : Fits(i)
  BY <1>0 DEF TouchMirror
<1>3. ASSUME /\ DOMAIN cache'.lastTouched = {i \in Id' : ~(call'.stage = "new" /\ call'.id = i)}
             /\ \A i \in DOMAIN cache'.lastTouched :
                   cache'.lastTouched[i] \in Nat /\ cache'.lastTouched[i] >= identities'[i].seen
      PROVE  TouchMirror'
  BY <1>3 DEF TouchMirror
<1>4. CASE \E cs \in SUBSET Commit : StartRun(cs)
  <2>1. cache' = HotLoad /\ UNCHANGED identities /\ call'.stage # "new"
    BY <1>4 DEF StartRun, tables, Idle, NoCall
  <2>2. DOMAIN cache'.lastTouched = Id /\ \A i \in Id : cache'.lastTouched[i] = identities[i].seen
    BY <1>0, <2>1, HotLoadRest
  <2> QED
    BY <1>1, <1>3, <2>1, <2>2 DEF Id
<1>5. CASE OverrideHit \/ MailmapHit \/ RecordAlias
  BY <1>5, CanonicaliseRows, RecordAliasRows
<1>6. ASSUME NEW i \in Id, Touch(i), FuzzyPair \/ TouchMerged
      PROVE  TouchMirror'
  <2>1. call.stage # "new" /\ call'.stage # "new" /\ Running /\ identities' = Touched(i)
    BY <1>0, <1>6, AnsweredRuns, CallStages DEF FuzzyPair, TouchMerged, AtFuzzy, Touch, Answer, NoCall
  <2>2. cache'.lastTouched = Insert(cache.lastTouched, i, now)
    BY <1>0, <1>6, TouchCache
  <2>3. Id' = Id /\ \A j \in Id : identities'[j].seen = IF j = i THEN now ELSE identities[j].seen
    BY <1>0, <2>1, Bumping, CalmFacts
  <2>4. DOMAIN cache.lastTouched = Id /\ \A j \in Id : Fits(j)
    BY <1>2, <2>1
  <2>5. DOMAIN cache'.lastTouched = Id
    BY <2>2, <2>4 DEF Insert
  <2>6. \A j \in Id : cache'.lastTouched[j] = IF j = i THEN now ELSE cache.lastTouched[j]
    BY <2>2, <2>4 DEF Insert
  <2>7. \A j \in Id : cache'.lastTouched[j] \in Nat /\ cache'.lastTouched[j] >= identities'[j].seen
    BY <1>0, <2>3, <2>4, <2>6
  <2> QED
    BY <1>3, <2>1, <2>3, <2>5, <2>7
<1>7. CASE \E i \in Id : Merges(i)
  <2>1. PICK i \in Id : Merges(i)
    BY <1>7
  <2>2. /\ call.stage # "new" /\ call'.stage # "new" /\ Running /\ UNCHANGED identities
        /\ cache'.lastTouched = cache.lastTouched
    BY <1>0, <2>1, MergeEnters, AnsweredRuns, CallStages DEF Merges, AtFuzzy, Merge
  <2> QED
    BY <1>2, <1>3, <2>2 DEF Id
<1>8. CASE FuzzyMiss
  <2>1. call.stage # "new" /\ Running /\ UNCHANGED cache /\ Pure(Lower(call.pair))
    BY <1>0, <1>8, AnsweredRuns, CallStages DEF FuzzyMiss, AtFuzzy, Pure
  <2>2. PICK i \in Id' :
              /\ call' = [stage |-> "new", commit |-> call.commit, pair |-> call.pair, id |-> i]
              /\ i \notin Id /\ Id' = Id \union {i}
              /\ \A j \in Id : identities'[j] = identities[j]
    BY <1>8, <2>1, MissRows
  <2>3. call'.stage = "new" /\ call'.id = i
    BY <2>2
  <2>4. {j \in Id' : ~(call'.stage = "new" /\ call'.id = j)} = Id
    BY <2>2, <2>3
  <2>5. DOMAIN cache.lastTouched = Id
    BY <1>2, <2>1
  <2> QED
    BY <1>2, <1>3, <2>1, <2>2, <2>4, <2>5
<1>9. CASE RecordNew
  <2>1. call.stage = "new" /\ call'.stage # "new" /\ Running /\ UNCHANGED identities /\ call.id \in Id
    BY <1>0, <1>9, AnsweredRuns, CallFields, CallStages DEF RecordNew, Answer, NoCall
  <2>2. cache'.lastTouched = Insert(cache.lastTouched, call.id, now)
    BY <1>0, <1>9, NewEnters
  <2>3. DOMAIN cache.lastTouched = Id \ {call.id} /\ \A j \in Id \ {call.id} : Fits(j)
    BY <1>2, <2>1
  <2>4. DOMAIN cache'.lastTouched = Id /\ Id' = Id
    BY <2>1, <2>2, <2>3 DEF Insert, Id
  <2>5. \A j \in Id : cache'.lastTouched[j] = IF j = call.id THEN now ELSE cache.lastTouched[j]
    BY <2>1, <2>2, <2>3 DEF Insert
  <2>6. now >= identities[call.id].seen
    BY <1>0, <1>1, <2>1 DEF Past
  <2>7. \A j \in Id : cache'.lastTouched[j] \in Nat /\ cache'.lastTouched[j] >= identities'[j].seen
    BY <1>0, <2>1, <2>3, <2>5, <2>6
  <2> QED
    BY <1>3, <2>1, <2>4, <2>7
<1>10. CASE Persist \/ Kill
  BY <1>10 DEF Persist, Kill, Running
<1>11. CASE Still
  <2>1. UNCHANGED <<identities, cache, todo, done>>
    BY <1>11 DEF Still, tables
  <2>2. Id' = Id /\ Running
    BY <2>1 DEF Id, Running
  <2>3. CASE call' = call
    BY <1>2, <1>3, <2>1, <2>2, <2>3
  <2>4. CASE call = NoCall /\ call'.stage = "resolve"
    <3>1. call.stage # "new" /\ call'.stage # "new"
      BY <2>4 DEF NoCall
    <3> QED
      BY <1>2, <1>3, <2>1, <2>2, <3>1
  <2> QED
    BY <1>11, <2>3, <2>4 DEF Still
<1> QED
  BY <1>4, <1>5, <1>6, <1>7, <1>8, <1>9, <1>10, <1>11, CalmSteps

-----------------------------------------------------------------------------
(* Noreply addresses.                                                        *)
LEMMA AloneSame ==
    ASSUME CalmStep, SameRows
    PROVE  Alone'
<1> SUFFICES ASSUME fuzzyOnly', NEW i \in Id', NEW p \in Pair, NEW q \in Pair,
                    Row(i, p)', Row(i, q)', Lower(p) \in GithubNoreply
             PROVE  Lower(p) = Lower(q)
  BY DEF Alone
<1>1. fuzzyOnly /\ Alone /\ \A e : Pure(e)'
  BY CalmFacts, FuzzyOnlyKept DEF CalmStep, Pure
<1>2. Row(i, p) /\ Row(i, q) /\ i \in Id
  BY <1>1, CalmFacts, RowTypes DEF SameRows
<1> QED
  BY <1>1, <1>2 DEF Alone

LEMMA AloneMerged ==
    ASSUME CalmStep, NEW k \in Id, Merges(k)
    PROVE  Alone'
<1> SUFFICES ASSUME fuzzyOnly' PROVE Alone'
  BY DEF Alone
<1>0. /\ fuzzyOnly /\ Alone /\ (\A e : Pure(e)') /\ (\A e : Pure(e)) /\ CallTyped /\ AtFuzzy
      /\ identities \in Table /\ aliases \in Seq(Alias) /\ DOMAIN identities = Id
  BY CalmFacts, FuzzyOnlyKept DEF CalmStep, Pure, Merges
<1>1. call.pair \in Pair
  BY <1>0, CallFields, CallStages
<1> PICK c : c = call.pair
  OBVIOUS
<1>2. \A j : \A p \in Pair : Row(j, p)' <=> Row(j, p) \/ (j = k /\ p = c)
  BY <1>0, MergesRows DEF Gains
<1>3. ASSUME NEW q \in Pair, Row(k, q), Lower(q) \in GithubNoreply \/ Lower(c) \in GithubNoreply
      PROVE  Lower(q) = Lower(c)
  <2>1. CASE EmailHit
    <3>1. PICK p \in Pair : Row(k, p) /\ Lower(p) = Lower(c)
      BY <1>0, <2>1, Hits DEF Merges
    <3> QED
      BY <1>0, <1>3, <3>1 DEF Alone
  <2>2. CASE ~EmailHit
    <3>1. ~IsGithubNoreply(c[2]) /\ ~CandidateIsNoreply(k)
      BY <2>2 DEF Merges, NameHits
    <3> DEFINE own == <<identities[k].name, identities[k].email>>
    <3>2. identities[k] \in Account
      BY <1>0 DEF Table
    <3>3. own \in Pair /\ Row(k, own)
      BY <1>0, <3>2 DEF Account, Pair, Row
    <3>4. Lower(own) \notin GithubNoreply /\ Lower(c) \notin GithubNoreply
      BY <3>1 DEF IsGithubNoreply, CandidateIsNoreply, Lower
    <3> QED
      BY <1>0, <1>3, <3>3, <3>4 DEF Alone
  <2> QED
    BY <2>1, <2>2
<1>4. ASSUME NEW i \in Id', NEW p \in Pair, NEW q \in Pair,
             Row(i, p)', Row(i, q)', Lower(p) \in GithubNoreply
      PROVE  Lower(p) = Lower(q)
  <2>1. CASE Row(i, p) /\ Row(i, q)
    <3>1. i \in Id
      BY <1>0, <2>1, RowTypes
    <3> QED
      BY <1>0, <1>4, <2>1, <3>1 DEF Alone
  <2> QED
    BY <1>1, <1>2, <1>3, <1>4, <2>1
<1> QED
  BY <1>4 DEF Alone

LEMMA AloneMissed ==
    ASSUME CalmStep, FuzzyMiss
    PROVE  Alone'
<1> SUFFICES ASSUME fuzzyOnly' PROVE Alone'
  BY DEF Alone
<1>0. /\ fuzzyOnly /\ Alone /\ (\A e : Pure(e)') /\ (\A e : Pure(e))
      /\ identities \in Table /\ aliases \in Seq(Alias)
  BY CalmFacts, FuzzyOnlyKept DEF CalmStep, Pure
<1> PICK c : c = call.pair
  OBVIOUS
<1>1. PICK k \in Id' : k \notin Id /\ Gains(k, call.pair)
  BY <1>0, MissRows
<1>2. \A j : \A p \in Pair : Row(j, p)' <=> Row(j, p) \/ (j = k /\ p = c)
  BY <1>0, <1>1 DEF Gains
<1>3. \A p : ~Row(k, p)
  BY <1>0, <1>1, RowTypes
<1>4. ASSUME NEW i \in Id', NEW p \in Pair, NEW q \in Pair,
             Row(i, p)', Row(i, q)', Lower(p) \in GithubNoreply
      PROVE  Lower(p) = Lower(q)
  <2>1. CASE i = k
    BY <2>1, <1>2, <1>3, <1>4
  <2>2. CASE i # k
    <3>1. Row(i, p) /\ Row(i, q)
      BY <2>2, <1>2, <1>4
    <3>2. i \in Id
      BY <1>0, <3>1, RowTypes
    <3> QED
      BY <1>0, <1>4, <3>1, <3>2 DEF Alone
  <2> QED
    BY <2>1, <2>2
<1> QED
  BY <1>4 DEF Alone

LEMMA AloneKept ==
    ASSUME CalmStep
    PROVE  Alone'
<1>1. CASE \/ OverrideHit \/ MailmapHit \/ RecordAlias \/ RecordNew
           \/ \E i \in Id : Touch(i)
  BY <1>1, CanonicaliseRows, RecordAliasRows, RecordNewRows, TouchRows, AloneSame
<1>2. CASE (\E cs \in SUBSET Commit : StartRun(cs)) \/ Persist \/ Kill \/ Still
  BY <1>2, TablesStill, AloneSame DEF StartRun, Persist, Kill, Still, tables
<1> QED
  BY <1>1, <1>2, CalmSteps, AloneMerged, AloneMissed

-----------------------------------------------------------------------------
(* The call under way, the curated aliases and the answers.                  *)
LEMMA SamePair ==
    ASSUME UNCHANGED files, call'.pair = call.pair
    PROVE  /\ CuratedEmail(call.pair)' = CuratedEmail(call.pair)
           /\ Curated(call.pair)' = Curated(call.pair)
           /\ Contested(Lower(call.pair))' = Contested(Lower(call.pair))
           /\ Lower(call.pair)' = Lower(call.pair)
<1>1. LoadOverrides' = LoadOverrides /\ UNCHANGED <<mailmap, overrideFile>>
  BY Constant DEF files
<1>2. \A p : MailmapAnswer(p)' = MailmapAnswer(p) /\ MailmapAnswers(p)' = MailmapAnswers(p)
  BY <1>1 DEF MailmapAnswer, MailmapAnswers
<1>3. CuratedEmail(call.pair)' = CuratedEmail(call.pair)
  BY <1>1 DEF CuratedEmail, MailmapAnswer, MailmapAnswers
<1>4. Lower(call.pair)' = Lower(call.pair)
  BY DEF Lower
<1>5. \A p : Curated(p)' = Curated(p) /\ CuratedEmail(p)' = CuratedEmail(p)
  BY Constant
<1>6. Contested(Lower(call.pair))' = Contested(Lower(call.pair))
  BY <1>4, <1>5 DEF Contested
<1> QED
  BY <1>3, <1>4, <1>6 DEF Curated

LEMMA StageKept ==
    ASSUME CalmStep
    PROVE  Stage'
<1>0. /\ Stage /\ CallTyped /\ Settled /\ Typed /\ Steady /\ UNCHANGED files
      /\ \A e : Pure(e)' => Pure(e)
  BY CalmFacts
<1>1. ASSUME call'.stage \in {"none", "resolve"}
      PROVE  Stage'
  BY <1>1 DEF Stage
<1>2. CASE OverrideHit \/ MailmapHit
  <2>1. PICK i \in Id' :
              /\ call' = [stage |-> "alias", commit |-> call.commit, pair |-> call.pair, id |-> i]
              /\ identities'[i].email \in CuratedEmail(call.pair) /\ ~fuzzyOnly'
    BY <1>2, CanonicaliseRows
  <2>2. call'.stage = "alias" /\ call'.pair = call.pair /\ call'.id = i
    BY <2>1
  <2>3. CuratedEmail(call.pair)' = CuratedEmail(call.pair)
    BY <1>0, <2>2, SamePair
  <2> QED
    BY <2>1, <2>2, <2>3 DEF Stage
<1>3. CASE \E i \in Id : Merges(i)
  <2>1. PICK i \in Id : Merges(i)
    BY <1>3
  <2> PICK c : c = call.pair
    OBVIOUS
  <2>2. call' = [stage |-> "touch", commit |-> call.commit, pair |-> c, id |-> i] /\ AtFuzzy
    BY <2>1 DEF Merges, Merge
  <2>3. call'.stage = "touch" /\ call'.pair = c /\ call'.id = i /\ c \in Pair
    BY <1>0, <2>2, CallFields, CallStages
  <2>4. ~Curated(call.pair)' /\ Lower(call.pair)' = Lower(c)
    BY <1>0, <2>2, <2>3, SamePair, Uncurated
  <2>5. Pure(Lower(c))' => Row(i, c)'
    BY <2>1, <2>3, MergesRows DEF Gains
  <2>6. Pure(Lower(call.pair))' => Pure(Lower(c))'
    BY <2>3, <2>4 DEF Pure, Contested
  <2>7. Pure(Lower(call.pair))' => Row(call.id, call.pair)'
    BY <2>3, <2>5, <2>6 DEF Row
  <2> QED
    BY <2>3, <2>4, <2>7 DEF Stage
<1>4. CASE FuzzyMiss
  <2> PICK c : c = call.pair
    OBVIOUS
  <2>1. PICK i \in Id' :
              /\ call' = [stage |-> "new", commit |-> call.commit, pair |-> call.pair, id |-> i]
              /\ call.pair = <<identities'[i].name, identities'[i].email>>
              /\ Gains(i, call.pair)
    BY <1>4, MissRows
  <2>2. AtFuzzy /\ ~EmailHit
    BY <1>4 DEF FuzzyMiss
  <2>3. call'.stage = "new" /\ call'.pair = c /\ call'.id = i /\ c \in Pair
    BY <1>0, <2>1, <2>2, CallFields, CallStages
  <2>4. ~Curated(call.pair)' /\ Lower(call.pair)' = Lower(c)
    BY <1>0, <2>2, <2>3, SamePair, Uncurated
  <2>5. Pure(Lower(call.pair))' => Pure(Lower(c))'
    BY <2>3, <2>4 DEF Pure, Contested
  <2>6. ASSUME Pure(Lower(c))', NEW j \in Id', NEW p \in Pair, Row(j, p)', Lower(p) = Lower(c)
        PROVE  j = i /\ p = c
    <3>1. Pure(Lower(c)) /\ Pure(Lower(p))'
      BY <1>0, <2>6
    <3>2. ~Row(j, p)
      BY <2>2, <2>6, <3>1, Unknown
    <3> QED
      BY <2>1, <2>6, <3>1, <3>2 DEF Gains
  <2>7. call'.pair = <<identities'[call'.id].name, identities'[call'.id].email>>
    BY <2>1, <2>3
  <2> QED
    BY <2>3, <2>4, <2>5, <2>6, <2>7 DEF Stage
<1>5. CASE Still
  <2>1. CASE call' = call
    <3>1. UNCHANGED <<identities, aliases, fuzzyOnly>>
      BY <1>5 DEF Still, tables
    <3>2. /\ CuratedEmail(call.pair)' = CuratedEmail(call.pair)
          /\ Curated(call.pair)' = Curated(call.pair)
          /\ Contested(Lower(call.pair))' = Contested(Lower(call.pair))
          /\ Lower(call.pair)' = Lower(call.pair)
      BY <1>0, <2>1, SamePair
    <3>3. Row(call.id, call.pair)' <=> Row(call.id, call.pair)
      BY <2>1, <3>1 DEF Row
    <3>4. \A j, p : Row(j, p)' <=> Row(j, p)
      BY <3>1 DEF Row
    <3>5. Pure(Lower(call.pair))' <=> Pure(Lower(call.pair))
      BY <3>1, <3>2 DEF Pure
    <3> QED
      BY <1>0, <2>1, <3>1, <3>2, <3>3, <3>4, <3>5 DEF Stage, Id
  <2>2. CASE call'.stage = "resolve"
    BY <1>1, <2>2
  <2> QED
    BY <1>5, <2>1, <2>2 DEF Still
<1>6. CASE RecordAlias \/ RecordNew \/ (\E i : Touch(i)) \/ Persist \/ Kill \/ \E cs \in SUBSET Commit : StartRun(cs)
  <2>1. call' = NoCall
    BY <1>6 DEF RecordAlias, RecordNew, Touch, Answer, Persist, Kill, StartRun, Idle
  <2> QED
    BY <1>1, <2>1 DEF NoCall
<1> QED
  BY <1>2, <1>3, <1>4, <1>5, <1>6, CalmSteps

LEMMA CuratedAliasesKept ==
    ASSUME CalmStep
    PROVE  CuratedAliases'
<1>0. /\ CuratedAliases /\ Stage /\ CallTyped /\ Settled /\ Typed /\ Steady
      /\ \A p : CuratedEmail(p)' = CuratedEmail(p) /\ Curated(p)' = Curated(p)
      /\ aliases \in Seq(Alias) /\ identities \in Table /\ now \in 0 .. MaxTime
  BY CalmFacts
<1>1. \A a \in DOMAIN aliases : aliases[a].id \in Id
  <2>1. \A a \in DOMAIN aliases : aliases[a] \in Alias
    BY <1>0
  <2> QED
    BY <2>1 DEF Alias
<1>2. ASSUME UNCHANGED aliases, \A i \in Id : identities'[i].email = identities[i].email
      PROVE  CuratedAliases'
  BY <1>0, <1>1, <1>2 DEF CuratedAliases, Written
<1>3. ASSUME NEW i \in Id, aliases' = AliasesWith(i, call.pair), UNCHANGED identities, call # NoCall,
             Curated(call.pair) => identities[i].email \in CuratedEmail(call.pair)
      PROVE  CuratedAliases'
  <2>1. call.pair \in Pair /\ call.pair \in Written
    BY <1>0, <1>3, CallFields, CallWritten
  <2>2. \A a \in DOMAIN aliases' : \/ a \in DOMAIN aliases /\ aliases'[a] = aliases[a]
                                   \/ aliases'[a] = [id |-> i, pair |-> call.pair]
    BY <1>0, <1>3, <2>1, Aliasing DEF Alias
  <2> PICK c : c = call.pair
    OBVIOUS
  <2>3. ASSUME NEW a \in DOMAIN aliases'
        PROVE  /\ aliases'[a].pair \in Written
               /\ \A p : p = aliases'[a].pair /\ Curated(p) => identities[aliases'[a].id].email \in CuratedEmail(p)
    BY <2>1, <2>2, <1>0, <1>3 DEF CuratedAliases
  <2>4. Written' = Written /\ UNCHANGED files
    BY CalmFacts DEF Written
  <2>5. \A a \in DOMAIN aliases' : Curated(aliases[a].pair)' => \E p : p = aliases'[a].pair /\ Curated(p)
    BY <2>4 DEF files, Curated, CuratedEmail, LoadOverrides, MailmapAnswer, MailmapAnswers
  <2> QED
    BY <2>3, <2>4, <1>0, <1>3 DEF CuratedAliases
<1>4. CASE OverrideHit \/ MailmapHit
  <2>1. UNCHANGED aliases
    BY <1>4, CanonicaliseRows
  <2>2. PICK name \in Name, email \in Email, bot \in BOOLEAN : identities' = Upserted(name, email, bot)
    BY <1>0, <1>4, Canonicalising DEF Canonicalise
  <2> QED
    BY <1>0, <1>2, <2>1, <2>2, Upserting
<1>5. CASE FuzzyMiss
  BY <1>2, <1>5, MissRows DEF FuzzyMiss
<1>6. CASE RecordAlias
  <2>1. call # NoCall /\ call.id \in Id /\ call.stage = "alias"
    BY <1>0, <1>6, CallFields, CallStages DEF RecordAlias
  <2> QED
    BY <1>0, <1>3, <1>6, <2>1 DEF RecordAlias, Stage
<1>7. CASE RecordNew
  <2>1. call # NoCall /\ call.id \in Id /\ ~Curated(call.pair)
    BY <1>0, <1>7, CallFields, CallStages DEF RecordNew, Stage
  <2> QED
    BY <1>3, <1>7, <2>1 DEF RecordNew
<1>8. CASE \E i \in Id : Merges(i)
  <2>1. PICK i \in Id : Merges(i)
    BY <1>8
  <2>2. call # NoCall /\ ~Curated(call.pair)
    BY <1>0, <2>1, CallStages, Uncurated DEF Merges
  <2> QED
    BY <1>3, <2>1, <2>2 DEF Merges, Merge
<1>9. CASE \E i \in Id : Touch(i)
  <2>1. PICK i \in Id : identities' = Touched(i) /\ UNCHANGED aliases
    BY <1>9 DEF Touch
  <2> QED
    BY <1>0, <1>2, <2>1, Bumping
<1>10. CASE (\E cs \in SUBSET Commit : StartRun(cs)) \/ Persist \/ Kill \/ Still
  BY <1>2, <1>10 DEF StartRun, Persist, Kill, Still, tables
<1> QED
  BY <1>4, <1>5, <1>6, <1>7, <1>8, <1>9, <1>10, CalmSteps

\* What was a good answer stays one.
LEMMA AliasesStay ==
    ASSUME CalmStep, NEW p
    PROVE  AliasOf(p) # {} => AliasOf(p)' = AliasOf(p)
<1>0. TablesTyped /\ TablesTyped' /\ CallTyped /\ aliases \in Seq([id : Id, pair : Pair])
  BY CalmFacts DEF Alias
<1>1. CASE UNCHANGED aliases
  BY <1>1 DEF AliasOf
<1>2. ASSUME NEW i \in Id, NEW q \in Pair, aliases' = AliasesWith(i, q), AliasOf(p) # {}
      PROVE  AliasOf(p)' = AliasOf(p)
  <2>1. PICK a \in DOMAIN aliases : aliases[a].pair = p
    BY <1>2 DEF AliasOf
  <2>2. /\ \A b \in DOMAIN aliases : b \in DOMAIN aliases' /\ aliases'[b] = aliases[b]
        /\ \A b \in DOMAIN aliases' : b \in DOMAIN aliases \/ aliases'[b] = [id |-> i, pair |-> q]
    BY <1>0, <1>2, Aliasing
  <2>3. \A b \in DOMAIN aliases' : aliases'[b].pair = p => b = a
    BY <1>0, <2>1, <2>2 DEF TablesTyped, Unique
  <2> QED
    BY <2>1, <2>2, <2>3 DEF AliasOf
<1>3. CASE \E i \in Id : Merges(i)
  BY <1>0, <1>2, <1>3, CallFields, CallStages DEF Merges, Merge
<1>4. CASE RecordAlias \/ RecordNew
  BY <1>0, <1>2, <1>4, CallFields, CallStages DEF RecordAlias, RecordNew
<1>5. CASE OverrideHit \/ MailmapHit
  BY <1>1, <1>5, CanonicaliseRows
<1>6. CASE \/ (\E cs \in SUBSET Commit : StartRun(cs)) \/ (\E i \in Id : Touch(i))
           \/ FuzzyMiss \/ Persist \/ Kill \/ Still
  BY <1>1, <1>6 DEF StartRun, Touch, FuzzyMiss, Persist, Kill, Still, tables
<1> QED
  BY <1>3, <1>4, <1>5, <1>6, CalmSteps

LEMMA RowsStay ==
    ASSUME CalmStep
    PROVE  \A j : \A p \in Pair : Row(j, p) /\ Pure(Lower(p))' => Row(j, p)'
<1>1. CASE OverrideHit \/ MailmapHit \/ RecordAlias \/ RecordNew \/ \E i \in Id : Touch(i)
  BY <1>1, CanonicaliseRows, RecordAliasRows, RecordNewRows, TouchRows DEF SameRows
<1>2. CASE FuzzyMiss \/ \E i \in Id : Merges(i)
  BY <1>2, MissRows, MergesRows DEF Gains
<1>3. CASE (\E cs \in SUBSET Commit : StartRun(cs)) \/ Persist \/ Kill \/ Still
  BY <1>3, TablesStill DEF StartRun, Persist, Kill, Still, tables, SameRows
<1> QED
  BY <1>1, <1>2, <1>3, CalmSteps

LEMMA GoodStays ==
    ASSUME CalmStep, NEW p \in Pair, NEW id \in Id, Good(p, id)
    PROVE  Good(p, id)' /\ id \in Id'
<1>1. /\ Curated(p)' = Curated(p) /\ (Pure(Lower(p))' => Pure(Lower(p))) /\ Id \subseteq Id'
  BY CalmFacts
<1>2. Curated(p) => AliasOf(p)' = {id}
  BY AliasesStay DEF Good
<1>3. ASSUME ~Curated(p), Pure(Lower(p))'
      PROVE  \E q \in Pair : Row(id, q)' /\ Key(q) = Key(p)
  <2>1. PICK q \in Pair : Row(id, q) /\ Key(q) = Key(p)
    BY <1>1, <1>3 DEF Good
  <2>2. Lower(q) = Lower(p)
    BY <2>1, KeyTypes
  <2> QED
    BY <2>1, <2>2, <1>3, RowsStay
<1> QED
  BY <1>1, <1>2, <1>3 DEF Good

\* A pair that gets its answer gets a good one.
LEMMA GoodAnswer ==
    ASSUME CalmStep, NEW p \in Pair, NEW i \in Id, p = call.pair,
           \/ RecordAlias /\ i = call.id
           \/ FuzzyPair /\ i = cache.byPair[Key(p)]
           \/ TouchMerged /\ i = call.id
           \/ RecordNew /\ i = call.id
    PROVE  Good(p, i)'
<1>0. /\ CallTyped /\ Stage /\ Typed /\ Steady /\ Settled /\ TablesTyped /\ TablesTyped'
      /\ DOMAIN identities = Id
      /\ Curated(p)' = Curated(p) /\ CuratedEmail(p)' = CuratedEmail(p)
      /\ (Pure(Lower(p))' => Pure(Lower(p))) /\ overrideFile \in OverrideFiles
  BY CalmFacts DEF Typed, RestTyped
<1>1. CASE RecordAlias
  <2>1. /\ call.stage = "alias" /\ call # NoCall /\ i = call.id /\ aliases' = AliasesWith(i, p)
        /\ UNCHANGED identities
    BY <1>1, CallStages DEF RecordAlias, FuzzyPair, TouchMerged, RecordNew, AtFuzzy
  <2>2. identities[i].email \in CuratedEmail(p) /\ Curated(p)
    BY <1>0, <2>1 DEF Stage, Curated
  <2>3. /\ \E a \in DOMAIN aliases' : aliases'[a].pair = p
        /\ CuratedAliases' /\ aliases' \in Seq(Alias)' /\ DOMAIN identities' = Id'
    <3>1. aliases \in Seq([id : Id, pair : Pair])
      BY CalmFacts DEF Alias
    <3>2. aliases' = AliasesWith(i, p)
      BY <2>1
    <3>3. \E a \in DOMAIN aliases' : aliases'[a].pair = p
      BY ONLY <3>1, <3>2, i \in Id, p \in Pair, Aliasing
    <3> QED
      BY <3>3, CalmFacts, CuratedAliasesKept
  <2>4. ASSUME NEW a \in DOMAIN aliases', aliases'[a].pair = p
        PROVE  aliases'[a].id = i
    <3>1. identities[aliases'[a].id].email \in CuratedEmail(p)
      <4>1. Curated(aliases[a].pair)' /\ CuratedEmail(aliases[a].pair)' = CuratedEmail(p)
        <5>1. UNCHANGED files
          BY CalmFacts
        <5>2. CuratedEmail(aliases[a].pair)' = CuratedEmail(p)
          BY <2>4, <5>1 DEF files, CuratedEmail, LoadOverrides, MailmapAnswer, MailmapAnswers
        <5> QED
          BY <2>2, <5>2 DEF Curated
      <4> QED
        BY <2>1, <2>3, <2>4, <4>1 DEF CuratedAliases
    <3>2. identities[aliases'[a].id].email = identities[i].email
      BY <1>0, <2>2, <3>1, OneCuratedEmail
    <3>3. aliases'[a].id \in Id
      <4>1. aliases'[a] \in Alias'
        BY <2>3
      <4> QED
        BY <2>1, <4>1 DEF Alias, Id
    <3> QED
      BY <1>0, <3>2, <3>3 DEF TablesTyped, Unique
  <2>5. AliasOf(p)' = {i}
    BY <2>3, <2>4 DEF AliasOf
  <2> QED
    BY <1>0, <2>2, <2>5 DEF Good
<1>2. ASSUME ~RecordAlias, Pure(Lower(p))'
      PROVE  \E q \in Pair : Row(i, q) /\ Key(q) = Key(p)
  <2>1. CASE FuzzyPair
    <3>1. AtFuzzy /\ PairHit /\ i = cache.byPair[Key(p)]
      BY <1>2, <2>1 DEF FuzzyPair, TouchMerged, RecordNew, AtFuzzy
    <3> QED
      BY <1>0, <1>2, <3>1, Hits
  <2>2. CASE TouchMerged
    <3>1. call.stage = "touch" /\ call # NoCall /\ i = call.id
      BY <1>2, <2>2, CallStages DEF FuzzyPair, TouchMerged, RecordNew, AtFuzzy
    <3> QED
      BY <1>0, <1>2, <3>1 DEF Stage
  <2>3. CASE RecordNew
    <3>1. call.stage = "new" /\ call # NoCall /\ i = call.id
      BY <1>2, <2>3, CallStages DEF FuzzyPair, TouchMerged, RecordNew, AtFuzzy
    <3> QED
      BY <1>0, <3>1 DEF Stage, Row
  <2> QED
    BY <1>2, <2>1, <2>2, <2>3
<1>3. ASSUME ~RecordAlias
      PROVE  ~Curated(p)
  <2>1. CASE FuzzyPair
    BY <1>0, <2>1, Uncurated DEF FuzzyPair
  <2>2. CASE TouchMerged \/ RecordNew
    BY <1>0, <2>2, CallStages DEF TouchMerged, RecordNew, Stage
  <2> QED
    BY <1>3, <2>1, <2>2
<1>4. CASE ~RecordAlias
  <2>1. ASSUME Pure(Lower(p))'
        PROVE  \E q \in Pair : Row(i, q)' /\ Key(q) = Key(p)
    <3>1. PICK q \in Pair : Row(i, q) /\ Key(q) = Key(p)
      BY <1>2, <1>4, <2>1
    <3>2. Lower(q) = Lower(p)
      BY <3>1, KeyTypes
    <3> QED
      BY <2>1, <3>1, <3>2, RowsStay
  <2> QED
    BY <1>0, <1>3, <1>4, <2>1 DEF Good
<1> QED
  BY <1>1, <1>4

\* The answers so far, in the rows and in the run, stay good.
LEMMA AnswersStay ==
    ASSUME CalmStep
    PROVE  /\ \A c \in Commit : \A k \in DOMAIN rows[c] :
                 \A p, j : p = People[c][k] /\ j = rows[c][k] => Good(p, j)' /\ j \in Id'
           /\ \A c \in DOMAIN done : \A k \in DOMAIN done[c] :
                 \A p, j : p = People[c][k] /\ j = done[c][k] => Good(p, j)' /\ j \in Id'
<1>0. /\ Answers /\ CallTyped /\ RowsFit /\ rows \in [Commit -> Seq(Id \union {NoId})]
      /\ \A c \in Commit : People[c] \in Seq(Pair)
  BY CalmFacts, TablesTypes, PeopleAssumption DEF TablesTyped
<1>1. ASSUME NEW c \in Commit, NEW k \in DOMAIN rows[c], NEW p, NEW j, p = People[c][k], j = rows[c][k]
      PROVE  Good(p, j)' /\ j \in Id'
  <2>1. Good(p, j) /\ j \in Id
    BY <1>0, <1>1 DEF Answers
  <2>2. k \in DOMAIN People[c]
    BY <1>0 DEF RowsFit
  <2>3. p \in Pair
    BY <1>0, <1>1, <2>2
  <2> QED
    BY <2>1, <2>3, GoodStays
<1>2. ASSUME NEW c \in DOMAIN done, NEW k \in DOMAIN done[c], NEW p, NEW j, p = People[c][k], j = done[c][k]
      PROVE  Good(p, j)' /\ j \in Id'
  <2>1. Good(p, j) /\ j \in Id
    BY <1>0, <1>2 DEF Answers
  <2>2. c \in Commit /\ done[c] \in Seq(Id \union {NoId}) /\ Len(done[c]) <= Len(People[c])
    BY <1>0 DEF CallTyped, Turn
  <2>3. k \in DOMAIN People[c]
    BY <1>0, <2>2
  <2>4. p \in Pair
    BY <1>0, <1>2, <2>2, <2>3
  <2> QED
    BY <2>1, <2>4, GoodStays
<1> QED
  BY <1>1, <1>2

LEMMA AnswersSame ==
    ASSUME CalmStep, UNCHANGED rows, done' \in {done, << >>}
    PROVE  Answers'
<1>1. CASE done' = done
  BY <1>1, AnswersStay DEF Answers
<1>2. CASE done' = << >>
  BY <1>2, AnswersStay DEF Answers
<1> QED
  BY <1>1, <1>2

LEMMA AnswersGain ==
    ASSUME CalmStep, UNCHANGED rows, NEW i \in Id, NEW p \in Pair, p = call.pair, call # NoCall,
           Answer(i), Good(p, i)'
    PROVE  Answers'
<1> PICK c : c = call.commit
  OBVIOUS
<1> DEFINE ids == Append(Found(c), i)
<1>1. CallTyped /\ Id \subseteq Id'
  BY CalmFacts
<1>2. /\ p = People[c][Len(Found(c)) + 1] /\ Found(c) \in Seq(Id \union {NoId})
  BY <1>1 DEF CallTyped, Turn, Found
<1>3. done' = Insert(done, c, ids)
  BY DEF Answer, Found
<1>4. \A k \in DOMAIN ids : \/ k = Len(Found(c)) + 1 /\ ids[k] = i
                            \/ k \in DOMAIN Found(c) /\ ids[k] = Found(c)[k]
  BY <1>2
<1>5. \A k \in DOMAIN Found(c) : c \in DOMAIN done /\ Found(c) = done[c]
  BY DEF Found
<1> HIDE DEF ids
<1>6. ASSUME NEW d \in DOMAIN done', NEW k \in DOMAIN done'[d], NEW q, NEW j, q = People[d][k], j = done'[d][k]
      PROVE  Good(q, j)' /\ j \in Id'
  <2>1. CASE d = c /\ k = Len(Found(c)) + 1
    <3>1. q = p /\ j = i
      BY <2>1, <1>2, <1>3, <1>4, <1>5, <1>6 DEF Insert
    <3> QED
      BY <3>1, <1>1
  <2>2. CASE ~(d = c /\ k = Len(Found(c)) + 1)
    <3>1. d \in DOMAIN done /\ k \in DOMAIN done[d] /\ done'[d][k] = done[d][k]
      BY <2>2, <1>3, <1>4, <1>5, <1>6 DEF Insert
    <3> QED
      BY <3>1, <1>6, AnswersStay
  <2> QED
    BY <2>1, <2>2
<1> QED
  BY <1>6, AnswersStay DEF Answers

LEMMA AnswersKept ==
    ASSUME CalmStep
    PROVE  Answers'
<1>0. CallTyped /\ CacheTypeOK
  BY CalmFacts DEF CacheTyped
<1>1. CASE OverrideHit \/ MailmapHit
  BY <1>1, CanonicaliseRows, AnswersSame
<1>2. ASSUME NEW i \in Id,
             \/ RecordAlias /\ i = call.id
             \/ FuzzyPair /\ i = cache.byPair[Key(call.pair)]
             \/ TouchMerged /\ i = call.id
             \/ RecordNew /\ i = call.id,
             Answer(i), UNCHANGED rows
      PROVE  Answers'
  <2> PICK p : p = call.pair
    OBVIOUS
  <2>1. call # NoCall /\ p \in Pair
    BY <1>0, <1>2, CallFields, CallStages DEF RecordAlias, FuzzyPair, TouchMerged, RecordNew
  <2>2. Good(p, i)'
    BY <1>2, <2>1, GoodAnswer
  <2> QED
    BY <1>2, <2>1, <2>2, AnswersGain
<1>3. CASE RecordAlias \/ RecordNew
  <2>1. call.id \in Id /\ Answer(call.id) /\ UNCHANGED rows
    BY <1>0, <1>3, CallFields, CallStages DEF RecordAlias, RecordNew
  <2> QED
    BY <1>2, <1>3, <2>1
<1>4. ASSUME NEW i \in Id, Touch(i), \/ FuzzyPair /\ i = cache.byPair[Key(call.pair)]
                                     \/ TouchMerged /\ i = call.id
      PROVE  Answers'
  BY <1>2, <1>4 DEF Touch
<1>5. CASE Persist
  <2>1. /\ done' = << >>
        /\ \A c \in Commit : rows'[c] = IF c \in DOMAIN done THEN done[c] ELSE rows[c]
    BY <1>5 DEF Persist
  <2> QED
    BY <2>1, AnswersStay DEF Answers
<1>6. CASE FuzzyMiss \/ (\E i \in Id : Merges(i)) \/ (\E cs \in SUBSET Commit : StartRun(cs)) \/ Kill \/ Still
  BY <1>6, AnswersSame DEF FuzzyMiss, Merges, Merge, StartRun, Kill, Still, tables
<1> QED
  BY <1>1, <1>3, <1>4, <1>5, <1>6, CalmSteps

LEMMA SoundKept ==
    ASSUME IInv, [Next]_vars
    PROVE  Sound'
<1>1. CASE Settled'
  <2>1. CalmStep
    BY <1>1 DEF CalmStep
  <2> QED
    BY <2>1, StageKept, CuratedAliasesKept, OneIdKept, MirrorsKept, TouchMirrorKept, AloneKept,
       AnswersKept DEF Sound, Mirrors
<1>2. CASE ~Settled'
  BY <1>2 DEF Sound
<1> QED
  BY <1>1, <1>2

LEMMA InitSound == Init => Past /\ Sound
<1> SUFFICES ASSUME Init PROVE Past /\ Sound
  OBVIOUS
<1>1. Id = {} /\ DOMAIN identities = {} /\ DOMAIN aliases = {} /\ DOMAIN done = {} /\ ~Running
  BY DEF Init, Id, Running
<1>2. call = NoCall /\ \A c \in Commit : rows[c] = << >>
  BY DEF Init
<1>3. Past /\ Stage /\ CuratedAliases /\ OneId /\ Alone
  BY <1>1, <1>2 DEF Past, Stage, CuratedAliases, OneId, Alone
<1>4. PairMirror /\ EmailMirror /\ NameMirror /\ TouchMirror
  BY <1>1 DEF PairMirror, EmailMirror, NameMirror, TouchMirror
<1>5. Answers
  BY <1>1, <1>2 DEF Answers
<1> QED
  BY <1>3, <1>4, <1>5 DEF Sound

LEMMA Invariance == Spec => []IInv
<1>1. IInv /\ [Next]_vars => Past' /\ Sound'
  BY SoundKept, PastKept DEF IInv
<1>2. (Typed /\ Steady /\ Past /\ Sound) <=> IInv
  BY DEF IInv
<1>3. (Typed' /\ Steady' /\ Past' /\ Sound') <=> IInv'
  BY DEF IInv
<1> QED
  BY <1>1, <1>2, <1>3, Types, Steadily, InitTyped, SteadyInit, InitSound, PTL DEF Spec

-----------------------------------------------------------------------------
\* While only the union-find answers, one lowercased address never belongs to two
\* identities (rule (a)), over several runs, kills and cache reloads.
THEOREM MergesEmails == Spec => []FuzzyMergesEmails
<1>1. IInv => FuzzyMergesEmails
  <2> SUFFICES ASSUME IInv, fuzzyOnly, Settled, NEW i \in DOMAIN aliases, NEW j \in DOMAIN aliases,
                      Lower(aliases[i].pair) = Lower(aliases[j].pair)
               PROVE  aliases[i].id = aliases[j].id
    BY DEF FuzzyMergesEmails
  <2>1. OneId /\ aliases \in Seq(Alias)
    BY TablesTypes DEF IInv, Typed, TablesTyped, Sound
  <2>2. aliases[i] \in Alias /\ aliases[j] \in Alias
    BY <2>1
  <2>3. Row(aliases[i].id, aliases[i].pair) /\ Row(aliases[j].id, aliases[j].pair)
    BY DEF Row
  <2> QED
    BY <2>1, <2>2, <2>3 DEF OneId, Pure, Alias
<1> QED
  BY <1>1, Invariance, PTL

\* The pairs of a noreply address share an identity with no other address (rule (b)),
\* while only the union-find answers.
THEOREM NoreplyAlone == Spec => []NoreplyStandsAlone
<1>1. IInv => NoreplyStandsAlone
  <2> SUFFICES ASSUME IInv, fuzzyOnly, Settled, NEW i \in DOMAIN aliases, NEW j \in DOMAIN aliases,
                      aliases[i].id = aliases[j].id, IsGithubNoreply(aliases[i].pair[2])
               PROVE  Lower(aliases[i].pair) = Lower(aliases[j].pair)
    BY DEF NoreplyStandsAlone
  <2>1. Alone /\ aliases \in Seq(Alias)
    BY TablesTypes DEF IInv, Typed, TablesTyped, Sound
  <2>2. aliases[i] \in Alias /\ aliases[j] \in Alias
    BY <2>1
  <2>3. Row(aliases[i].id, aliases[i].pair) /\ Row(aliases[i].id, aliases[j].pair)
    BY DEF Row
  <2>4. Lower(aliases[i].pair) \in GithubNoreply
    BY DEF IsGithubNoreply, Lower
  <2> QED
    BY <2>1, <2>2, <2>3, <2>4 DEF Alone, Alias
<1> QED
  BY <1>1, Invariance, PTL

\* Between two pairs the cache that is kept up to date by hand is the one that a reload
\* of the tables would give.
THEOREM CacheMirrors == Spec => []CacheMirrorsTables
<1>1. IInv => CacheMirrorsTables
  <2> SUFFICES ASSUME IInv, fuzzyOnly, Settled, call = NoCall, Running
               PROVE  /\ cache.byPair = HotLoad.byPair
                      /\ cache.byEmail = HotLoad.byEmail
                      /\ DOMAIN cache.lastTouched = Id
                      /\ \A i \in Id : cache.lastTouched[i] >= identities[i].seen
                      /\ DOMAIN cache.byName = DOMAIN HotLoad.byName
                      /\ \A n \in DOMAIN cache.byName :
                            DOMAIN cache.byName[n] = DOMAIN HotLoad.byName[n]
    BY DEF CacheMirrorsTables, Running
  <2>1. /\ OneId /\ PairMirror /\ EmailMirror /\ NameMirror /\ TouchMirror
        /\ identities \in Table /\ aliases \in Seq(Alias) /\ Shape
    BY TablesTypes DEF IInv, Typed, TablesTyped, CacheTyped, Sound
  <2>2. (\A e : Pure(e)) /\ (\A e : ~Pending(e)) /\ call.stage # "new"
    BY DEF Pure, Pending, NoCall
  <2>3. \A i, p : Row(i, p) => i \in Id /\ p \in Pair
    BY <2>1, RowTypes
  <2>4. cache.byPair = HotLoad.byPair
    <3>1. DOMAIN cache.byPair = DOMAIN HotLoad.byPair
      <4>1. \A k \in DOMAIN cache.byPair : k \in DOMAIN HotLoad.byPair
        BY <2>1, <2>2, HotLoadPairs DEF PairMirror
      <4>2. \A k \in DOMAIN HotLoad.byPair : k \in DOMAIN cache.byPair
        BY <2>1, <2>2, <2>3, HotLoadPairs DEF PairMirror
      <4> QED
        BY <4>1, <4>2
    <3>2. ASSUME NEW k \in DOMAIN HotLoad.byPair
          PROVE  cache.byPair[k] = HotLoad.byPair[k]
      <4>1. PICK p \in Pair : Row(HotLoad.byPair[k], p) /\ Key(p) = k
        BY <2>1, HotLoadPairs
      <4> QED
        BY <2>1, <2>2, <2>3, <4>1 DEF PairMirror
    <3> QED
      BY <2>1, <3>1, <3>2, HotLoadPairs DEF Shape
  <2>5. cache.byEmail = HotLoad.byEmail
    <3>1. DOMAIN cache.byEmail = DOMAIN HotLoad.byEmail
      <4>1. \A e \in DOMAIN cache.byEmail : e \in DOMAIN HotLoad.byEmail
        BY <2>1, <2>2, HotLoadEmails DEF EmailMirror
      <4>2. \A e \in DOMAIN HotLoad.byEmail : e \in DOMAIN cache.byEmail
        BY <2>1, <2>2, <2>3, HotLoadEmails DEF EmailMirror
      <4> QED
        BY <4>1, <4>2
    <3>2. ASSUME NEW e \in DOMAIN HotLoad.byEmail
          PROVE  cache.byEmail[e] = HotLoad.byEmail[e]
      <4>1. PICK p \in Pair : Row(HotLoad.byEmail[e], p) /\ Lower(p) = e
        BY <2>1, HotLoadEmails
      <4> QED
        BY <2>1, <2>2, <2>3, <4>1 DEF EmailMirror
    <3> QED
      BY <2>1, <3>1, <3>2, HotLoadEmails DEF Shape
  <2>6. DOMAIN cache.lastTouched = Id /\ \A i \in Id : cache.lastTouched[i] >= identities[i].seen
    BY <2>1, <2>2 DEF TouchMirror
  <2>7. /\ \A n \in DOMAIN cache.byName :
              /\ DOMAIN cache.byName[n] # {}
              /\ \A i \in DOMAIN cache.byName[n] : \E p \in Pair : Row(i, p) /\ Norm(p) = n
        /\ \A i, p : Row(i, p) => Norm(p) \in DOMAIN cache.byName /\ i \in DOMAIN cache.byName[Norm(p)]
    BY <2>1, <2>2, <2>3 DEF NameMirror
  <2>8. DOMAIN cache.byName = DOMAIN HotLoad.byName
    <3>1. \A n \in DOMAIN cache.byName : n \in DOMAIN HotLoad.byName
      BY <2>1, <2>7, HotLoadNames
    <3>2. \A n \in DOMAIN HotLoad.byName : n \in DOMAIN cache.byName
      BY <2>1, <2>7, HotLoadNames
    <3> QED
      BY <3>1, <3>2
  <2>9. ASSUME NEW n \in DOMAIN cache.byName
        PROVE  DOMAIN cache.byName[n] = DOMAIN HotLoad.byName[n]
    <3>1. \A i \in DOMAIN cache.byName[n] : i \in DOMAIN HotLoad.byName[n]
      BY <2>1, <2>7, HotLoadNames
    <3>2. \A i \in DOMAIN HotLoad.byName[n] : i \in DOMAIN cache.byName[n]
      BY <2>1, <2>7, <2>8, HotLoadNames
    <3> QED
      BY <3>1, <3>2
  <2> QED
    BY <2>4, <2>5, <2>6, <2>8, <2>9
<1> QED
  BY <1>1, Invariance, PTL

\* The ids in the commit rows are those the tables give for the same pairs.
THEOREM RowsFollowTables == Spec => []RowsNameAliases
<1>1. IInv => RowsNameAliases
  <2> SUFFICES ASSUME IInv, Settled, NEW c \in Commit, NEW k \in DOMAIN rows[c], NEW p, NEW id,
                      p = People[c][k], id = rows[c][k],
                      Curated(p) \/ fuzzyOnly \/ ~Contested(Lower(p))
               PROVE  \/ AliasOf(p) = {id}
                      \/ /\ AliasOf(p) = {} /\ ~Curated(p)
                         /\ \/ \E a \in DOMAIN aliases :
                                  aliases[a].id = id /\ Key(aliases[a].pair) = Key(p)
                            \/ Key(<<identities[id].name, identities[id].email>>) = Key(p)
    BY DEF RowsNameAliases
  <2>1. /\ OneId /\ Answers /\ RowsFit /\ rows \in [Commit -> Seq(Id \union {NoId})]
        /\ identities \in Table /\ aliases \in Seq(Alias)
    BY TablesTypes DEF IInv, Typed, TablesTyped, Sound
  <2>2. Good(p, id) /\ id \in Id
    BY <2>1 DEF Answers
  <2>3. p \in Pair
    <3>1. People[c] \in Seq(Pair) /\ k \in DOMAIN People[c]
      BY <2>1, PeopleAssumption DEF RowsFit
    <3> QED
      BY <3>1
  <2>4. CASE Curated(p)
    BY <2>2, <2>4 DEF Good
  <2>5. CASE ~Curated(p)
    <3>1. Pure(Lower(p))
      BY <2>5 DEF Pure
    <3>2. PICK q \in Pair : Row(id, q) /\ Key(q) = Key(p)
      BY <2>2, <2>5, <3>1 DEF Good
    <3>3. Lower(q) = Lower(p)
      BY <2>3, <3>2, KeyTypes
    <3>4. ASSUME NEW a \in DOMAIN aliases, aliases[a].pair = p
          PROVE  aliases[a].id = id
      <4>1. Row(aliases[a].id, p)
        BY <3>4 DEF Row
      <4>2. aliases[a].id \in Id
        BY <2>1, <4>1, RowTypes
      <4> QED
        BY <2>1, <2>2, <2>3, <3>1, <3>2, <3>3, <4>1, <4>2 DEF OneId
    <3>5. CASE AliasOf(p) = {}
      BY <2>5, <3>2, <3>5 DEF Row
    <3>6. CASE AliasOf(p) # {}
      BY <3>4, <3>6 DEF AliasOf
    <3> QED
      BY <3>5, <3>6
  <2> QED
    BY <2>4, <2>5
<1> QED
  BY <1>1, Invariance, PTL

=============================================================================
