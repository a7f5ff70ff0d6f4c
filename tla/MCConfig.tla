------------------------------ MODULE MCConfig ------------------------------
(* Configuration files of up to two sections, right and wrong; TLC evaluates  *)
(* the assumptions.                                                           *)
EXTENDS Integers, FiniteSets, TLC

K == INSTANCE Config

LOCAL Empty == K!Table([k \in {} |-> 0])
LOCAL Search(f) == K!Table([search |-> f])
LOCAL Limit(v) == Search(K!Table([default_limit |-> v]))
LOCAL Right ==
    {Empty, Limit(K!Leaf("int", 7)),
     Search(K!Table([bm25 |-> K!Table([body |-> K!Leaf("int", 3)])])),
     Search(K!Table([bm25 |-> K!Table([subject |-> K!Leaf("float", 5)]),
                     soft_cap |-> K!Leaf("int", 0)])),
     K!Table([tui |-> K!Table([theme |-> K!Leaf("text", 2),
                               keys |-> K!Table([help |-> K!Leaf("char", 9)])])])}
LOCAL Wrong ==
    {Limit(K!Leaf("text", 0)), Limit(K!Leaf("int", -1)), K!Table([serach |-> K!Leaf("int", 1)]),
     K!Table([search |-> K!Leaf("int", 1)]), K!Table([tui |-> K!Table([theme |-> K!Leaf("text", 9)])])}
LOCAL Tables == Right \cup Wrong

\* What a file says at a path of keys, if it does.
RECURSIVE ValueAt(_, _)
ValueAt(v, path) ==
    IF path = << >> THEN {v}
    ELSE IF ~K!IsTable(v) THEN {}
    ELSE IF path[1] \notin DOMAIN v.keys THEN {}
    ELSE ValueAt(v.keys[path[1]], [i \in 1 .. Cardinality(DOMAIN path) - 1 |-> path[i + 1]])
LOCAL Leaves ==
    {<<"search", "default_limit">>, <<"search", "soft_cap">>, <<"search", "bm25", "subject">>,
     <<"search", "bm25", "body">>, <<"tui", "theme">>, <<"tui", "keys", "help">>,
     <<"tui", "mouse">>}

\* "per-repo wins" (mod.rs:8): every setting is that of the repository's file if it has
\* it, else that of the user's, else the default, whatever tables the others are in.
ASSUME Layering ==
    \A u, r \in Right, path \in Leaves :
        LET Says(file) == ValueAt(file, path)
            first == IF Says(r) # {} THEN r ELSE IF Says(u) # {} THEN u ELSE K!Defaults(K!Schema)
            Hundredths(v) == IF path[2] = "bm25" /\ v.kind = "int" THEN 100 * v.is ELSE v.is
            loaded == K!LoadFromPaths(u, r)
        IN  /\ ~K!Failed(loaded)
            /\ ValueAt(loaded, path) # {}
            /\ \A a \in ValueAt(loaded, path), b \in Says(first) : a.is = Hundredths(b)

\* Missing files are not errors (mod.rs:20-22); an empty one changes nothing.
ASSUME Missing ==
    /\ K!LoadFromPaths(K!Absent, K!Absent) = K!Defaults(K!Schema)
    /\ \A t \in Tables :
          LET alone == K!LoadFromPaths(t, K!Absent)
          IN  /\ K!LoadFromPaths(K!Absent, t) = alone
              /\ K!LoadFromPaths(Empty, t) = alone
              /\ K!LoadFromPaths(t, t) = alone

\* A wrong file is an error, with one exception: what the repository's file replaces is
\* never decoded, so a wrong value of the user's file passes wherever it is overridden.
ASSUME WrongFiles ==
    /\ \A w \in Wrong : K!Failed(K!LoadFromPaths(w, K!Absent))
    /\ \A u \in Tables, w \in Wrong : K!Failed(K!LoadFromPaths(u, w))
    /\ ~K!Failed(K!LoadFromPaths(Limit(K!Leaf("text", 0)), Limit(K!Leaf("int", 7))))
    /\ \A t \in Tables : /\ K!LoadFromPaths(K!Malformed, t) = K!Malformed
                         /\ K!LoadFromPaths(t, K!Unreadable) = K!Unreadable

\* The terminal UI starts with any files, while the indexer refuses wrong ones.
ASSUME TuiAlwaysStarts ==
    \A u, r \in Tables \cup {K!Absent, K!Malformed}, isRepo \in BOOLEAN :
        /\ ~K!Failed(K!ConfigOfTui(isRepo, u, r))
        /\ K!Failed(K!ConfigOfIndexer(u, r)) =>
              K!ConfigOfTui(isRepo, u, r) = K!Defaults(K!TuiConfig)

\* "Risk weights sum to 1.00 by construction" (mod.rs:26-27), the labels are in order, and
\* a default search stays within its cap.
ASSUME DefaultsFit ==
    LET w == K!RiskWeights.keys  c == K!RiskLabelCutoffs.keys  s == K!SearchConfig.keys
    IN  /\ w.files.default + w.dirs.default + w.infra.default + w.tests.default
             + w.churn.default + w.revert.default + w.release.default = 100
        /\ 0 < c.medium.default /\ c.medium.default < c.high.default /\ c.high.default < 100
        /\ s.default_limit.default <= s.soft_cap.default

ASSUME UserFile ==
    /\ K!UserGlobalConfigPath([xdg |-> "", home |-> "h"]) = [under |-> ".config", dir |-> "h"]
    /\ K!UserGlobalConfigPath([xdg |-> "x", home |-> "h"]) = [under |-> "xdg", dir |-> "x"]
    /\ K!UserGlobalConfigPath([xdg |-> "unset", home |-> "unset"]) = [under |-> "none"]

=============================================================================
