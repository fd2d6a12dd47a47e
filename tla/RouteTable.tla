----------------------------- MODULE RouteTable -----------------------------
(***************************************************************************)
(* The router's pure core (internal/router): conversion of an HTTPRoute    *)
(* into rules, admission of cross-namespace backends, and the choice of a  *)
(* backend for a request path.                                             *)
(*                                                                         *)
(* A path is the sequence of what stands between its slashes: "/a/b" is    *)
(* <<"a", "b">>, "/a/" is <<"a", "">> and "/" is <<"">>.  For paths that   *)
(* begin with a slash, comparing strings and prefixes that end in a slash  *)
(* is comparing these sequences.                                           *)
(***************************************************************************)
EXTENDS Integers, FiniteSets, Sequences, SequencesExt

CONSTANT Length    \* the length of every string between slashes

ASSUME LengthAssumption ==
  /\ "" \in DOMAIN Length
  /\ \A e \in DOMAIN Length : Length[e] \in Nat /\ (Length[e] = 0 <=> e = "")

\* A path begins with a slash.
Paths == Seq(DOMAIN Length) \ {<<>>}
Root  == <<"">>

\* A field that is not set: a namespace or section name, and a path value.
Own     == ""
NoValue == <<>>

\* The elements of s at the positions of a set, in their order: what a loop that
\* appends the elements it keeps returns (SelectSeq, stated without recursion).
Ascending(I) ==
  CHOOSE f \in [1 .. Cardinality(I) -> I] :
    \A a, b \in DOMAIN f : a < b => f[a] < f[b]

Kept(s, I) == LET at == Ascending(I) IN [k \in DOMAIN at |-> s[at[k]]]

NoBackend == [ns |-> Own, name |-> "", port |-> 0]

----------------------------------------------------------------------------
(***************************************************************************)
(* httproute.go.                                                           *)
(***************************************************************************)

\* Types other than Exact, the regular expression among them, become PathPrefix.
ConvertPath(m) ==
  [type  |-> IF m.type = "Exact" THEN "Exact" ELSE "PathPrefix",
   value |-> IF m.value = NoValue THEN Root ELSE m.value]

ConvertMatches(ms) ==
  IF ms = <<>> THEN <<[type |-> "PathPrefix", value |-> Root]>>
  ELSE [i \in DOMAIN ms |-> ConvertPath(ms[i])]

\* The namespace a reference means in an object of namespace ns.
NamespaceOf(ref, ns) == IF ref.ns = Own THEN ns ELSE ref.ns

ConvertBackends(refs, ns) ==
  [i \in DOMAIN refs |-> [refs[i] EXCEPT !.ns = NamespaceOf(refs[i], ns)]]

RulesFromHTTPRoute(spec, ns) ==
  [i \in DOMAIN spec.rules |->
     [matches  |-> ConvertMatches(spec.rules[i].matches),
      backends |-> ConvertBackends(spec.rules[i].backends, ns)]]

\* aggregate.go: a rule may be left without backends.
DropCrossNSBackends(rules, ns) ==
  [i \in DOMAIN rules |->
     [rules[i] EXCEPT !.backends = Kept(@, {k \in DOMAIN @ : @[k].ns = ns})]]

----------------------------------------------------------------------------
(***************************************************************************)
(* match.go.                                                               *)
(***************************************************************************)
StringLength(path) == FoldLeft(LAMBDA n, s : n + 1 + Length[s], 0, path)

ExactTier == 2 ^ 16

\* Mutant: an Exact match has no tier of its own.
PathScoreFlat(m) == StringLength(m.value)

PathScore(m) ==
  IF m.type = "Exact" THEN ExactTier + StringLength(m.value)
                      ELSE StringLength(m.value)

\* A prefix other than "/" is followed by a slash: by a further element here.
PathMatches(m, path) ==
  \/ path = m.value
  \/ /\ m.type = "PathPrefix"
     /\ \/ m.value = Root
        \/ /\ Len(path) > Len(m.value)
           /\ SubSeq(path, 1, Len(m.value)) = m.value

\* One turn of Match's loop over the rules.
Consider(best, rule, path) ==
  IF rule.backends = <<>> THEN best
  ELSE FoldLeft(LAMBDA b, m :
                  IF PathMatches(m, path) /\ PathScore(m) > b.score
                  THEN [score |-> PathScore(m), backend |-> Head(rule.backends)]
                  ELSE b,
                best, rule.matches)

\* The backend for a request; NoBackend is the router's 404.
Match(rules, path) ==
  FoldLeft(LAMBDA b, rule : Consider(b, rule, path),
           [score |-> -1, backend |-> NoBackend], rules).backend

----------------------------------------------------------------------------
(***************************************************************************)
(* The rule that the comments on Match and pathScore single out, stated    *)
(* without scores and strings.  Of what the Gateway API asks for it leaves *)
(* out: a rule without backends answers nothing, equals are taken in the   *)
(* order of the list, and a prefix that ends in a slash matches its own    *)
(* value and what has a further slash after it.                            *)
(***************************************************************************)
Applies(m, path) ==
  \/ path = m.value
  \/ m.type = "PathPrefix" /\ (m.value = Root \/ IsPrefix(m.value, path))

\* The elements of a path; "/" has none.
Depth(path) == IF path = Root THEN 0 ELSE Len(path)

\* m goes before n: Exact first, then more elements.
Precedes(m, n) ==
  \/ m.type = "Exact" /\ n.type # "Exact"
  \/ m.type = n.type /\ Depth(m.value) > Depth(n.value)

\* The matches of rules with backends that apply to path, as <<rule, match>>.
Applicable(rules, path) ==
  {a \in UNION {{i} \X DOMAIN rules[i].matches : i \in DOMAIN rules} :
     rules[a[1]].backends # <<>> /\ Applies(rules[a[1]].matches[a[2]], path)}

\* The backend of the rule that goes before all others, the first of equals.
Selected(rules, path) ==
  LET A == Applicable(rules, path)
      At(a) == rules[a[1]].matches[a[2]]
      Best == {a \in A : \A c \in A : ~Precedes(At(c), At(a))}
      First == CHOOSE a \in Best : \A c \in Best : a[1] <= c[1] IN
  IF A = {} THEN NoBackend ELSE Head(rules[First[1]].backends)
============================================================================
