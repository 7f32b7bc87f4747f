------------------------------ MODULE Endpoints ------------------------------
(***************************************************************************)
(* RespondToEndpointRequest, as a browser lives with it: which entrypoint  *)
(* answers a path, which asset of its bundle, and the redirects that lead  *)
(* to the canonical path, while the entrypoints are deployed to.  All      *)
(* addresses are of one host; the content of an asset, its headers and the *)
(* configuration put into it are left out.                                 *)
(***************************************************************************)
EXTENDS Naturals, Sequences, SequencesExt

\* A segment of a path is <<name, n>>: the name with n times ".html" after it.
\* A path is its segments and whether it ends in a slash; "/" has no segments.
CONSTANTS Matchers,     \* paths of the addresses that entrypoints may have
          Bundles,      \* [assets, fallback]; an asset is the segments of its path
          Visits,       \* paths that browsers ask for
          Browsers,
          Gap,          \* the segment between the slashes of "//"
          Elsewhere,    \* the target of an entrypoint that redirects
          Nothing,
          MaxVisits,    \* after the first ones
          MaxDeploys    \* changes of an entrypoint

ASSUME EndpointsAssumption ==
  /\ \A m \in Matchers : Gap \notin ToSet(m)
  /\ \A b \in Bundles : b.fallback \in b.assets /\ <<>> \notin b.assets
  /\ MaxVisits \in Nat /\ MaxDeploys \in Nat

VARIABLES entrypoints,  \* matcher -> a bundle, Elsewhere, or Nothing
          browser,      \* a visit under way, or the last one
          remembered,   \* the 301s a browser has had: path -> location
          visits, deploys

endpointsVars == <<entrypoints, browser, remembered, visits, deploys>>

Path(segs, slash) == [segs |-> segs, slash |-> slash \/ segs = <<>>]
Html(segment) == <<segment[1], segment[2] + 1>>
IndexHtml == <<"index", 1>>

-----------------------------------------------------------------------------
(* The entrypoint *)

\* path.join takes gaps away.
Joined(path) == Path(SelectSeq(path.segs, LAMBDA s : s # Gap), path.slash)

AddTrailingSlash(path) == Path(path.segs, TRUE)

\* What the path of a matcher, which ends in a slash, is a prefix of.
StartsWith(path, matcher) ==
  /\ IsPrefix(matcher, path.segs)
  /\ Len(path.segs) > Len(matcher) \/ path.slash

MatchersOf(path) ==
  {m \in DOMAIN entrypoints : StartsWith(AddTrailingSlash(Joined(path)), m)}

Longest(seqs) == CHOOSE s \in seqs : \A t \in seqs : Len(t) <= Len(s)

\* toAbsolute(removePrefix(request.path, ...)): the prefix goes if it is there as
\* it was asked for, gaps included.
RequestedPath(path, matcher) ==
  Joined(IF StartsWith(path, matcher)
         THEN Path(SubSeq(path.segs, Len(matcher) + 1, Len(path.segs)), path.slash)
         ELSE path)

-----------------------------------------------------------------------------
(* The asset *)

AppendDotHtml(path) ==
  IF path.segs = <<>> THEN <<>> ELSE Front(path.segs) \o <<Html(Last(path.segs))>>

AppendIndexDotHtml(path) == Append(path.segs, IndexHtml)

PerfectlyMatching(path, assets) == {a \in assets : IsSuffix(a, path.segs)}
MatchingWithDotHtml(path, assets) == {a \in assets : IsSuffix(a, AppendDotHtml(path))}
MatchingWithIndexDotHtml(path, assets) ==
  {a \in assets : IF a = <<IndexHtml>> THEN path.segs \in {<<>>, <<IndexHtml>>}
                  ELSE IsSuffix(a, AppendIndexDotHtml(path))}

FindMatchingAsset(path, bundle) ==
  LET perfectly == PerfectlyMatching(path, bundle.assets)
      withDotHtml == MatchingWithDotHtml(path, bundle.assets)
      withIndex == MatchingWithIndexDotHtml(path, bundle.assets)
  IN  CASE perfectly # {} -> Longest(perfectly)
        [] perfectly = {} /\ withDotHtml # {} -> Longest(withDotHtml)
        [] perfectly = {} /\ withDotHtml = {} /\ withIndex # {} -> Longest(withIndex)
        [] OTHER -> bundle.fallback

\* With or without a slash at the end.
IsCanonicalPath(path, asset, bundle) ==
  asset \in {path.segs, AppendDotHtml(path), AppendIndexDotHtml(path), bundle.fallback}

\* Mutated form: relative to the host.
CanonicalRemoteAsset(matcher, asset) == Path(asset, FALSE)

CanonicalRemotePath(matcher, asset) == Path(matcher \o asset, FALSE)

-----------------------------------------------------------------------------
(* The answer: a status, and the location or the asset with its matcher.   *)
(* 200 also stands for the fallbackStatusCode of a bundle.                 *)

Answered(status, from, what) == [status |-> status, from |-> from, what |-> what]
NoAnswer == Answered(0, Nothing, Nothing)
NotFound(from) == Answered(404, from, Nothing)

FromBundle(path, matcher, bundle) ==
  LET requested == RequestedPath(path, matcher)
      asset == FindMatchingAsset(requested, bundle)
  IN  IF IsCanonicalPath(requested, asset, bundle) THEN Answered(200, matcher, asset)
      ELSE Answered(301, matcher, CanonicalRemotePath(matcher, asset))

Respond(path) ==
  IF MatchersOf(path) = {} THEN NotFound(Nothing)
  ELSE LET m == Longest(MatchersOf(path))
       IN  CASE ~StartsWith(Joined(path), m) ->
                  Answered(301, Nothing, AddTrailingSlash(path))
             [] StartsWith(Joined(path), m) /\ entrypoints[m] = Elsewhere ->
                  Answered(302, m, Nothing)
             [] StartsWith(Joined(path), m) /\ entrypoints[m] = Nothing -> NotFound(m)
             [] OTHER -> FromBundle(path, m, entrypoints[m])

-----------------------------------------------------------------------------
(* A browser follows redirects, and remembers permanent ones. *)

\* seen, the paths of this visit; led, where a canonical redirect led; steady,
\* nothing was deployed during the visit and nothing remembered was used.
Visit(path) == [first |-> path, path |-> path, seen |-> {path}, led |-> Nothing,
                steady |-> TRUE, answer |-> NoAnswer, again |-> FALSE]

Visiting(b) == browser[b].answer = NoAnswer

FollowTo(b, location, from, steady) ==
  browser' = [browser EXCEPT ![b].path = location,
                             ![b].seen = @ \cup {location},
                             ![b].again = @ \/ location \in browser[b].seen,
                             ![b].led = IF from = Nothing THEN @ ELSE <<from, location>>,
                             ![b].steady = @ /\ steady]

Ask(b) ==
  LET path == browser[b].path
      answer == Respond(path)
  IN  /\ Visiting(b)
      /\ IF answer.status = 301
         THEN /\ remembered' = [remembered EXCEPT ![b] =
                                  [p \in DOMAIN @ \cup {path} |->
                                     IF p = path THEN answer.what ELSE @[p]]]
              /\ FollowTo(b, answer.what, answer.from, TRUE)
         ELSE /\ browser' = [browser EXCEPT ![b].answer = answer]
              /\ UNCHANGED remembered
      /\ UNCHANGED <<entrypoints, visits, deploys>>

Recall(b) ==
  /\ Visiting(b)
  /\ browser[b].path \in DOMAIN remembered[b]
  /\ FollowTo(b, remembered[b][browser[b].path], Nothing, FALSE)
  /\ UNCHANGED <<entrypoints, remembered, visits, deploys>>

VisitAgain(b) ==
  /\ ~Visiting(b) /\ visits < MaxVisits
  /\ visits' = visits + 1
  /\ \E path \in Visits : browser' = [browser EXCEPT ![b] = Visit(path)]
  /\ UNCHANGED <<entrypoints, remembered, deploys>>

Unsteady == [b \in Browsers |-> [browser[b] EXCEPT !.steady = FALSE]]

\* DeployBundle, or UpdateEntrypoint with a redirect or with neither.
Deploy(m) ==
  /\ deploys < MaxDeploys
  /\ deploys' = deploys + 1
  /\ \E target \in Bundles \cup {Elsewhere, Nothing} :
       /\ m \in DOMAIN entrypoints => target # entrypoints[m]
       /\ entrypoints' = [n \in DOMAIN entrypoints \cup {m} |->
                            IF n = m THEN target ELSE entrypoints[n]]
  /\ browser' = Unsteady
  /\ UNCHANGED <<remembered, visits>>

DeleteEntrypoint(m) ==
  /\ deploys < MaxDeploys
  /\ deploys' = deploys + 1
  /\ m \in DOMAIN entrypoints
  /\ entrypoints' = [n \in DOMAIN entrypoints \ {m} |-> entrypoints[n]]
  /\ browser' = Unsteady
  /\ UNCHANGED <<remembered, visits>>

EndpointsInit ==
  /\ \E ms \in SUBSET Matchers : entrypoints \in [ms -> Bundles]
  /\ \E paths \in [Browsers -> Visits] : browser = [b \in Browsers |-> Visit(paths[b])]
  /\ remembered = [b \in Browsers |-> <<>>]
  /\ visits = 0
  /\ deploys = 0

EndpointsNext ==
  \/ \E b \in Browsers : Ask(b) \/ Recall(b) \/ VisitAgain(b)
  \/ \E m \in Matchers : Deploy(m) \/ DeleteEntrypoint(m)

EndpointsSpec == EndpointsInit /\ [][EndpointsNext]_endpointsVars

-----------------------------------------------------------------------------
(* Properties *)

\* No redirect leads to a path the visit has been at, whatever is deployed during
\* it and whichever permanent redirects the browser remembers from before: no
\* browser is ever sent around in a circle.
RedirectsNeverReturn == \A b \in Browsers : ~browser[b].again

Settled(b) == browser[b].steady /\ ~Visiting(b)
Owner(path) == Longest(MatchersOf(path))

\* The canonical path that a browser is sent to is the path of an asset, and is
\* answered with that asset, by the entrypoint that sent it there or by one with
\* a longer address that covers the path; then there is no further redirect.
CanonicalPathIsServed ==
  \A b \in Browsers :
    LET led == browser[b].led
    IN  Settled(b) /\ led # Nothing =>
          \/ browser[b].answer = Answered(200, led[1],
                 SubSeq(led[2].segs, Len(led[1]) + 1, Len(led[2].segs)))
          \/ Len(Owner(led[2])) > Len(led[1])

\* Who asks for an asset by its own path under the entrypoint that owns the path
\* gets it at once, whatever other assets match.
AssetsAreAtTheirPaths ==
  \A b \in Browsers :
    LET path == browser[b].first
    IN  Settled(b) /\ MatchersOf(path) # {} =>
          LET m == Owner(path)
              asset == SubSeq(path.segs, Len(m) + 1, Len(path.segs))
          IN  entrypoints[m] \in Bundles /\ asset \in entrypoints[m].assets =>
                /\ browser[b].answer = Answered(200, m, asset)
                /\ browser[b].seen = {path}

\* With or without the slash at the end, a path ends at the same asset of the
\* same entrypoint, though the addresses of entrypoints end in a slash.
SlashMakesNoDifference ==
  \A b, c \in Browsers :
    Settled(b) /\ Settled(c) /\ browser[b].first.segs = browser[c].first.segs =>
      browser[b].answer = browser[c].answer

\* Every visit arrives, at the asset that its path stands for.
VisitsArrive ==
  /\ RedirectsNeverReturn
  /\ CanonicalPathIsServed
  /\ AssetsAreAtTheirPaths
  /\ SlashMakesNoDifference

=============================================================================
