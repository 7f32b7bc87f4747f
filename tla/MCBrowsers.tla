---------------------------- MODULE MCBrowsers -----------------------------
(***************************************************************************)
(* TLC instances of Endpoints and Console: the browsers of visitors and    *)
(* that of who manages.  The two share nothing, so that each is explored   *)
(* with the other at rest: two browsers that ask for one path with and     *)
(* without a slash at its end, and one console.                            *)
(***************************************************************************)
EXTENDS Endpoints, Console, TLC

CONSTANTS gap, b1, b2

A == <<"a", 0>>
B == <<"b", 0>>
NotFoundHtml == <<<<"404", 1>>>>

MCMatchers == {<<>>, <<A>>}

With404(assets) == [assets |-> assets \cup {NotFoundHtml}, fallback |-> NotFoundHtml]
SinglePage(assets) == [assets |-> assets \cup {<<IndexHtml>>}, fallback |-> <<IndexHtml>>]

MCBundles ==
  {With404(assets) : assets \in {{<<A>>, <<B, A>>}, {<<A>>, <<Html(A)>>}, {<<Html(B)>>, <<B, A>>},
                                 {<<IndexHtml>>, <<A, IndexHtml>>}, {<<B, IndexHtml>>, <<A, B>>}}}
    \cup {SinglePage({<<B, A>>})}

MCVisits == {Path(segs, slash) : segs \in {<<A>>, <<B>>, <<B, A>>, <<A, B, A>>, <<A, gap, B>>,
                                           <<A, IndexHtml>>, <<B, Html(A)>>},
                                 slash \in BOOLEAN}
MCBrowserSet == {b1, b2}

Symmetry == Permutations(MCBrowserSet) \cup Permutations(Apps)

VARIABLE part

VisitsBegin == browser[b1].first.segs = browser[b2].first.segs
EndpointsRest ==
  /\ entrypoints = <<>>
  /\ \A b \in Browsers : browser[b] = Visit(Path(<<A>>, FALSE))
ConsoleRest == apps = [a \in Apps |-> Unborn]

MCBrowsersInit ==
  /\ EndpointsInit /\ ConsoleInit
  /\ \/ part = "visitors" /\ VisitsBegin /\ ConsoleRest
     \/ part = "console" /\ EndpointsRest

MCBrowsersNext ==
  /\ \/ part = "visitors" /\ EndpointsNext /\ UNCHANGED consoleVars
     \/ part = "console" /\ ConsoleNext /\ UNCHANGED endpointsVars
  /\ UNCHANGED part

MCBrowsersSpec == MCBrowsersInit /\ [][MCBrowsersNext]_<<part, endpointsVars, consoleVars>>

=============================================================================
