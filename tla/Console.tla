------------------------------ MODULE Console ------------------------------
(***************************************************************************)
(* The apps page of the management console: the list of the apps beside    *)
(* the detail of the one in the URL, each a DataFetcher that fetches again *)
(* when the URL changes, and the modals (OperationModal) that create, edit *)
(* and delete an app and then have the pages fetch again.                  *)
(*                                                                         *)
(* Requests are answered in any order or fail.  What is rendered inside a  *)
(* DataFetcher goes away with its result; an operation that a modal had    *)
(* begun goes on all the same.  The pages of groups, users and bundles are *)
(* made the same way.                                                      *)
(***************************************************************************)
EXTENDS Naturals, FiniteSets, Functions

CONSTANTS
  Apps,           \* ids of apps
  NoApp,          \* the URL /apps
  MaxFetches,     \* bound: requests of pages under way
  MaxMoves,      \* bound: times the user goes elsewhere
  MaxOperations   \* bound: operations performed

ASSUME ConsoleAssumption ==
  /\ NoApp \notin Apps
  /\ MaxFetches \in Nat \ {0} /\ MaxMoves \in Nat /\ MaxOperations \in Nat

VARIABLES
  apps,        \* at the server, the version of each app
  ui,          \* the URL, the two pages and their requests
  modal,       \* the modal that is open
  operations,  \* those under way, the modal open or not
  done,        \* versions made by operations that the user saw succeed
  moves, performed

consoleVars == <<apps, ui, modal, operations, done, moves, performed>>

\* An app comes into being, is changed and is deleted: its version only grows.
Unborn == 0
Created == 1
Gone == MaxOperations + 2
Exists(a) == apps[a] \notin {Unborn, Gone}

Pages == {"list", "detail"}

\* A page that shows no app yet.
Blank == [a \in {} |-> Unborn]

\* hurried: the last fetch began while an earlier one was under way.
Unmounted == [status |-> "unmounted", shown |-> Blank, hurried |-> FALSE]

\* app: the one the modal is about; result: the app an operation of it came back with.
NoResult == [app |-> NoApp, version |-> Unborn]
NoModal == [page |-> "none", kind |-> "none", app |-> NoApp, step |-> "closed", nr |-> 0,
            result |-> NoResult]

\* The requests that are under way are numbered, in no order that matters.
FreeNumber(u) == CHOOSE k \in 1 .. MaxFetches + 2 : k \notin DOMAIN u.fetches
Numbers(u, page) == {k \in DOMAIN u.fetches : u.fetches[k].page = page}
Pending(u, page) == Numbers(u, page) # {}

-----------------------------------------------------------------------------
(* DataFetcher and the router *)

\* fetchData()
Fetching(u, page, of) ==
  [u EXCEPT ![page] = [status |-> "started", shown |-> Blank, hurried |-> Pending(u, page)],
            !.fetches = [k \in DOMAIN u.fetches \cup {FreeNumber(u)} |->
                           IF k = FreeNumber(u)
                           THEN [page |-> page, of |-> of, state |-> "sent", found |-> Blank]
                           ELSE u.fetches[k]]]

\* Those under way without some of them.
Without(fetches, ks) == Restrict(fetches, DOMAIN fetches \ ks)

\* shouldRefetch of AppsList: from an app back to the list.
ListRefetches(old, new) == old # NoApp /\ new = NoApp

\* shouldRefetch of AppDetail, and its first fetch: to another app.
DetailRefetches(old, new) == new \notin {old, NoApp}

\* What becomes of the pages when the URL does; AppDetail is there for an app only,
\* and what an unmounted one still receives is lost.
Went(u, url) ==
  LET moved == [u EXCEPT !.url = url]
      listed == IF ListRefetches(u.url, url) THEN Fetching(moved, "list", NoApp) ELSE moved
  IN  IF url = NoApp
      THEN [listed EXCEPT !.detail = Unmounted,
                          !.fetches = Without(@, Numbers(listed, "detail"))]
      ELSE IF DetailRefetches(u.url, url) THEN Fetching(listed, "detail", url) ELSE listed

\* The modal m is inside a page: gone when the page shows no result, rendered with
\* the app of a new one.
Rendered(u, m) ==
  IF m = NoModal \/ u[m.page].status # "succeeded" THEN NoModal
  ELSE IF m.page = "list" THEN m
  ELSE [m EXCEPT !.app = CHOOSE a \in DOMAIN u.detail.shown : TRUE]

\* operation() reads the props of the modal, while there is one, when it is called.
Followed(m) ==
  {IF m # NoModal /\ o.nr = m.nr /\ o.step = "delayed" THEN [o EXCEPT !.app = m.app] ELSE o
     : o \in operations}

\* The console comes to u, with the modal m if its page is still there.
Shows(u, m) ==
  /\ Cardinality(DOMAIN u.fetches) <= MaxFetches
  /\ ui' = u
  /\ modal' = Rendered(u, m)
  /\ operations' = Followed(Rendered(u, m))

\* A link of the list, or the back button.
GoTo(url) ==
  /\ url # ui.url /\ moves < MaxMoves
  /\ url # NoApp => apps[url] # Unborn
  /\ moves' = moves + 1
  /\ Shows(Went(ui, url), modal)
  /\ UNCHANGED <<apps, done, performed>>

ServeFetch(k) ==
  LET fetch == ui.fetches[k]
      found == {a \in Apps : Exists(a) /\ (fetch.page = "list" \/ a = fetch.of)}
  IN  /\ fetch.state = "sent"
      /\ fetch.page = "detail" => found # {}
      /\ ui' = [ui EXCEPT !.fetches[k].state = "served",
                          !.fetches[k].found = Restrict(apps, found)]
      /\ UNCHANGED <<apps, modal, operations, done, moves, performed>>

FetchArrives(k) ==
  LET fetch == ui.fetches[k]
  IN  /\ fetch.state = "served"
      /\ Shows([ui EXCEPT ![fetch.page].status = "succeeded", ![fetch.page].shown = fetch.found,
                          !.fetches = Without(@, {k})], modal)
      /\ UNCHANGED <<apps, done, moves, performed>>

\* The request fails, or there is no such app.
FetchFails(k) ==
  LET page == ui.fetches[k].page
  IN  /\ Shows([ui EXCEPT ![page].status = "failed", ![page].shown = Blank,
                          !.fetches = Without(@, {k})], modal)
      /\ UNCHANGED <<apps, done, moves, performed>>

RetryFetch(page) ==
  /\ ui[page].status = "failed"
  /\ Shows(Fetching(ui, page, IF page = "list" THEN NoApp ELSE ui.url), modal)
  /\ UNCHANGED <<apps, done, moves, performed>>

-----------------------------------------------------------------------------
(* OperationModal *)

OpenModal(page, kind) ==
  /\ modal = NoModal /\ ui[page].status = "succeeded"
  /\ modal' = Rendered(ui, [NoModal EXCEPT !.page = page, !.kind = kind, !.step = "open"])
  /\ UNCHANGED <<apps, ui, operations, done, moves, performed>>

\* Cancel; the button is disabled while the operation is under way.
CloseModal ==
  /\ modal.step \in {"open", "failed"}
  /\ modal' = NoModal
  /\ UNCHANGED <<apps, ui, operations, done, moves, performed>>

PerformOperation ==
  /\ modal.step \in {"open", "failed"} /\ performed < MaxOperations
  /\ performed' = performed + 1
  /\ modal' = [modal EXCEPT !.step = "started", !.nr = performed + 1]
  /\ operations' = operations \cup
       {[nr |-> performed + 1, kind |-> modal.kind, app |-> modal.app,
         step |-> "delayed", result |-> NoResult]}
  /\ UNCHANGED <<apps, ui, done, moves>>

Goes(o, to) == operations' = (operations \ {o}) \cup {to}

\* After delay(15).
SendOperation(o) ==
  /\ o.step = "delayed"
  /\ Goes(o, [o EXCEPT !.step = "sent"])
  /\ UNCHANGED <<apps, ui, modal, done, moves, performed>>

\* The server does it, with a new id for an app that is created.
ServeOperation(o) ==
  /\ o.step = "sent"
  /\ \E a \in Apps :
       LET version == IF o.kind = "delete" THEN Gone ELSE apps[a] + 1
       IN  /\ IF o.kind = "create" THEN apps[a] = Unborn ELSE a = o.app /\ Exists(a)
           /\ apps' = [apps EXCEPT ![a] = version]
           /\ Goes(o, [o EXCEPT !.step = "served",
                                !.result = [app |-> a, version |-> version]])
  /\ UNCHANGED <<ui, modal, done, moves, performed>>

\* What becomes of an operation is shown by its modal, if that is still there.
Ended(o, step) ==
  /\ operations' = operations \ {o}
  /\ modal' = IF modal.nr # o.nr THEN modal
              ELSE [modal EXCEPT !.step = step, !.result = o.result]
  /\ UNCHANGED <<apps, ui, done, moves, performed>>

OperationSucceeds(o) == o.step = "served" /\ Ended(o, "succeeded")

\* The form is not valid, the server refuses, or its answer is lost.
OperationFails(o) == Ended(o, "failed")

\* Mutated form: the page that was edited is not fetched again.
UpdatedAlready ==
  LET app == modal.result.app
  IN  CASE modal.kind = "create" -> Went(Fetching(ui, "list", NoApp), app)
        [] modal.kind = "edit"   -> Went(ui, app)
        [] modal.kind = "delete" -> Went(ui, NoApp)

\* onAfterSuccessClose: the refetch is that of the page as it was rendered last.
Updated ==
  LET app == modal.result.app
  IN  CASE modal.kind = "create" -> Went(Fetching(ui, "list", NoApp), app)
        [] modal.kind = "edit"   -> Went(Fetching(ui, "detail", ui.url), app)
        [] modal.kind = "delete" -> Went(ui, NoApp)

CloseAfterSuccess ==
  /\ modal.step = "succeeded"
  /\ done' = [done EXCEPT ![modal.result.app] = modal.result.version]
  /\ Shows(Updated, NoModal)
  /\ UNCHANGED <<apps, moves, performed>>

-----------------------------------------------------------------------------
ConsoleInit ==
  /\ apps \in [Apps -> {Unborn, Created}]
  /\ ui = Fetching([url |-> NoApp, list |-> Unmounted, detail |-> Unmounted,
                    fetches |-> Blank], "list", NoApp)
  /\ modal = NoModal /\ operations = {}
  /\ done = [a \in Apps |-> Unborn]
  /\ moves = 0 /\ performed = 0

ConsoleNext ==
  \/ \E url \in Apps \cup {NoApp} : GoTo(url)
  \/ \E k \in DOMAIN ui.fetches : ServeFetch(k) \/ FetchArrives(k) \/ FetchFails(k)
  \/ \E page \in Pages : RetryFetch(page)
  \/ OpenModal("list", "create") \/ \E kind \in {"edit", "delete"} : OpenModal("detail", kind)
  \/ CloseModal \/ PerformOperation \/ CloseAfterSuccess
  \/ \E o \in operations :
       SendOperation(o) \/ ServeOperation(o) \/ OperationSucceeds(o) \/ OperationFails(o)

ConsoleSpec == ConsoleInit /\ [][ConsoleNext]_consoleVars

-----------------------------------------------------------------------------
(* Properties *)

Views == [status : {"unmounted", "started", "succeeded", "failed"},
          hurried : BOOLEAN, shown : UNION {[S -> 0 .. Gone] : S \in SUBSET Apps}]

\* Every variable keeps its type, a spinner turns only while a request is under way,
\* and there is a modal only in a page that shows something.
ConsoleTypeOK ==
  /\ apps \in [Apps -> 0 .. Gone] /\ done \in [Apps -> 0 .. Gone]
  /\ ui.url \in Apps \cup {NoApp}
  /\ \A page \in Pages :
       /\ ui[page] \in Views
       /\ ui[page].status = "started" => Pending(ui, page)
  /\ ui.detail.status = "unmounted" <=> ui.url = NoApp
  /\ modal # NoModal => ui[modal.page].status = "succeeded"

\* The detail shown is that of the app in the URL, unless the user went on to it before
\* the detail of another had arrived: then the answers may overtake each other.
ShownIsAsked ==
  ui.detail.status = "succeeded" /\ ~ui.detail.hurried => DOMAIN ui.detail.shown = {ui.url}

\* What the user changed, saw succeed and closed is never shown as it was before: no
\* older version of an app that was edited, no app in the list that was deleted and
\* none missing that was created.
OwnChangesShow ==
  /\ ui.detail.status = "succeeded" /\ ~ui.detail.hurried =>
       \A a \in DOMAIN ui.detail.shown : ui.detail.shown[a] >= done[a]
  /\ ui.list.status = "succeeded" /\ ~ui.list.hurried =>
       \A a \in Apps :
         /\ done[a] = Gone => a \notin DOMAIN ui.list.shown
         /\ done[a] = Created /\ Exists(a) => a \in DOMAIN ui.list.shown

\* What the pages show is what was asked for, and as new as what was done.
ConsoleInv == ConsoleTypeOK /\ ShownIsAsked /\ OwnChangesShow

=============================================================================
