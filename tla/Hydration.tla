------------------------------- MODULE Hydration -------------------------------
(***************************************************************************)
(* An app is rendered on the server, sent, hydrated by the client and      *)
(* updated.  On both sides the asynchronous components arrive in any       *)
(* order; the data of the client may differ from that of the server.       *)
(***************************************************************************)
EXTENDS Hydrate

CONSTANTS
  \* The runtime: Compiled, Mount and Change, RenderToString, Arrived and Page,
  \* HydrateApp and Loaded, which MCHydration names.  As constants they are
  \* evaluated, and not expanded at each of their uses.
  Compilation(_), Mounted(_, _, _, _), Updated(_, _),
  Render(_, _, _), Resolve(_, _), Sent(_), StartFrom(_, _, _, _), Receive(_, _),
  Drifting,   \* bound: the apps whose client may start with other data
  MaxUpdates  \* bound: changes of the data

VARIABLES
  template,  \* the app that runs
  server,    \* the state of the server
  page,      \* what it sent, or NoPage
  client,    \* the state of the client, or NoClient
  trusted,   \* the client has started with the data of the server
  updates    \* how often the data of the client changed

vars == << template, server, page, client, trusted, updates >>

NoPage == [app |-> << >>, teleports |-> NoProps]
NoClient == [waiting |-> {}]
Hydrated == page # NoPage

Init ==
  /\ template \in DOMAIN Templates
  /\ \E store \in Stores(template) :
       server = Render(template, Compilation(Templates[template].uses), store)
  /\ page = NoPage
  /\ client = NoClient
  /\ trusted = TRUE
  /\ updates = 0

\* A component the server waits for is there.
Arrive(p) ==
  /\ server' = Resolve(server, p)
  /\ UNCHANGED << template, page, client, trusted, updates >>

\* All promises are resolved, the page is sent, and its app is mounted.
Hydrate(store) ==
  /\ ~Hydrated /\ server.pending = {}
  /\ store = server.store \/ template \in Drifting
  /\ page' = Sent(server)
  /\ trusted' = (store = server.store)
  /\ client' = StartFrom(template, server.components, store, page')
  /\ UNCHANGED << template, server, updates >>

\* A component the client waits for is there.
LoadAsync(w) ==
  /\ client' = Receive(client, w)
  /\ UNCHANGED << template, server, page, trusted, updates >>

\* The data of the client changes, once everything is loaded.
Set(store) ==
  /\ Hydrated /\ client.waiting = {}
  /\ updates < MaxUpdates
  /\ store # client.store
  /\ client' = Updated(client, store)
  /\ updates' = updates + 1
  /\ UNCHANGED << template, server, page, trusted >>

Next ==
  \/ \E p \in server.pending : Arrive(p)
  \/ \E store \in Stores(template) : Hydrate(store)
  \/ \E w \in client.waiting : LoadAsync(w)
  \/ \E store \in Stores(template) : Set(store)
Spec == Init /\ [][Next]_vars

--------------------------------------------------------------------------------
(* Properties.                                                                 *)

\* What is on the screen, with or without the attributes and the listeners;
\* comments are not.
OnScreen(s, el) == IsElement(s, el) \/ (IsText_(s, el) /\ s.dom[el].text # None)
RECURSIVE Content(_, _, _)
Content(s, el, attrs) ==
  [tag |-> s.dom[el].tag, text |-> s.dom[el].text,
   attrs |-> IF attrs THEN s.dom[el].attrs ELSE NoProps,
   kids |-> LET shown == SelectSeq(s.dom[el].kids, LAMBDA k : OnScreen(s, k))
            IN  [i \in DOMAIN shown |-> Content(s, shown[i], attrs)]]
Showing(s, attrs) == << Content(s, 1, attrs), Content(s, 2, attrs), Content(s, 3, attrs) >>
Settled == Hydrated /\ client.waiting = {}

\* The order in which the asynchronous components arrive on the server does not
\* show in the page.
RECURSIVE Finished(_)
Finished(s) ==
  IF s.pending = {} THEN s ELSE Finished(Resolve(s, CHOOSE p \in s.pending : TRUE))
PageIgnoresOrder ==
  Hydrated => page = Sent(Finished(Render(template, server.components, server.store)))

\* A client with the data of the server finds each node where it looks for it,
\* whatever is still to be loaded, and creates none.
Adopted ==
  Hydrated /\ trusted =>
    /\ ~client.hasMismatch
    /\ updates = 0 => Len(client.dom) = Len(Shown(Blank(FALSE, NoProps, NoProps), page).dom)

\* A hydrated app cannot be told from one that was mounted: its screen and its
\* listeners are the same, then and after updates.  If the data was another one,
\* tags and texts still are: the attributes of an adopted node are not looked at.
LikeMounted ==
  Settled /\ ~Templates[template].frozen =>
    LET mounted == Mounted(template, FALSE, client.components, client.store)
    IN  Showing(client, trusted) = Showing(mounted, trusted)

\* The vnodes of a hydrated app name nodes that are there: updates throw nothing,
\* its refs are alive and what left the document is unmounted.
Usable == Settled => client.err = {} /\ RefsLiveIn(client) /\ UnmountedIn(client)
================================================================================
