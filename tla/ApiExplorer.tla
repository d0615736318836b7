---------------------------- MODULE ApiExplorer ----------------------------
(***************************************************************************)
(* The initializer of the API explorer page (docs/javascripts/             *)
(* api-explorer.js) in the browser's event loop.                           *)
(*                                                                         *)
(* The script runs once.  Navigation replaces the page under it without a  *)
(* reload, so renderExplorer is called again for each page, may find an    *)
(* element it has seen, and may be overtaken: the Swagger UI bundle is     *)
(* loaded once, in the background, while the visitor moves on.             *)
(*                                                                         *)
(* Scripts, events and page changes are tasks.  The callbacks of settled   *)
(* promises (jobs) run before the next task, and may run between two       *)
(* listeners of one event.                                                 *)
(* The browser, the theme that navigates, and the bundle are external.     *)
(* Stylesheets and the text on the page are layout and are left out.       *)
(***************************************************************************)
EXTENDS Naturals, Sequences

CONSTANTS Root,     \* elements "swagger-ui", one for each page that has one
          NoRoot,   \* the page has none
          Url       \* addresses that a viewer may ask for

ASSUME NoRootAssumption == NoRoot \notin Root

VARIABLES
    instant,      \* the theme offers document$, and navigates without reload
    phase,        \* "loading"; parsed, with the script's own listener ("listened")
                  \* or without ("interactive"); DOMContentLoaded past ("complete")
    script,       \* the initializer: not run yet, run, or ended at its start
    calls,        \* calls of renderExplorer that the current task still makes
    page,         \* the element in the document
    visited,      \* elements that have been in the document
    specUrl,      \* each element's specification address
    initialized,  \* each element's dataset.initialized
    content,      \* what each element shows
    load,         \* the promise swaggerUiLoad
    scripts,      \* script elements of the bundle added to the head
    bundle,       \* window.SwaggerUIBundle is defined
    waiters,      \* elements with a callback on the pending promise
    jobs,         \* callbacks of settled promises, first in first out
    viewer,       \* window.finbankSwaggerUi, by its element
    renders,      \* history: calls of the bundle for each element
    sent          \* history: requests that viewers have sent

browserVars == <<instant, phase, specUrl>>
pageVars == <<page, visited>>
rootVars == <<initialized, content, viewer, renders>>
loadVars == <<load, scripts, bundle>>
queueVars == <<waiters, jobs>>

vars == <<browserVars, script, calls, pageVars, rootVars, loadVars, queueVars, sent>>

\* Where the callbacks of renderExplorer for an element stand:
\*   "then"   the promise is fulfilled   "pass"  it is rejected
\*   "catch"  so is the one that then returned
Job == [kind: {"then", "pass", "catch"}, root: Root]

JobOf(kind, r) == [kind |-> kind, root |-> r]

\* No task is running: the next one may start.
AtRest == calls = 0 /\ jobs = <<>>

(***************************************************************************)
(* The script is run.  It ends at once if it cannot know its own address.  *)
(* document$ calls a new subscriber if it has fired before.                *)
(***************************************************************************)
Subscribed == script = "run" /\ instant

Start ==
    /\ AtRest
    /\ script = "new"
    /\ \/ script' = "ended" /\ calls' = 0
       \/ /\ script' = "run"
          /\ calls' = (IF instant /\ phase = "complete" THEN 1 ELSE 0)
                        + (IF phase = "loading" THEN 0 ELSE 1)
    /\ UNCHANGED <<browserVars, pageVars, rootVars, loadVars, queueVars, sent>>

(***************************************************************************)
(* The browser has parsed the document.                                    *)
(***************************************************************************)
Parsed ==
    /\ AtRest
    /\ phase = "loading"
    /\ phase' = IF script = "run" THEN "listened" ELSE "interactive"
    /\ UNCHANGED <<instant, specUrl, script, calls, pageVars, rootVars, loadVars>>
    /\ UNCHANGED <<queueVars, sent>>

(***************************************************************************)
(* DOMContentLoaded: document$ fires, and the script's own listener is     *)
(* called if the document was still being parsed when the script ran.      *)
(***************************************************************************)
DOMContentLoaded ==
    /\ AtRest
    /\ phase \in {"listened", "interactive"}
    /\ phase' = "complete"
    /\ calls' = (IF Subscribed THEN 1 ELSE 0) + (IF phase = "listened" THEN 1 ELSE 0)
    /\ UNCHANGED <<instant, specUrl, script, pageVars, rootVars, loadVars>>
    /\ UNCHANGED <<queueVars, sent>>

(***************************************************************************)
(* The theme puts another page in place of the current one, and document$  *)
(* fires.  A page that is visited again is built anew.                     *)
(***************************************************************************)
Navigate ==
    /\ AtRest
    /\ instant
    /\ phase = "complete"
    /\ \E r \in (Root \ visited) \cup {NoRoot} :
        /\ page' = r
        /\ visited' = visited \cup ({r} \ {NoRoot})
        /\ r # page
    /\ calls' = IF Subscribed THEN 1 ELSE 0
    /\ UNCHANGED <<browserVars, script, rootVars, loadVars, queueVars, sent>>

\* Mutant of LoadSwaggerUi: only a loaded bundle is remembered.
LoadSwaggerUiAgain(r) ==
    IF bundle
    THEN /\ jobs' = Append(jobs, JobOf("then", r))
         /\ UNCHANGED <<load, scripts, waiters>>
    ELSE /\ load' = "pending"
         /\ scripts' = scripts + 1
         /\ waiters' = Append(waiters, r)
         /\ UNCHANGED jobs

(***************************************************************************)
(* loadSwaggerUi, and the callback that renderExplorer adds for element r. *)
(* The promise is kept for good, also when it is rejected.                 *)
(***************************************************************************)
LoadSwaggerUi(r) ==
    CASE bundle \/ load = "fulfilled" ->
            /\ jobs' = Append(jobs, JobOf("then", r))
            /\ UNCHANGED <<load, scripts, waiters>>
      [] ~bundle /\ load = "rejected" ->
            /\ jobs' = Append(jobs, JobOf("pass", r))
            /\ UNCHANGED <<load, scripts, waiters>>
      [] ~bundle /\ load = "none" ->
            /\ load' = "pending"
            /\ scripts' = scripts + 1
            /\ waiters' = Append(waiters, r)
            /\ UNCHANGED jobs
      [] ~bundle /\ load = "pending" ->
            /\ waiters' = Append(waiters, r)
            /\ UNCHANGED <<load, scripts, jobs>>

\* Mutant of RenderExplorer: the mark is set when the viewer is there.
RenderExplorerUnmarked ==
    /\ calls > 0
    /\ calls' = calls - 1
    /\ IF page = NoRoot \/ (page \in Root /\ content[page] = "explorer")
       THEN UNCHANGED <<initialized, load, scripts, queueVars>>
       ELSE LoadSwaggerUi(page) /\ UNCHANGED initialized
    /\ UNCHANGED <<browserVars, script, pageVars, content, viewer, renders, bundle, sent>>

(***************************************************************************)
(* renderExplorer: an element is initialized by the first call that finds  *)
(* it in the document.                                                     *)
(***************************************************************************)
RenderExplorer ==
    /\ calls > 0
    /\ calls' = calls - 1
    /\ IF page = NoRoot \/ (page \in Root /\ initialized[page])
       THEN UNCHANGED <<initialized, load, scripts, queueVars>>
       ELSE /\ initialized' = [initialized EXCEPT ![page] = TRUE]
            /\ LoadSwaggerUi(page)
    /\ UNCHANGED <<browserVars, script, pageVars, content, viewer, renders, bundle, sent>>

\* The callbacks waiting for the promise become jobs.
Settle(outcome, kind) ==
    /\ load = "pending"
    /\ load' = outcome
    /\ jobs' = [i \in DOMAIN waiters |-> JobOf(kind, waiters[i])]
    /\ waiters' = <<>>

(***************************************************************************)
(* The bundle's script is loaded and evaluated.  If the evaluation throws, *)
(* the browser reports a load all the same.                                *)
(***************************************************************************)
ScriptLoads ==
    /\ AtRest
    /\ Settle("fulfilled", "then")
    /\ bundle' \in BOOLEAN
    /\ UNCHANGED <<browserVars, script, calls, pageVars, rootVars, scripts, sent>>

ScriptFails ==
    /\ AtRest
    /\ Settle("rejected", "pass")
    /\ UNCHANGED <<browserVars, script, calls, pageVars, rootVars, scripts, bundle, sent>>

IsNext(kind, r) == jobs # <<>> /\ Head(jobs) = JobOf(kind, r)

\* Mutant of Render: the first viewer stays the global one.
RenderBesides(r) ==
    /\ viewer' = IF viewer = NoRoot THEN r ELSE viewer
    /\ content' = [content EXCEPT ![r] = "explorer"]
    /\ renders' = [renders EXCEPT ![r] = @ + 1]

\* The bundle builds a viewer in the element.
Render(r) ==
    /\ viewer' = r
    /\ content' = [content EXCEPT ![r] = "explorer"]
    /\ renders' = [renders EXCEPT ![r] = @ + 1]

\* Mutant of RunThen: a missing bundle is not an error.
RunThenUnlessMissing(r) ==
    /\ IsNext("then", r)
    /\ jobs' = Tail(jobs)
    /\ IF page = r /\ bundle THEN Render(r) ELSE UNCHANGED <<viewer, content, renders>>
    /\ UNCHANGED <<browserVars, script, calls, pageVars, initialized, loadVars>>
    /\ UNCHANGED <<waiters, sent>>

(***************************************************************************)
(* The callback of then: leave an element alone that is not in the         *)
(* document any more, else call the bundle, which may throw.               *)
(***************************************************************************)
RunThen(r) ==
    /\ IsNext("then", r)
    /\ \/ /\ page # r
          /\ jobs' = Tail(jobs)
          /\ UNCHANGED <<viewer, content, renders>>
       \/ /\ page = r
          /\ bundle
          /\ Render(r)
          /\ jobs' = Tail(jobs)
       \/ /\ page = r
          /\ jobs' = Append(Tail(jobs), JobOf("catch", r))
          /\ UNCHANGED <<viewer, content, renders>>
    /\ UNCHANGED <<browserVars, script, calls, pageVars, initialized, loadVars>>
    /\ UNCHANGED <<waiters, sent>>

\* then has no callback for a rejection: it is passed on to catch.
RunPass(r) ==
    /\ IsNext("pass", r)
    /\ jobs' = Append(Tail(jobs), JobOf("catch", r))
    /\ UNCHANGED <<browserVars, script, calls, pageVars, rootVars, loadVars>>
    /\ UNCHANGED <<waiters, sent>>

\* The callback of catch, wherever the element is by now.
RunCatch(r) ==
    /\ IsNext("catch", r)
    /\ jobs' = Tail(jobs)
    /\ initialized' = [initialized EXCEPT ![r] = FALSE]
    /\ content' = [content EXCEPT ![r] = "error"]
    /\ UNCHANGED <<browserVars, script, calls, pageVars, viewer, renders, loadVars>>
    /\ UNCHANGED <<waiters, sent>>

\* Mutant of Allowed: the address is taken from the page of the moment.
AllowedByPage(r, url) == page \in Root /\ url = specUrl[page]

\* requestInterceptor compares with the address taken when r was rendered.
Allowed(r, url) == url = specUrl[r]

(***************************************************************************)
(* A viewer, whose page may have been left, wants to send a request; the   *)
(* interceptor makes it a GET, or throws.                                  *)
(***************************************************************************)
Intercept(r, url) ==
    /\ content[r] = "explorer"
    /\ Allowed(r, url)
    /\ sent' = sent \cup {[by |-> r, url |-> url]}
    /\ UNCHANGED <<browserVars, script, calls, pageVars, rootVars, loadVars, queueVars>>

Init ==
    /\ instant \in BOOLEAN
    /\ phase = "loading"
    /\ script = "new"
    /\ calls = 0
    /\ page \in Root \cup {NoRoot}
    /\ visited = {page} \ {NoRoot}
    /\ specUrl \in [Root -> Url]
    /\ initialized = [r \in Root |-> FALSE]
    /\ content = [r \in Root |-> "placeholder"]
    /\ load = "none"
    /\ scripts = 0
    /\ bundle = FALSE
    /\ waiters = <<>>
    /\ jobs = <<>>
    /\ viewer = NoRoot
    /\ renders = [r \in Root |-> 0]
    /\ sent = {}

RunJob(r) == RunThen(r) \/ RunPass(r) \/ RunCatch(r)

Next ==
    \/ Start
    \/ Parsed
    \/ DOMContentLoaded
    \/ Navigate
    \/ RenderExplorer
    \/ ScriptLoads
    \/ ScriptFails
    \/ \E r \in Root :
        \/ RunThen(r)
        \/ RunPass(r)
        \/ RunCatch(r)
        \/ \E url \in Url : Intercept(r, url)

Spec == Init /\ [][Next]_vars

(***************************************************************************)
(* Fairness: the event loop goes on, parsing ends, and the browser ends    *)
(* every load with one of the two events.  Visitors need not navigate.     *)
(***************************************************************************)
Fairness ==
    /\ WF_vars(Parsed)
    /\ WF_vars(DOMContentLoaded)
    /\ WF_vars(RenderExplorer)
    /\ WF_vars(ScriptLoads \/ ScriptFails)
    /\ WF_vars(\E r \in Root : RunJob(r))

FairSpec == Spec /\ Fairness

(***************************************************************************)
(* Properties.                                                             *)
(***************************************************************************)

\* Every variable has its type.
TypeOK ==
    /\ instant \in BOOLEAN
    /\ phase \in {"loading", "listened", "interactive", "complete"}
    /\ script \in {"new", "run", "ended"}
    /\ calls \in 0..2
    /\ page \in Root \cup {NoRoot}
    /\ visited \subseteq Root
    /\ specUrl \in [Root -> Url]
    /\ initialized \in [Root -> BOOLEAN]
    /\ content \in [Root -> {"placeholder", "explorer", "error"}]
    /\ load \in {"none", "pending", "fulfilled", "rejected"}
    /\ scripts \in Nat
    /\ bundle \in BOOLEAN
    /\ waiters \in Seq(Root)
    /\ jobs \in Seq(Job)
    /\ viewer \in Root \cup {NoRoot}
    /\ renders \in [Root -> Nat]
    /\ sent \subseteq [by: Root, url: Url]

\* renderExplorer: the two listeners, a replayed event and a page left and
\* found again never build two viewers in one element.
RenderedOnce == \A r \in Root : renders[r] <= 1

\* loadSwaggerUi: however many pages are visited while it loads, and after it
\* has failed, the bundle is requested once.
BundleIsRequestedOnce == scripts <= 1

\* The global viewer is the one on the page, if the page shows one: a viewer
\* of a page left while the bundle was loading does not take its place.
ViewerIsOfThePage ==
    page \in Root /\ content[page] = "explorer" => viewer = page

\* requestInterceptor: a viewer asks for nothing but its own contract, also
\* when the visitor has moved on to a page with another one.
OnlyTheContractIsFetched == \A s \in sent : s.url = specUrl[s.by]

\* An explorer page never stays at its placeholder: it is answered with the
\* viewer or the error, unless the visitor leaves it first.
EveryVisitIsAnswered ==
    \A r \in Root :
        page = r /\ script = "run" ~> content[r] # "placeholder" \/ page # r

(***************************************************************************)
(* The inductive invariant.                                                *)
(***************************************************************************)

\* An element has at most one chain of callbacks, on the promise or in the
\* queue, and only while it is marked and not rendered.
OneCallbackPerRoot ==
    /\ \A i, j \in DOMAIN waiters : waiters[i] = waiters[j] => i = j
    /\ \A i, j \in DOMAIN jobs : jobs[i].root = jobs[j].root => i = j
    /\ \A i \in DOMAIN waiters, j \in DOMAIN jobs : waiters[i] # jobs[j].root
    /\ \A i \in DOMAIN waiters :
        initialized[waiters[i]] /\ content[waiters[i]] # "explorer"
    /\ \A j \in DOMAIN jobs :
        initialized[jobs[j].root] /\ content[jobs[j].root] # "explorer"

\* A marked element on the page is not forgotten: its viewer is there, or a
\* callback that will answer.
NoVisitIsForgotten ==
    page \in Root /\ initialized[page] /\ content[page] # "explorer" =>
        \/ \E i \in DOMAIN waiters : waiters[i] = page
        \/ \E j \in DOMAIN jobs : jobs[j].root = page

\* What each element shows fits its mark and its viewers.
RootsAreConsistent ==
    /\ \A r \in Root : content[r] = "explorer" => initialized[r]
    /\ \A r \in Root : renders[r] = (IF content[r] = "explorer" THEN 1 ELSE 0)
    /\ \A r \in Root : initialized[r] \/ content[r] # "placeholder" => r \in visited
    /\ page \in Root => page \in visited

\* The promise and what hangs on it.
LoadIsConsistent ==
    /\ scripts = (IF load = "none" THEN 0 ELSE 1)
    /\ load # "pending" => waiters = <<>>
    /\ bundle => load = "fulfilled"

IInv ==
    /\ TypeOK
    /\ ViewerIsOfThePage
    /\ OnlyTheContractIsFetched
    /\ OneCallbackPerRoot
    /\ NoVisitIsForgotten
    /\ RootsAreConsistent
    /\ LoadIsConsistent

=============================================================================
