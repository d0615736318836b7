------------------------- MODULE ApiExplorerProofs -------------------------
(***************************************************************************)
(* What holds of the explorer's initializer for every number of visits and *)
(* every order of tasks.                                                   *)
(***************************************************************************)
EXTENDS ApiExplorer, Integers, TLAPS

(***************************************************************************)
(* The two queues.                                                         *)
(***************************************************************************)

\* Nothing is left for element r.
NoCallback(r) ==
    /\ \A i \in DOMAIN waiters : waiters[i] # r
    /\ \A j \in DOMAIN jobs : jobs[j].root # r

\* Jobs are for elements.
LEMMA JobRoots ==
    ASSUME jobs \in Seq(Job)
    PROVE  \A j \in DOMAIN jobs : jobs[j].root \in Root
<1> SUFFICES ASSUME NEW j \in DOMAIN jobs
             PROVE  jobs[j].root \in Root
  OBVIOUS
<1>1. jobs[j] \in Job
  OBVIOUS
<1> QED BY <1>1 DEF Job

\* An element without a callback may get one at the end of the job queue.
LEMMA OneMoreJob ==
    ASSUME TypeOK, OneCallbackPerRoot, NEW r \in Root, NoCallback(r),
           NEW kind \in {"then", "pass", "catch"},
           jobs' = Append(jobs, JobOf(kind, r)), waiters' = waiters,
           content' = content, content[r] # "explorer",
           initialized' = [initialized EXCEPT ![r] = TRUE]
    PROVE  /\ jobs' \in Seq(Job)
           /\ OneCallbackPerRoot'
           /\ \E j \in DOMAIN jobs' : jobs'[j].root = r
           /\ \A j \in DOMAIN jobs : j \in DOMAIN jobs' /\ jobs'[j] = jobs[j]
<1>1. /\ jobs \in Seq(Job)
      /\ JobOf(kind, r) \in Job
      /\ JobOf(kind, r).root = r
  BY DEF TypeOK, Job, JobOf
<1>2. /\ jobs' \in Seq(Job)
      /\ DOMAIN jobs' = DOMAIN jobs \cup {Len(jobs) + 1}
      /\ \A j \in DOMAIN jobs : jobs'[j] = jobs[j]
      /\ jobs'[Len(jobs) + 1] = JobOf(kind, r)
  BY <1>1
<1>3. \A j \in DOMAIN jobs : jobs[j].root \in Root
  BY <1>1, JobRoots
<1>4. \A i \in DOMAIN waiters : waiters[i] \in Root
  BY DEF TypeOK
<1>5. \A i, j \in DOMAIN jobs' : jobs'[i].root = jobs'[j].root => i = j
  BY <1>1, <1>2 DEF OneCallbackPerRoot, NoCallback
<1>6. \A i \in DOMAIN waiters, j \in DOMAIN jobs' : waiters[i] # jobs'[j].root
  BY <1>1, <1>2 DEF OneCallbackPerRoot, NoCallback
<1>7. \A s \in Root : s = r \/ initialized[s] => initialized'[s]
  BY DEF TypeOK
<1>8. /\ \A i \in DOMAIN waiters :
            initialized'[waiters[i]] /\ content[waiters[i]] # "explorer"
      /\ \A j \in DOMAIN jobs' :
            initialized'[jobs'[j].root] /\ content[jobs'[j].root] # "explorer"
  <2>1. \A i \in DOMAIN waiters :
            initialized'[waiters[i]] /\ content[waiters[i]] # "explorer"
    BY <1>4, <1>7 DEF OneCallbackPerRoot
  <2>2. \A j \in DOMAIN jobs :
            initialized'[jobs[j].root] /\ content[jobs[j].root] # "explorer"
    BY <1>3, <1>7 DEF OneCallbackPerRoot
  <2>3. initialized'[r]
    BY <1>7
  <2> QED BY <1>1, <1>2, <2>1, <2>2, <2>3
<1>9. OneCallbackPerRoot'
  BY <1>5, <1>6, <1>8 DEF OneCallbackPerRoot
<1> QED BY <1>1, <1>2, <1>9

\* Or it may wait for the promise.
LEMMA OneMoreWaiter ==
    ASSUME TypeOK, OneCallbackPerRoot, NEW r \in Root, NoCallback(r),
           waiters' = Append(waiters, r), jobs' = jobs,
           content' = content, content[r] # "explorer",
           initialized' = [initialized EXCEPT ![r] = TRUE]
    PROVE  /\ waiters' \in Seq(Root)
           /\ OneCallbackPerRoot'
           /\ \E i \in DOMAIN waiters' : waiters'[i] = r
<1>1. waiters \in Seq(Root) /\ jobs \in Seq(Job)
  BY DEF TypeOK
<1>2. /\ waiters' \in Seq(Root)
      /\ DOMAIN waiters' = DOMAIN waiters \cup {Len(waiters) + 1}
      /\ \A i \in DOMAIN waiters : waiters'[i] = waiters[i]
      /\ waiters'[Len(waiters) + 1] = r
  BY <1>1
<1>3. \A j \in DOMAIN jobs : jobs[j].root \in Root
  BY <1>1, JobRoots
<1>4. \A s \in Root : s = r \/ initialized[s] => initialized'[s]
  BY DEF TypeOK
<1>5. \A i, j \in DOMAIN waiters' : waiters'[i] = waiters'[j] => i = j
  BY <1>1, <1>2 DEF OneCallbackPerRoot, NoCallback
<1>6. \A i \in DOMAIN waiters', j \in DOMAIN jobs : waiters'[i] # jobs[j].root
  BY <1>1, <1>2 DEF OneCallbackPerRoot, NoCallback
<1>7. /\ \A i \in DOMAIN waiters' :
            initialized'[waiters'[i]] /\ content[waiters'[i]] # "explorer"
      /\ \A j \in DOMAIN jobs :
            initialized'[jobs[j].root] /\ content[jobs[j].root] # "explorer"
  <2>1. \A i \in DOMAIN waiters : waiters[i] \in Root
    BY <1>1
  <2>2. \A i \in DOMAIN waiters :
            initialized'[waiters[i]] /\ content[waiters[i]] # "explorer"
    BY <1>4, <2>1 DEF OneCallbackPerRoot
  <2>3. \A j \in DOMAIN jobs :
            initialized'[jobs[j].root] /\ content[jobs[j].root] # "explorer"
    BY <1>3, <1>4 DEF OneCallbackPerRoot
  <2>4. initialized'[r]
    BY <1>4
  <2> QED BY <1>2, <2>2, <2>3, <2>4
<1>8. OneCallbackPerRoot'
  BY <1>5, <1>6, <1>7 DEF OneCallbackPerRoot
<1> QED BY <1>2, <1>8

\* The first job is taken: its element has no callback left.
LEMMA FirstJobTaken ==
    ASSUME TypeOK, OneCallbackPerRoot, NEW r \in Root,
           NEW kind \in {"then", "pass", "catch"}, IsNext(kind, r)
    PROVE  /\ jobs[1].root = r
           /\ 1 \in DOMAIN jobs
           /\ Tail(jobs) \in Seq(Job)
           /\ \A j \in DOMAIN Tail(jobs) :
                j + 1 \in DOMAIN jobs /\ Tail(jobs)[j] = jobs[j + 1]
           /\ \A j \in DOMAIN jobs : j # 1 =>
                j - 1 \in DOMAIN Tail(jobs) /\ Tail(jobs)[j - 1] = jobs[j]
           /\ \A j \in DOMAIN Tail(jobs) : Tail(jobs)[j].root # r
           /\ \A i \in DOMAIN waiters : waiters[i] # r
           /\ initialized[r] /\ content[r] # "explorer"
<1>1. jobs \in Seq(Job) /\ jobs # <<>>
  BY DEF TypeOK, IsNext
<1>2. /\ 1 \in DOMAIN jobs
      /\ Head(jobs) = jobs[1]
      /\ Tail(jobs) \in Seq(Job)
      /\ \A j \in DOMAIN Tail(jobs) :
            j \in Nat /\ j >= 1 /\ j + 1 \in DOMAIN jobs /\ Tail(jobs)[j] = jobs[j + 1]
      /\ \A j \in DOMAIN jobs : j # 1 =>
            j - 1 \in DOMAIN Tail(jobs) /\ Tail(jobs)[j - 1] = jobs[j]
  BY <1>1
<1>3. jobs[1].root = r
  BY <1>2 DEF IsNext, JobOf
<1>4. \A j \in DOMAIN Tail(jobs) : Tail(jobs)[j].root # r
  BY <1>2, <1>3 DEF OneCallbackPerRoot
<1>5. \A i \in DOMAIN waiters : waiters[i] # r
  BY <1>2, <1>3 DEF OneCallbackPerRoot
<1>6. initialized[r] /\ content[r] # "explorer"
  BY <1>2, <1>3 DEF OneCallbackPerRoot
<1> QED BY <1>2, <1>3, <1>4, <1>5, <1>6

(***************************************************************************)
(* Steps that leave elements and queues alone.                             *)
(***************************************************************************)
LEMMA LoopKeeps ==
    ASSUME IInv,
           UNCHANGED <<specUrl, pageVars, rootVars, loadVars, queueVars, sent>>,
           instant' \in BOOLEAN, script' \in {"new", "run", "ended"}, calls' \in 0..2,
           phase' \in {"loading", "listened", "interactive", "complete"}
    PROVE  IInv'
<1>1. TypeOK'
  BY DEF IInv, TypeOK, pageVars, rootVars, loadVars, queueVars
<1>2. ViewerIsOfThePage' /\ OnlyTheContractIsFetched'
  BY DEF IInv, pageVars, rootVars, ViewerIsOfThePage, OnlyTheContractIsFetched
<1>3. OneCallbackPerRoot' /\ NoVisitIsForgotten'
  BY DEF IInv, pageVars, rootVars, queueVars, OneCallbackPerRoot, NoVisitIsForgotten
<1>4. RootsAreConsistent' /\ LoadIsConsistent'
  BY DEF IInv, pageVars, rootVars, loadVars, queueVars, RootsAreConsistent,
         LoadIsConsistent
<1> QED BY <1>1, <1>2, <1>3, <1>4 DEF IInv

\* A fresh element has shown nothing and awaits nothing.
LEMMA NavigateKeeps ==
    ASSUME IInv, Navigate
    PROVE  IInv'
<1>1. PICK r \in (Root \ visited) \cup {NoRoot} :
        /\ page' = r
        /\ visited' = visited \cup ({r} \ {NoRoot})
  BY DEF Navigate
<1>2. /\ UNCHANGED <<browserVars, script, rootVars, loadVars, queueVars, sent>>
      /\ calls' \in 0..2
  BY DEF Navigate
<1>3. r \in Root => ~initialized[r] /\ content[r] = "placeholder"
  <2>1. SUFFICES ASSUME r \in Root, initialized[r] \/ content[r] # "placeholder"
                 PROVE  FALSE
    OBVIOUS
  <2>2. r \in visited
    BY <2>1 DEF IInv, RootsAreConsistent
  <2> QED BY <1>1, <2>1, <2>2, NoRootAssumption
<1>4. TypeOK'
  BY <1>1, <1>2 DEF IInv, TypeOK, browserVars, rootVars, loadVars, queueVars
<1>5. ViewerIsOfThePage' /\ NoVisitIsForgotten'
  BY <1>1, <1>2, <1>3 DEF rootVars, ViewerIsOfThePage, NoVisitIsForgotten
<1>6. OneCallbackPerRoot' /\ LoadIsConsistent' /\ OnlyTheContractIsFetched'
  BY <1>2 DEF IInv, browserVars, rootVars, loadVars, queueVars, OneCallbackPerRoot,
              LoadIsConsistent, OnlyTheContractIsFetched
<1>7. RootsAreConsistent'
  <2>1. visited \subseteq visited'
    BY <1>1
  <2>2. page' \in Root => page' \in visited'
    BY <1>1, NoRootAssumption
  <2> QED BY <1>2, <2>1, <2>2 DEF IInv, rootVars, RootsAreConsistent
<1> QED BY <1>4, <1>5, <1>6, <1>7 DEF IInv

\* An element that is not marked has no callback, and is marked once.
LEMMA RenderExplorerKeeps ==
    ASSUME IInv, RenderExplorer
    PROVE  IInv'
<1>1. /\ UNCHANGED <<browserVars, script, pageVars, content, viewer, renders, bundle, sent>>
      /\ calls' \in 0..2
      /\ TypeOK
  BY DEF RenderExplorer, IInv, TypeOK
<1>2. CASE UNCHANGED <<initialized, load, scripts, queueVars>>
  BY <1>1, <1>2, LoopKeeps DEF IInv, TypeOK, rootVars, loadVars, browserVars
<1>3. CASE /\ page \in Root
           /\ ~initialized[page]
           /\ initialized' = [initialized EXCEPT ![page] = TRUE]
           /\ LoadSwaggerUi(page)
  <2>1. content[page] # "explorer"
    BY <1>3 DEF IInv, RootsAreConsistent
  <2>2. NoCallback(page)
    BY <1>3 DEF IInv, OneCallbackPerRoot, NoCallback
  <2>3. /\ initialized' \in [Root -> BOOLEAN]
        /\ \A s \in Root : initialized[s] => initialized'[s]
        /\ \A s \in Root : initialized'[s] => s = page \/ initialized[s]
    BY <1>1, <1>3 DEF TypeOK
  <2>4. OneCallbackPerRoot
    BY DEF IInv
  <2>5. /\ jobs' \in Seq(Job) /\ waiters' \in Seq(Root)
        /\ OneCallbackPerRoot'
        /\ \/ \E i \in DOMAIN waiters' : waiters'[i] = page
           \/ \E j \in DOMAIN jobs' : jobs'[j].root = page
        /\ load' \in {"none", "pending", "fulfilled", "rejected"}
        /\ scripts' = (IF load' = "none" THEN 0 ELSE 1)
        /\ load' # "pending" => waiters' = <<>>
        /\ bundle => load' = "fulfilled"
    <3>1. CASE bundle \/ load = "fulfilled"
      <4>1. /\ jobs' = Append(jobs, JobOf("then", page))
            /\ UNCHANGED <<load, scripts, waiters>>
        BY <1>3, <3>1 DEF LoadSwaggerUi
      <4>2. /\ jobs' \in Seq(Job) /\ OneCallbackPerRoot'
            /\ \E j \in DOMAIN jobs' : jobs'[j].root = page
        BY <1>1, <1>3, <2>1, <2>2, <2>4, <4>1, OneMoreJob
      <4>3. /\ load = "fulfilled"
            /\ scripts = (IF load = "none" THEN 0 ELSE 1)
            /\ waiters = <<>> /\ waiters \in Seq(Root)
        BY <3>1 DEF IInv, TypeOK, LoadIsConsistent
      <4> QED BY <4>1, <4>2, <4>3
    <3>2. CASE ~bundle /\ load = "rejected"
      <4>1. /\ jobs' = Append(jobs, JobOf("pass", page))
            /\ UNCHANGED <<load, scripts, waiters>>
        BY <1>3, <3>2 DEF LoadSwaggerUi
      <4> QED BY <1>1, <1>3, <2>1, <2>2, <2>4, <4>1, OneMoreJob
              DEF IInv, TypeOK, LoadIsConsistent
    <3>3. CASE ~bundle /\ load = "none"
      <4>1. /\ load' = "pending"
            /\ scripts' = scripts + 1
            /\ waiters' = Append(waiters, page)
            /\ UNCHANGED jobs
        BY <1>3, <3>3 DEF LoadSwaggerUi
      <4>2. /\ waiters' \in Seq(Root) /\ OneCallbackPerRoot'
            /\ \E i \in DOMAIN waiters' : waiters'[i] = page
        BY <1>1, <1>3, <2>1, <2>2, <2>4, <4>1, OneMoreWaiter
      <4>3. scripts = 0 /\ jobs \in Seq(Job)
        BY <3>3 DEF IInv, TypeOK, LoadIsConsistent
      <4> QED BY <3>3, <4>1, <4>2, <4>3
    <3>4. CASE ~bundle /\ load = "pending"
      <4>1. /\ waiters' = Append(waiters, page)
            /\ UNCHANGED <<load, scripts, jobs>>
        BY <1>3, <3>4 DEF LoadSwaggerUi
      <4> QED BY <1>1, <1>3, <2>1, <2>2, <2>4, <3>4, <4>1, OneMoreWaiter
              DEF IInv, TypeOK, LoadIsConsistent
    <3> QED BY <1>1, <3>1, <3>2, <3>3, <3>4 DEF TypeOK
  <2>6. TypeOK'
    BY <1>1, <2>3, <2>5 DEF TypeOK, browserVars, pageVars
  <2>7. ViewerIsOfThePage' /\ OnlyTheContractIsFetched'
    BY <1>1 DEF IInv, browserVars, pageVars, ViewerIsOfThePage, OnlyTheContractIsFetched
  <2>8. NoVisitIsForgotten'
    BY <1>1, <2>5 DEF pageVars, NoVisitIsForgotten
  <2>9. RootsAreConsistent'
    BY <1>1, <1>3, <2>3 DEF IInv, pageVars, RootsAreConsistent
  <2>10. LoadIsConsistent'
    BY <1>1, <2>5 DEF LoadIsConsistent
  <2> QED BY <2>5, <2>6, <2>7, <2>8, <2>9, <2>10 DEF IInv
<1> QED BY <1>1, <1>2, <1>3 DEF RenderExplorer, TypeOK

\* When the promise is settled its callbacks become the jobs, one for one.
LEMMA SettleKeeps ==
    ASSUME IInv, AtRest, NEW outcome \in {"fulfilled", "rejected"},
           NEW kind \in {"then", "pass"}, Settle(outcome, kind),
           bundle' \in BOOLEAN, bundle' => outcome = "fulfilled",
           UNCHANGED <<browserVars, script, calls, pageVars, rootVars, scripts, sent>>
    PROVE  IInv'
<1>1. TypeOK /\ OneCallbackPerRoot
  BY DEF IInv
<1>2. /\ waiters \in Seq(Root)
      /\ jobs' = [i \in DOMAIN waiters |-> JobOf(kind, waiters[i])]
      /\ waiters' = <<>>
      /\ load = "pending" /\ load' = outcome
  BY <1>1 DEF Settle, TypeOK
<1>3. jobs' \in Seq(Job)
  <2>1. \A i \in 1..Len(waiters) : JobOf(kind, waiters[i]) \in Job
    BY <1>2 DEF Job, JobOf
  <2> QED BY <1>2, <2>1
<1>4. \A i \in DOMAIN waiters : jobs'[i].root = waiters[i]
  BY <1>2 DEF JobOf
<1>5. DOMAIN jobs' = DOMAIN waiters /\ DOMAIN waiters' = {}
  BY <1>2
<1>6. TypeOK'
  BY <1>1, <1>2, <1>3 DEF TypeOK, browserVars, pageVars, rootVars
<1>7. ViewerIsOfThePage' /\ OnlyTheContractIsFetched'
  BY DEF IInv, browserVars, pageVars, rootVars, ViewerIsOfThePage,
         OnlyTheContractIsFetched
<1>8. OneCallbackPerRoot'
  BY <1>1, <1>4, <1>5 DEF OneCallbackPerRoot, rootVars
<1>9. NoVisitIsForgotten'
  BY <1>4, <1>5 DEF IInv, NoVisitIsForgotten, pageVars, rootVars, AtRest
<1>10. RootsAreConsistent' /\ LoadIsConsistent'
  BY <1>2 DEF IInv, pageVars, rootVars, RootsAreConsistent, LoadIsConsistent
<1> QED BY <1>6, <1>7, <1>8, <1>9, <1>10 DEF IInv

\* A job that is done leaves the other callbacks as they are.
LEMMA JobDone ==
    ASSUME IInv, NEW r \in Root, NEW kind \in {"then", "pass", "catch"},
           IsNext(kind, r), jobs' = Tail(jobs), waiters' = waiters,
           initialized' \in [Root -> BOOLEAN],
           \A s \in Root : s # r =>
              (initialized[s] => initialized'[s]) /\ content'[s] = content[s]
    PROVE  jobs' \in Seq(Job) /\ OneCallbackPerRoot'
<1>1. TypeOK /\ OneCallbackPerRoot
  BY DEF IInv
<1>2. /\ jobs' \in Seq(Job)
      /\ \A j \in DOMAIN jobs' : j + 1 \in DOMAIN jobs /\ jobs'[j] = jobs[j + 1]
      /\ \A j \in DOMAIN jobs' : jobs'[j].root # r
      /\ \A i \in DOMAIN waiters : waiters[i] # r
  BY <1>1, FirstJobTaken
<1>3. \A j \in DOMAIN jobs' : j \in Int /\ jobs'[j].root \in Root
  <2>1. \A j \in DOMAIN jobs' : jobs'[j] \in Job /\ j \in Int
    BY <1>2
  <2> QED BY <2>1 DEF Job
<1>4. \A i \in DOMAIN waiters : waiters[i] \in Root
  BY <1>1 DEF TypeOK
<1>5. /\ \A i, j \in DOMAIN jobs' : jobs'[i].root = jobs'[j].root => i = j
      /\ \A i \in DOMAIN waiters, j \in DOMAIN jobs' : waiters[i] # jobs'[j].root
  BY <1>1, <1>2, <1>3 DEF OneCallbackPerRoot
<1>6. \A i \in DOMAIN waiters :
        initialized'[waiters[i]] /\ content'[waiters[i]] # "explorer"
  BY <1>1, <1>2, <1>4 DEF OneCallbackPerRoot
<1>7. \A j \in DOMAIN jobs' :
        initialized'[jobs'[j].root] /\ content'[jobs'[j].root] # "explorer"
  BY <1>1, <1>2, <1>3 DEF OneCallbackPerRoot
<1> QED BY <1>1, <1>2, <1>5, <1>6, <1>7 DEF OneCallbackPerRoot

\* A chain that goes on from then to catch is still the only one.
LEMMA PassOnKeeps ==
    ASSUME IInv, NEW r \in Root, NEW kind \in {"then", "pass"}, IsNext(kind, r),
           jobs' = Append(Tail(jobs), JobOf("catch", r)),
           UNCHANGED <<browserVars, script, calls, pageVars, rootVars, loadVars,
                       waiters, sent>>
    PROVE  IInv'
<1>1. TypeOK /\ OneCallbackPerRoot
  BY DEF IInv
<1>2. /\ Tail(jobs) \in Seq(Job)
      /\ jobs[1].root = r /\ 1 \in DOMAIN jobs
      /\ \A j \in DOMAIN Tail(jobs) : j + 1 \in DOMAIN jobs /\ Tail(jobs)[j] = jobs[j + 1]
      /\ \A j \in DOMAIN jobs : j # 1 =>
            j - 1 \in DOMAIN Tail(jobs) /\ Tail(jobs)[j - 1] = jobs[j]
      /\ \A j \in DOMAIN Tail(jobs) : Tail(jobs)[j].root # r
      /\ \A i \in DOMAIN waiters : waiters[i] # r
      /\ initialized[r] /\ content[r] # "explorer"
  BY <1>1, FirstJobTaken
<1>3. JobOf("catch", r) \in Job /\ JobOf("catch", r).root = r
  BY DEF Job, JobOf
<1>4. /\ jobs' \in Seq(Job)
      /\ DOMAIN jobs' = DOMAIN Tail(jobs) \cup {Len(Tail(jobs)) + 1}
      /\ \A j \in DOMAIN Tail(jobs) : jobs'[j] = Tail(jobs)[j]
      /\ jobs'[Len(Tail(jobs)) + 1] = JobOf("catch", r)
  BY <1>2, <1>3
<1>5. \A j \in DOMAIN Tail(jobs) : j \in Int
  BY <1>2
<1>6. \A i, j \in DOMAIN Tail(jobs) : Tail(jobs)[i].root = Tail(jobs)[j].root => i = j
  BY <1>1, <1>2, <1>5 DEF OneCallbackPerRoot
<1>7. OneCallbackPerRoot'
  <2>1. \A i, j \in DOMAIN jobs' : jobs'[i].root = jobs'[j].root => i = j
    BY <1>2, <1>3, <1>4, <1>6
  <2>2. \A i \in DOMAIN waiters, j \in DOMAIN jobs' : waiters[i] # jobs'[j].root
    BY <1>1, <1>2, <1>3, <1>4 DEF OneCallbackPerRoot
  <2>3. \A j \in DOMAIN jobs' :
            initialized[jobs'[j].root] /\ content[jobs'[j].root] # "explorer"
    BY <1>1, <1>2, <1>3, <1>4 DEF OneCallbackPerRoot
  <2> QED BY <1>1, <2>1, <2>2, <2>3 DEF OneCallbackPerRoot, rootVars
<1>8. \A s \in Root : (\E j \in DOMAIN jobs : jobs[j].root = s)
                        => \E j \in DOMAIN jobs' : jobs'[j].root = s
  <2>1. SUFFICES ASSUME NEW j \in DOMAIN jobs
                 PROVE  \E k \in DOMAIN jobs' : jobs'[k].root = jobs[j].root
    OBVIOUS
  <2>2. CASE j = 1
    BY <1>2, <1>3, <1>4, <2>2
  <2>3. CASE j # 1
    <3>1. j - 1 \in DOMAIN Tail(jobs) /\ Tail(jobs)[j - 1] = jobs[j]
      BY <1>2, <2>3
    <3>2. j - 1 \in DOMAIN jobs' /\ jobs'[j - 1] = Tail(jobs)[j - 1]
      BY <1>4, <3>1
    <3> QED BY <3>1, <3>2
  <2> QED BY <2>2, <2>3
<1>9. NoVisitIsForgotten'
  BY <1>8 DEF IInv, NoVisitIsForgotten, pageVars, rootVars
<1>10. TypeOK'
  BY <1>1, <1>4 DEF TypeOK, browserVars, pageVars, rootVars, loadVars
<1>11. ViewerIsOfThePage' /\ OnlyTheContractIsFetched'
  BY DEF IInv, browserVars, pageVars, rootVars, ViewerIsOfThePage,
         OnlyTheContractIsFetched
<1>12. RootsAreConsistent' /\ LoadIsConsistent'
  BY DEF IInv, pageVars, rootVars, loadVars, RootsAreConsistent, LoadIsConsistent
<1> QED BY <1>7, <1>9, <1>10, <1>11, <1>12 DEF IInv

\* The callback of then leaves, renders, or throws.
LEMMA RunThenKeeps ==
    ASSUME IInv, NEW r \in Root, RunThen(r)
    PROVE  IInv'
<1>1. /\ TypeOK /\ OneCallbackPerRoot
      /\ IsNext("then", r)
      /\ UNCHANGED <<browserVars, script, calls, pageVars, initialized, loadVars>>
      /\ UNCHANGED <<waiters, sent>>
  BY DEF IInv, RunThen
<1>2. /\ \A j \in DOMAIN jobs : j # 1 =>
            j - 1 \in DOMAIN Tail(jobs) /\ Tail(jobs)[j - 1] = jobs[j]
      /\ jobs[1].root = r
      /\ initialized[r] /\ content[r] # "explorer"
  BY <1>1, FirstJobTaken
<1>3. CASE page # r /\ jobs' = Tail(jobs) /\ UNCHANGED <<viewer, content, renders>>
  <2>1. jobs' \in Seq(Job) /\ OneCallbackPerRoot'
    BY <1>1, <1>3, JobDone DEF TypeOK
  <2>2. TypeOK'
    BY <1>1, <1>3, <2>1 DEF TypeOK, browserVars, pageVars, loadVars
  <2>3. ViewerIsOfThePage' /\ OnlyTheContractIsFetched'
    BY <1>1, <1>3 DEF IInv, browserVars, pageVars, ViewerIsOfThePage,
                      OnlyTheContractIsFetched
  <2>4. NoVisitIsForgotten'
    BY <1>1, <1>2, <1>3 DEF IInv, NoVisitIsForgotten, pageVars
  <2>5. RootsAreConsistent' /\ LoadIsConsistent'
    BY <1>1, <1>3 DEF IInv, pageVars, loadVars, RootsAreConsistent, LoadIsConsistent
  <2> QED BY <2>1, <2>2, <2>3, <2>4, <2>5 DEF IInv
<1>4. CASE page = r /\ bundle /\ Render(r) /\ jobs' = Tail(jobs)
  <2>1. /\ viewer' = r
        /\ content' = [content EXCEPT ![r] = "explorer"]
        /\ renders' = [renders EXCEPT ![r] = @ + 1]
    BY <1>4 DEF Render
  <2>2. \A s \in Root : s # r => content'[s] = content[s] /\ renders'[s] = renders[s]
    BY <1>1, <2>1 DEF TypeOK
  <2>3. /\ content' \in [Root -> {"placeholder", "explorer", "error"}]
        /\ content'[r] = "explorer"
        /\ renders' \in [Root -> Nat]
        /\ renders'[r] = renders[r] + 1
    BY <1>1, <2>1 DEF TypeOK
  <2>4. jobs' \in Seq(Job) /\ OneCallbackPerRoot'
    BY <1>1, <1>4, <2>2, JobDone DEF TypeOK
  <2>5. TypeOK'
    BY <1>1, <2>1, <2>3, <2>4 DEF TypeOK, browserVars, pageVars, loadVars
  <2>6. ViewerIsOfThePage' /\ OnlyTheContractIsFetched' /\ NoVisitIsForgotten'
    BY <1>1, <1>4, <2>1, <2>3 DEF IInv, browserVars, pageVars, ViewerIsOfThePage,
                      OnlyTheContractIsFetched, NoVisitIsForgotten
  <2>7. RootsAreConsistent'
    <3>1. renders[r] = 0
      BY <1>2 DEF IInv, RootsAreConsistent
    <3>2. r \in visited
      BY <1>2 DEF IInv, RootsAreConsistent
    <3> QED BY <1>1, <1>2, <2>2, <2>3, <3>1, <3>2 DEF IInv, pageVars, RootsAreConsistent
  <2>8. LoadIsConsistent'
    BY <1>1 DEF IInv, loadVars, LoadIsConsistent
  <2> QED BY <2>4, <2>5, <2>6, <2>7, <2>8 DEF IInv
<1>5. CASE /\ jobs' = Append(Tail(jobs), JobOf("catch", r))
           /\ UNCHANGED <<viewer, content, renders>>
  BY <1>1, <1>5, PassOnKeeps DEF rootVars
<1> QED BY <1>3, <1>4, <1>5 DEF RunThen

LEMMA RunPassKeeps ==
    ASSUME IInv, NEW r \in Root, RunPass(r)
    PROVE  IInv'
  BY PassOnKeeps DEF RunPass

\* The callback of catch ends the chain and takes the mark back.
LEMMA RunCatchKeeps ==
    ASSUME IInv, NEW r \in Root, RunCatch(r)
    PROVE  IInv'
<1>1. /\ TypeOK /\ OneCallbackPerRoot
      /\ IsNext("catch", r)
      /\ jobs' = Tail(jobs)
      /\ initialized' = [initialized EXCEPT ![r] = FALSE]
      /\ content' = [content EXCEPT ![r] = "error"]
      /\ UNCHANGED <<browserVars, script, calls, pageVars, viewer, renders, loadVars>>
      /\ UNCHANGED <<waiters, sent>>
  BY DEF IInv, RunCatch
<1>2. /\ \A j \in DOMAIN jobs : j # 1 =>
            j - 1 \in DOMAIN Tail(jobs) /\ Tail(jobs)[j - 1] = jobs[j]
      /\ jobs[1].root = r
      /\ initialized[r] /\ content[r] # "explorer"
  BY <1>1, FirstJobTaken
<1>3. /\ initialized' \in [Root -> BOOLEAN]
      /\ ~initialized'[r]
      /\ \A s \in Root : s # r => (initialized[s] => initialized'[s])
      /\ \A s \in Root : initialized'[s] => initialized[s]
  BY <1>1 DEF TypeOK
<1>4. /\ content' \in [Root -> {"placeholder", "explorer", "error"}]
      /\ content'[r] = "error"
      /\ \A s \in Root : s # r => content'[s] = content[s]
  BY <1>1 DEF TypeOK
<1>5. jobs' \in Seq(Job) /\ OneCallbackPerRoot'
  BY <1>1, <1>3, <1>4, JobDone
<1>6. TypeOK'
  BY <1>1, <1>3, <1>4, <1>5 DEF TypeOK, browserVars, pageVars, loadVars
<1>7. ViewerIsOfThePage' /\ OnlyTheContractIsFetched'
  BY <1>1, <1>4 DEF IInv, browserVars, pageVars, ViewerIsOfThePage,
                    OnlyTheContractIsFetched
<1>8. NoVisitIsForgotten'
  BY <1>1, <1>2, <1>3, <1>4 DEF IInv, NoVisitIsForgotten, pageVars
<1>9. RootsAreConsistent'
  <2>1. r \in visited
    BY <1>2 DEF IInv, RootsAreConsistent
  <2> QED BY <1>1, <1>2, <1>3, <1>4, <2>1 DEF IInv, pageVars, RootsAreConsistent
<1>10. LoadIsConsistent'
  BY <1>1 DEF IInv, loadVars, LoadIsConsistent
<1> QED BY <1>5, <1>6, <1>7, <1>8, <1>9, <1>10 DEF IInv

LEMMA InterceptKeeps ==
    ASSUME IInv, NEW r \in Root, NEW url \in Url, Intercept(r, url)
    PROVE  IInv'
<1>1. /\ sent' = sent \cup {[by |-> r, url |-> url]}
      /\ url = specUrl[r]
      /\ UNCHANGED <<browserVars, script, calls, pageVars, rootVars, loadVars, queueVars>>
  BY DEF Intercept, Allowed
<1>2. TypeOK'
  BY <1>1 DEF IInv, TypeOK, browserVars, pageVars, rootVars, loadVars, queueVars
<1>3. OnlyTheContractIsFetched'
  BY <1>1 DEF IInv, OnlyTheContractIsFetched, browserVars
<1>4. ViewerIsOfThePage' /\ OneCallbackPerRoot' /\ NoVisitIsForgotten'
  BY <1>1 DEF IInv, pageVars, rootVars, queueVars, ViewerIsOfThePage,
              OneCallbackPerRoot, NoVisitIsForgotten
<1>5. RootsAreConsistent' /\ LoadIsConsistent'
  BY <1>1 DEF IInv, pageVars, rootVars, loadVars, queueVars, RootsAreConsistent,
              LoadIsConsistent
<1> QED BY <1>2, <1>3, <1>4, <1>5 DEF IInv

(***************************************************************************)
(* The invariant and what follows from it.                                 *)
(***************************************************************************)
LEMMA ExplorerInit ==
    ASSUME Init
    PROVE  IInv
<1>1. TypeOK
  <2>1. waiters \in Seq(Root) /\ jobs \in Seq(Job)
    BY DEF Init
  <2>2. /\ initialized \in [Root -> BOOLEAN]
        /\ content \in [Root -> {"placeholder", "explorer", "error"}]
        /\ renders \in [Root -> Nat]
    BY DEF Init
  <2>3. calls \in 0..2 /\ scripts \in Nat /\ visited \subseteq Root
    BY DEF Init
  <2> QED BY <2>1, <2>2, <2>3 DEF Init, TypeOK
<1>2. ViewerIsOfThePage /\ OnlyTheContractIsFetched
  BY DEF Init, ViewerIsOfThePage, OnlyTheContractIsFetched
<1>3. OneCallbackPerRoot /\ NoVisitIsForgotten
  BY DEF Init, OneCallbackPerRoot, NoVisitIsForgotten
<1>4. RootsAreConsistent /\ LoadIsConsistent
  BY NoRootAssumption DEF Init, RootsAreConsistent, LoadIsConsistent
<1> QED BY <1>1, <1>2, <1>3, <1>4 DEF IInv

\* The inductive invariant of the explorer: a marked element has a viewer or
\* exactly one chain of callbacks, or has been left.
THEOREM ExplorerInvariant == Spec => []IInv
<1>1. Init => IInv
  BY ExplorerInit
<1>2. ASSUME IInv, [Next]_vars PROVE IInv'
  <2>1. TypeOK
    BY <1>2 DEF IInv
  <2>2. CASE Start \/ Parsed \/ DOMContentLoaded
    BY <1>2, <2>1, <2>2, LoopKeeps
       DEF Start, Parsed, DOMContentLoaded, TypeOK, browserVars
  <2>3. CASE Navigate
    BY <1>2, <2>3, NavigateKeeps
  <2>4. CASE RenderExplorer
    BY <1>2, <2>4, RenderExplorerKeeps
  <2>5. CASE ScriptLoads
    BY <1>2, <2>5, SettleKeeps DEF ScriptLoads
  <2>6. CASE ScriptFails
    <3>1. load = "pending" /\ bundle' = bundle /\ bundle \in BOOLEAN
      BY <2>1, <2>6 DEF ScriptFails, Settle, TypeOK
    <3>2. ~bundle'
      BY <1>2, <3>1 DEF IInv, LoadIsConsistent
    <3>3. /\ AtRest /\ Settle("rejected", "pass") /\ bundle' \in BOOLEAN
          /\ UNCHANGED <<browserVars, script, calls, pageVars, rootVars, scripts, sent>>
      BY <2>6, <3>1 DEF ScriptFails
    <3> QED BY <1>2, <3>2, <3>3, SettleKeeps
  <2>7. ASSUME NEW r \in Root,
               \/ RunThen(r) \/ RunPass(r) \/ RunCatch(r)
               \/ \E url \in Url : Intercept(r, url)
        PROVE  IInv'
    BY <1>2, <2>7, RunThenKeeps, RunPassKeeps, RunCatchKeeps, InterceptKeeps
  <2>8. CASE UNCHANGED vars
    BY <1>2, <2>1, <2>8, LoopKeeps DEF vars, browserVars, TypeOK
  <2> QED BY <1>2, <2>2, <2>3, <2>4, <2>5, <2>6, <2>7, <2>8 DEF Next
<1> QED BY <1>1, <1>2, PTL DEF Spec

\* renderExplorer: no element ever gets two viewers.
THEOREM NoSecondViewer == Spec => []RenderedOnce
<1>1. IInv => RenderedOnce
  <2>1. SUFFICES ASSUME IInv, NEW r \in Root
                 PROVE  renders[r] <= 1
    BY DEF RenderedOnce
  <2>2. renders[r] = 0 \/ renders[r] = 1
    BY <2>1 DEF IInv, RootsAreConsistent
  <2> QED BY <2>2
<1> QED BY <1>1, ExplorerInvariant, PTL

\* loadSwaggerUi: the bundle is never requested twice.
THEOREM NoSecondRequest == Spec => []BundleIsRequestedOnce
<1>1. IInv => BundleIsRequestedOnce
  BY DEF IInv, LoadIsConsistent, BundleIsRequestedOnce
<1> QED BY <1>1, ExplorerInvariant, PTL

\* The global viewer is never one of a page that was left, while the page in
\* its place shows its own.
THEOREM ViewerIsNeverStale == Spec => []ViewerIsOfThePage
<1>1. IInv => ViewerIsOfThePage
  BY DEF IInv
<1> QED BY <1>1, ExplorerInvariant, PTL

\* requestInterceptor: no viewer, on the page or left, asks for anything but
\* the contract of its own page.
THEOREM ContractOnly == Spec => []OnlyTheContractIsFetched
<1>1. IInv => OnlyTheContractIsFetched
  BY DEF IInv
<1> QED BY <1>1, ExplorerInvariant, PTL

=============================================================================
