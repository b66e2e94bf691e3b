---------------------------- MODULE RuntimeRegistry ----------------------------
(***************************************************************************)
(* server/registry for one Session: its Runtime resources, one generation  *)
(* after another, the publications of their activity, the Pending Prompts  *)
(* and the transcript subscriptions.  Every Agent Step publishes from its  *)
(* own goroutine, the resource is opened and drained by another, and each  *)
(* subscriber runs in its own.  The recorded activity drives SleepGuard.   *)
(***************************************************************************)
EXTENDS SleepGuard

CONSTANTS Session,       \* the modelled Session
          Steps,         \* Agent Steps, numbered in the order they begin
          Owner,         \* the goroutine that opens and closes the resource
          Watchers,      \* transcript subscribers
          Generations,   \* how many resources may be opened
          Buffer,        \* transcriptSubscriptionBufferSize
          None

ASSUME RegistryAssumption ==
  /\ Session \in Sessions
  /\ Steps \subseteq Nat /\ Generations \in Nat /\ Buffer \in Nat \ {0}
  /\ Owner \notin Steps /\ None \notin Steps \cup Watchers \cup {Owner}
  /\ Steps \cap Watchers = {}

VARIABLES
  current,     \* generation of the last resource opened
  resource,    \* agentResource.state of each generation
  registered,  \* authorityBySession: generation of the Session's entry, or 0
  change,      \* authorityChanged: how often it was signalled
  entry,       \* authorityRuntimeEntry of each generation, its mutexes included
  engine,      \* what a publication or a subscription reads of each Engine
  prompts,     \* pendingPromptStore: Steps with a Pending Prompt
  notices,     \* prompts the drain has closed and not yet announced
  version,     \* runtimeactivity.fallbackSequence
  loc,         \* where each Step, and the Owner, is
  home,        \* generation each Step runs on
  pub,         \* the publication each of them is in
  watch,       \* each subscriber and its subscription
  observing    \* agentResource.observers of each generation

feedVars == <<watch, observing>>
stepVars == <<loc, home, pub>>
registryVars == <<current, resource, registered, change, entry, engine, prompts, notices,
                  version, stepVars, feedVars>>
vars == <<sleepVars, registryVars>>

Publishers == Steps \cup {Owner}
Generation == 1..Generations
Activities == {"unavailable", "draining", "running", "idle"}
ActiveForControl(activity) == activity \in {"draining", "running"}

NoPublication == [at |-> "none", engine |-> 0, life |-> "absent", activity |-> "idle",
                  version |-> 0, entry |-> 0]
NoWatch == [at |-> "idle", entry |-> 0, change |-> 0, step |-> None, sub |-> "none",
            bound |-> FALSE, known |-> {}, buffered |-> 0]

PublicationSteps == {"none", "engine", "registry", "active", "live", "version", "lookup",
                     "lock", "feed", "aggregate", "record"}
StepLocations == {"idle", "begun", "began", "working", "asking", "waiting", "resolving",
                  "answered", "ended", "finishing", "final", "steering", "published", "done"}
OwnerLocations == {"closed", "register", "feed", "signal", "serving", "draining", "prompts",
                   "notices", "retire", "closeFeed", "clear", "delete", "steps", "engine"}
WatchLocations == {"idle", "look", "attach", "observe", "hydrate", "subscribe", "failed",
                   "bind", "reading", "wait", "done"}

\* Every variable keeps its type.
TypeOK ==
  /\ SleepTypeOK
  /\ current \in 0..Generations /\ registered \in 0..Generations
  /\ resource \in [Generation -> {"none", "ready", "draining", "closed"}]
  /\ {change, version} \subseteq Nat
  /\ entry \in [Generation ->
       [life : {"absent", "ready", "draining", "retired"}, feedReady : BOOLEAN,
        view : Nat, activity : Activities, publicationMu : Publishers \cup {None},
        feedMu : Watchers \cup {None}, feedClosed : BOOLEAN]]
  /\ engine \in [Generation ->
       [active : Steps \cup {None}, live : BOOLEAN, terminal : BOOLEAN, steps : 0..1,
        outputMu : Steps \cup Watchers \cup {None}]]
  /\ prompts \subseteq Steps /\ notices \subseteq Steps
  /\ home \in [Steps -> 0..Generations]
  /\ \A p \in Publishers : /\ pub[p].at \in PublicationSteps
                           /\ pub[p].activity \in Activities
                           /\ loc[p] \in IF p = Owner THEN OwnerLocations ELSE StepLocations
  /\ \A w \in Watchers : /\ watch[w].at \in WatchLocations
                         /\ watch[w].sub \in {"none", "open", "closed"}
                         /\ watch[w].known \subseteq Steps
                         /\ watch[w].buffered \in 0..Buffer
  /\ observing \in [Generation -> SUBSET Watchers]

Init ==
  /\ SleepInit
  /\ current = 0 /\ registered = 0 /\ change = 0 /\ version = 0
  /\ resource = [g \in Generation |-> "none"]
  /\ entry = [g \in Generation |->
       [life |-> "absent", feedReady |-> FALSE, view |-> 0, activity |-> "idle",
        publicationMu |-> None, feedMu |-> None, feedClosed |-> FALSE]]
  /\ engine = [g \in Generation |->
       [active |-> None, live |-> FALSE, terminal |-> FALSE, steps |-> 0, outputMu |-> None]]
  /\ prompts = {} /\ notices = {}
  /\ loc = [p \in Publishers |-> IF p = Owner THEN "closed" ELSE "idle"]
  /\ home = [s \in Steps |-> 0]
  /\ pub = [p \in Publishers |-> NoPublication]
  /\ watch = [w \in Watchers |-> NoWatch]
  /\ observing = [g \in Generation |-> {}]

\* The state outside the registry that most of its steps leave alone.
Asleep == UNCHANGED <<mode, closed, done, controllerVars, armed, fired, guardVars>>
Quiet == UNCHANGED <<blocking, commands>> /\ Asleep

At(p, l) == loc[p] = l /\ pub[p].at = "none"
Goto(p, l) == loc' = [loc EXCEPT ![p] = l]
StartPublication(p) == pub' = [pub EXCEPT ![p] = [NoPublication EXCEPT !.at = "engine"]]
Attachable(g) == entry[g].life = "ready" /\ entry[g].feedReady

-------------------------------------------------------------------------------
(* The feed of one resource: sessionFeedSequencer over its broker *)

Subscribed(g) == {w \in Watchers : watch[w].sub = "open" /\ watch[w].entry = g}

\* closeWithError on some subscriptions: a bound one releases its observation.
Closing(g, ws) ==
  observing' = [observing EXCEPT ![g] = @ \ {w \in ws : watch[w].bound}]

\* Publish: a subscriber that does not keep up is closed, the others learn.
FeedPublish(g, pending, resolved) ==
  LET overflown == {w \in Subscribed(g) : watch[w].buffered = Buffer}
  IN  /\ entry[g].feedMu = None
      /\ watch' = [w \in Watchers |->
           IF w \in overflown THEN [watch[w] EXCEPT !.sub = "closed"]
           ELSE IF w \in Subscribed(g)
           THEN [watch[w] EXCEPT !.buffered = @ + 1,
                                 !.known = (@ \cup pending) \ resolved]
           ELSE watch[w]]
      /\ Closing(g, overflown)

\* CloseWithRuntimeReadModel: the last update, then the end of the stream.
FeedClose(g) ==
  /\ entry[g].feedMu = None
  /\ watch' = [w \in Watchers |->
       IF w \in Subscribed(g) THEN [watch[w] EXCEPT !.sub = "closed"] ELSE watch[w]]
  /\ Closing(g, Subscribed(g))

-------------------------------------------------------------------------------
(* Publishing the Session's activity, step by step *)

Publishing(p, at) == pub[p].at = at
Publish(p, fields) == pub' = [pub EXCEPT ![p] = fields]
Published(p) == Publish(p, NoPublication)

\* runtimeActivityResolverSnapshot: the engine of the registered entry.
ReadEngine(p) ==
  /\ Publishing(p, "engine")
  /\ Publish(p, [pub[p] EXCEPT !.at = "registry", !.engine = registered])
  /\ UNCHANGED <<current, resource, registered, change, entry, engine, prompts, notices,
                 version, loc, home, feedVars>>

\* RuntimeActivityRegistrySnapshot: the lifecycle of the entry registered now.
ReadRegistry(p) ==
  /\ Publishing(p, "registry")
  /\ Publish(p, [pub[p] EXCEPT !.at = "active",
                   !.life = IF registered = 0 THEN "absent" ELSE entry[registered].life])
  /\ UNCHANGED <<current, resource, registered, change, entry, engine, prompts, notices,
                 version, loc, home, feedVars>>

Runs(e) == e # 0 /\ engine[e].active # None

\* The active Step, and what the resolver makes of it.
ReadActive(p) ==
  LET activity == CASE pub[p].life \in {"absent", "retired"} -> "unavailable"
                    [] pub[p].life = "draining" -> "draining"
                    [] OTHER -> IF Runs(pub[p].engine) THEN "running" ELSE "idle"
  IN  /\ Publishing(p, "active")
      /\ Publish(p, [pub[p] EXCEPT !.at = IF activity = "idle" THEN "live" ELSE "version",
                                   !.activity = activity])
      /\ UNCHANGED <<current, resource, registered, change, entry, engine, prompts, notices,
                     version, loc, home, feedVars>>

\* Without an active Step, an unfinished live run still drains.
ReadLive(p) ==
  /\ Publishing(p, "live")
  /\ Publish(p, [pub[p] EXCEPT !.at = "version",
                   !.activity = IF pub[p].engine # 0 /\ engine[pub[p].engine].live
                                THEN "draining" ELSE "idle"])
  /\ UNCHANGED <<current, resource, registered, change, entry, engine, prompts, notices,
                 version, loc, home, feedVars>>

\* NextReadModelVersion, taken after the facts.  A Step's lifecycle sink turns
\* an unavailable Runtime into an idle one.
TakeVersion(p) ==
  /\ Publishing(p, "version")
  /\ version' = version + 1
  /\ Publish(p, [pub[p] EXCEPT !.at = "lookup", !.version = version + 1,
                   !.activity = IF @ = "unavailable" /\ loc[p] \in {"began", "ended"}
                                THEN "idle" ELSE @])
  /\ UNCHANGED <<current, resource, registered, change, entry, engine, prompts, notices,
                 loc, home, feedVars>>

\* PublishRuntimeReadModelUpdate finds the Session's entry, or nothing to do.
Lookup(p) ==
  /\ Publishing(p, "lookup")
  /\ IF registered = 0 THEN Published(p)
     ELSE Publish(p, [pub[p] EXCEPT !.at = "lock", !.entry = registered])
  /\ UNCHANGED <<current, resource, registered, change, entry, engine, prompts, notices,
                 version, loc, home, feedVars>>

\* Deliberately wrong: publishes a main view whatever became of the entry.
StoresRetiredView(p) ==
  LET g == pub[p].entry IN
  /\ Publishing(p, "lock") /\ entry[g].publicationMu = None
  /\ entry' = [entry EXCEPT ![g].publicationMu = p, ![g].view = pub[p].version,
                            ![g].activity = pub[p].activity]
  /\ Publish(p, [pub[p] EXCEPT !.at = "feed"])
  /\ UNCHANGED <<current, resource, registered, change, engine, prompts, notices,
                 version, loc, home, feedVars>>

\* Deliberately wrong: the older of two versions overwrites the newer.
StoresOlderView(p) ==
  LET g == pub[p].entry IN
  /\ Publishing(p, "lock") /\ entry[g].publicationMu = None
  /\ entry' = [entry EXCEPT ![g].publicationMu = p,
                            ![g].view = IF entry[g].life = "ready" THEN pub[p].version ELSE @,
                            ![g].activity = pub[p].activity]
  /\ Publish(p, [pub[p] EXCEPT !.at = "feed"])
  /\ UNCHANGED <<current, resource, registered, change, engine, prompts, notices,
                 version, loc, home, feedVars>>

\* With publicationMu: an older version is dropped, and only a ready entry
\* gets a main view (publishRuntimeMainViewLocked).
LockAndStore(p) ==
  LET g == pub[p].entry
      ready == entry[g].life = "ready"
  IN  /\ Publishing(p, "lock") /\ entry[g].publicationMu = None
      /\ IF entry[g].view # 0 /\ entry[g].view >= pub[p].version
         THEN Published(p) /\ UNCHANGED entry
         ELSE /\ entry' = [entry EXCEPT ![g].publicationMu = p,
                             ![g].view = IF ready THEN pub[p].version ELSE @,
                             ![g].activity = IF ready THEN pub[p].activity ELSE @]
              /\ Publish(p, [pub[p] EXCEPT !.at = "feed"])
      /\ UNCHANGED <<current, resource, registered, change, engine, prompts, notices,
                     version, loc, home, feedVars>>

\* sessionFeed.PublishRuntimeReadModel.
PublishUpdate(p) ==
  /\ Publishing(p, "feed")
  /\ FeedPublish(pub[p].entry, {}, {})
  /\ Publish(p, [pub[p] EXCEPT !.at = "aggregate"])
  /\ UNCHANGED <<current, resource, registered, change, entry, engine, prompts, notices,
                 version, loc, home>>

Unlock(p) == entry' = [entry EXCEPT ![pub[p].entry].publicationMu = None]

\* updateAggregateRuntimeActivityForAuthority reads the lifecycle ...
ReadLifecycle(p) ==
  /\ Publishing(p, "aggregate")
  /\ IF entry[pub[p].entry].life = "retired" /\ ActiveForControl(pub[p].activity)
     THEN Published(p) /\ Unlock(p)
     ELSE Publish(p, [pub[p] EXCEPT !.at = "record"]) /\ UNCHANGED entry
  /\ UNCHANGED <<current, resource, registered, change, engine, prompts, notices,
                 version, loc, home, feedVars>>

\* ... and records the activity, with authorityMu, if the entry is registered.
Record(p) ==
  LET busy == ActiveForControl(pub[p].activity)
  IN  /\ Publishing(p, "record")
      /\ IF registered = pub[p].entry \/ (~busy /\ registered = 0)
         THEN UpdateAggregate(Session, busy)
         ELSE UNCHANGED <<blocking, commands>>
      /\ Published(p) /\ Unlock(p)
      /\ Asleep
      /\ UNCHANGED <<current, resource, registered, change, engine, prompts, notices,
                     version, loc, home, feedVars, left>>

PublicationStep(p) ==
  \/ /\ \/ ReadEngine(p) \/ ReadRegistry(p) \/ ReadActive(p) \/ ReadLive(p)
        \/ TakeVersion(p) \/ Lookup(p) \/ LockAndStore(p) \/ PublishUpdate(p)
        \/ ReadLifecycle(p)
     /\ Quiet /\ UNCHANGED left
  \/ Record(p)

-------------------------------------------------------------------------------
(* An Agent Step on the Session's Engine *)

\* The Step claims the Engine of the served resource (claimed in ExclusiveStep).
BeginStep(s) ==
  /\ At(s, "idle") /\ loc[Owner] \notin {"closed", "register", "feed", "signal"}
  /\ \A t \in Steps : t < s => loc[t] # "idle"
  /\ Spend("step")
  /\ resource[current] = "ready"
  /\ engine[current].active = None /\ ~engine[current].terminal
  /\ engine' = [engine EXCEPT ![current].active = s]
  /\ home' = [home EXCEPT ![s] = current]
  /\ Goto(s, "begun")
  /\ UNCHANGED <<current, resource, registered, change, entry, prompts, notices, version,
                 pub, feedVars>>

\* agentResource.StepBegan: admitted and published, or refused by a resource
\* that drains.
StepBegan(s) ==
  /\ At(s, "begun")
  /\ IF resource[home[s]] = "ready"
     THEN /\ engine' = [engine EXCEPT ![home[s]].steps = 1]
          /\ StartPublication(s) /\ Goto(s, "began")
     ELSE /\ engine' = [engine EXCEPT ![home[s]].active = None]
          /\ Goto(s, "done") /\ UNCHANGED pub
  /\ UNCHANGED <<current, resource, registered, change, entry, prompts, notices, version,
                 home, feedVars, left>>

\* beginLiveRunStep.
BeginLiveRun(s) ==
  /\ At(s, "began")
  /\ engine' = [engine EXCEPT ![home[s]].live = TRUE]
  /\ Goto(s, "working")
  /\ UNCHANGED <<current, resource, registered, change, entry, prompts, notices, version,
                 home, pub, feedVars, left>>

\* withCurrentAuthorityEntry.
CurrentEntry(g) == registered = g /\ Attachable(g)

\* PromptPendingScope: with publicationMu the prompt enters the store, or the
\* question fails.
PromptPending(s) ==
  LET g == home[s]
  IN  /\ At(s, "working") /\ Spend("prompt")
      /\ registered = g => entry[g].publicationMu = None
      /\ IF CurrentEntry(g)
         THEN /\ prompts' = prompts \cup {s}
              /\ entry' = [entry EXCEPT ![g].publicationMu = s]
              /\ Goto(s, "asking")
         ELSE Goto(s, "answered") /\ UNCHANGED <<prompts, entry>>
      /\ UNCHANGED <<current, resource, registered, change, engine, notices, version,
                     home, pub, feedVars>>

\* publishPendingPrompt, still with publicationMu; then the new activity.
AnnouncePending(s) ==
  /\ At(s, "asking")
  /\ FeedPublish(home[s], {s}, {})
  /\ entry' = [entry EXCEPT ![home[s]].publicationMu = None]
  /\ StartPublication(s) /\ Goto(s, "waiting")
  /\ UNCHANGED <<current, resource, registered, change, engine, prompts, notices, version,
                 home, left>>

\* PromptResolvedScope, after an answer or a cancellation.
PromptResolved(s) ==
  LET g == home[s]
  IN  /\ At(s, "waiting")
      /\ registered = g => entry[g].publicationMu = None
      /\ IF CurrentEntry(g) /\ s \in prompts
         THEN /\ prompts' = prompts \ {s}
              /\ entry' = [entry EXCEPT ![g].publicationMu = s]
              /\ Goto(s, "resolving")
         ELSE Goto(s, "answered") /\ UNCHANGED <<prompts, entry>>
      /\ UNCHANGED <<current, resource, registered, change, engine, notices, version,
                     home, pub, feedVars, left>>

AnnounceResolved(s) ==
  /\ At(s, "resolving")
  /\ FeedPublish(home[s], {}, {s})
  /\ entry' = [entry EXCEPT ![home[s]].publicationMu = None]
  /\ StartPublication(s) /\ Goto(s, "answered")
  /\ UNCHANGED <<current, resource, registered, change, engine, prompts, notices, version,
                 home, left>>

\* publishTerminalStep: beginTerminalPublication, then StepEnded publishes.
EndStep(s) ==
  /\ At(s, "working") \/ At(s, "answered")
  /\ engine' = [engine EXCEPT ![home[s]].active = None, ![home[s]].terminal = TRUE]
  /\ StartPublication(s) /\ Goto(s, "ended")
  /\ UNCHANGED <<current, resource, registered, change, entry, prompts, notices, version,
                 home, feedVars, left>>

\* The resource counts the Step out.
StepEnded(s) ==
  /\ At(s, "ended")
  /\ engine' = [engine EXCEPT ![home[s]].steps = 0]
  /\ Goto(s, "finishing")
  /\ UNCHANGED <<current, resource, registered, change, entry, prompts, notices, version,
                 home, pub, feedVars, left>>

\* finishLiveRunStep and finishTerminalPublication: the next Step may begin.
FinishLiveRun(s) ==
  /\ At(s, "finishing")
  /\ engine' = [engine EXCEPT ![home[s]].live = FALSE, ![home[s]].terminal = FALSE]
  /\ Goto(s, "final")
  /\ UNCHANGED <<current, resource, registered, change, entry, prompts, notices, version,
                 home, pub, feedVars, left>>

\* steer refuses on a closed Engine.
SteerFinal(s) ==
  /\ At(s, "final")
  /\ Goto(s, IF resource[home[s]] = "closed" THEN "done" ELSE "steering")
  /\ UNCHANGED <<current, resource, registered, change, entry, engine, prompts, notices,
                 version, home, pub, feedVars, left>>

\* steerOrdered: EventRuntimeActivityChanged publishes with outputMutationMu.
PublishFinal(s) ==
  /\ At(s, "steering") /\ engine[home[s]].outputMu = None
  /\ engine' = [engine EXCEPT ![home[s]].outputMu = s]
  /\ StartPublication(s) /\ Goto(s, "published")
  /\ UNCHANGED <<current, resource, registered, change, entry, prompts, notices, version,
                 home, feedVars, left>>

FinishStep(s) ==
  /\ At(s, "published")
  /\ engine' = [engine EXCEPT ![home[s]].outputMu = None]
  /\ Goto(s, "done")
  /\ UNCHANGED <<current, resource, registered, change, entry, prompts, notices, version,
                 home, pub, feedVars, left>>

StepAction(s) ==
  /\ \/ BeginStep(s) \/ StepBegan(s) \/ BeginLiveRun(s) \/ PromptPending(s)
     \/ AnnouncePending(s) \/ PromptResolved(s) \/ AnnounceResolved(s) \/ EndStep(s)
     \/ StepEnded(s) \/ FinishLiveRun(s) \/ SteerFinal(s) \/ PublishFinal(s) \/ FinishStep(s)
  /\ Quiet

-------------------------------------------------------------------------------
(* The resource is opened and drained *)

\* The Authority builds the next generation once the last one is closed.
OpenResource ==
  /\ At(Owner, "closed") /\ current < Generations
  /\ Spend("open")
  /\ current' = current + 1
  /\ resource' = [resource EXCEPT ![current + 1] = "ready"]
  /\ Goto(Owner, "register")
  /\ UNCHANGED <<registered, change, entry, engine, prompts, notices, version, home, pub,
                 feedVars>>

\* ResourceReady registers a fresh entry and publishes its activity.
Register ==
  /\ At(Owner, "register") /\ registered = 0
  /\ registered' = current
  /\ entry' = [entry EXCEPT ![current].life = "ready"]
  /\ StartPublication(Owner) /\ Goto(Owner, "feed")
  /\ UNCHANGED <<current, resource, change, engine, prompts, notices, version, home,
                 feedVars, left>>

\* Deliberately wrong: subscribers that wait for the feed are not woken.
FeedReadyUnsignalled ==
  /\ At(Owner, "feed")
  /\ entry' = [entry EXCEPT ![current].feedReady = TRUE]
  /\ Goto(Owner, "serving")
  /\ UNCHANGED <<current, resource, registered, change, engine, prompts, notices, version,
                 home, pub, feedVars, left>>

FeedReady ==
  /\ At(Owner, "feed")
  /\ entry' = [entry EXCEPT ![current].feedReady = TRUE]
  /\ Goto(Owner, "signal")
  /\ UNCHANGED <<current, resource, registered, change, engine, prompts, notices, version,
                 home, pub, feedVars, left>>

\* signalAuthorityChangeLocked.
SignalReady ==
  /\ At(Owner, "signal")
  /\ change' = change + 1
  /\ Goto(Owner, "serving")
  /\ UNCHANGED <<current, resource, registered, entry, engine, prompts, notices, version,
                 home, pub, feedVars, left>>

\* closeResource: the resource admits no more Steps.
CloseResource ==
  /\ At(Owner, "serving")
  /\ resource' = [resource EXCEPT ![current] = "draining"]
  /\ Goto(Owner, "draining")
  /\ UNCHANGED <<current, registered, change, entry, engine, prompts, notices, version,
                 home, pub, feedVars, left>>

\* ResourceDraining, with publicationMu: the main view goes.
BeginDrain ==
  /\ At(Owner, "draining") /\ entry[current].publicationMu = None
  /\ entry' = [entry EXCEPT ![current].life = "draining", ![current].view = 0]
  /\ Goto(Owner, "prompts")
  /\ UNCHANGED <<current, resource, registered, change, engine, prompts, notices, version,
                 home, pub, feedVars, left>>

\* Deliberately wrong: announces the prompts and leaves them in the store.
CloseSessionKeepsPrompts ==
  /\ At(Owner, "prompts")
  /\ notices' = prompts
  /\ Goto(Owner, "notices")
  /\ UNCHANGED <<current, resource, registered, change, entry, engine, prompts, version,
                 home, pub, feedVars, left>>

\* CloseSession: takes every prompt, to announce each.
CloseSession ==
  /\ At(Owner, "prompts")
  /\ prompts' = {} /\ notices' = prompts
  /\ Goto(Owner, "notices")
  /\ UNCHANGED <<current, resource, registered, change, entry, engine, version,
                 home, pub, feedVars, left>>

\* publishPromptResolution for each; then the draining activity.
PublishResolution ==
  /\ At(Owner, "notices")
  /\ IF notices = {}
     THEN StartPublication(Owner) /\ Goto(Owner, "retire") /\ UNCHANGED <<notices, feedVars>>
     ELSE \E s \in notices :
            /\ FeedPublish(current, {}, {s})
            /\ notices' = notices \ {s}
            /\ UNCHANGED <<loc, pub>>
  /\ UNCHANGED <<current, resource, registered, change, entry, engine, prompts, version,
                 home, left>>

\* The unavailable update takes its version; the entry retires.
Retire ==
  /\ At(Owner, "retire")
  /\ version' = version + 1
  /\ entry' = [entry EXCEPT ![current].life = "retired"]
  /\ Goto(Owner, "closeFeed")
  /\ UNCHANGED <<current, resource, registered, change, engine, prompts, notices,
                 home, pub, feedVars, left>>

CloseFeed ==
  /\ At(Owner, "closeFeed")
  /\ FeedClose(current)
  /\ entry' = [entry EXCEPT ![current].feedClosed = TRUE]
  /\ Goto(Owner, "clear")
  /\ UNCHANGED <<current, resource, registered, change, engine, prompts, notices, version,
                 home, pub, left>>

\* updateAggregateRuntimeActivityState(sessionID, false), without authorityMu.
ClearActivity ==
  /\ At(Owner, "clear")
  /\ UpdateAggregate(Session, FALSE)
  /\ Goto(Owner, "delete")
  /\ Asleep
  /\ UNCHANGED <<current, resource, registered, change, entry, engine, prompts, notices,
                 version, home, pub, feedVars, left>>

DeleteEntry ==
  /\ At(Owner, "delete")
  /\ registered' = 0 /\ change' = change + 1
  /\ Goto(Owner, "steps")
  /\ UNCHANGED <<current, resource, entry, engine, prompts, notices, version,
                 home, pub, feedVars, left>>

\* closeResource waits for the running Step, then closes the Engine ...
StepsOver ==
  /\ At(Owner, "steps") /\ engine[current].steps = 0
  /\ resource' = [resource EXCEPT ![current] = "closed"]
  /\ Goto(Owner, "engine")
  /\ UNCHANGED <<current, registered, change, entry, engine, prompts, notices, version,
                 home, pub, feedVars, left>>

\* ... whose last steering waits for outputMutationMu.
CloseEngine ==
  /\ At(Owner, "engine") /\ engine[current].outputMu = None
  /\ Goto(Owner, "closed")
  /\ UNCHANGED <<current, resource, registered, change, entry, engine, prompts, notices,
                 version, home, pub, feedVars, left>>

OwnerAction ==
  \/ /\ \/ OpenResource \/ Register \/ FeedReady \/ SignalReady \/ CloseResource
        \/ BeginDrain \/ CloseSession \/ PublishResolution \/ Retire \/ CloseFeed
        \/ DeleteEntry \/ StepsOver \/ CloseEngine
     /\ Quiet
  \/ ClearActivity

-------------------------------------------------------------------------------
(* SubscribeSessionTranscript and the life of one subscription *)

Move(w, fields) == watch' = [watch EXCEPT ![w] = fields]
Wait(w) == Move(w, [watch[w] EXCEPT !.at = "wait"])
ElsewhereSame == UNCHANGED <<current, resource, registered, change, prompts, notices,
                             version, stepVars>>

\* A subscriber arrives, for the first time or after its stream ended.
Watch(w) ==
  /\ watch[w].at \in {"idle", "done"}
  /\ Spend("watch")
  /\ Move(w, [NoWatch EXCEPT !.at = "look"])
  /\ ElsewhereSame /\ UNCHANGED <<entry, engine, observing>>

\* authorityEntryAndChange.
Look(w) ==
  /\ watch[w].at = "look"
  /\ Move(w, [watch[w] EXCEPT !.at = IF registered = 0 THEN "wait" ELSE "attach",
                              !.entry = registered, !.change = change])
  /\ ElsewhereSame /\ UNCHANGED <<entry, engine, observing, left>>

\* transcriptAttachable.
Attach(w) ==
  /\ watch[w].at = "attach"
  /\ IF Attachable(watch[w].entry) THEN Move(w, [watch[w] EXCEPT !.at = "observe"]) ELSE Wait(w)
  /\ ElsewhereSame /\ UNCHANGED <<entry, engine, observing, left>>

\* agentResource.observe.
Observe(w) ==
  LET g == watch[w].entry IN
  /\ watch[w].at = "observe"
  /\ IF resource[g] = "ready"
     THEN /\ observing' = [observing EXCEPT ![g] = @ \cup {w}]
          /\ Move(w, [watch[w] EXCEPT !.at = "hydrate"])
     ELSE Wait(w) /\ UNCHANGED observing
  /\ ElsewhereSame /\ UNCHANGED <<entry, engine, left>>

\* The active Step the hydration's read model shows.
HydratedStep ==
  IF registered # 0 /\ entry[registered].life = "ready" THEN engine[registered].active ELSE None

\* Deliberately wrong: the hydration is built before the feed is locked.
HydrateUnlocked(w) ==
  LET g == watch[w].entry IN
  /\ watch[w].at = "hydrate"
  /\ engine[g].outputMu = None
  /\ engine' = [engine EXCEPT ![g].outputMu = w]
  /\ Move(w, [watch[w] EXCEPT !.at = "subscribe", !.step = HydratedStep])
  /\ ElsewhereSame /\ UNCHANGED <<entry, observing, left>>

\* WithTranscriptHydrationSnapshot and sessionFeed.Subscribe: with both locks,
\* the read model first.
Hydrate(w) ==
  LET g == watch[w].entry IN
  /\ watch[w].at = "hydrate"
  /\ engine[g].outputMu = None /\ entry[g].feedMu = None
  /\ engine' = [engine EXCEPT ![g].outputMu = w]
  /\ entry' = [entry EXCEPT ![g].feedMu = w]
  /\ Move(w, [watch[w] EXCEPT !.at = "subscribe", !.step = HydratedStep])
  /\ ElsewhereSame /\ UNCHANGED <<observing, left>>

Unlocked(g) ==
  /\ engine' = [engine EXCEPT ![g].outputMu = None]
  /\ entry' = [entry EXCEPT ![g].feedMu = None]

\* transcriptPendingPrompts, then the broker's Subscribe: a closed feed gives
\* a subscription that has already ended.
SubscribeFeed(w) ==
  LET g == watch[w].entry IN
  /\ watch[w].at = "subscribe"
  /\ Unlocked(g)
  /\ Move(w, IF entry[g].feedClosed
             THEN [watch[w] EXCEPT !.at = "bind", !.sub = "closed"]
             ELSE [watch[w] EXCEPT !.at = "bind", !.sub = "open", !.buffered = 1,
                                   !.known = prompts \cap {watch[w].step}])
  /\ ElsewhereSame /\ UNCHANGED <<observing, left>>

\* Deliberately wrong: a hydration that fails keeps the feed locked.
ComposeFailsLocked(w) ==
  /\ watch[w].at = "subscribe"
  /\ Spend("fault")
  /\ engine' = [engine EXCEPT ![watch[w].entry].outputMu = None]
  /\ Move(w, [watch[w] EXCEPT !.at = "failed"])
  /\ ElsewhereSame /\ UNCHANGED <<entry, observing>>

\* The hydration cannot be composed.
ComposeFails(w) ==
  /\ watch[w].at = "subscribe"
  /\ Spend("fault")
  /\ Unlocked(watch[w].entry)
  /\ Move(w, [watch[w] EXCEPT !.at = "failed"])
  /\ ElsewhereSame /\ UNCHANGED observing

\* The observation is released; an entry that is gone is waited for again.
SubscribeFails(w) ==
  LET g == watch[w].entry IN
  /\ watch[w].at = "failed"
  /\ observing' = [observing EXCEPT ![g] = @ \ {w}]
  /\ Move(w, [watch[w] EXCEPT !.at = IF Attachable(g) THEN "done" ELSE "wait"])
  /\ ElsewhereSame /\ UNCHANGED <<entry, engine, left>>

\* Deliberately wrong: binds a subscription without looking whether it has ended.
BindUnchecked(w) ==
  /\ watch[w].at = "bind"
  /\ Move(w, [watch[w] EXCEPT !.at = "reading", !.bound = TRUE])
  /\ ElsewhereSame /\ UNCHANGED <<entry, engine, observing, left>>

\* bindObservation: a subscription that has ended gives the observation back.
BindObservation(w) ==
  LET g == watch[w].entry IN
  /\ watch[w].at = "bind"
  /\ Move(w, [watch[w] EXCEPT !.at = "reading", !.bound = (watch[w].sub = "open")])
  /\ observing' = [observing EXCEPT ![g] = IF watch[w].sub = "open" THEN @ ELSE @ \ {w}]
  /\ ElsewhereSame /\ UNCHANGED <<entry, engine, left>>

\* Next: a buffered message, or the end of the stream.
ReadNext(w) ==
  /\ watch[w].at = "reading"
  /\ watch[w].buffered > 0 \/ watch[w].sub = "closed"
  /\ Move(w, IF watch[w].buffered > 0 THEN [watch[w] EXCEPT !.buffered = @ - 1]
                                      ELSE [watch[w] EXCEPT !.at = "done"])
  /\ ElsewhereSame /\ UNCHANGED <<entry, engine, observing, left>>

\* authorityChanged is closed.
Wake(w) ==
  /\ watch[w].at = "wait" /\ change # watch[w].change
  /\ Move(w, [watch[w] EXCEPT !.at = "look"])
  /\ ElsewhereSame /\ UNCHANGED <<entry, engine, observing, left>>

\* The subscriber's context ends: a wait returns, a subscription closes.
CancelWatch(w) ==
  /\ watch[w].at \in {"wait", "reading"}
  /\ Spend("cancel")
  /\ Move(w, [watch[w] EXCEPT !.at = "done", !.sub = IF @ = "open" THEN "closed" ELSE @])
  /\ IF watch[w].sub = "open" THEN Closing(watch[w].entry, {w}) ELSE UNCHANGED observing
  /\ ElsewhereSame /\ UNCHANGED <<entry, engine>>

WatchStep(w) ==
  /\ \/ Look(w) \/ Attach(w) \/ Observe(w) \/ Hydrate(w) \/ SubscribeFeed(w)
     \/ ComposeFails(w) \/ SubscribeFails(w) \/ BindObservation(w) \/ ReadNext(w) \/ Wake(w)
  /\ Quiet

-------------------------------------------------------------------------------
Next ==
  \/ \E p \in Publishers : PublicationStep(p)
  \/ \E s \in Steps : StepAction(s)
  \/ OwnerAction
  \/ \E w \in Watchers : WatchStep(w) \/ ((Watch(w) \/ CancelWatch(w)) /\ Quiet)
  \/ /\ \E s \in Sessions \ {Session}, activeForControl \in BOOLEAN : Report(s, activeForControl)
     /\ UNCHANGED registryVars
  \/ SleepStep /\ UNCHANGED registryVars

Spec == Init /\ [][Next]_vars

\* Goroutines keep running and a Step ends; resources are opened and closed,
\* subscribers come, reports and Close arrive when they do.
Fairness ==
  /\ WF_vars(Run /\ UNCHANGED registryVars)
  /\ WF_vars(Timer /\ UNCHANGED registryVars)
  /\ WF_vars(CloseSends /\ UNCHANGED registryVars)
  /\ WF_vars(Monitor /\ UNCHANGED registryVars)
  /\ \A p \in Publishers : WF_vars(PublicationStep(p))
  /\ \A s \in Steps : WF_vars(loc[s] # "idle" /\ StepAction(s))
  /\ WF_vars(loc[Owner] \notin {"closed", "serving"} /\ OwnerAction)
  /\ \A w \in Watchers : WF_vars(WatchStep(w))

FairSpec == Spec /\ Fairness

-------------------------------------------------------------------------------
(* Properties *)

\* A main view is there only while the entry is registered and ready, so a
\* reader of RuntimeMainViewSnapshot is never shown a Runtime that drains,
\* whichever publication was under way when the drain began.
ViewOnlyWhileReady ==
  \A g \in Generation : entry[g].view # 0 => entry[g].life = "ready" /\ registered = g

\* No publication replaces the main view of an entry by an older version.
VersionsGrow ==
  [][\A g \in Generation : entry'[g].view # 0 => entry'[g].view >= entry[g].view]_vars

\* Once the entry has retired no prompt of the Session is left to answer: no
\* question entered the store behind the back of CloseSession.
RetiredHasNoPrompts ==
  \A g \in Generation : entry[g].life = "retired" =>
    \A s \in prompts : home[s] # g

\* What an open subscription was told of Pending Prompts, hydration and events
\* together, differs from the store only by notices that are on their way:
\* subscribing neither loses nor invents a prompt.
SubscriberKnowsPrompts ==
  \A w \in Watchers : watch[w].sub = "open" /\ entry[watch[w].entry].life = "ready" =>
    \A s \in Steps :
      (s \in watch[w].known) # (s \in prompts) => loc[s] \in {"asking", "resolving"}

\* The same while the resource drains: a subscriber that knows a prompt which
\* was closed is about to be told.
ClosedPromptsAreAnnounced ==
  \A w \in Watchers : watch[w].sub = "open" /\ entry[watch[w].entry].life # "ready" =>
    watch[w].known \subseteq prompts \cup notices

\* An observation, which keeps the resource from retiring as idle, is held only
\* on behalf of a subscriber that is subscribing or whose stream is open.
ObservationsAreReleased ==
  \A g \in Generation : \A w \in observing[g] :
    /\ watch[w].entry = g
    /\ watch[w].at \in {"hydrate", "subscribe", "failed", "bind"} \/ watch[w].sub = "open"

\* A subscriber that waits is woken by every way the Session's feed can become
\* attachable: it does not wait on for ever beside a ready feed.
SubscribersAttach ==
  \A w \in Watchers :
    watch[w].at = "wait" /\ registered # 0 /\ loc[Owner] = "serving"
      ~> watch[w].at # "wait" \/ loc[Owner] # "serving"

\* Draining ends: no publication, prompt, subscriber or sleep report blocks it.
DrainCompletes == loc[Owner] = "draining" ~> loc[Owner] = "closed"

\* When the last publication is over and the Session has no registered Runtime,
\* it does not count as active.
RetiredIsNotBlocking ==
  registered = 0 /\ (\A p \in Publishers : pub[p].at = "none") => Session \notin blocking
===============================================================================
