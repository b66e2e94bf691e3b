-------------------------- MODULE RegistryInvariant ---------------------------
(*****************************************************************************)
(* The inductive invariant of RuntimeRegistry: a part per piece of state.    *)
(*****************************************************************************)
EXTENDS RuntimeRegistry

Lives == {"absent", "ready", "draining", "retired"}
Locations == StepLocations \cup OwnerLocations

Entries ==
  [life : Lives, feedReady : BOOLEAN, view : Nat, activity : Activities,
   publicationMu : Publishers \cup {None}, feedMu : Watchers \cup {None},
   feedClosed : BOOLEAN]
Engines ==
  [active : Steps \cup {None}, live : BOOLEAN, terminal : BOOLEAN, steps : 0..1,
   outputMu : Steps \cup Watchers \cup {None}]
Publications ==
  [at : PublicationSteps, engine : 0..Generations, life : Lives, activity : Activities,
   version : Nat, entry : 0..Generations]
Subscriptions ==
  [at : WatchLocations, entry : 0..Generations, change : Nat, step : Steps \cup {None},
   sub : {"none", "open", "closed"}, bound : BOOLEAN, known : SUBSET Steps,
   buffered : 0..Buffer]

\* The types of the registry's variables.
Types ==
  /\ current \in 0..Generations /\ registered \in 0..Generations
  /\ version \in Nat /\ change \in Nat
  /\ resource \in [Generation -> {"none", "ready", "draining", "closed"}]
  /\ entry \in [Generation -> Entries]
  /\ engine \in [Generation -> Engines]
  /\ prompts \in SUBSET Steps /\ notices \in SUBSET Steps
  /\ loc \in [Publishers -> Locations]
  /\ home \in [Steps -> 0..Generations]
  /\ pub \in [Publishers -> Publications]
  /\ watch \in [Watchers -> Subscriptions]
  /\ observing \in [Generation -> SUBSET Watchers]

\* Where the Owner is while its entry is ready, and while its feed is attachable.
Serves == {"feed", "signal", "serving", "draining"}
Attached == {"signal", "serving", "draining"}
FeedOver == {"clear", "delete", "steps", "engine", "closed"}

\* The entries live one after another, as the Owner goes round.
Lifecycle ==
  /\ \A g \in Generation :
       /\ entry[g].life = "ready" => registered = g /\ g = current /\ loc[Owner] \in Serves
       /\ entry[g].view # 0 => entry[g].life = "ready"
       /\ entry[g].life # "absent" \/ entry[g].feedReady => g <= current
       /\ g < current => entry[g].feedClosed
  /\ loc[Owner] # "closed" => current # 0
  /\ loc[Owner] \in Serves => entry[current].life = "ready"
  /\ loc[Owner] = "register" => entry[current].life = "absent"
  /\ loc[Owner] \in {"register", "feed"} => ~entry[current].feedReady
  /\ loc[Owner] \in Attached => entry[current].feedReady
  /\ loc[Owner] \in {"prompts", "notices", "retire"} => entry[current].life = "draining"
  /\ loc[Owner] \in FeedOver /\ current # 0 => entry[current].feedClosed
  /\ registered # 0 => entry[registered].life # "absent"

\* A Step that has claimed its Engine is the Engine's active Step.
Claimed == {"begun", "began", "working", "asking", "waiting", "resolving", "answered"}
ActiveSteps ==
  \A s \in Steps : loc[s] \in Claimed => home[s] \in Generation /\ engine[home[s]].active = s

\* Who holds publicationMu and the mutex of the feed.
Locks ==
  /\ \A p \in Publishers :
       /\ pub[p].at \in {"lock", "feed", "aggregate", "record"} => pub[p].entry # 0
       /\ pub[p].at \in {"feed", "aggregate", "record"} => entry[pub[p].entry].publicationMu = p
  /\ \A s \in Steps : loc[s] \in {"asking", "resolving"} =>
       /\ pub[s].at = "none" /\ home[s] = current /\ loc[Owner] \in Attached
       /\ entry[current].publicationMu = s
  /\ \A w \in Watchers : watch[w].at = "subscribe" =>
       watch[w].entry # 0 /\ entry[watch[w].entry].feedMu = w

\* The prompts in the store belong to the current resource.
Prompts ==
  /\ \A s \in prompts :
       /\ home[s] = current
       /\ loc[s] \in {"asking", "waiting"} \/ (loc[Owner] = "prompts" /\ loc[s] # "idle")
  /\ prompts # {} => loc[Owner] \in Attached \cup {"prompts"}
  /\ \A s \in Steps : /\ loc[s] = "asking" => s \in prompts
                      /\ loc[s] = "resolving" => s \notin prompts
  /\ notices # {} => loc[Owner] = "notices"

\* Subscriptions, and the observations held for them.
Subscribing == {"attach", "observe", "hydrate", "subscribe", "failed", "bind"}
Watching ==
  \A w \in Watchers :
    /\ watch[w].at \in Subscribing \/ watch[w].sub = "open" =>
         watch[w].entry # 0 /\ entry[watch[w].entry].life # "absent"
    /\ watch[w].sub = "open" =>
         watch[w].at \in {"bind", "reading"} /\ ~entry[watch[w].entry].feedClosed
    /\ watch[w].at \notin {"reading", "done"} => ~watch[w].bound
    /\ watch[w].at = "reading" /\ watch[w].sub = "open" => watch[w].bound

\* Between the two halves of a hydration no prompt is announced behind its back.
Hydrating ==
  \A w \in Watchers : watch[w].at = "subscribe" /\ entry[watch[w].entry].life = "ready" =>
    \A s \in prompts : s = watch[w].step \/ loc[s] = "asking"

Knowing == Hydrating /\ SubscriberKnowsPrompts /\ ClosedPromptsAreAnnounced

Inductive ==
  /\ Types /\ Lifecycle /\ ActiveSteps /\ Locks /\ Prompts /\ Watching
  /\ ObservationsAreReleased /\ Knowing

===============================================================================
