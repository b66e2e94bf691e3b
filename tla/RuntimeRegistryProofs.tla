------------------------ MODULE RuntimeRegistryProofs -------------------------
(*****************************************************************************)
(* The steps of an Agent Step, its question included, and those of the       *)
(* subscribers keep the inductive invariant; with the publications and the   *)
(* owner the theorems follow.                                                *)
(*****************************************************************************)
EXTENDS RegistryOwnerProofs

USE DEF feedVars, stepVars

-------------------------------------------------------------------------------
(* The Agent Steps *)

\* A Step goes on, without asking: it may leave its Engine, and start a
\* publication.
LEMMA StepMoves ==
  ASSUME Inductive, NEW s \in Steps, NEW l \in Locations, At(s, loc[s]), Goto(s, l),
         loc[s] \notin {"idle", "asking", "resolving"},
         loc[s] = "waiting" /\ s \in prompts => loc[Owner] = "prompts",
         l \notin {"idle", "asking", "waiting", "resolving"},
         UNCHANGED pub \/ StartPublication(s),
         engine' \in [Generation -> Engines],
         l \in Claimed => loc[s] \in Claimed,
         \A h \in Generation : \/ engine'[h].active = engine[h].active
                               \/ engine[h].active = s /\ l \notin Claimed,
         UNCHANGED <<current, resource, registered, change, entry, prompts, notices, version,
                     home, feedVars>>
  PROVE  Inductive'
<1>1. /\ Types /\ Lifecycle /\ ActiveSteps /\ Locks /\ Prompts /\ Watching
      /\ ObservationsAreReleased /\ Knowing
  BY Zenon DEF Inductive
<1>2. /\ loc' \in [Publishers -> Locations] /\ loc'[Owner] = loc[Owner]
      /\ \A q \in Steps : loc'[q] = IF q = s THEN l ELSE loc[q]
  BY <1>1, SetLocation, Sets
<1>3. /\ pub' \in [Publishers -> Publications]
      /\ pub[s].at = "none" /\ pub'[s].at \in {"none", "engine"}
      /\ \A q \in Publishers : q # s => pub'[q] = pub[q]
  BY <1>1, SetPublication, NoPublicationOK, Sets, ZenonT(40) DEF StartPublication, At, Types
<1>4. Types'
  BY <1>1, <1>2, <1>3, Zenon DEF Types
<1>5. Lifecycle'
  BY <1>1, <1>2, Zenon DEF Lifecycle
<1>6. ActiveSteps'
  BY <1>1, <1>2 DEF ActiveSteps
<1>7. Locks'
  BY <1>1, <1>2, <1>3, Sets DEF Locks
<1>8. Prompts'
  BY <1>1, <1>2, Zenon DEF Prompts, Types
<1>9. Watching' /\ ObservationsAreReleased'
  BY <1>1, ZenonT(40) DEF Watching, ObservationsAreReleased
<1>10. Knowing'
  BY <1>1, <1>2 DEF Knowing, Hydrating, SubscriberKnowsPrompts, ClosedPromptsAreAnnounced, Types
<1> QED BY <1>4, <1>5, <1>6, <1>7, <1>8, <1>9, <1>10, Zenon DEF Inductive

\* The steps of a Step that asks nothing.
LEMMA StepMovesKeep ==
  ASSUME Inductive, NEW s \in Steps,
         \/ StepBegan(s) \/ BeginLiveRun(s) \/ EndStep(s) \/ StepEnded(s)
         \/ FinishLiveRun(s) \/ SteerFinal(s) \/ PublishFinal(s) \/ FinishStep(s)
  PROVE  Inductive'
<1> DEFINE g == home[s]
<1>1. /\ engine \in [Generation -> Engines] /\ g \in 0..Generations
      /\ loc[s] \in Claimed => g \in Generation /\ engine[g].active = s
  BY Zenon DEF Inductive, Types, ActiveSteps
<1>2. \A h \in Generation : engine[h] \in Engines
  BY <1>1, Zenon
<1>3. \A h \in Generation : [engine[h] EXCEPT !.active = None] \in Engines
  BY <1>2, Zenon DEF Engines
<1>4. \A h \in Generation : [engine[h] EXCEPT !.active = None, !.terminal = TRUE] \in Engines
  BY <1>2, Zenon DEF Engines
<1>5. \A h \in Generation :
        LET d == [engine[h] EXCEPT !.steps = 0]
            e == [engine[h] EXCEPT !.steps = 1]
        IN  {d, e} \subseteq Engines /\ d.active = engine[h].active /\ e.active = engine[h].active
  BY <1>2 DEF Engines
<1>6. \A h \in Generation :
        LET e == [engine[h] EXCEPT !.live = TRUE] IN e \in Engines /\ e.active = engine[h].active
  BY <1>2, Zenon DEF Engines
<1>7. \A h \in Generation :
        LET e == [engine[h] EXCEPT !.live = FALSE, !.terminal = FALSE]
        IN  e \in Engines /\ e.active = engine[h].active
  BY <1>2, Zenon DEF Engines
<1>8. \A h \in Generation, m \in {s, None} :
        LET e == [engine[h] EXCEPT !.outputMu = m] IN e \in Engines /\ e.active = engine[h].active
  BY <1>2, Zenon DEF Engines
<1>9. {"begun", "began", "working", "answered", "ended", "finishing", "final", "steering",
       "published", "done"} \subseteq Locations
  BY Zenon DEF Locations, StepLocations
<1>10. CASE StepBegan(s)
  <2>1. CASE /\ engine' = [engine EXCEPT ![g].steps = 1] /\ StartPublication(s)
             /\ Goto(s, "began")
    <3>1. engine' \in [Generation -> Engines] /\ \A h \in Generation : engine'[h].active = engine[h].active
      BY <1>1, <1>2, <1>5, <2>1, Zenon
    <3> QED BY <1>9, <1>10, <2>1, <3>1, StepMoves, Zenon DEF StepBegan, At, Claimed
  <2>2. CASE /\ engine' = [engine EXCEPT ![g].active = None] /\ UNCHANGED pub
             /\ Goto(s, "done")
    <3>1. /\ engine' \in [Generation -> Engines] /\ engine[g].active = s
          /\ \A h \in Generation : h # g => engine'[h].active = engine[h].active
      BY <1>1, <1>2, <1>3, <1>10, <2>2, Zenon DEF StepBegan, At, Claimed
    <3> QED BY <1>9, <1>10, <2>2, <3>1, StepMoves DEF StepBegan, At, Claimed
  <2> QED BY <1>10, <2>1, <2>2, Zenon DEF StepBegan
<1>11. CASE BeginLiveRun(s)
  <2>1. engine' \in [Generation -> Engines] /\ \A h \in Generation : engine'[h].active = engine[h].active
    BY <1>1, <1>2, <1>6, <1>11, Zenon DEF BeginLiveRun
  <2> QED BY <1>9, <1>11, <2>1, StepMoves, Zenon DEF BeginLiveRun, At, Claimed
<1>12. CASE EndStep(s)
  <2>1. /\ engine' \in [Generation -> Engines] /\ engine[g].active = s
        /\ \A h \in Generation : h # g => engine'[h].active = engine[h].active
    BY <1>1, <1>2, <1>4, <1>12, Zenon DEF EndStep, At, Claimed
  <2>2. At(s, loc[s]) /\ loc[s] \in {"working", "answered"}
    BY <1>12, Zenon DEF EndStep, At
  <2>3. /\ StartPublication(s) /\ Goto(s, "ended")
        /\ UNCHANGED <<current, resource, registered, change, entry, prompts, notices, version,
                       home, feedVars>>
    BY <1>12, Zenon DEF EndStep
  <2> QED BY <1>9, <2>1, <2>2, <2>3, StepMoves DEF Claimed
<1>13. CASE StepEnded(s)
  <2>1. engine' \in [Generation -> Engines] /\ \A h \in Generation : engine'[h].active = engine[h].active
    BY <1>1, <1>2, <1>5, <1>13, Zenon DEF StepEnded
  <2> QED BY <1>9, <1>13, <2>1, StepMoves, Zenon DEF StepEnded, At, Claimed
<1>14. CASE FinishLiveRun(s)
  <2>1. engine' \in [Generation -> Engines] /\ \A h \in Generation : engine'[h].active = engine[h].active
    BY <1>1, <1>2, <1>7, <1>14, Zenon DEF FinishLiveRun
  <2> QED BY <1>9, <1>14, <2>1, StepMoves, Zenon DEF FinishLiveRun, At, Claimed
<1>15. CASE SteerFinal(s)
  <2>1. Goto(s, "done") \/ Goto(s, "steering")
    BY <1>15, Zenon DEF SteerFinal
  <2> QED BY <1>1, <1>9, <1>15, <2>1, StepMoves, Zenon DEF SteerFinal, At, Claimed
<1>16. CASE PublishFinal(s)
  <2>1. engine' \in [Generation -> Engines] /\ \A h \in Generation : engine'[h].active = engine[h].active
    BY <1>1, <1>2, <1>8, <1>16, Zenon DEF PublishFinal
  <2> QED BY <1>9, <1>16, <2>1, StepMoves, Zenon DEF PublishFinal, At, Claimed
<1>17. CASE FinishStep(s)
  <2>1. engine' \in [Generation -> Engines] /\ \A h \in Generation : engine'[h].active = engine[h].active
    BY <1>1, <1>2, <1>8, <1>17, Zenon DEF FinishStep
  <2> QED BY <1>9, <1>17, <2>1, StepMoves, Zenon DEF FinishStep, At, Claimed
<1> QED BY <1>10, <1>11, <1>12, <1>13, <1>14, <1>15, <1>16, <1>17, Zenon

\* A Step claims an Engine that has no active Step.
LEMMA BeginStepKeeps ==
  ASSUME Inductive, NEW s \in Steps, BeginStep(s)
  PROVE  Inductive'
<1>1. /\ Types /\ Lifecycle /\ ActiveSteps /\ Locks /\ Prompts /\ Watching
      /\ ObservationsAreReleased /\ Knowing
  BY Zenon DEF Inductive
<1>2. PICK g \in Generation : g = current
  BY Indices, Zenon DEF BeginStep
<1>3. /\ loc[s] = "idle" /\ pub[s].at = "none" /\ engine[g].active = None
      /\ UNCHANGED <<current, resource, registered, change, entry, prompts, notices, version,
                     pub, watch, observing>>
  BY <1>2, Zenon DEF BeginStep, At
<1>4. /\ loc' \in [Publishers -> Locations] /\ loc'[Owner] = loc[Owner]
      /\ \A q \in Steps : loc'[q] = IF q = s THEN "begun" ELSE loc[q]
  <2>1. Goto(s, "begun") /\ "begun" \in Locations
    BY Zenon DEF BeginStep, Locations, StepLocations
  <2> QED BY <1>1, <2>1, SetLocation, Sets, Zenon
<1>5. /\ home' \in [Steps -> 0..Generations]
      /\ \A q \in Steps : home'[q] = IF q = s THEN g ELSE home[q]
  BY <1>1, <1>2, Sets, Zenon DEF BeginStep, Types
<1>6. /\ engine' \in [Generation -> Engines]
      /\ \A h \in Generation : engine'[h].active = IF h = g THEN s ELSE engine[h].active
  <2>1. engine \in [Generation -> Engines] /\ engine[g] \in Engines
    BY <1>1, Zenon DEF Types
  <2> DEFINE e == [engine[g] EXCEPT !.active = s]
  <2>2. e \in Engines /\ e.active = s
    BY <2>1, ZenonT(40) DEF Engines
  <2>3. engine' = [engine EXCEPT ![g] = e]
    BY <1>2, Zenon DEF BeginStep
  <2> HIDE DEF e
  <2> QED BY <2>1, <2>2, <2>3, Zenon
<1>7. Types'
  BY <1>1, <1>3, <1>4, <1>5, <1>6, Zenon DEF Types
<1>8. Lifecycle' /\ Watching' /\ ObservationsAreReleased'
  BY <1>1, <1>3, <1>4 DEF Lifecycle, Watching, ObservationsAreReleased
<1>9. ActiveSteps'
  BY <1>1, <1>3, <1>4, <1>5, <1>6, RegistryAssumption DEF ActiveSteps
<1>10. Locks'
  BY <1>1, <1>3, <1>4, <1>5, SMTT(30) DEF Locks
<1>11. Prompts'
  BY <1>1, <1>3, <1>4, <1>5 DEF Prompts, Types
<1>12. Knowing'
  BY <1>1, <1>3, <1>4 DEF Knowing, Hydrating, SubscriberKnowsPrompts, ClosedPromptsAreAnnounced, Types
<1> QED BY <1>7, <1>8, <1>9, <1>10, <1>11, <1>12, Zenon DEF Inductive

RunsOn(s, g) == home[s] = g

\* A Step takes publicationMu of its entry to change the store.
LEMMA StepLocks ==
  ASSUME Inductive, NEW s \in Steps, At(s, loc[s]), loc[s] \in {"working", "waiting"},
         NEW g \in Generation, RunsOn(s, g), CurrentEntry(g), entry[g].publicationMu = None,
         entry' = [entry EXCEPT ![g].publicationMu = s],
         NEW l \in {"asking", "resolving"}, Goto(s, l), prompts' \in SUBSET Steps,
         UNCHANGED <<current, resource, registered, change, engine, notices, version, home, pub,
                     feedVars>>
  PROVE  /\ Types' /\ Lifecycle' /\ ActiveSteps' /\ Locks' /\ Watching'
         /\ ObservationsAreReleased'
         /\ g = current /\ loc[Owner] \in Attached /\ loc'[Owner] = loc[Owner]
         /\ \A h \in Generation : LifeKept(h)
         /\ \A q \in Steps : loc'[q] = IF q = s THEN l ELSE loc[q]
<1>1. Types /\ Lifecycle /\ ActiveSteps /\ Locks /\ Watching /\ ObservationsAreReleased
  BY Zenon DEF Inductive
<1>2. g = current /\ loc[Owner] \in Attached /\ pub[s].at = "none"
  BY <1>1, Zenon DEF RunsOn, Lifecycle, CurrentEntry, Attachable, Serves, Attached, At
<1>3. /\ loc' \in [Publishers -> Locations] /\ loc'[Owner] = loc[Owner]
      /\ \A q \in Steps : loc'[q] = IF q = s THEN l ELSE loc[q]
  <2>1. l \in Locations
    BY Zenon DEF Locations, StepLocations
  <2> QED BY <1>1, <2>1, SetLocation, Sets, Zenon
<1>4. /\ entry' \in [Generation -> Entries]
      /\ \A h \in Generation :
           /\ LifeKept(h) /\ entry'[h].feedMu = entry[h].feedMu
           /\ entry'[h].publicationMu = IF h = g THEN s ELSE entry[h].publicationMu
  <2>1. s \in Publishers \cup {None}
    BY Sets, Zenon
  <2> QED BY <1>1, <2>1, SetPublicationMu, ZenonT(40)
<1>5. Types'
  BY <1>1, <1>3, <1>4, Zenon DEF Types
<1>6. Lifecycle'
  BY <1>1, <1>3, <1>4, Indices DEF Lifecycle, LifeKept, Serves, Attached
<1>7. ActiveSteps'
  BY <1>1, <1>3, Zenon DEF ActiveSteps, Claimed
<1>8. Watching' /\ ObservationsAreReleased'
  BY <1>1, <1>4, Indices DEF Watching, ObservationsAreReleased, LifeKept
<1>9. Locks'
  <2>1. /\ \A q \in Publishers :
             pub[q].at \in {"feed", "aggregate", "record"} => q # s /\ pub[q].entry # g
        /\ \A q \in Steps : loc[q] \notin {"asking", "resolving"}
    BY <1>1, <1>2, Sets DEF Locks
  <2>2. \A q \in Publishers :
          /\ pub[q].at \in {"lock", "feed", "aggregate", "record"} => pub[q].entry # 0
          /\ pub[q].at \in {"feed", "aggregate", "record"} => entry'[pub[q].entry].publicationMu = q
    BY <1>1, <1>4, <2>1, Indices, Zenon DEF Locks
  <2>3. \A q \in Steps : loc'[q] \in {"asking", "resolving"} => q = s
    BY <1>3, <2>1, Zenon
  <2>4. \A w \in Watchers : watch[w].at = "subscribe" =>
          watch[w].entry # 0 /\ entry'[watch[w].entry].feedMu = w
    BY <1>1, <1>4, Indices, Zenon DEF Locks
  <2> QED BY <1>2, <1>3, <1>4, <2>2, <2>3, <2>4 DEF RunsOn, Locks
<1> QED BY <1>2, <1>3, <1>4, <1>5, <1>6, <1>7, <1>8, <1>9, Zenon

\* PromptPendingScope: the subscribers are told before publicationMu is free.
LEMMA PromptPendingKeeps ==
  ASSUME Inductive, NEW s \in Steps, PromptPending(s)
  PROVE  Inductive'
<1>1. Types /\ Prompts /\ Knowing
  BY Zenon DEF Inductive
<1>2. PICK g \in Generation : g = home[s]
  BY Indices, Zenon DEF PromptPending, At, Claimed
<1>3. /\ At(s, loc[s]) /\ loc[s] = "working"
      /\ UNCHANGED <<current, resource, registered, change, engine, notices, version, home, pub,
                     watch, observing>>
  BY Zenon DEF PromptPending, At
<1>4. CASE Goto(s, "answered") /\ UNCHANGED <<prompts, entry>>
  <2>1. "answered" \in Locations
    BY Zenon DEF Locations, StepLocations
  <2>2. engine \in [Generation -> Engines]
    BY <1>1, Zenon DEF Types
  <2> QED BY <1>3, <1>4, <2>1, <2>2, StepMoves, Zenon DEF Claimed
<1>5. CASE /\ CurrentEntry(g) /\ entry[g].publicationMu = None /\ Goto(s, "asking")
           /\ prompts' = prompts \cup {s} /\ entry' = [entry EXCEPT ![g].publicationMu = s]
  <2>1. prompts' \in SUBSET Steps
    BY <1>1, <1>5, Zenon DEF Types
  <2>2. /\ Types' /\ Lifecycle' /\ ActiveSteps' /\ Locks' /\ Watching'
        /\ ObservationsAreReleased'
        /\ g = current /\ loc[Owner] \in Attached /\ loc'[Owner] = loc[Owner]
        /\ \A h \in Generation : LifeKept(h)
        /\ \A q \in Steps : loc'[q] = IF q = s THEN "asking" ELSE loc[q]
    BY <1>2, <1>3, <1>5, <2>1, StepLocks, Zenon DEF RunsOn
  <2>3. Prompts'
    BY <1>1, <1>2, <1>3, <1>5, <2>1, <2>2, ZenonT(40) DEF Prompts, Types
  <2>4. Hydrating' /\ SubscriberKnowsPrompts' /\ ClosedPromptsAreAnnounced'
    <3>1. \A w \in Watchers : watch[w].at = "subscribe" \/ watch[w].sub = "open" =>
            watch[w].entry \in Generation
      BY Indices, Zenon DEF Inductive, Watching, Subscribing
    <3>2. Hydrating'
      BY <1>1, <1>3, <1>5, <2>1, <2>2, <3>1 DEF Knowing, Hydrating, LifeKept, Types
    <3>3. SubscriberKnowsPrompts'
      BY <1>1, <1>3, <1>5, <2>2, <3>1 DEF Knowing, SubscriberKnowsPrompts, LifeKept
    <3>4. ClosedPromptsAreAnnounced'
      BY <1>1, <1>3, <1>5, <2>2, <3>1 DEF Knowing, ClosedPromptsAreAnnounced, LifeKept
    <3> QED BY <3>2, <3>3, <3>4, Zenon
  <2> QED BY <2>2, <2>3, <2>4, Zenon DEF Inductive, Knowing
<1>6. CASE CurrentEntry(g)
  BY <1>2, <1>5, <1>6, Zenon DEF PromptPending, CurrentEntry
<1>7. CASE ~CurrentEntry(g)
  BY <1>2, <1>4, <1>7, Zenon DEF PromptPending
<1> QED BY <1>6, <1>7, Zenon

\* PromptResolvedScope: a prompt the drain has taken is no longer the Step's.
LEMMA PromptResolvedKeeps ==
  ASSUME Inductive, NEW s \in Steps, PromptResolved(s)
  PROVE  Inductive'
<1>1. Types /\ Lifecycle /\ Prompts /\ Knowing
  BY Zenon DEF Inductive
<1>2. PICK g \in Generation : g = home[s]
  BY Indices, Zenon DEF PromptResolved, At, Claimed
<1>3. /\ At(s, loc[s]) /\ loc[s] = "waiting"
      /\ UNCHANGED <<current, resource, registered, change, engine, notices, version, home, pub,
                     watch, observing>>
  BY Zenon DEF PromptResolved, At
<1>4. CASE Goto(s, "answered") /\ UNCHANGED <<prompts, entry>> /\ ~(CurrentEntry(g) /\ s \in prompts)
  <2>1. "answered" \in Locations
    BY Zenon DEF Locations, StepLocations
  <2>2. engine \in [Generation -> Engines]
    BY <1>1, Zenon DEF Types
  <2>3. s \in prompts => loc[Owner] = "prompts"
    BY <1>1, <1>2, <1>4, SMTT(30) DEF Prompts, Lifecycle, CurrentEntry, Attachable, Attached, Serves
  <2> QED BY <1>3, <1>4, <2>1, <2>2, <2>3, StepMoves, Zenon DEF Claimed
<1>5. CASE /\ CurrentEntry(g) /\ entry[g].publicationMu = None /\ Goto(s, "resolving")
           /\ prompts' = prompts \ {s} /\ entry' = [entry EXCEPT ![g].publicationMu = s]
  <2>1. prompts' \in SUBSET Steps
    BY <1>1, <1>5, Zenon DEF Types
  <2>2. /\ Types' /\ Lifecycle' /\ ActiveSteps' /\ Locks' /\ Watching'
        /\ ObservationsAreReleased'
        /\ g = current /\ loc[Owner] \in Attached /\ loc'[Owner] = loc[Owner]
        /\ \A h \in Generation : LifeKept(h)
        /\ \A q \in Steps : loc'[q] = IF q = s THEN "resolving" ELSE loc[q]
    BY <1>2, <1>3, <1>5, <2>1, StepLocks, Zenon DEF RunsOn
  <2>3. Prompts'
    BY <1>1, <1>2, <1>3, <1>5, <2>1, <2>2, ZenonT(40) DEF Prompts, Types
  <2>4. Hydrating' /\ SubscriberKnowsPrompts' /\ ClosedPromptsAreAnnounced'
    <3>1. \A w \in Watchers : watch[w].at = "subscribe" \/ watch[w].sub = "open" =>
            watch[w].entry \in Generation
      BY Indices, Zenon DEF Inductive, Watching, Subscribing
    <3>2. Hydrating'
      BY <1>1, <1>3, <1>5, <2>1, <2>2, <3>1 DEF Knowing, Hydrating, LifeKept, Types
    <3>3. SubscriberKnowsPrompts'
      BY <1>1, <1>3, <1>5, <2>2, <3>1 DEF Knowing, SubscriberKnowsPrompts, LifeKept
    <3>4. \A w \in Watchers : watch[w].sub = "open" => ~entry[watch[w].entry].feedClosed
      BY ZenonT(40) DEF Inductive, Watching
    <3>5. \A w \in Watchers : watch[w].sub = "open" => entry[watch[w].entry].life = "ready"
      <4>1. entry[current].life = "ready"
        BY <1>1, <1>2, <2>2, Zenon DEF Lifecycle, Attached, Serves
      <4> QED BY <4>1, OpenIsCurrent, Zenon
    <3>6. ClosedPromptsAreAnnounced'
      BY <1>3, <2>2, <3>1, <3>5, Zenon DEF ClosedPromptsAreAnnounced, LifeKept
    <3> QED BY <3>2, <3>3, <3>6, Zenon
  <2> QED BY <2>2, <2>3, <2>4, Zenon DEF Inductive, Knowing
<1>6. CASE CurrentEntry(g) /\ s \in prompts
  BY <1>2, <1>5, <1>6, Zenon DEF PromptResolved, CurrentEntry
<1>7. CASE ~(CurrentEntry(g) /\ s \in prompts)
  BY <1>2, <1>4, <1>7, Zenon DEF PromptResolved
<1> QED BY <1>6, <1>7, Zenon

\* A Step that holds publicationMu announces what it did to the store.
LEMMA StepAnnounces ==
  ASSUME Inductive, NEW s \in Steps, At(s, loc[s]), loc[s] \in {"asking", "resolving"},
         NEW g \in Generation, RunsOn(s, g),
         NEW a \in SUBSET Steps, NEW b, FeedPublish(g, a, b),
         entry' = [entry EXCEPT ![g].publicationMu = None], StartPublication(s),
         NEW l \in {"waiting", "answered"}, Goto(s, l),
         UNCHANGED <<current, resource, registered, change, engine, prompts, notices, version,
                     home>>
  PROVE  /\ Types' /\ Lifecycle' /\ ActiveSteps' /\ Locks' /\ Watching'
         /\ ObservationsAreReleased' /\ Hydrating'
         /\ g = current /\ loc[Owner] \in Attached /\ loc'[Owner] = loc[Owner]
         /\ \A h \in Generation : LifeKept(h)
         /\ \A q \in Steps : loc'[q] = IF q = s THEN l ELSE loc[q]
         /\ \A w \in Watchers :
              /\ watch'[w].entry = watch[w].entry
              /\ watch'[w].sub = "open" =>
                   watch[w].sub = "open" /\ Learnt(w, g, a, b) /\ watch[w].entry = g
<1>1. /\ Types /\ Lifecycle /\ ActiveSteps /\ Locks /\ Watching /\ ObservationsAreReleased
      /\ Knowing
  BY Zenon DEF Inductive
<1>2. /\ g = current /\ loc[Owner] \in Attached /\ pub[s].at = "none"
      /\ entry[g].publicationMu = s
  BY <1>1, Zenon DEF RunsOn, Locks
<1>3. /\ loc' \in [Publishers -> Locations] /\ loc'[Owner] = loc[Owner]
      /\ \A q \in Steps : loc'[q] = IF q = s THEN l ELSE loc[q]
  <2>1. l \in Locations
    BY Zenon DEF Locations, StepLocations
  <2> QED BY <1>1, <2>1, SetLocation, Sets, Zenon
<1>4. /\ entry' \in [Generation -> Entries]
      /\ \A h \in Generation :
           /\ LifeKept(h) /\ entry'[h].feedMu = entry[h].feedMu
           /\ entry'[h].publicationMu = IF h = g THEN None ELSE entry[h].publicationMu
  <2>1. None \in Publishers \cup {None}
    BY Zenon
  <2> QED BY <1>1, <2>1, SetPublicationMu, Zenon
<1>5. /\ pub' \in [Publishers -> Publications] /\ pub'[s].at = "engine"
      /\ \A q \in Publishers : q # s => pub'[q] = pub[q]
  BY <1>1, SetPublication, NoPublicationOK, Sets, Zenon DEF StartPublication
<1>6. /\ watch' \in [Watchers -> Subscriptions] /\ observing' \in [Generation -> SUBSET Watchers]
      /\ entry[g].feedMu = None
      /\ \A w \in Watchers :
           /\ watch'[w].at = watch[w].at /\ watch'[w].entry = watch[w].entry
           /\ watch'[w].sub = "open" => watch[w].sub = "open" /\ Learnt(w, g, a, b)
  BY <1>1, FeedPublishEffect, Zenon
<1>7. Types'
  BY <1>1, <1>3, <1>4, <1>5, <1>6, Zenon DEF Types
<1>8. Lifecycle'
  BY <1>1, <1>3, <1>4, Indices DEF Lifecycle, LifeKept, Serves, Attached
<1>9. ActiveSteps'
  BY <1>1, <1>3, Zenon DEF ActiveSteps, Claimed
<1>10. Watching' /\ ObservationsAreReleased'
  BY <1>4, FeedPublishKeeps, Zenon
<1>11. \A w \in Watchers : watch[w].at = "subscribe" =>
         watch[w].entry \in Generation /\ watch[w].entry # g
  BY <1>1, <1>6, Indices, Sets DEF Locks
<1>12. Hydrating'
  BY <1>1, <1>2, <1>4, <1>6, <1>11 DEF Hydrating, LifeKept, Lifecycle
<1>13. Locks'
  <2>1. /\ \A q \in Publishers :
             q # s /\ pub[q].at \in {"feed", "aggregate", "record"} => pub[q].entry # g
        /\ \A q \in Steps : q # s => loc[q] \notin {"asking", "resolving"}
    BY <1>1, <1>2, Sets, Zenon DEF Locks
  <2>2. \A q \in Publishers :
          /\ pub'[q].at \in {"lock", "feed", "aggregate", "record"} => pub'[q].entry # 0
          /\ pub'[q].at \in {"feed", "aggregate", "record"} => entry'[pub'[q].entry].publicationMu = q
    BY <1>1, <1>4, <1>5, <2>1, Indices DEF Locks
  <2>3. \A q \in Steps : loc'[q] \notin {"asking", "resolving"}
    BY <1>3, <2>1, Zenon
  <2>4. \A w \in Watchers : watch'[w].at = "subscribe" =>
          watch'[w].entry # 0 /\ entry'[watch'[w].entry].feedMu = w
    BY <1>1, <1>4, <1>6, <1>11 DEF Locks
  <2> QED BY <2>2, <2>3, <2>4, Zenon DEF Locks
<1>14. \A w \in Watchers : watch[w].sub = "open" => watch[w].entry = g
  <2>1. current \in 0..Generations
    BY <1>1, Zenon DEF Types
  <2>2. \A w \in Watchers : watch[w].sub = "open" =>
          watch[w].entry \in Generation /\ ~entry[watch[w].entry].feedClosed
          /\ entry[watch[w].entry].life # "absent"
    BY <1>1, Indices, Zenon DEF Watching
  <2> QED BY <1>1, <1>2, <2>1, <2>2 DEF Lifecycle, Generation
<1> QED BY <1>2, <1>3, <1>4, <1>6, <1>7, <1>8, <1>9, <1>10, <1>12, <1>13, <1>14, ZenonT(40)

\* publishPendingPrompt: every open subscription learns of the prompt.
LEMMA AnnouncePendingKeeps ==
  ASSUME Inductive, NEW s \in Steps, AnnouncePending(s)
  PROVE  Inductive'
<1>1. /\ Types /\ Lifecycle /\ Prompts /\ Knowing /\ s \in prompts
  BY Zenon DEF Inductive, Prompts, AnnouncePending, At
<1>2. PICK g \in Generation : g = home[s]
  BY Indices, Zenon DEF AnnouncePending, At, Claimed
<1>3. /\ At(s, loc[s]) /\ loc[s] = "asking" /\ FeedPublish(g, {s}, {})
      /\ entry' = [entry EXCEPT ![g].publicationMu = None] /\ StartPublication(s)
      /\ Goto(s, "waiting")
      /\ UNCHANGED <<current, resource, registered, change, engine, prompts, notices, version,
                     home>>
  BY <1>2, Zenon DEF AnnouncePending, At, FeedPublish, Closing, Subscribed
<1>4. /\ Types' /\ Lifecycle' /\ ActiveSteps' /\ Locks' /\ Watching'
      /\ ObservationsAreReleased' /\ Hydrating'
      /\ g = current /\ loc[Owner] \in Attached /\ loc'[Owner] = loc[Owner]
      /\ \A h \in Generation : LifeKept(h)
      /\ \A q \in Steps : loc'[q] = IF q = s THEN "waiting" ELSE loc[q]
      /\ \A w \in Watchers :
           /\ watch'[w].entry = watch[w].entry
           /\ watch'[w].sub = "open" =>
                watch[w].sub = "open" /\ Learnt(w, g, {s}, {}) /\ watch[w].entry = g
  BY <1>2, <1>3, StepAnnounces, ZenonT(40) DEF RunsOn
<1>5. Prompts'
  BY <1>1, <1>2, <1>3, <1>4, ZenonT(40) DEF Prompts, Types
<1>6. ASSUME NEW w \in Watchers, watch'[w].sub = "open"
      PROVE  /\ watch[w].sub = "open" /\ watch'[w].entry = g
             /\ \A q \in Steps : q \in watch'[w].known <=> q = s \/ q \in watch[w].known
             /\ entry[watch[w].entry].life = "ready" /\ entry'[watch'[w].entry].life = "ready"
  <2>1. watch[w].sub = "open" /\ watch[w].entry = g /\ watch'[w].entry = g
    BY <1>4, <1>6, Zenon
  <2>2. \A q \in Steps : q \in watch'[w].known <=> q = s \/ q \in watch[w].known
    BY <1>4, <1>6, <2>1, ZenonT(40) DEF Learnt
  <2>3. entry[g].life = "ready" /\ entry'[g].life = "ready"
    BY <1>1, <1>4, Zenon DEF LifeKept, Lifecycle, Serves, Attached
  <2> QED BY <2>1, <2>2, <2>3, Zenon
<1>7. SubscriberKnowsPrompts' /\ ClosedPromptsAreAnnounced'
  BY <1>1, <1>3, <1>4, <1>6 DEF Knowing, SubscriberKnowsPrompts, ClosedPromptsAreAnnounced
<1> QED BY <1>4, <1>5, <1>7, Zenon DEF Inductive, Knowing

\* publishPromptResolution: every open subscription forgets the prompt.
LEMMA AnnounceResolvedKeeps ==
  ASSUME Inductive, NEW s \in Steps, AnnounceResolved(s)
  PROVE  Inductive'
<1>1. /\ Types /\ Lifecycle /\ Prompts /\ Knowing /\ s \notin prompts
  BY Zenon DEF Inductive, Prompts, AnnounceResolved, At
<1>2. PICK g \in Generation : g = home[s]
  BY Indices, Zenon DEF AnnounceResolved, At, Claimed
<1>3. /\ At(s, loc[s]) /\ loc[s] = "resolving" /\ FeedPublish(g, {}, {s})
      /\ entry' = [entry EXCEPT ![g].publicationMu = None] /\ StartPublication(s)
      /\ Goto(s, "answered")
      /\ UNCHANGED <<current, resource, registered, change, engine, prompts, notices, version,
                     home>>
  BY <1>2, Zenon DEF AnnounceResolved, At, FeedPublish, Closing, Subscribed
<1>4. /\ Types' /\ Lifecycle' /\ ActiveSteps' /\ Locks' /\ Watching'
      /\ ObservationsAreReleased' /\ Hydrating'
      /\ g = current /\ loc[Owner] \in Attached /\ loc'[Owner] = loc[Owner]
      /\ \A h \in Generation : LifeKept(h)
      /\ \A q \in Steps : loc'[q] = IF q = s THEN "answered" ELSE loc[q]
      /\ \A w \in Watchers :
           /\ watch'[w].entry = watch[w].entry
           /\ watch'[w].sub = "open" =>
                watch[w].sub = "open" /\ Learnt(w, g, {}, {s}) /\ watch[w].entry = g
  BY <1>2, <1>3, StepAnnounces, ZenonT(40) DEF RunsOn
<1>5. Prompts'
  BY <1>1, <1>2, <1>3, <1>4 DEF Prompts, Types
<1>6. ASSUME NEW w \in Watchers, watch'[w].sub = "open"
      PROVE  /\ watch[w].sub = "open" /\ watch'[w].entry = g
             /\ \A q \in Steps : q \in watch'[w].known <=> q # s /\ q \in watch[w].known
             /\ entry[watch[w].entry].life = "ready" /\ entry'[watch'[w].entry].life = "ready"
  <2>1. watch[w].sub = "open" /\ watch[w].entry = g /\ watch'[w].entry = g
    BY <1>4, <1>6, Zenon
  <2>2. \A q \in Steps : q \in watch'[w].known <=> q # s /\ q \in watch[w].known
    BY <1>4, <1>6, <2>1, Zenon DEF Learnt
  <2>3. entry[g].life = "ready" /\ entry'[g].life = "ready"
    BY <1>1, <1>4, Zenon DEF LifeKept, Lifecycle, Serves, Attached
  <2> QED BY <2>1, <2>2, <2>3, Zenon
<1>7. SubscriberKnowsPrompts' /\ ClosedPromptsAreAnnounced'
  BY <1>1, <1>3, <1>4, <1>6 DEF Knowing, SubscriberKnowsPrompts, ClosedPromptsAreAnnounced
<1> QED BY <1>4, <1>5, <1>7, Zenon DEF Inductive, Knowing

\* Every step of a Step keeps the invariant.
LEMMA StepKeeps ==
  ASSUME Inductive, NEW s \in Steps, StepAction(s)
  PROVE  Inductive'
BY StepMovesKeep, BeginStepKeeps, PromptPendingKeeps, PromptResolvedKeeps, AnnouncePendingKeeps,
   AnnounceResolvedKeeps, Zenon DEF StepAction

-------------------------------------------------------------------------------
(* The main views *)

\* Only LockAndStore replaces a main view, and never by an older one; the drain
\* removes it.
LEMMA ViewsGrow ==
  ASSUME Types, [Next]_vars, NEW g \in Generation, entry'[g].view # 0
  PROVE  entry'[g].view >= entry[g].view
<1>1. entry \in [Generation -> Entries] /\ entry[g] \in Entries /\ entry[g].view \in Nat
  BY Zenon DEF Types, Entries
<1>2. SUFFICES ASSUME entry'[g].view # entry[g].view
               PROVE  entry'[g].view >= entry[g].view
  BY <1>1
<1>3. ASSUME NEW x, NEW m,
             \/ entry' = [entry EXCEPT ![x].publicationMu = m]
             \/ entry' = [entry EXCEPT ![x].feedMu = m]
             \/ entry' = [entry EXCEPT ![x].feedReady = m]
             \/ entry' = [entry EXCEPT ![x].feedClosed = m]
             \/ entry' = [entry EXCEPT ![x].life = m]
      PROVE  FALSE
  BY <1>1, <1>2, <1>3 DEF Entries
<1>4. ASSUME NEW p \in Publishers, PublicationStep(p)
      PROVE  entry'[g].view >= entry[g].view
  <2>1. CASE LockAndStore(p)
    <3>1. pub[p].version \in Nat
      BY Zenon DEF Types, Publications
    <3> DEFINE V == IF entry[pub[p].entry].life = "ready" THEN pub[p].version
                    ELSE entry[pub[p].entry].view
    <3>2. ~(entry[pub[p].entry].view # 0 /\ entry[pub[p].entry].view >= pub[p].version)
      BY <1>2, <2>1, Zenon DEF LockAndStore
    <3>3. entry'[g].view = IF g = pub[p].entry THEN V ELSE entry[g].view
      <4>1. entry' = [entry EXCEPT ![pub[p].entry].publicationMu = p, ![pub[p].entry].view = V,
                        ![pub[p].entry].activity =
                          IF entry[pub[p].entry].life = "ready" THEN pub[p].activity ELSE @]
        BY <2>1, <3>2, Zenon DEF LockAndStore
      <4> HIDE DEF V
      <4> QED BY <1>1, <4>1 DEF Entries
    <3> QED BY <1>1, <1>2, <3>1, <3>2, <3>3
  <2>2. CASE Unlock(p)
    BY <1>3, <2>2, Zenon DEF Unlock
  <2>3. CASE UNCHANGED entry
    BY <1>2, <2>3, Zenon
  <2> QED BY <1>4, <2>1, <2>2, <2>3, Zenon
         DEF PublicationStep, ReadEngine, ReadRegistry, ReadActive, ReadLive, TakeVersion, Lookup,
             PublishUpdate, ReadLifecycle, Record
<1>5. ASSUME NEW s \in Steps, StepAction(s)
      PROVE  FALSE
  <2>1. \/ UNCHANGED entry
        \/ entry' = [entry EXCEPT ![home[s]].publicationMu = s]
        \/ entry' = [entry EXCEPT ![home[s]].publicationMu = None]
    BY <1>5, Zenon DEF StepAction, BeginStep, StepBegan, BeginLiveRun, PromptPending, AnnouncePending,
                PromptResolved, AnnounceResolved, EndStep, StepEnded, FinishLiveRun, SteerFinal,
                PublishFinal, FinishStep
  <2> QED BY <1>2, <1>3, <2>1, Zenon
<1>6. ASSUME OwnerAction
      PROVE  FALSE
  <2>1. CASE BeginDrain
    <3>1. entry'[g].view = entry[g].view \/ entry'[g].view = 0
      BY <1>1, <2>1, Zenon DEF BeginDrain, Entries
    <3> QED BY <1>2, <3>1, Zenon
  <2>2. CASE Register \/ FeedReady \/ Retire \/ CloseFeed
    <3>1. \/ entry' = [entry EXCEPT ![current].life = "ready"]
          \/ entry' = [entry EXCEPT ![current].feedReady = TRUE]
          \/ entry' = [entry EXCEPT ![current].life = "retired"]
          \/ entry' = [entry EXCEPT ![current].feedClosed = TRUE]
      BY <2>2, Zenon DEF Register, FeedReady, Retire, CloseFeed
    <3> QED BY <1>3, <3>1, Zenon
  <2>3. CASE UNCHANGED entry
    BY <1>2, <2>3, Zenon
  <2> QED BY <1>6, <2>1, <2>2, <2>3, Zenon
         DEF OwnerAction, OpenResource, SignalReady, CloseResource, CloseSession,
             PublishResolution, DeleteEntry, StepsOver, CloseEngine, ClearActivity
<1>7. ASSUME NEW w \in Watchers, WatchStep(w) \/ Watch(w) \/ CancelWatch(w)
      PROVE  FALSE
  <2>1. \/ UNCHANGED entry
        \/ entry' = [entry EXCEPT ![watch[w].entry].feedMu = w]
        \/ entry' = [entry EXCEPT ![watch[w].entry].feedMu = None]
    BY <1>7, Zenon DEF WatchStep, Watch, Look, Attach, Observe, Hydrate, SubscribeFeed, Unlocked,
                ComposeFails, SubscribeFails, BindObservation, ReadNext, Wake, CancelWatch
  <2> QED BY <1>2, <1>3, <2>1, Zenon
<1>8. ~UNCHANGED entry
  BY <1>2, Zenon
<1> QED BY <1>4, <1>5, <1>6, <1>7, <1>8, Zenon DEF Next, vars, registryVars

-------------------------------------------------------------------------------
(* The subscribers *)

\* What the invariant asks of one subscription r ...
Sound(r) ==
  /\ r.at \in Subscribing \/ r.sub = "open" => r.entry # 0 /\ entry[r.entry].life # "absent"
  /\ r.sub = "open" => r.at \in {"bind", "reading"} /\ ~entry[r.entry].feedClosed
  /\ r.at \notin {"reading", "done"} => ~r.bound
  /\ r.at = "reading" /\ r.sub = "open" => r.bound

\* ... and of what it knows of prompts.
Told(r) ==
  /\ r.at = "subscribe" /\ entry[r.entry].life = "ready" =>
       \A s \in prompts : s = r.step \/ loc[s] = "asking"
  /\ r.sub = "open" /\ entry[r.entry].life = "ready" =>
       \A s \in Steps : (s \in r.known) # (s \in prompts) => loc[s] \in {"asking", "resolving"}
  /\ r.sub = "open" /\ entry[r.entry].life # "ready" => r.known \subseteq prompts \cup notices

Observable(r) == r.at \in {"hydrate", "subscribe", "failed", "bind"} \/ r.sub = "open"

LEMMA SubscriptionFacts ==
  ASSUME Inductive, NEW w \in Watchers
  PROVE  /\ watch[w] \in Subscriptions /\ Sound(watch[w]) /\ Told(watch[w])
         /\ watch[w].entry # 0 => watch[w].entry \in Generation
         /\ \A h \in Generation : w \in observing[h] => watch[w].entry = h /\ Observable(watch[w])
<1>1. watch[w] \in Subscriptions
  BY Zenon DEF Inductive, Types
<1>2. Sound(watch[w])
  BY Zenon DEF Inductive, Watching, Sound
<1>3. Told(watch[w])
  BY Zenon DEF Inductive, Knowing, Hydrating, SubscriberKnowsPrompts, ClosedPromptsAreAnnounced, Told
<1>4. \A h \in Generation : w \in observing[h] => watch[w].entry = h /\ Observable(watch[w])
  BY Zenon DEF Inductive, ObservationsAreReleased, Observable
<1> QED BY <1>1, <1>2, <1>3, <1>4, Indices

\* One subscriber goes on; it may take or give back the mutex of the feed.
LEMMA WatchTurns ==
  ASSUME Inductive, NEW w \in Watchers, NEW r \in Subscriptions, Move(w, r), ElsewhereSame,
         Sound(r), Told(r),
         entry' \in [Generation -> Entries], engine' \in [Generation -> Engines],
         \A h \in Generation :
           /\ LifeKept(h) /\ entry'[h].publicationMu = entry[h].publicationMu
           /\ entry'[h].feedMu = entry[h].feedMu \/ entry[h].feedMu \in {w, None}
           /\ engine'[h].active = engine[h].active,
         r.at = "subscribe" => entry'[r.entry].feedMu = w,
         observing' \in [Generation -> SUBSET Watchers],
         \A h \in Generation : \A v \in observing'[h] :
           IF v = w THEN r.entry = h /\ Observable(r) ELSE v \in observing[h]
  PROVE  Inductive'
<1>1. /\ Types /\ Lifecycle /\ ActiveSteps /\ Locks /\ Prompts /\ Watching
      /\ ObservationsAreReleased /\ Knowing
  BY Zenon DEF Inductive
<1>2. UNCHANGED <<current, resource, registered, change, prompts, notices, version, loc, home, pub>>
  BY Zenon DEF ElsewhereSame
<1>3. /\ watch' \in [Watchers -> Subscriptions]
      /\ \A v \in Watchers : watch'[v] = IF v = w THEN r ELSE watch[v]
  BY <1>1, SetSubscription, ZenonT(40)
<1>4. Types'
  BY <1>1, <1>2, <1>3, Zenon DEF Types
<1>5. Lifecycle'
  BY <1>1, <1>2, Indices DEF Lifecycle, LifeKept, Serves, Attached
<1>6. ActiveSteps' /\ Prompts'
  BY <1>1, <1>2, Zenon DEF ActiveSteps, Prompts
<1>7. \A v \in Watchers : watch[v].entry # 0 => watch[v].entry \in Generation
  BY Indices, Zenon
<1>8. r.entry # 0 => r.entry \in Generation
  BY Sets, Zenon DEF Subscriptions
<1>9. Locks'
  <2>1. \A p \in Publishers :
          /\ pub[p].at \in {"lock", "feed", "aggregate", "record"} => pub[p].entry # 0
          /\ pub[p].at \in {"feed", "aggregate", "record"} => entry'[pub[p].entry].publicationMu = p
    BY <1>1, Indices, Zenon DEF Locks
  <2>2. \A s \in Steps : loc[s] \in {"asking", "resolving"} =>
          /\ pub[s].at = "none" /\ home[s] = current /\ loc[Owner] \in Attached
          /\ entry'[current].publicationMu = s
    BY <1>1, Indices, Zenon DEF Locks
  <2>3. ASSUME NEW v \in Watchers, watch'[v].at = "subscribe"
        PROVE  watch'[v].entry # 0 /\ entry'[watch'[v].entry].feedMu = v
    <3>1. CASE v = w
      BY <1>3, <2>3, <3>1, Zenon DEF Sound, Subscribing
    <3>2. CASE v # w
      <4>1. /\ watch'[v] = watch[v] /\ watch[v].entry # 0 /\ watch[v].entry \in Generation
            /\ entry[watch[v].entry].feedMu = v
        BY <1>1, <1>3, <1>7, <2>3, <3>2, Zenon DEF Locks
      <4> QED BY <3>2, <4>1, Sets, ZenonT(40)
    <3> QED BY <3>1, <3>2, Zenon
  <2> QED BY <1>2, <2>1, <2>2, <2>3, Zenon DEF Locks
<1>10. ASSUME NEW v \in Watchers
       PROVE  Sound(watch[v])' /\ Told(watch[v])'
  <2>1. CASE v = w
    <3>1. watch'[v] = r
      BY <1>3, <2>1, Zenon
    <3>2. r.at \in Subscribing \/ r.sub = "open" => r.entry \in Generation
      BY <1>8, Zenon DEF Sound
    <3> QED BY <1>2, <3>1, <3>2, Zenon DEF Sound, Told, LifeKept, Subscribing
  <2>2. CASE v # w
    <3>1. watch'[v] = watch[v]
      BY <1>3, <2>2, Zenon
    <3>2. Sound(watch[v]) /\ Told(watch[v])
      BY SubscriptionFacts, Zenon
    <3>3. watch[v].at \in Subscribing \/ watch[v].sub = "open" => watch[v].entry \in Generation
      BY <1>7, <3>2, Zenon DEF Sound
    <3> QED BY <1>2, <3>1, <3>2, <3>3 DEF Sound, Told, LifeKept, Subscribing
  <2> QED BY <2>1, <2>2, Zenon
<1>11. Watching'
  BY <1>10, Zenon DEF Watching, Sound
<1>12. Knowing'
  BY <1>10, Zenon DEF Knowing, Hydrating, SubscriberKnowsPrompts, ClosedPromptsAreAnnounced, Told
<1>13. ObservationsAreReleased'
  BY <1>1, <1>3 DEF ObservationsAreReleased, Observable
<1> QED BY <1>4, <1>5, <1>6, <1>9, <1>11, <1>12, <1>13 DEF Inductive

\* A subscriber that is not between the halves of a hydration goes on.
LEMMA WatchMoves ==
  ASSUME Inductive, NEW w \in Watchers, NEW r \in Subscriptions, Move(w, r), ElsewhereSame,
         UNCHANGED <<entry, engine>>, Sound(r), Told(r), r.at # "subscribe",
         observing' \in [Generation -> SUBSET Watchers],
         \A h \in Generation : \A v \in observing'[h] :
           IF v = w THEN r.entry = h /\ Observable(r) ELSE v \in observing[h]
  PROVE  Inductive'
<1>1. entry' \in [Generation -> Entries] /\ engine' \in [Generation -> Engines]
  BY Zenon DEF Inductive, Types
<1>2. \A h \in Generation :
        /\ LifeKept(h) /\ entry'[h].publicationMu = entry[h].publicationMu
        /\ entry'[h].feedMu = entry[h].feedMu /\ engine'[h].active = engine[h].active
  BY Zenon DEF LifeKept
<1> QED BY <1>1, <1>2, WatchTurns, Zenon

\* A subscriber that has no subscription goes on.
LEMMA WatchKeeps ==
  ASSUME Inductive, NEW w \in Watchers, Watch(w) \/ Look(w) \/ Attach(w) \/ Wake(w)
  PROVE  Inductive'
<1>1. /\ observing \in [Generation -> SUBSET Watchers] /\ change \in Nat
      /\ registered \in 0..Generations /\ 0 \in 0..Generations /\ 0 \in 0..Buffer
      /\ registered # 0 => entry[registered].life # "absent"
  BY RegistryAssumption, SMTT(30) DEF Inductive, Types, Lifecycle
<1>2. /\ watch[w] \in Subscriptions /\ Sound(watch[w])
      /\ \A h \in Generation : w \in observing[h] => Observable(watch[w])
  BY SubscriptionFacts, Zenon
<1>3. /\ watch[w].at \in {"idle", "done", "look", "attach", "wait"}
      /\ UNCHANGED <<entry, engine, observing>> /\ ElsewhereSame
  BY Zenon DEF Watch, Look, Attach, Wake
<1>4. watch[w].sub # "open" /\ \A h \in Generation : w \notin observing[h]
  BY <1>2, <1>3, Zenon DEF Sound, Observable
<1>5. ASSUME NEW r \in Subscriptions, Move(w, r), r.sub # "open", ~r.bound,
             r.at \in {"look", "attach", "observe", "wait"},
             r.at \in {"attach", "observe"} => r.entry # 0 /\ entry[r.entry].life # "absent"
      PROVE  Inductive'
  <2>1. Sound(r) /\ Told(r)
    BY <1>5, Zenon DEF Sound, Told, Subscribing
  <2> QED BY <1>1, <1>3, <1>4, <1>5, <2>1, WatchMoves
<1>6. CASE Watch(w)
  <2> DEFINE r == [NoWatch EXCEPT !.at = "look"]
  <2>1. r \in Subscriptions /\ r.sub # "open" /\ ~r.bound /\ r.at = "look"
    BY <1>1, Zenon DEF NoWatch, Subscriptions, WatchLocations
  <2>2. Move(w, r)
    BY <1>6, Zenon DEF Watch
  <2> HIDE DEF r
  <2> QED BY <1>5, <2>1, <2>2, Zenon
<1>7. CASE Look(w)
  <2> DEFINE l == IF registered = 0 THEN "wait" ELSE "attach"
             r == [watch[w] EXCEPT !.at = l, !.entry = registered, !.change = change]
  <2>1. l \in {"wait", "attach"} /\ (l = "attach" => registered # 0)
    BY Zenon
  <2>2. Move(w, r) /\ ~watch[w].bound
    BY <1>2, <1>7, Zenon DEF Look, Sound
  <2> HIDE DEF l
  <2>3. /\ r \in Subscriptions /\ r.sub = watch[w].sub /\ r.bound = watch[w].bound /\ r.at = l
        /\ r.entry = registered
    BY <1>1, <1>2, <2>1, Zenon DEF Subscriptions, WatchLocations
  <2> HIDE DEF r
  <2> QED BY <1>1, <1>4, <1>5, <2>1, <2>2, <2>3, Zenon
<1>8. ASSUME NEW l \in {"look", "observe", "wait"}, Move(w, [watch[w] EXCEPT !.at = l]),
             watch[w].at \in {"attach", "wait"}, l = "observe" => watch[w].at = "attach"
      PROVE  Inductive'
  <2> DEFINE r == [watch[w] EXCEPT !.at = l]
  <2>1. ~watch[w].bound /\ (l = "observe" => watch[w].entry # 0 /\ entry[watch[w].entry].life # "absent")
    BY <1>2, <1>8, Zenon DEF Sound, Subscribing
  <2>2. /\ r \in Subscriptions /\ r.sub = watch[w].sub /\ r.bound = watch[w].bound /\ r.at = l
        /\ r.entry = watch[w].entry
    BY <1>2, Zenon DEF Subscriptions, WatchLocations
  <2>3. Move(w, r)
    BY <1>8, Zenon
  <2> HIDE DEF r
  <2> QED BY <1>4, <1>5, <2>1, <2>2, <2>3, Zenon
<1>9. CASE Attach(w)
  BY <1>8, <1>9, Zenon DEF Attach, Wait
<1>10. CASE Wake(w)
  BY <1>8, <1>10, Zenon DEF Wake
<1> QED BY <1>6, <1>7, <1>9, <1>10, Zenon

\* agentResource.observe.
LEMMA ObserveKeeps ==
  ASSUME Inductive, NEW w \in Watchers, Observe(w)
  PROVE  Inductive'
<1>1. /\ observing \in [Generation -> SUBSET Watchers] /\ watch[w] \in Subscriptions
      /\ Sound(watch[w]) /\ watch[w].at = "observe"
      /\ \A h \in Generation : w \in observing[h] => Observable(watch[w])
  BY SubscriptionFacts, Zenon DEF Inductive, Types, Observe
<1>2. /\ watch[w].sub # "open" /\ ~watch[w].bound
      /\ watch[w].entry # 0 /\ entry[watch[w].entry].life # "absent"
      /\ \A h \in Generation : w \notin observing[h]
  BY <1>1, Zenon DEF Sound, Observable, Subscribing
<1>3. PICK g \in Generation : g = watch[w].entry
  BY <1>2, SubscriptionFacts, Zenon
<1>4. PICK l \in {"hydrate", "wait"} :
        /\ Move(w, [watch[w] EXCEPT !.at = l])
        /\ observing' = IF l = "hydrate" THEN [observing EXCEPT ![g] = @ \cup {w}] ELSE observing
  BY <1>3, Zenon DEF Observe, Wait
<1> DEFINE r == [watch[w] EXCEPT !.at = l]
<1>5. /\ r \in Subscriptions /\ r.sub = watch[w].sub /\ r.bound = watch[w].bound /\ r.at = l
      /\ r.entry = watch[w].entry
  BY <1>1, Zenon DEF Subscriptions, WatchLocations
<1>6. Move(w, r) /\ ElsewhereSame /\ UNCHANGED <<entry, engine>>
  BY <1>4, Zenon DEF Observe
<1> HIDE DEF r
<1>7. Sound(r) /\ Told(r) /\ r.at # "subscribe"
  BY <1>2, <1>5, Zenon DEF Sound, Told, Subscribing
<1>8. /\ observing' \in [Generation -> SUBSET Watchers]
      /\ \A h \in Generation : \A v \in observing'[h] :
           IF v = w THEN r.entry = h /\ Observable(r) ELSE v \in observing[h]
  BY <1>1, <1>2, <1>3, <1>4, <1>5 DEF Observable
<1> QED BY <1>5, <1>6, <1>7, <1>8, WatchMoves

\* outputMutationMu and the mutex of the feed are taken or given back together.
LEMMA HydrationMutexes ==
  ASSUME Inductive, NEW w \in Watchers, NEW g \in Generation, NEW m \in {w, None},
         entry[g].feedMu \in {w, None},
         entry' = [entry EXCEPT ![g].feedMu = m], engine' = [engine EXCEPT ![g].outputMu = m]
  PROVE  /\ entry' \in [Generation -> Entries] /\ engine' \in [Generation -> Engines]
         /\ entry'[g].feedMu = m
         /\ \A h \in Generation :
              /\ LifeKept(h) /\ entry'[h].publicationMu = entry[h].publicationMu
              /\ entry'[h].feedMu = entry[h].feedMu \/ entry[h].feedMu \in {w, None}
              /\ engine'[h].active = engine[h].active
<1>1. Types /\ m \in Watchers \cup {None}
  BY Zenon DEF Inductive
<1>2. /\ entry' \in [Generation -> Entries]
      /\ \A h \in Generation :
           /\ LifeKept(h) /\ entry'[h].publicationMu = entry[h].publicationMu
           /\ entry'[h].feedMu = IF h = g THEN m ELSE entry[h].feedMu
  BY <1>1, SetFeedMu, ZenonT(40)
<1>3. engine \in [Generation -> Engines] /\ engine[g] \in Engines
  BY <1>1, Zenon DEF Types
<1> DEFINE e == [engine[g] EXCEPT !.outputMu = m]
<1>4. e \in Engines /\ e.active = engine[g].active
  BY <1>3, Zenon DEF Engines
<1>5. engine' = [engine EXCEPT ![g] = e]
  BY Zenon
<1> HIDE DEF e
<1>6. /\ engine' \in [Generation -> Engines]
      /\ \A h \in Generation : engine'[h].active = engine[h].active
  BY <1>3, <1>4, <1>5, Zenon
<1> QED BY <1>2, <1>6, Zenon

\* The read model of the hydration shows the Step that a prompt in the store
\* belongs to, and while the feed is locked no prompt is announced.
LEMMA HydrateKeeps ==
  ASSUME Inductive, NEW w \in Watchers, Hydrate(w)
  PROVE  Inductive'
<1>1. Types /\ Lifecycle /\ ActiveSteps /\ Prompts
  BY Zenon DEF Inductive
<1>2. /\ watch[w] \in Subscriptions /\ Sound(watch[w]) /\ watch[w].at = "hydrate"
      /\ \A h \in Generation : w \in observing[h] => watch[w].entry = h
  BY SubscriptionFacts, Zenon DEF Hydrate
<1>3. /\ watch[w].sub # "open" /\ ~watch[w].bound
      /\ watch[w].entry # 0 /\ entry[watch[w].entry].life # "absent"
  BY <1>2, Zenon DEF Sound, Subscribing
<1>4. PICK g \in Generation : g = watch[w].entry
  BY <1>3, SubscriptionFacts, Zenon
<1>5. HydratedStep \in Steps \cup {None}
  <2>1. registered # 0 => engine[registered] \in Engines
    BY <1>1, Indices, Zenon DEF Types
  <2> QED BY <2>1, Zenon DEF HydratedStep, Engines
<1>6. entry[g].life = "ready" => \A s \in prompts : s = HydratedStep
  <2>1. SUFFICES ASSUME entry[g].life = "ready", NEW s \in prompts
                 PROVE  s = engine[g].active /\ registered = g /\ g # 0
    BY Zenon DEF HydratedStep
  <2>2. registered = g /\ g = current /\ loc[Owner] \in Serves /\ s \in Steps
    BY <1>1, <2>1, Zenon DEF Lifecycle, Types
  <2>3. home[s] = current /\ loc[s] \in Claimed
    BY <1>1, <2>2, Zenon DEF Prompts, Serves, Claimed
  <2> QED BY <1>1, <1>3, <1>4, <2>2, <2>3, Zenon DEF ActiveSteps
<1> DEFINE k == HydratedStep
           r == [watch[w] EXCEPT !.at = "subscribe", !.step = k]
<1>7. /\ Move(w, r) /\ ElsewhereSame /\ UNCHANGED observing /\ entry[g].feedMu = None
      /\ entry' = [entry EXCEPT ![g].feedMu = w] /\ engine' = [engine EXCEPT ![g].outputMu = w]
  BY <1>4, Zenon DEF Hydrate
<1> HIDE DEF k
<1>8. /\ r \in Subscriptions /\ r.sub = watch[w].sub /\ r.bound = watch[w].bound
      /\ r.at = "subscribe" /\ r.entry = watch[w].entry /\ r.step = k
  <2>1. k \in Steps \cup {None}
    BY <1>5, Zenon DEF k
  <2> QED BY <1>2, <2>1, Zenon DEF Subscriptions, WatchLocations
<1> HIDE DEF r
<1>9. Sound(r)
  BY <1>3, <1>8, Zenon DEF Sound, Subscribing
<1>10. Told(r)
  BY <1>3, <1>4, <1>6, <1>8, Zenon DEF Told, k
<1>11. /\ entry' \in [Generation -> Entries] /\ engine' \in [Generation -> Engines]
       /\ entry'[g].feedMu = w
       /\ \A h \in Generation :
            /\ LifeKept(h) /\ entry'[h].publicationMu = entry[h].publicationMu
            /\ entry'[h].feedMu = entry[h].feedMu \/ entry[h].feedMu \in {w, None}
            /\ engine'[h].active = engine[h].active
  BY <1>7, HydrationMutexes, Zenon
<1>12. r.at = "subscribe" => entry'[r.entry].feedMu = w
  BY <1>4, <1>8, <1>11, Zenon
<1>13. /\ observing' \in [Generation -> SUBSET Watchers]
       /\ \A h \in Generation : \A v \in observing'[h] :
            IF v = w THEN r.entry = h /\ Observable(r) ELSE v \in observing[h]
  BY <1>1, <1>2, <1>7, <1>8, Zenon DEF Types, Observable
<1> QED BY <1>7, <1>8, <1>9, <1>10, <1>11, <1>12, <1>13, WatchTurns

\* The second half of the hydration: the prompts, and the subscription or an error.
LEMMA SubscribeFeedKeeps ==
  ASSUME Inductive, NEW w \in Watchers, SubscribeFeed(w) \/ ComposeFails(w)
  PROVE  Inductive'
<1>1. Types /\ Lifecycle /\ Locks /\ Buffer \in Nat \ {0}
  BY RegistryAssumption, Zenon DEF Inductive
<1>2. /\ watch[w] \in Subscriptions /\ Sound(watch[w]) /\ Told(watch[w])
      /\ watch[w].at = "subscribe"
      /\ \A h \in Generation : w \in observing[h] => watch[w].entry = h
  BY SubscriptionFacts, Zenon DEF SubscribeFeed, ComposeFails
<1>3. /\ watch[w].sub # "open" /\ ~watch[w].bound
      /\ watch[w].entry # 0 /\ entry[watch[w].entry].life # "absent"
  BY <1>2, Zenon DEF Sound, Subscribing
<1>4. PICK g \in Generation : g = watch[w].entry
  BY <1>3, SubscriptionFacts, Zenon
<1>5. /\ ElsewhereSame /\ UNCHANGED observing /\ entry[g].feedMu \in {w, None}
      /\ entry' = [entry EXCEPT ![g].feedMu = None] /\ engine' = [engine EXCEPT ![g].outputMu = None]
  BY <1>1, <1>2, <1>4, Zenon DEF SubscribeFeed, ComposeFails, Unlocked, Locks
<1>6. /\ entry' \in [Generation -> Entries] /\ engine' \in [Generation -> Engines]
      /\ \A h \in Generation :
           /\ LifeKept(h) /\ entry'[h].publicationMu = entry[h].publicationMu
           /\ entry'[h].feedMu = entry[h].feedMu \/ entry[h].feedMu \in {w, None}
           /\ engine'[h].active = engine[h].active
  BY <1>5, HydrationMutexes, Zenon
<1>7. ASSUME NEW r \in Subscriptions, Move(w, r), Sound(r), Told(r), r.at \in {"bind", "failed"},
             r.entry = watch[w].entry
      PROVE  Inductive'
  <2>1. /\ observing' \in [Generation -> SUBSET Watchers]
        /\ \A h \in Generation : \A v \in observing'[h] :
             IF v = w THEN r.entry = h /\ Observable(r) ELSE v \in observing[h]
    BY <1>1, <1>2, <1>5, <1>7, Zenon DEF Types, Observable
  <2> QED BY <1>5, <1>6, <1>7, <2>1, WatchTurns
<1>8. CASE ComposeFails(w)
  <2> DEFINE r == [watch[w] EXCEPT !.at = "failed"]
  <2>1. /\ r \in Subscriptions /\ r.sub = watch[w].sub /\ r.bound = watch[w].bound
        /\ r.at = "failed" /\ r.entry = watch[w].entry
    BY <1>2, Zenon DEF Subscriptions, WatchLocations
  <2>2. Move(w, r)
    BY <1>8, Zenon DEF ComposeFails
  <2> HIDE DEF r
  <2>3. Sound(r) /\ Told(r)
    BY <1>3, <2>1, Zenon DEF Sound, Told, Subscribing
  <2> QED BY <1>7, <2>1, <2>2, <2>3, Zenon
<1>9. CASE SubscribeFeed(w) /\ entry[g].feedClosed
  <2> DEFINE r == [watch[w] EXCEPT !.at = "bind", !.sub = "closed"]
  <2>1. /\ r \in Subscriptions /\ r.sub = "closed" /\ r.bound = watch[w].bound
        /\ r.at = "bind" /\ r.entry = watch[w].entry
    BY <1>2, Zenon DEF Subscriptions, WatchLocations
  <2>2. Move(w, r)
    BY <1>4, <1>9, Zenon DEF SubscribeFeed
  <2> HIDE DEF r
  <2>3. Sound(r) /\ Told(r)
    BY <1>3, <2>1, Zenon DEF Sound, Told, Subscribing
  <2> QED BY <1>7, <2>1, <2>2, <2>3
<1>10. CASE SubscribeFeed(w) /\ ~entry[g].feedClosed
  <2> DEFINE k == prompts \cap {watch[w].step}
             r == [watch[w] EXCEPT !.at = "bind", !.sub = "open", !.buffered = 1, !.known = k]
  <2>1. k \in SUBSET Steps /\ 1 \in 0..Buffer
    BY <1>1 DEF Types
  <2>2. Move(w, r)
    BY <1>4, <1>10, Zenon DEF SubscribeFeed
  <2> HIDE DEF k
  <2>3. /\ r \in Subscriptions /\ r.sub = "open" /\ r.bound = watch[w].bound
        /\ r.at = "bind" /\ r.entry = watch[w].entry /\ r.known = k
    BY <1>2, <2>1, Zenon DEF Subscriptions, WatchLocations
  <2> HIDE DEF r
  <2>4. Sound(r)
    BY <1>3, <1>4, <1>10, <2>3, ZenonT(40) DEF Sound, Subscribing
  <2>5. Told(r)
    BY <1>1, <1>2, <2>3 DEF Told, k
  <2> QED BY <1>7, <2>2, <2>3, <2>4, <2>5, Zenon
<1> QED BY <1>8, <1>9, <1>10, Zenon

\* The failed subscription, and bindObservation, release the observation of a
\* stream that is not open.
LEMMA ReleaseKeeps ==
  ASSUME Inductive, NEW w \in Watchers, SubscribeFails(w) \/ BindObservation(w)
  PROVE  Inductive'
<1>1. /\ observing \in [Generation -> SUBSET Watchers]
      /\ watch[w] \in Subscriptions /\ Sound(watch[w]) /\ Told(watch[w])
      /\ watch[w].at \in {"failed", "bind"}
      /\ \A h \in Generation : w \in observing[h] => watch[w].entry = h
  BY SubscriptionFacts, Zenon DEF SubscribeFails, BindObservation, Inductive, Types
<1>2. watch[w].entry # 0 /\ ~watch[w].bound /\ (watch[w].at = "failed" => watch[w].sub # "open")
  BY <1>1, Zenon DEF Sound, Subscribing
<1>3. PICK g \in Generation : g = watch[w].entry
  BY <1>2, SubscriptionFacts, Zenon
<1>4. ElsewhereSame /\ UNCHANGED <<entry, engine>>
  BY Zenon DEF SubscribeFails, BindObservation
<1>5. CASE SubscribeFails(w)
  <2>1. PICK l \in {"done", "wait"} : Move(w, [watch[w] EXCEPT !.at = l])
    BY <1>5, Zenon DEF SubscribeFails
  <2> DEFINE r == [watch[w] EXCEPT !.at = l]
  <2>2. /\ r \in Subscriptions /\ r.sub = watch[w].sub /\ r.bound = watch[w].bound /\ r.at = l
    BY <1>1, Zenon DEF Subscriptions, WatchLocations
  <2>3. Move(w, r) /\ watch[w].at = "failed" /\ observing' = [observing EXCEPT ![g] = @ \ {w}]
    BY <1>3, <1>5, <2>1, Zenon DEF SubscribeFails
  <2> HIDE DEF r
  <2>4. Sound(r) /\ Told(r) /\ r.at # "subscribe"
    BY <1>2, <2>2, <2>3, Zenon DEF Sound, Told, Subscribing
  <2>5. /\ observing' \in [Generation -> SUBSET Watchers]
        /\ \A h \in Generation : \A v \in observing'[h] : v # w /\ v \in observing[h]
    BY <1>1, <1>3, <2>3, Zenon
  <2> QED BY <1>4, <2>2, <2>3, <2>4, <2>5, WatchMoves, Zenon
<1>6. CASE BindObservation(w)
  <2> DEFINE b == (watch[w].sub = "open")
             r == [watch[w] EXCEPT !.at = "reading", !.bound = b]
  <2>1. b \in BOOLEAN /\ (b <=> watch[w].sub = "open")
    BY Zenon
  <2>2. /\ Move(w, r) /\ watch[w].at = "bind"
        /\ observing' = [observing EXCEPT ![g] = IF watch[w].sub = "open" THEN @ ELSE @ \ {w}]
    BY <1>3, <1>6, Zenon DEF BindObservation
  <2> HIDE DEF b
  <2>3. /\ r \in Subscriptions /\ r.sub = watch[w].sub /\ r.bound = b /\ r.at = "reading"
        /\ r.entry = watch[w].entry /\ r.known = watch[w].known
    BY <1>1, <2>1, Zenon DEF Subscriptions, WatchLocations
  <2> HIDE DEF r
  <2>4. Sound(r) /\ Told(r) /\ r.at # "subscribe"
    BY <1>1, <2>1, <2>3, Zenon DEF Sound, Told, Subscribing
  <2>5. /\ observing' \in [Generation -> SUBSET Watchers]
        /\ \A h \in Generation : \A v \in observing'[h] :
             /\ v \in observing[h]
             /\ v = w => h = g /\ watch[w].sub = "open"
    BY <1>1, <1>3, <2>2, Zenon
  <2>6. \A h \in Generation : \A v \in observing'[h] :
          IF v = w THEN r.entry = h /\ Observable(r) ELSE v \in observing[h]
    BY <1>3, <2>3, <2>5, Zenon DEF Observable
  <2> QED BY <1>4, <2>2, <2>3, <2>4, <2>5, <2>6, WatchMoves, ZenonT(40)
<1> QED BY <1>5, <1>6, Zenon

\* Next, and the end of the subscriber's context.
LEMMA ReadingKeeps ==
  ASSUME Inductive, NEW w \in Watchers, ReadNext(w) \/ CancelWatch(w)
  PROVE  Inductive'
<1>1. /\ observing \in [Generation -> SUBSET Watchers]
      /\ watch[w] \in Subscriptions /\ Sound(watch[w]) /\ Told(watch[w])
      /\ watch[w].at \in {"reading", "wait"}
      /\ \A h \in Generation : w \in observing[h] => watch[w].entry = h /\ watch[w].sub = "open"
  BY SubscriptionFacts, Zenon DEF ReadNext, CancelWatch, Inductive, Types, Observable
<1>2. ElsewhereSame /\ UNCHANGED <<entry, engine>>
  BY Zenon DEF ReadNext, CancelWatch
<1>3. CASE ReadNext(w) /\ watch[w].buffered > 0
  <2> DEFINE n == watch[w].buffered - 1
             r == [watch[w] EXCEPT !.buffered = n]
  <2>1. n \in 0..Buffer
    BY <1>1, <1>3, RegistryAssumption DEF Subscriptions
  <2>2. Move(w, r) /\ watch[w].at = "reading" /\ UNCHANGED observing
    BY <1>3, Zenon DEF ReadNext
  <2> HIDE DEF n
  <2>3. /\ r \in Subscriptions /\ r.sub = watch[w].sub /\ r.bound = watch[w].bound
        /\ r.at = watch[w].at /\ r.entry = watch[w].entry /\ r.known = watch[w].known
    BY <1>1, <2>1, Zenon DEF Subscriptions
  <2> HIDE DEF r
  <2>4. Sound(r) /\ Told(r) /\ r.at # "subscribe"
    BY <1>1, <2>2, <2>3, Zenon DEF Sound, Told
  <2>5. \A h \in Generation : \A v \in observing'[h] :
          IF v = w THEN r.entry = h /\ Observable(r) ELSE v \in observing[h]
    BY <1>1, <2>2, <2>3, Zenon DEF Observable
  <2> QED BY <1>1, <1>2, <2>2, <2>3, <2>4, <2>5, WatchMoves, Zenon
<1>4. CASE ReadNext(w) /\ ~(watch[w].buffered > 0)
  <2> DEFINE r == [watch[w] EXCEPT !.at = "done"]
  <2>1. Move(w, r) /\ watch[w].sub = "closed" /\ UNCHANGED observing
    BY <1>4, Zenon DEF ReadNext
  <2>2. r \in Subscriptions /\ r.sub = watch[w].sub /\ r.at = "done"
    BY <1>1, Zenon DEF Subscriptions, WatchLocations
  <2> HIDE DEF r
  <2>3. Sound(r) /\ Told(r) /\ r.at # "subscribe"
    BY <2>1, <2>2, Zenon DEF Sound, Told, Subscribing
  <2>4. \A h \in Generation : \A v \in observing'[h] : v # w /\ v \in observing[h]
    BY <1>1, <2>1, Zenon
  <2> QED BY <1>1, <1>2, <2>1, <2>2, <2>3, <2>4, WatchMoves, Zenon
<1>5. CASE CancelWatch(w)
  <2> DEFINE c == IF watch[w].sub = "open" THEN "closed" ELSE watch[w].sub
             r == [watch[w] EXCEPT !.at = "done", !.sub = c]
  <2>1. c \in {"none", "closed"}
    BY <1>1, Zenon DEF Subscriptions
  <2>2. Move(w, r)
    BY <1>5, Zenon DEF CancelWatch
  <2> HIDE DEF c
  <2>3. r \in Subscriptions /\ r.sub = c /\ r.at = "done"
    BY <1>1, <2>1, Zenon DEF Subscriptions, WatchLocations
  <2> HIDE DEF r
  <2>4. Sound(r) /\ Told(r) /\ r.at # "subscribe"
    BY <2>1, <2>3, Zenon DEF Sound, Told, Subscribing
  <2>5. /\ observing' \in [Generation -> SUBSET Watchers]
        /\ \A h \in Generation : \A v \in observing'[h] : v # w /\ v \in observing[h]
    <3>1. CASE watch[w].sub = "open"
      <4>1. watch[w].bound /\ watch[w].entry \in Generation
        BY <1>1, <3>1, SubscriptionFacts, Zenon DEF Sound
      <4>2. observing' = [observing EXCEPT ![watch[w].entry] = @ \ {w}]
        BY <1>5, <3>1, <4>1, Zenon DEF CancelWatch, Closing
      <4> QED BY <1>1, <4>1, <4>2, Zenon
    <3>2. CASE watch[w].sub # "open"
      BY <1>1, <1>5, <3>2, Zenon DEF CancelWatch
    <3> QED BY <3>1, <3>2, Zenon
  <2> QED BY <1>2, <2>2, <2>3, <2>4, <2>5, WatchMoves, Zenon
<1> QED BY <1>3, <1>4, <1>5, Zenon

-------------------------------------------------------------------------------
(* The invariant and the theorems *)

LEMMA InitInductive == Init => Inductive
<1> SUFFICES ASSUME Init PROVE Inductive
  BY Zenon
<1>1. /\ NoPublication \in Publications /\ NoPublication.at = "none" /\ NoPublication.entry = 0
      /\ NoWatch \in Subscriptions /\ NoWatch.at = "idle" /\ NoWatch.sub = "none"
      /\ ~NoWatch.bound
  BY RegistryAssumption, NoPublicationOK DEF NoPublication, NoWatch, Subscriptions, WatchLocations
<1> DEFINE e == [life |-> "absent", feedReady |-> FALSE, view |-> 0, activity |-> "idle",
                 publicationMu |-> None, feedMu |-> None, feedClosed |-> FALSE]
           n == [active |-> None, live |-> FALSE, terminal |-> FALSE, steps |-> 0, outputMu |-> None]
<1>2. /\ e \in Entries /\ e.life = "absent" /\ e.view = 0 /\ ~e.feedReady
      /\ n \in Engines
  BY SMTT(30) DEF Entries, Engines, Lives, Activities
<1>3. /\ current = 0 /\ registered = 0 /\ change = 0 /\ version = 0
      /\ entry = [g \in Generation |-> e] /\ engine = [g \in Generation |-> n]
      /\ resource = [g \in Generation |-> "none"] /\ prompts = {} /\ notices = {}
      /\ loc = [p \in Publishers |-> IF p = Owner THEN "closed" ELSE "idle"]
      /\ home = [s \in Steps |-> 0] /\ pub = [p \in Publishers |-> NoPublication]
      /\ watch = [w \in Watchers |-> NoWatch] /\ observing = [g \in Generation |-> {}]
  BY Zenon DEF Init
<1> HIDE DEF e, n
<1>4. Types
  BY <1>1, <1>2, <1>3, RegistryAssumption DEF Types, Locations, StepLocations, OwnerLocations
<1>5. loc[Owner] = "closed" /\ \A s \in Steps : loc[s] = "idle"
  BY <1>3, Sets, Zenon
<1>6. Lifecycle
  BY <1>2, <1>3, <1>5 DEF Lifecycle, Serves, Attached, FeedOver, Generation
<1>7. ActiveSteps /\ Locks /\ Prompts
  BY <1>1, <1>3, <1>5, Zenon DEF ActiveSteps, Claimed, Locks, Prompts
<1>8. Watching /\ ObservationsAreReleased /\ Knowing
  BY <1>1, <1>3, Zenon DEF Watching, Subscribing, ObservationsAreReleased, Knowing, Hydrating,
                    SubscriberKnowsPrompts, ClosedPromptsAreAnnounced
<1> QED BY <1>4, <1>6, <1>7, <1>8, Zenon DEF Inductive

LEMMA StutterInductive == Inductive /\ UNCHANGED registryVars => Inductive'
<1> SUFFICES ASSUME Inductive, UNCHANGED registryVars PROVE Inductive'
  BY Zenon
<1>1. \A h \in Generation : LifeKept(h)
  BY Zenon DEF registryVars, LifeKept
<1>2. Types' /\ Locks'
  BY DEF registryVars, Inductive, Types, Locks
<1> QED BY <1>1, <1>2, MutexFrame, Zenon DEF Inductive, registryVars

LEMMA NextInductive == Inductive /\ [Next]_vars => Inductive'
<1> SUFFICES ASSUME Inductive, [Next]_vars PROVE Inductive'
  BY Zenon
<1>1. CASE \E p \in Publishers : PublicationStep(p)
  BY <1>1, PublicationKeeps, Zenon
<1>2. CASE \E s \in Steps : StepAction(s)
  BY <1>2, StepKeeps, Zenon
<1>3. CASE OwnerAction
  BY <1>3, OwnerKeeps, Zenon
<1>4. CASE \E w \in Watchers : WatchStep(w) \/ ((Watch(w) \/ CancelWatch(w)) /\ Quiet)
  BY <1>4, WatchKeeps, ObserveKeeps, HydrateKeeps, SubscribeFeedKeeps, ReleaseKeeps, ReadingKeeps, Zenon
     DEF WatchStep
<1>5. CASE UNCHANGED registryVars
  BY <1>5, StutterInductive, Zenon
<1>6. UNCHANGED vars => UNCHANGED registryVars
  BY Zenon DEF vars
<1> QED BY <1>1, <1>2, <1>3, <1>4, <1>5, <1>6, Zenon DEF Next

\* The invariant holds in every reachable state.
THEOREM AlwaysInductive == Spec => []Inductive
BY InitInductive, NextInductive, PTL DEF Spec

\* No main view outlives its entry's readiness, whatever publications,
\* drains and prompts interleave (runtime_main_view.go, runtime_registry.go).
THEOREM ViewOnlyWhileReadyHolds == Spec => []ViewOnlyWhileReady
<1>1. Inductive => ViewOnlyWhileReady
  BY Zenon DEF Inductive, Lifecycle, ViewOnlyWhileReady
<1> QED BY <1>1, AlwaysInductive, PTL

\* A retired entry leaves no prompt in the store.
THEOREM RetiredHasNoPromptsHolds == Spec => []RetiredHasNoPrompts
<1>1. Inductive => RetiredHasNoPrompts
  BY Zenon DEF Inductive, Lifecycle, Prompts, Serves, Attached, RetiredHasNoPrompts
<1> QED BY <1>1, AlwaysInductive, PTL

\* What subscribers know of prompts is what the store holds, up to the one
\* announcement that is under way.
THEOREM SubscriberKnowsPromptsHolds == Spec => []SubscriberKnowsPrompts
<1>1. Inductive => SubscriberKnowsPrompts
  BY Zenon DEF Inductive, Knowing
<1> QED BY <1>1, AlwaysInductive, PTL

\* The drain forgets to announce no prompt it has closed.
THEOREM ClosedPromptsAreAnnouncedHolds == Spec => []ClosedPromptsAreAnnounced
<1>1. Inductive => ClosedPromptsAreAnnounced
  BY Zenon DEF Inductive, Knowing
<1> QED BY <1>1, AlwaysInductive, PTL

\* No observation of a resource outlives its subscription.
THEOREM ObservationsAreReleasedHolds == Spec => []ObservationsAreReleased
<1>1. Inductive => ObservationsAreReleased
  BY Zenon DEF Inductive
<1> QED BY <1>1, AlwaysInductive, PTL

\* No publication replaces a main view by an older one.
THEOREM VersionsGrowHolds == Spec => VersionsGrow
<1>1. Inductive /\ [Next]_vars =>
        [\A g \in Generation : entry'[g].view # 0 => entry'[g].view >= entry[g].view]_vars
  BY ViewsGrow, Zenon DEF Inductive
<1> QED BY <1>1, AlwaysInductive, PTL DEF Spec, VersionsGrow
===============================================================================
