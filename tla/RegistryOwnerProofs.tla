------------------------- MODULE RegistryOwnerProofs --------------------------
(*****************************************************************************)
(* The safety of RuntimeRegistry for any number of Steps, subscribers and    *)
(* generations and any buffer: the steps of a publication, and those of the  *)
(* resource's owner from registration to retirement, keep the inductive      *)
(* invariant.  Each part is preserved with the help of the ones above it.    *)
(*****************************************************************************)
EXTENDS RegistryInvariant, TLAPS

-------------------------------------------------------------------------------
(* The sets, and what the updates of records and the feed do to each field *)

LEMMA Sets ==
  /\ Owner \in Publishers /\ \A s \in Steps : s \in Publishers /\ s # Owner
  /\ \A h \in 0..Generations : h # 0 <=> h \in Generation
  /\ Generation \subseteq 0..Generations
  /\ None \notin Publishers /\ None \notin Watchers
BY RegistryAssumption DEF Publishers, Generation

\* What a step leaves alone of an entry: its lifecycle, or its mutexes.
LifeKept(h) == /\ entry'[h].life = entry[h].life
               /\ entry'[h].feedReady = entry[h].feedReady
               /\ entry'[h].feedClosed = entry[h].feedClosed
               /\ entry'[h].view = entry[h].view \/ entry[h].life = "ready"
MutexesKept(h) == /\ entry'[h].publicationMu = entry[h].publicationMu
                  /\ entry'[h].feedMu = entry[h].feedMu

\* Indices that are in use are generations.
LEMMA Indices ==
  ASSUME Inductive
  PROVE  /\ registered # 0 => registered \in Generation
         /\ current # 0 => current \in Generation
         /\ loc[Owner] # "closed" => current \in Generation
         /\ \A p \in Publishers : pub[p].entry # 0 => pub[p].entry \in Generation
         /\ \A w \in Watchers : watch[w].entry # 0 => watch[w].entry \in Generation
         /\ \A s \in Steps : loc[s] \in Claimed => home[s] \in Generation
         /\ \A s \in Steps : loc[s] \in {"asking", "resolving"} => current \in Generation
<1>1. Types /\ Lifecycle /\ Locks /\ ActiveSteps
  BY Zenon DEF Inductive
<1>2. /\ registered # 0 => registered \in Generation
      /\ current # 0 => current \in Generation
      /\ \A p \in Publishers : pub[p].entry # 0 => pub[p].entry \in Generation
      /\ \A w \in Watchers : watch[w].entry # 0 => watch[w].entry \in Generation
  BY <1>1, Sets, Zenon DEF Types, Publications, Subscriptions
<1> QED BY <1>1, <1>2, Zenon DEF Lifecycle, Locks, Attached, ActiveSteps

\* publicationMu is taken or given back.
LEMMA SetPublicationMu ==
  ASSUME Types, NEW g \in Generation, NEW m \in Publishers \cup {None},
         entry' = [entry EXCEPT ![g].publicationMu = m]
  PROVE  /\ entry' \in [Generation -> Entries]
         /\ \A h \in Generation :
              /\ LifeKept(h) /\ entry'[h].feedMu = entry[h].feedMu
              /\ entry'[h].publicationMu = IF h = g THEN m ELSE entry[h].publicationMu
<1>1. entry \in [Generation -> Entries]
  BY Zenon DEF Types
<1>2. entry' \in [Generation -> Entries]
  BY <1>1 DEF Entries
<1>3. QED BY <1>1, <1>2, Zenon DEF Entries, LifeKept

\* The feed's mutex is taken or given back.
LEMMA SetFeedMu ==
  ASSUME Types, NEW g \in Generation, NEW m \in Watchers \cup {None},
         entry' = [entry EXCEPT ![g].feedMu = m]
  PROVE  /\ entry' \in [Generation -> Entries]
         /\ \A h \in Generation :
              /\ LifeKept(h) /\ entry'[h].publicationMu = entry[h].publicationMu
              /\ entry'[h].feedMu = IF h = g THEN m ELSE entry[h].feedMu
<1>1. entry \in [Generation -> Entries]
  BY Zenon DEF Types
<1>2. entry' \in [Generation -> Entries]
  BY <1>1 DEF Entries
<1>3. QED BY <1>1, <1>2, Zenon DEF Entries, LifeKept

\* A publication record is replaced.
LEMMA SetPublication ==
  ASSUME Types, NEW p \in Publishers, NEW r \in Publications, pub' = [pub EXCEPT ![p] = r]
  PROVE  /\ pub' \in [Publishers -> Publications]
         /\ \A q \in Publishers : pub'[q] = IF q = p THEN r ELSE pub[q]
BY Zenon DEF Types

\* A subscription record is replaced.
LEMMA SetSubscription ==
  ASSUME Types, NEW w \in Watchers, NEW r \in Subscriptions, Move(w, r)
  PROVE  /\ watch' \in [Watchers -> Subscriptions]
         /\ \A v \in Watchers : watch'[v] = IF v = w THEN r ELSE watch[v]
BY Zenon DEF Types, Move

\* A Step, or the Owner, goes on.
LEMMA SetLocation ==
  ASSUME Types, NEW p \in Publishers, NEW l \in Locations, Goto(p, l)
  PROVE  /\ loc' \in [Publishers -> Locations]
         /\ \A q \in Publishers : loc'[q] = IF q = p THEN l ELSE loc[q]
BY Zenon DEF Types, Goto

LEMMA NoPublicationOK ==
  /\ NoPublication \in Publications /\ NoPublication.at = "none"
  /\ [NoPublication EXCEPT !.at = "engine"] \in Publications
  /\ [NoPublication EXCEPT !.at = "engine"].at = "engine"
BY RegistryAssumption DEF NoPublication, Publications, PublicationSteps, Lives, Activities

\* What a subscriber of feed g knows after a publication that adds a, removes b.
Learnt(w, g, a, b) ==
  watch'[w].known = IF watch[w].entry = g THEN (watch[w].known \cup a) \ b ELSE watch[w].known

\* sessionFeedSequencer.Publish, subscriber by subscriber.
LEMMA FeedPublishEffect ==
  ASSUME Types, NEW g \in Generation, NEW a \in SUBSET Steps, NEW b, FeedPublish(g, a, b)
  PROVE  /\ watch' \in [Watchers -> Subscriptions] /\ observing' \in [Generation -> SUBSET Watchers]
         /\ entry[g].feedMu = None
         /\ \A w \in Watchers :
              /\ watch'[w].at = watch[w].at /\ watch'[w].entry = watch[w].entry
              /\ watch'[w].step = watch[w].step /\ watch'[w].bound = watch[w].bound
              /\ watch[w].sub = "open" /\ watch[w].entry = g =>
                   watch'[w].sub \in {"open", "closed"}
              /\ watch'[w].sub = "open" => watch[w].sub = "open" /\ Learnt(w, g, a, b)
              /\ ~(watch[w].sub = "open" /\ watch[w].entry = g) => watch'[w] = watch[w]
         /\ \A h \in Generation : \A w \in observing'[h] :
              /\ w \in observing[h]
              /\ h = g /\ watch[w].bound /\ watch[w].entry = g => watch'[w].sub = watch[w].sub
<1>1. /\ watch \in [Watchers -> Subscriptions] /\ observing \in [Generation -> SUBSET Watchers]
      /\ Buffer \in Nat \ {0}
  BY RegistryAssumption, Zenon DEF Types
<1> DEFINE overflown == {w \in Subscribed(g) : watch[w].buffered = Buffer}
<1>2. /\ watch' = [w \in Watchers |->
           IF w \in overflown THEN [watch[w] EXCEPT !.sub = "closed"]
           ELSE IF w \in Subscribed(g)
           THEN [watch[w] EXCEPT !.buffered = @ + 1, !.known = (@ \cup a) \ b]
           ELSE watch[w]]
      /\ observing' = [observing EXCEPT ![g] = @ \ {w \in overflown : watch[w].bound}]
  BY Zenon DEF FeedPublish, Closing
<1>3. ASSUME NEW w \in Watchers
      PROVE  /\ [watch[w] EXCEPT !.sub = "closed"] \in Subscriptions
             /\ watch[w].buffered # Buffer =>
                  [watch[w] EXCEPT !.buffered = @ + 1, !.known = (@ \cup a) \ b] \in Subscriptions
  <2>1. watch[w] \in Subscriptions
    BY <1>1, Zenon
  <2>2. [watch[w] EXCEPT !.sub = "closed"] \in Subscriptions
    BY <2>1, Zenon DEF Subscriptions
  <2>3. /\ watch[w].buffered \in 0..Buffer /\ watch[w].known \in SUBSET Steps
        /\ (watch[w].known \cup a) \ b \in SUBSET Steps
    BY <2>1, Zenon DEF Subscriptions
  <2>4. watch[w].buffered # Buffer => watch[w].buffered + 1 \in 0..Buffer
    BY <2>3, <1>1
  <2>5. ASSUME NEW n \in 0..Buffer, NEW k \in SUBSET Steps
        PROVE  [watch[w] EXCEPT !.buffered = n, !.known = k] \in Subscriptions
    BY <2>1, Zenon DEF Subscriptions
  <2> QED BY <2>2, <2>3, <2>4, <2>5, Zenon
<1>4. ASSUME NEW w \in Watchers
      PROVE  /\ w \in overflown => watch'[w] = [watch[w] EXCEPT !.sub = "closed"]
             /\ w \in Subscribed(g) \ overflown =>
                  watch'[w] = [watch[w] EXCEPT !.buffered = @ + 1, !.known = (@ \cup a) \ b]
             /\ w \notin Subscribed(g) => watch'[w] = watch[w]
  BY <1>2, Zenon
<1>5. watch' \in [Watchers -> Subscriptions]
  BY <1>1, <1>2, <1>3, ZenonT(40) DEF Subscribed
<1>6. ASSUME NEW w \in Watchers
      PROVE  /\ watch'[w].at = watch[w].at /\ watch'[w].entry = watch[w].entry
             /\ watch'[w].step = watch[w].step /\ watch'[w].bound = watch[w].bound
             /\ w \in overflown => watch'[w].sub = "closed"
             /\ w \in Subscribed(g) \ overflown =>
                  watch'[w].sub = watch[w].sub /\ watch'[w].known = (watch[w].known \cup a) \ b
  <2>1. watch[w] \in Subscriptions
    BY <1>1, Zenon
  <2>2. overflown \subseteq Subscribed(g)
    BY Zenon
  <2> HIDE DEF overflown
  <2>3. CASE w \in overflown
    <3>1. watch'[w] = [watch[w] EXCEPT !.sub = "closed"]
      BY <1>4, <2>3, Zenon
    <3> QED BY <2>1, <2>3, <3>1, Zenon DEF Subscriptions
  <2>4. CASE w \in Subscribed(g) \ overflown
    <3>1. watch'[w] = [watch[w] EXCEPT !.buffered = @ + 1, !.known = (@ \cup a) \ b]
      BY <1>4, <2>4, Zenon
    <3> QED BY <2>1, <2>4, <3>1, Zenon DEF Subscriptions
  <2>5. CASE w \notin Subscribed(g)
    <3>1. watch'[w] = watch[w]
      BY <1>4, <2>5, Zenon
    <3> QED BY <2>2, <2>5, <3>1, Zenon
  <2> QED BY <2>3, <2>4, <2>5, Zenon
<1>7. observing' \in [Generation -> SUBSET Watchers]
  BY <1>1, <1>2, Zenon
<1>8. ASSUME NEW h \in Generation, NEW w \in observing'[h]
      PROVE  /\ w \in observing[h]
             /\ h = g /\ watch[w].bound /\ watch[w].entry = g => watch'[w].sub = watch[w].sub
  <2>1. w \in Watchers /\ w \in observing[h]
    BY <1>1, <1>2, <1>7, Zenon
  <2>2. h = g /\ watch[w].bound => w \notin overflown
    BY <1>1, <1>2, Zenon
  <2> QED BY <2>1, <2>2, <1>4, <1>6, Zenon
<1>9. entry[g].feedMu = None
  BY Zenon DEF FeedPublish
<1>10. ASSUME NEW w \in Watchers
       PROVE  /\ watch[w].sub = "open" /\ watch[w].entry = g <=> w \in Subscribed(g)
              /\ overflown \subseteq Subscribed(g)
  BY Zenon DEF Subscribed
<1> HIDE DEF overflown
<1>11. ASSUME NEW w \in Watchers
       PROVE  /\ watch[w].sub = "open" /\ watch[w].entry = g => watch'[w].sub \in {"open", "closed"}
              /\ watch'[w].sub = "open" => watch[w].sub = "open" /\ Learnt(w, g, a, b)
              /\ ~(watch[w].sub = "open" /\ watch[w].entry = g) => watch'[w] = watch[w]
  BY <1>4, <1>6, <1>10, Zenon DEF Learnt
<1> QED BY <1>5, <1>6, <1>7, <1>8, <1>9, <1>11

USE DEF feedVars, stepVars

-------------------------------------------------------------------------------
(* Publications *)

\* An open subscription is one of the current resource's feed.
LEMMA OpenIsCurrent ==
  ASSUME Inductive, NEW w \in Watchers, watch[w].sub = "open"
  PROVE  watch[w].entry = current /\ current \in Generation
<1>1. Types /\ Lifecycle /\ Watching
  BY Zenon DEF Inductive
<1>2. current \in 0..Generations
  BY <1>1, Zenon DEF Types
<1>3. /\ watch[w].entry \in Generation /\ ~entry[watch[w].entry].feedClosed
      /\ entry[watch[w].entry].life # "absent"
  BY <1>1, Indices, Zenon DEF Watching
<1> QED BY <1>1, <1>2, <1>3 DEF Lifecycle, Generation

\* The invariant, Types and Locks apart, where at most mutexes of entries change.
LEMMA MutexFrame ==
  ASSUME Inductive, \A h \in Generation : LifeKept(h),
         UNCHANGED <<current, registered, engine, prompts, notices, loc, home, watch, observing>>
  PROVE  /\ Lifecycle' /\ ActiveSteps' /\ Prompts' /\ Watching'
         /\ ObservationsAreReleased' /\ Knowing'
<1>1. Types /\ Lifecycle /\ Watching
  BY Zenon DEF Inductive
<1>2. Lifecycle'
  BY <1>1, Indices DEF Lifecycle, LifeKept, Serves, Attached
<1>3. ActiveSteps' /\ Prompts'
  BY Zenon DEF Inductive, ActiveSteps, Prompts
<1>4. Watching'
  BY <1>1, Indices DEF Watching, LifeKept
<1>5. ObservationsAreReleased'
  BY Zenon DEF Inductive, ObservationsAreReleased
<1>7. Hydrating'
  BY <1>1, Indices DEF Inductive, Knowing, Hydrating, LifeKept, Locks
<1>8. SubscriberKnowsPrompts'
  BY <1>1, Indices DEF Inductive, Knowing, SubscriberKnowsPrompts, LifeKept, Watching
<1>9. ClosedPromptsAreAnnounced'
  BY <1>1, Indices, Zenon DEF Inductive, Knowing, ClosedPromptsAreAnnounced, LifeKept, Watching
<1> QED BY <1>2, <1>3, <1>4, <1>5, <1>7, <1>8, <1>9, Zenon DEF Knowing

\* A step of a publication that holds no mutex before or after.
LEMMA PublicationMoves ==
  ASSUME Inductive, NEW p \in Publishers, NEW r \in Publications,
         pub[p].at # "none", r.at \notin {"feed", "aggregate", "record"},
         r.at = "lock" => r.entry # 0,
         pub' = [pub EXCEPT ![p] = r], version' \in Nat,
         UNCHANGED <<current, resource, registered, change, entry, engine, prompts, notices,
                     loc, home, feedVars>>
  PROVE  Inductive'
<1>1. Types /\ Locks
  BY Zenon DEF Inductive
<1>2. /\ pub' \in [Publishers -> Publications]
      /\ \A q \in Publishers : pub'[q] = IF q = p THEN r ELSE pub[q]
  BY <1>1, SetPublication, Zenon
<1>3. Types'
  BY <1>1, <1>2, Zenon DEF Types
<1>4. Locks'
  BY <1>1, <1>2, Sets DEF Locks
<1>5. \A h \in Generation : LifeKept(h)
  BY Zenon DEF LifeKept
<1> QED BY <1>3, <1>4, <1>5, MutexFrame, Zenon DEF Inductive

\* The end of a publication that holds publicationMu.
LEMMA PublicationEnds ==
  ASSUME Inductive, NEW p \in Publishers, pub[p].at \in {"aggregate", "record"},
         Published(p), Unlock(p),
         UNCHANGED <<current, resource, registered, change, engine, prompts, notices, version,
                     loc, home, feedVars>>
  PROVE  Inductive'
<1>1. Types /\ Lifecycle /\ Locks /\ Watching /\ Prompts /\ Knowing
  BY Zenon DEF Inductive
<1>2. /\ pub' \in [Publishers -> Publications]
      /\ \A q \in Publishers : pub'[q] = IF q = p THEN NoPublication ELSE pub[q]
  BY <1>1, SetPublication, NoPublicationOK, Zenon DEF Published, Publish
<1> DEFINE g == pub[p].entry
<1>3. g \in Generation
  BY <1>1, Sets, Zenon DEF Locks, Types, Publications
<1>4. /\ entry' \in [Generation -> Entries]
      /\ \A h \in Generation :
           /\ LifeKept(h) /\ entry'[h].feedMu = entry[h].feedMu
           /\ entry'[h].publicationMu = IF h = g THEN None ELSE entry[h].publicationMu
  BY <1>1, <1>3, SetPublicationMu, ZenonT(40) DEF Unlock
<1>5. Types'
  BY <1>1, <1>2, <1>4, Zenon DEF Types
<1>6. Locks'
  <2>1. entry[g].publicationMu = p
    BY <1>1, Zenon DEF Locks
  <2> QED BY <1>1, <1>2, <1>3, <1>4, <2>1, Indices, NoPublicationOK, Sets DEF Locks
<1>7. /\ Lifecycle' /\ ActiveSteps' /\ Prompts' /\ Watching'
      /\ ObservationsAreReleased' /\ Knowing'
  BY <1>4, MutexFrame, Zenon
<1> QED BY <1>5, <1>6, <1>7, Zenon DEF Inductive

\* The feed publishes: subscriptions stay well formed, and one that overflows
\* gives its observation back.
LEMMA FeedPublishKeeps ==
  ASSUME Inductive, NEW g \in Generation, NEW a \in SUBSET Steps, NEW b, FeedPublish(g, a, b),
         \A h \in Generation : LifeKept(h)
  PROVE  Watching' /\ ObservationsAreReleased'
<1>1. Types /\ Watching /\ ObservationsAreReleased
  BY Zenon DEF Inductive
<1>0. /\ observing' \in [Generation -> SUBSET Watchers]
      /\ \A w \in Watchers :
           /\ watch'[w].at = watch[w].at /\ watch'[w].entry = watch[w].entry
           /\ watch'[w].bound = watch[w].bound
           /\ watch[w].sub = "open" /\ watch[w].entry = g => watch'[w].sub \in {"open", "closed"}
           /\ ~(watch[w].sub = "open" /\ watch[w].entry = g) => watch'[w] = watch[w]
      /\ \A h \in Generation : \A w \in observing'[h] :
           /\ w \in observing[h]
           /\ h = g /\ watch[w].bound /\ watch[w].entry = g => watch'[w].sub = watch[w].sub
  BY <1>1, FeedPublishEffect, Zenon
<1>2. Watching'
  BY <1>0, <1>1, Indices DEF Watching, LifeKept
<1>3. ASSUME NEW h \in Generation, NEW w \in observing'[h]
      PROVE  /\ watch'[w].entry = h
             /\ watch'[w].at \in {"hydrate", "subscribe", "failed", "bind"} \/ watch'[w].sub = "open"
  <2>1. w \in observing[h] /\ w \in Watchers
    BY <1>0, Zenon
  <2>2. /\ watch[w].entry = h
        /\ watch[w].at \in {"hydrate", "subscribe", "failed", "bind"} \/ watch[w].sub = "open"
    BY <1>1, <2>1, Zenon DEF ObservationsAreReleased
  <2>3. /\ watch'[w].entry = watch[w].entry /\ watch'[w].at = watch[w].at
        /\ h = g /\ watch[w].bound /\ watch[w].entry = g => watch'[w].sub = watch[w].sub
        /\ ~(watch[w].sub = "open" /\ watch[w].entry = g) => watch'[w] = watch[w]
    BY <1>0, <2>1, Zenon
  <2>4. watch[w].sub = "open" => watch[w].at = "bind" \/ watch[w].bound
    BY <1>1, <2>1, Zenon DEF Watching
  <2> QED BY <2>2, <2>3, <2>4, Zenon
<1> QED BY <1>2, <1>3, Zenon DEF ObservationsAreReleased

\* The steps of a publication up to the mutex.
LEMMA ReadsKeep ==
  ASSUME Inductive, NEW p \in Publishers,
         \/ ReadEngine(p) \/ ReadRegistry(p) \/ ReadActive(p) \/ ReadLive(p)
         \/ TakeVersion(p) \/ Lookup(p)
  PROVE  Inductive'
<1>1. /\ Types /\ pub[p] \in Publications /\ version \in Nat
      /\ registered \in 0..Generations
      /\ registered # 0 => entry[registered].life \in Lives
  <2>1. Types /\ (registered # 0 => registered \in Generation)
    BY Indices, Zenon DEF Inductive
  <2> QED BY <2>1, Zenon DEF Types, Entries
<1>2. CASE ReadEngine(p)
  <2> DEFINE r == [pub[p] EXCEPT !.at = "registry", !.engine = registered]
  <2>1. r \in Publications /\ r.at = "registry"
    BY <1>1, Zenon DEF Publications, PublicationSteps
  <2>2. pub' = [pub EXCEPT ![p] = r] /\ pub[p].at = "engine"
    BY <1>2, Zenon DEF ReadEngine, Publish, Publishing
  <2> HIDE DEF r
  <2> QED BY <1>1, <1>2, <2>1, <2>2, PublicationMoves, Zenon DEF ReadEngine
<1>3. CASE ReadRegistry(p)
  <2> DEFINE l == IF registered = 0 THEN "absent" ELSE entry[registered].life
             r == [pub[p] EXCEPT !.at = "active", !.life = l]
  <2>1. l \in Lives
    BY <1>1, Zenon DEF Lives
  <2>2. pub' = [pub EXCEPT ![p] = r] /\ pub[p].at = "registry"
    BY <1>3, Zenon DEF ReadRegistry, Publish, Publishing
  <2> HIDE DEF l
  <2>3. r \in Publications /\ r.at = "active"
    BY <1>1, <2>1, Zenon DEF Publications, PublicationSteps
  <2> HIDE DEF r
  <2> QED BY <1>1, <1>3, <2>2, <2>3, PublicationMoves, Zenon DEF ReadRegistry
<1>4. CASE ReadActive(p)
  <2> DEFINE a == CASE pub[p].life \in {"absent", "retired"} -> "unavailable"
                    [] pub[p].life = "draining" -> "draining"
                    [] OTHER -> IF Runs(pub[p].engine) THEN "running" ELSE "idle"
             l == IF a = "idle" THEN "live" ELSE "version"
             r == [pub[p] EXCEPT !.at = l, !.activity = a]
  <2>1. a \in Activities
    BY Zenon DEF Activities
  <2>2. pub' = [pub EXCEPT ![p] = r] /\ pub[p].at = "active"
    BY <1>4, Zenon DEF ReadActive, Publish, Publishing
  <2> HIDE DEF a
  <2>3. r \in Publications /\ r.at \in {"live", "version"}
    BY <1>1, <2>1, Zenon DEF Publications, PublicationSteps
  <2> HIDE DEF r
  <2> QED BY <1>1, <1>4, <2>2, <2>3, PublicationMoves, Zenon DEF ReadActive
<1>5. CASE ReadLive(p)
  <2> DEFINE a == IF pub[p].engine # 0 /\ engine[pub[p].engine].live THEN "draining" ELSE "idle"
             r == [pub[p] EXCEPT !.at = "version", !.activity = a]
  <2>1. a \in Activities
    BY Zenon DEF Activities
  <2>2. pub' = [pub EXCEPT ![p] = r] /\ pub[p].at = "live"
    BY <1>5, Zenon DEF ReadLive, Publish, Publishing
  <2> HIDE DEF a
  <2>3. r \in Publications /\ r.at = "version"
    BY <1>1, <2>1, Zenon DEF Publications, PublicationSteps
  <2> HIDE DEF r
  <2> QED BY <1>1, <1>5, <2>2, <2>3, PublicationMoves, Zenon DEF ReadLive
<1>6. CASE TakeVersion(p)
  <2> DEFINE a == IF pub[p].activity = "unavailable" /\ loc[p] \in {"began", "ended"}
                  THEN "idle" ELSE pub[p].activity
             r == [pub[p] EXCEPT !.at = "lookup", !.version = version + 1, !.activity = a]
  <2>1. a \in Activities /\ version + 1 \in Nat
    BY <1>1 DEF Activities, Publications
  <2>2. pub' = [pub EXCEPT ![p] = r] /\ pub[p].at = "version" /\ version' = version + 1
    BY <1>6, Zenon DEF TakeVersion, Publish, Publishing
  <2> HIDE DEF a
  <2>3. r \in Publications /\ r.at = "lookup"
    BY <1>1, <2>1, Zenon DEF Publications, PublicationSteps
  <2> HIDE DEF r
  <2> QED BY <2>1, <1>6, <2>2, <2>3, PublicationMoves, Zenon DEF TakeVersion
<1>7. CASE Lookup(p)
  <2> DEFINE r == [pub[p] EXCEPT !.at = "lock", !.entry = registered]
  <2>1. r \in Publications /\ r.at = "lock" /\ r.entry = registered
    BY <1>1, Zenon DEF Publications, PublicationSteps
  <2>2. pub[p].at = "lookup"
    BY <1>7, Zenon DEF Lookup, Publishing
  <2>3. pub' = [pub EXCEPT ![p] = NoPublication] \/ (registered # 0 /\ pub' = [pub EXCEPT ![p] = r])
    BY <1>7, Zenon DEF Lookup, Publish, Published
  <2> HIDE DEF r
  <2> QED BY <1>1, <1>7, <2>1, <2>2, <2>3, NoPublicationOK, PublicationMoves, Zenon DEF Lookup
<1> QED BY <1>2, <1>3, <1>4, <1>5, <1>6, <1>7, Zenon

\* publicationMu is taken and the main view stored, or an older version dropped.
LEMMA LockAndStoreKeeps ==
  ASSUME Inductive, NEW p \in Publishers, LockAndStore(p)
  PROVE  Inductive'
<1> DEFINE g == pub[p].entry
           V == IF entry[g].life = "ready" THEN pub[p].version ELSE entry[g].view
           A == IF entry[g].life = "ready" THEN pub[p].activity ELSE entry[g].activity
           r == [pub[p] EXCEPT !.at = "feed"]
<1>1. /\ Types /\ Locks /\ pub[p].at = "lock" /\ g \in Generation
      /\ entry[g].publicationMu = None
  BY Indices, Zenon DEF Inductive, LockAndStore, Publishing, Locks
<1>2. /\ pub[p] \in Publications /\ version \in Nat
      /\ entry \in [Generation -> Entries] /\ entry[g] \in Entries
  BY <1>1, Zenon DEF Types
<1>3. CASE Published(p) /\ UNCHANGED entry
  BY <1>1, <1>2, <1>3, PublicationMoves, NoPublicationOK, Zenon DEF LockAndStore, Published, Publish
<1>4. CASE /\ entry' = [entry EXCEPT ![g].publicationMu = p, ![g].view = V, ![g].activity = A]
           /\ pub' = [pub EXCEPT ![p] = r]
  <2>1. V \in Nat /\ A \in Activities
    BY <1>2, Zenon DEF Publications, Entries
  <2>2. V = entry[g].view \/ entry[g].life = "ready"
    BY Zenon
  <2> HIDE DEF V, A
  <2>3. entry' \in [Generation -> Entries]
    BY <1>1, <1>2, <1>4, <2>1, Zenon DEF Entries
  <2>4. \A h \in Generation :
          /\ LifeKept(h) /\ entry'[h].feedMu = entry[h].feedMu
          /\ entry'[h].publicationMu = IF h = g THEN p ELSE entry[h].publicationMu
    BY <1>1, <1>2, <1>4, <2>1, <2>2, Zenon DEF Entries, LifeKept
  <2>5. r \in Publications /\ r.at = "feed" /\ r.entry = g
    BY <1>2, Zenon DEF Publications, PublicationSteps
  <2> HIDE DEF r
  <2>6. /\ pub' \in [Publishers -> Publications]
        /\ \A q \in Publishers : pub'[q] = IF q = p THEN r ELSE pub[q]
    BY <1>1, <1>4, <2>5, SetPublication, Zenon
  <2>7. UNCHANGED <<current, resource, registered, change, engine, prompts, notices, version,
                    loc, home, watch, observing>>
    BY Zenon DEF LockAndStore
  <2>8. Types'
    BY <1>1, <2>3, <2>6, <2>7, Zenon DEF Types
  <2>9. Locks'
    <3>1. \A q \in Publishers : q # p /\ pub[q].at \in {"feed", "aggregate", "record"} =>
            pub[q].entry # g
      BY <1>1, Sets DEF Locks
    <3>2. \A s \in Steps : loc[s] \in {"asking", "resolving"} =>
            current # g /\ s # p
      BY <1>1, Sets DEF Locks
    <3>3. ASSUME NEW q \in Publishers
          PROVE  /\ pub'[q].at \in {"lock", "feed", "aggregate", "record"} => pub'[q].entry # 0
                 /\ pub'[q].at \in {"feed", "aggregate", "record"} =>
                      entry'[pub'[q].entry].publicationMu = q
      <4>1. CASE q = p
        BY <1>1, <2>4, <2>5, <2>6, <4>1 DEF Locks
      <4>2. CASE q # p
        BY <1>1, <2>4, <2>6, <3>1, <4>2, Indices DEF Locks
      <4> QED BY <4>1, <4>2, Zenon
    <3>4. ASSUME NEW s \in Steps, loc'[s] \in {"asking", "resolving"}
          PROVE  /\ pub'[s].at = "none" /\ home'[s] = current' /\ loc'[Owner] \in Attached
                 /\ entry'[current'].publicationMu = s
      <4>1. /\ current \in Generation /\ current # g /\ s # p /\ s \in Publishers
            /\ pub[s].at = "none" /\ home[s] = current /\ loc[Owner] \in Attached
            /\ entry[current].publicationMu = s
        BY <1>1, <2>7, <3>2, <3>4, Indices, Sets, Zenon DEF Locks
      <4> QED BY <2>4, <2>6, <2>7, <4>1, Zenon
    <3>5. ASSUME NEW w \in Watchers, watch'[w].at = "subscribe"
          PROVE  watch'[w].entry # 0 /\ entry'[watch'[w].entry].feedMu = w
      BY <1>1, <2>4, <2>7, <3>5, Indices DEF Locks
    <3> QED BY <3>3, <3>4, <3>5, Zenon DEF Locks
  <2>10. /\ Lifecycle' /\ ActiveSteps' /\ Prompts' /\ Watching'
         /\ ObservationsAreReleased' /\ Knowing'
    BY <2>4, <2>7, MutexFrame, Zenon
  <2> QED BY <2>8, <2>9, <2>10, Zenon DEF Inductive
<1> QED BY <1>3, <1>4, Zenon DEF LockAndStore, Publish

\* The update goes to the feed; nobody learns of prompts from it.
LEMMA PublishUpdateKeeps ==
  ASSUME Inductive, NEW p \in Publishers, PublishUpdate(p)
  PROVE  Inductive'
<1> DEFINE r == [pub[p] EXCEPT !.at = "aggregate"]
<1>0. PICK g \in Generation : g = pub[p].entry
  BY Indices, Zenon DEF Inductive, PublishUpdate, Publishing, Locks
<1>1. /\ Types /\ Lifecycle /\ Locks /\ Prompts /\ Watching /\ Knowing
      /\ pub[p].at = "feed" /\ pub[p] \in Publications
      /\ FeedPublish(g, {}, {})
      /\ pub' = [pub EXCEPT ![p] = r]
      /\ UNCHANGED <<current, resource, registered, change, entry, engine, prompts, notices,
                     version, loc, home>>
  BY <1>0, Zenon DEF Inductive, PublishUpdate, Publishing, Publish, Types, FeedPublish, Closing, Subscribed
<1>2. r \in Publications /\ r.at = "aggregate" /\ r.entry = g
  BY <1>0, <1>1, Zenon DEF Publications, PublicationSteps
<1> HIDE DEF r
<1>3. /\ pub' \in [Publishers -> Publications]
      /\ \A q \in Publishers : pub'[q] = IF q = p THEN r ELSE pub[q]
  BY <1>1, <1>2, SetPublication, Zenon
<1>4. /\ watch' \in [Watchers -> Subscriptions] /\ observing' \in [Generation -> SUBSET Watchers]
      /\ \A w \in Watchers :
           /\ watch'[w].at = watch[w].at /\ watch'[w].entry = watch[w].entry
           /\ watch'[w].step = watch[w].step
           /\ watch'[w].sub = "open" =>
                watch[w].sub = "open" /\ Learnt(w, g, {}, {})
  BY <1>1, FeedPublishEffect, Zenon
<1>5. \A h \in Generation : LifeKept(h)
  BY <1>1, Zenon DEF LifeKept
<1>6. Types'
  BY <1>1, <1>3, <1>4, ZenonT(40) DEF Types
<1>7. Locks'
  <2>1. \A q \in Publishers :
          /\ pub'[q].at \in {"lock", "feed", "aggregate", "record"} => pub'[q].entry # 0
          /\ pub'[q].at \in {"feed", "aggregate", "record"} =>
               entry'[pub'[q].entry].publicationMu = q
    BY <1>0, <1>1, <1>2, <1>3 DEF Locks
  <2>2. \A s \in Steps : loc[s] \in {"asking", "resolving"} => pub'[s].at = "none"
    BY <1>1, <1>2, <1>3, Sets, Zenon DEF Locks
  <2> QED BY <1>0, <1>1, <1>4, <2>1, <2>2 DEF Locks
<1>8. Lifecycle' /\ ActiveSteps' /\ Prompts'
  BY <1>1, Zenon DEF Inductive, Lifecycle, ActiveSteps, Prompts
<1>9. Watching' /\ ObservationsAreReleased'
  BY <1>1, <1>5, FeedPublishKeeps, Zenon
<1>10. \A w \in Watchers : watch'[w].sub = "open" => watch'[w].known = watch[w].known
  BY <1>1, <1>4 DEF Learnt, Types, Subscriptions
<1>11. Knowing'
  BY <1>1, <1>4, <1>10, SMTT(30) DEF Knowing, Hydrating, SubscriberKnowsPrompts, ClosedPromptsAreAnnounced
<1> QED BY <1>6, <1>7, <1>8, <1>9, <1>11, Zenon DEF Inductive

\* Every step of a publication keeps the invariant.
LEMMA PublicationKeeps ==
  ASSUME Inductive, NEW p \in Publishers, PublicationStep(p)
  PROVE  Inductive'
<1>1. CASE \/ ReadEngine(p) \/ ReadRegistry(p) \/ ReadActive(p) \/ ReadLive(p)
           \/ TakeVersion(p) \/ Lookup(p)
  BY <1>1, ReadsKeep, Zenon
<1>2. CASE LockAndStore(p)
  BY <1>2, LockAndStoreKeeps, Zenon
<1>3. CASE PublishUpdate(p)
  BY <1>3, PublishUpdateKeeps, Zenon
<1>4. CASE ReadLifecycle(p)
  <2>1. CASE Published(p) /\ Unlock(p)
    BY <1>4, <2>1, PublicationEnds, Zenon DEF ReadLifecycle, Publishing
  <2>2. CASE Publish(p, [pub[p] EXCEPT !.at = "record"]) /\ UNCHANGED entry
    <3> DEFINE r == [pub[p] EXCEPT !.at = "record"]
    <3>1. /\ Types /\ Locks /\ pub[p] \in Publications /\ pub[p].at = "aggregate"
          /\ pub' = [pub EXCEPT ![p] = r]
          /\ UNCHANGED <<current, resource, registered, change, entry, engine, prompts, notices,
                         version, loc, home, watch, observing>>
      BY <1>4, <2>2, Zenon DEF Inductive, ReadLifecycle, Publishing, Publish, Types
    <3>2. r \in Publications /\ r.at = "record" /\ r.entry = pub[p].entry
      BY <3>1, Zenon DEF Publications, PublicationSteps
    <3> HIDE DEF r
    <3>3. /\ pub' \in [Publishers -> Publications]
          /\ \A q \in Publishers : pub'[q] = IF q = p THEN r ELSE pub[q]
      BY <3>1, <3>2, SetPublication, Zenon
    <3>4. Types' /\ Locks'
      BY <3>1, <3>2, <3>3, Sets, SMTT(30) DEF Types, Locks
    <3>5. \A h \in Generation : LifeKept(h)
      BY <3>1, Zenon DEF LifeKept
    <3> QED BY <3>1, <3>4, <3>5, MutexFrame, Zenon DEF Inductive
  <2> QED BY <1>4, <2>1, <2>2, Zenon DEF ReadLifecycle
<1>5. CASE Record(p)
  BY <1>5, PublicationEnds, Zenon DEF Record, Publishing
<1> QED BY <1>1, <1>2, <1>3, <1>4, <1>5, Zenon DEF PublicationStep

-------------------------------------------------------------------------------
(* The owner *)

\* The owner goes on, and the entries, the store and the feed stay as they are.
LEMMA OwnerMoves ==
  ASSUME Inductive, NEW l \in Locations, Goto(Owner, l), pub[Owner].at = "none",
         \/ {loc[Owner], l} \subseteq Attached
         \/ loc[Owner] = "notices" /\ l = "retire" /\ notices = {}
         \/ {loc[Owner], l} \subseteq FeedOver /\ loc[Owner] # "closed",
         UNCHANGED pub \/ StartPublication(Owner),
         registered' = registered \/ (registered' = 0 /\ loc[Owner] = "delete"),
         change' \in Nat, resource' \in [Generation -> {"none", "ready", "draining", "closed"}],
         UNCHANGED <<current, entry, engine, prompts, notices, version, home, feedVars>>
  PROVE  Inductive'
<1>1. /\ Types /\ Lifecycle /\ ActiveSteps /\ Locks /\ Prompts /\ Watching
      /\ ObservationsAreReleased /\ Knowing
  BY Zenon DEF Inductive
<1>2. /\ loc' \in [Publishers -> Locations] /\ loc'[Owner] = l
      /\ \A q \in Steps : loc'[q] = loc[q]
  BY <1>1, SetLocation, Sets, Zenon
<1>3. /\ pub' \in [Publishers -> Publications]
      /\ pub'[Owner].at \in {"none", "engine"}
      /\ \A q \in Publishers : q # Owner => pub'[q] = pub[q]
  BY <1>1, SetPublication, NoPublicationOK, Sets, ZenonT(40) DEF StartPublication, Types
<1>4. Types'
  <2>1. registered' \in 0..Generations
    BY <1>1, RegistryAssumption DEF Types
  <2> QED BY <1>1, <1>2, <1>3, <2>1, Zenon DEF Types
<1>5. Lifecycle'
  BY <1>1, <1>2, Zenon DEF Lifecycle, Attached, Serves, FeedOver
<1>6. ActiveSteps'
  BY <1>1, <1>2, Zenon DEF ActiveSteps
<1>7. Locks'
  BY <1>1, <1>2, <1>3, Sets DEF Locks, Attached, FeedOver
<1>8. Prompts'
  BY <1>1, <1>2, Zenon DEF Prompts, Types, Attached, FeedOver
<1>9. Watching' /\ ObservationsAreReleased'
  BY <1>1, ZenonT(40) DEF Watching, ObservationsAreReleased
<1>10. Knowing'
  BY <1>1, <1>2 DEF Knowing, Hydrating, SubscriberKnowsPrompts, ClosedPromptsAreAnnounced, Types
<1> QED BY <1>4, <1>5, <1>6, <1>7, <1>8, <1>9, <1>10, Zenon DEF Inductive

LEMMA OwnerMovesKeep ==
  ASSUME Inductive,
         \/ SignalReady \/ CloseResource \/ ClearActivity \/ DeleteEntry \/ StepsOver
         \/ CloseEngine
  PROVE  Inductive'
<1>1. /\ change \in Nat /\ resource \in [Generation -> {"none", "ready", "draining", "closed"}]
  BY Zenon DEF Inductive, Types
<1>2. {"serving", "draining", "delete", "steps", "engine", "closed"} \subseteq Locations
  BY Zenon DEF Locations, OwnerLocations
<1>3. CASE SignalReady
  BY <1>1, <1>2, <1>3, OwnerMoves DEF SignalReady, At, Attached
<1>4. CASE CloseResource
  BY <1>1, <1>2, <1>4, OwnerMoves, Zenon DEF CloseResource, At, Attached
<1>5. CASE ClearActivity
  BY <1>1, <1>2, <1>5, OwnerMoves, Zenon DEF ClearActivity, At, FeedOver
<1>6. CASE DeleteEntry
  BY <1>1, <1>2, <1>6, OwnerMoves DEF DeleteEntry, At, FeedOver
<1>7. CASE StepsOver
  BY <1>1, <1>2, <1>7, OwnerMoves, Zenon DEF StepsOver, At, FeedOver
<1>8. CASE CloseEngine
  BY <1>1, <1>2, <1>8, OwnerMoves, Zenon DEF CloseEngine, At, FeedOver
<1> QED BY <1>3, <1>4, <1>5, <1>6, <1>7, <1>8, Zenon

\* The next generation is opened once the last feed is closed.
LEMMA OpenResourceKeeps ==
  ASSUME Inductive, OpenResource
  PROVE  Inductive'
<1>1. /\ Types /\ Lifecycle /\ ActiveSteps /\ Locks /\ Prompts /\ Watching
      /\ ObservationsAreReleased /\ Knowing
  BY Zenon DEF Inductive
<1>2. /\ current \in 0..Generations /\ Generations \in Nat
      /\ current' = current + 1 /\ current' \in Generation /\ loc[Owner] = "closed"
      /\ UNCHANGED <<registered, change, entry, engine, prompts, notices, version, home, pub,
                     watch, observing>>
  BY <1>1, RegistryAssumption DEF Types, OpenResource, At, Generation
<1>3. /\ loc' \in [Publishers -> Locations] /\ loc'[Owner] = "register"
      /\ \A q \in Steps : loc'[q] = loc[q]
  <2>1. "register" \in Locations /\ Goto(Owner, "register")
    BY Zenon DEF Locations, OwnerLocations, OpenResource
  <2> QED BY <1>1, <2>1, SetLocation, Sets, Zenon
<1>4. resource' \in [Generation -> {"none", "ready", "draining", "closed"}]
  BY <1>1, Zenon DEF Types, OpenResource
<1>5. Types'
  BY <1>1, <1>2, <1>3, <1>4, Sets, Zenon DEF Types
<1>6. \A g \in Generation :
        /\ entry[g].life # "ready"
        /\ entry[g].view # 0 => entry[g].life = "ready"
        /\ entry[g].life # "absent" \/ entry[g].feedReady => g <= current
        /\ g <= current => entry[g].feedClosed
  BY <1>1, <1>2 DEF Lifecycle, Serves, FeedOver, Generation
<1>7. Lifecycle'
  BY <1>1, <1>2, <1>3, <1>6 DEF Lifecycle, Serves, Attached, FeedOver, Generation
<1>8. ActiveSteps'
  BY <1>1, <1>2, <1>3, Zenon DEF ActiveSteps
<1>9. \A s \in Steps : loc[s] \notin {"asking", "resolving"}
  BY <1>1, <1>2, Zenon DEF Locks, Attached
<1>10. Locks'
  BY <1>1, <1>2, <1>3, <1>9, Zenon DEF Locks
<1>11. Prompts'
  BY <1>1, <1>2, <1>3, Zenon DEF Prompts, Attached
<1>12. Watching' /\ ObservationsAreReleased'
  BY <1>1, <1>2, Zenon DEF Watching, ObservationsAreReleased
<1>13. Knowing'
  BY <1>1, <1>2, <1>3 DEF Knowing, Hydrating, SubscriberKnowsPrompts, ClosedPromptsAreAnnounced, Types
<1> QED BY <1>5, <1>7, <1>8, <1>10, <1>11, <1>12, <1>13, Zenon DEF Inductive

IsCurrent(g) == current = g

\* The owner changes the lifecycle of the current entry and goes on.
LEMMA EntryTurns ==
  ASSUME Inductive, NEW g \in Generation, IsCurrent(g), NEW e \in Entries, NEW l \in Locations,
         entry' = [entry EXCEPT ![g] = e], Goto(Owner, l), pub[Owner].at = "none",
         e.publicationMu = entry[g].publicationMu, e.feedMu = entry[g].feedMu,
         UNCHANGED pub \/ StartPublication(Owner),
         \A s \in Steps : loc[s] \notin {"asking", "resolving"},
         \A w \in Watchers : watch'[w].at = watch[w].at /\ watch'[w].entry = watch[w].entry,
         UNCHANGED <<current, engine, home>>
  PROVE  /\ ActiveSteps' /\ Locks'
         /\ entry' \in [Generation -> Entries] /\ pub' \in [Publishers -> Publications]
         /\ loc' \in [Publishers -> Locations] /\ loc'[Owner] = l
         /\ \A s \in Steps : loc'[s] = loc[s]
         /\ \A h \in Generation : entry'[h] = IF h = g THEN e ELSE entry[h]
<1>1. Types /\ ActiveSteps /\ Locks
  BY Zenon DEF Inductive
<1>2. /\ loc' \in [Publishers -> Locations] /\ loc'[Owner] = l
      /\ \A q \in Steps : loc'[q] = loc[q]
  BY <1>1, SetLocation, Sets
<1>3. /\ pub' \in [Publishers -> Publications]
      /\ pub'[Owner].at \in {"none", "engine"}
      /\ \A q \in Publishers : q # Owner => pub'[q] = pub[q]
  BY <1>1, SetPublication, NoPublicationOK, Sets, ZenonT(40) DEF StartPublication, Types
<1>4. /\ entry' \in [Generation -> Entries]
      /\ \A h \in Generation : entry'[h] = IF h = g THEN e ELSE entry[h]
  BY <1>1, Zenon DEF Types
<1>5. \A h \in Generation : MutexesKept(h)
  BY <1>4, Zenon DEF MutexesKept
<1>6. ActiveSteps'
  BY <1>1, <1>2, Zenon DEF ActiveSteps
<1>7. \A q \in Publishers :
        /\ pub'[q].at \in {"lock", "feed", "aggregate", "record"} => pub'[q].entry # 0
        /\ pub'[q].at \in {"feed", "aggregate", "record"} => entry'[pub'[q].entry].publicationMu = q
  BY <1>1, <1>3, <1>5, Indices, Sets DEF Locks, MutexesKept
<1>8. \A w \in Watchers : watch'[w].at = "subscribe" =>
        watch'[w].entry # 0 /\ entry'[watch'[w].entry].feedMu = w
  BY <1>1, <1>5, Indices DEF Locks, MutexesKept
<1>9. Locks'
  BY <1>2, <1>7, <1>8, Zenon DEF Locks
<1> QED BY <1>2, <1>3, <1>4, <1>6, <1>9, Zenon

\* Subscriptions stay well formed when an entry turns and its feed stays open.
LEMMA EntryWatching ==
  ASSUME Inductive, NEW g \in Generation, NEW e, e.life # "absent",
         e.feedClosed = entry[g].feedClosed,
         \A h \in Generation : entry'[h] = IF h = g THEN e ELSE entry[h],
         UNCHANGED <<watch, observing>>
  PROVE  Watching' /\ ObservationsAreReleased'
<1>1. Watching /\ ObservationsAreReleased
  BY Zenon DEF Inductive
<1>2. \A w \in Watchers : watch[w].at \in Subscribing \/ watch[w].sub = "open" =>
        watch[w].entry \in Generation
  BY <1>1, Indices, Zenon DEF Watching
<1>3. Watching'
  BY <1>1, <1>2, Zenon DEF Watching
<1>4. ObservationsAreReleased'
  BY <1>1 DEF ObservationsAreReleased
<1> QED BY <1>3, <1>4, Zenon

\* So does what they know, when their entries keep their lifecycle.
LEMMA KnowingKept ==
  ASSUME Inductive, \A s \in Steps : loc'[s] = loc[s], UNCHANGED <<prompts, notices, watch>>,
         \A w \in Watchers : watch[w].at \in Subscribing \/ watch[w].sub = "open" =>
           entry'[watch[w].entry].life = entry[watch[w].entry].life
  PROVE  Knowing'
<1>1. prompts \subseteq Steps /\ Hydrating /\ SubscriberKnowsPrompts /\ ClosedPromptsAreAnnounced
  BY Zenon DEF Inductive, Types, Knowing
<1>2. Hydrating'
  BY <1>1, Zenon DEF Hydrating, Subscribing
<1>3. SubscriberKnowsPrompts'
  BY <1>1, Zenon DEF SubscriberKnowsPrompts
<1>4. ClosedPromptsAreAnnounced'
  BY <1>1, Zenon DEF ClosedPromptsAreAnnounced
<1> QED BY <1>2, <1>3, <1>4, Zenon DEF Knowing

\* ResourceReady registers the entry: it has no subscriber yet.
LEMMA RegisterKeeps ==
  ASSUME Inductive, Register
  PROVE  Inductive'
<1>1. /\ Types /\ Lifecycle /\ Locks /\ Prompts /\ Watching /\ ObservationsAreReleased /\ Knowing
  BY Zenon DEF Inductive
<1>2. PICK g \in Generation : g = current
  BY Indices, Zenon DEF Register, At
<1>3. /\ loc[Owner] = "register" /\ pub[Owner].at = "none" /\ registered = 0 /\ registered' = g
      /\ Goto(Owner, "feed") /\ StartPublication(Owner)
      /\ UNCHANGED <<current, resource, change, engine, prompts, notices, version, home,
                     watch, observing>>
  BY <1>2, Zenon DEF Register, At
<1> DEFINE e == [entry[g] EXCEPT !.life = "ready"]
<1>4. /\ e \in Entries /\ e.life = "ready" /\ e.view = entry[g].view
      /\ e.feedReady = entry[g].feedReady /\ e.feedClosed = entry[g].feedClosed
      /\ e.publicationMu = entry[g].publicationMu /\ e.feedMu = entry[g].feedMu
  <2>1. entry[g] \in Entries
    BY <1>1, Zenon DEF Types
  <2> QED BY <2>1, Zenon DEF Entries, Lives
<1>5. entry' = [entry EXCEPT ![g] = e]
  BY <1>2, Zenon DEF Register
<1> HIDE DEF e
<1>6. \A s \in Steps : loc[s] \notin {"asking", "resolving"}
  BY <1>1, <1>3, Zenon DEF Locks, Attached
<1>7. /\ "feed" \in Locations /\ g \in Generation /\ IsCurrent(g)
      /\ \A w \in Watchers : watch'[w].at = watch[w].at /\ watch'[w].entry = watch[w].entry
  BY <1>2, <1>3, Zenon DEF Locations, OwnerLocations, IsCurrent
<1>8. /\ ActiveSteps' /\ Locks'
      /\ entry' \in [Generation -> Entries] /\ pub' \in [Publishers -> Publications]
      /\ loc' \in [Publishers -> Locations] /\ loc'[Owner] = "feed"
      /\ \A s \in Steps : loc'[s] = loc[s]
      /\ \A h \in Generation : entry'[h] = IF h = g THEN e ELSE entry[h]
  BY <1>3, <1>4, <1>5, <1>6, <1>7, EntryTurns, Zenon
<1>9. Types'
  BY <1>1, <1>3, <1>8, Sets, ZenonT(40) DEF Types
<1>10. Lifecycle'
  BY <1>1, <1>2, <1>3, <1>4, <1>8, SMTT(30) DEF Lifecycle, Serves, Attached, FeedOver, Generation
<1>11. Prompts'
  BY <1>1, <1>3, <1>6, <1>8, Zenon DEF Prompts, Attached
<1>12. \A w \in Watchers : watch[w].at \in Subscribing \/ watch[w].sub = "open" =>
         watch[w].entry \in Generation /\ watch[w].entry # g
  BY <1>1, <1>2, <1>3, Indices, Zenon DEF Watching, Lifecycle
<1>13. Watching' /\ ObservationsAreReleased'
  BY <1>3, <1>4, <1>7, <1>8, EntryWatching, Zenon
<1>14. \A w \in Watchers : watch[w].at \in Subscribing \/ watch[w].sub = "open" =>
         entry'[watch[w].entry] = entry[watch[w].entry]
  BY <1>8, <1>12, Zenon
<1>15. Knowing'
  BY <1>1, <1>3, <1>8, <1>14, KnowingKept, Zenon
<1> QED BY <1>8, <1>9, <1>10, <1>11, <1>13, <1>15, Zenon DEF Inductive

\* The feed becomes attachable.
LEMMA FeedReadyKeeps ==
  ASSUME Inductive, FeedReady
  PROVE  Inductive'
<1>1. /\ Types /\ Lifecycle /\ Locks /\ Prompts /\ Watching /\ ObservationsAreReleased /\ Knowing
  BY Zenon DEF Inductive
<1>2. PICK g \in Generation : g = current
  BY Indices, Zenon DEF FeedReady, At
<1>3. /\ loc[Owner] = "feed" /\ pub[Owner].at = "none" /\ Goto(Owner, "signal")
      /\ UNCHANGED <<current, resource, registered, change, engine, prompts, notices, version,
                     home, pub, watch, observing>>
  BY <1>2, Zenon DEF FeedReady, At
<1> DEFINE e == [entry[g] EXCEPT !.feedReady = TRUE]
<1>4. /\ e \in Entries /\ e.life = entry[g].life /\ e.view = entry[g].view
      /\ e.feedReady /\ e.feedClosed = entry[g].feedClosed
      /\ e.publicationMu = entry[g].publicationMu /\ e.feedMu = entry[g].feedMu
  <2>1. entry[g] \in Entries
    BY <1>1, Zenon DEF Types
  <2> QED BY <2>1, Zenon DEF Entries
<1>5. entry' = [entry EXCEPT ![g] = e]
  BY <1>2, Zenon DEF FeedReady
<1> HIDE DEF e
<1>6. \A s \in Steps : loc[s] \notin {"asking", "resolving"}
  BY <1>1, <1>3, Zenon DEF Locks, Attached
<1>7. /\ "signal" \in Locations /\ g \in Generation /\ IsCurrent(g)
      /\ \A w \in Watchers : watch'[w].at = watch[w].at /\ watch'[w].entry = watch[w].entry
  BY <1>2, <1>3, Zenon DEF Locations, OwnerLocations, IsCurrent
<1>8. /\ ActiveSteps' /\ Locks'
      /\ entry' \in [Generation -> Entries] /\ pub' \in [Publishers -> Publications]
      /\ loc' \in [Publishers -> Locations] /\ loc'[Owner] = "signal"
      /\ \A s \in Steps : loc'[s] = loc[s]
      /\ \A h \in Generation : entry'[h] = IF h = g THEN e ELSE entry[h]
  BY <1>3, <1>4, <1>5, <1>6, <1>7, EntryTurns, Zenon
<1>9. Types'
  BY <1>1, <1>3, <1>8, Zenon DEF Types
<1>10. Lifecycle'
  BY <1>1, <1>2, <1>3, <1>4, <1>8, Indices, SMTT(30) DEF Lifecycle, Serves, Attached, FeedOver, Generation
<1>11. Prompts'
  BY <1>1, <1>3, <1>6, <1>8, Zenon DEF Prompts, Attached
<1>12. \A w \in Watchers : watch[w].at \in Subscribing \/ watch[w].sub = "open" =>
         watch[w].entry \in Generation
  BY <1>1, Indices, Zenon DEF Watching
<1>13. Watching' /\ ObservationsAreReleased'
  <2>1. e.life # "absent"
    BY <1>1, <1>2, <1>3, <1>4, Zenon DEF Lifecycle, Serves
  <2> QED BY <1>3, <1>4, <1>7, <1>8, <2>1, EntryWatching
<1>14. \A w \in Watchers : watch[w].at \in Subscribing \/ watch[w].sub = "open" =>
         entry'[watch[w].entry].life = entry[watch[w].entry].life
  BY <1>4, <1>8, <1>12, Zenon
<1>15. Knowing'
  BY <1>1, <1>3, <1>8, <1>14, KnowingKept, Zenon
<1> QED BY <1>8, <1>9, <1>10, <1>11, <1>13, <1>15, Zenon DEF Inductive

\* The drain begins with publicationMu, so that no announcement is under way: what
\* subscribers know is what the store holds.
LEMMA BeginDrainKeeps ==
  ASSUME Inductive, BeginDrain
  PROVE  Inductive'
<1>1. /\ Types /\ Lifecycle /\ Locks /\ Prompts /\ Watching /\ ObservationsAreReleased /\ Knowing
  BY Zenon DEF Inductive
<1>2. PICK g \in Generation : g = current
  BY Indices, Zenon DEF BeginDrain, At
<1>3. /\ loc[Owner] = "draining" /\ pub[Owner].at = "none" /\ Goto(Owner, "prompts")
      /\ UNCHANGED <<current, resource, registered, change, engine, prompts, notices, version,
                     home, pub, watch, observing>>
  BY <1>2, Zenon DEF BeginDrain, At
<1> DEFINE e == [entry[g] EXCEPT !.life = "draining", !.view = 0]
<1>4. /\ e \in Entries /\ e.life = "draining" /\ e.view = 0
      /\ e.feedReady = entry[g].feedReady /\ e.feedClosed = entry[g].feedClosed
      /\ e.publicationMu = entry[g].publicationMu /\ e.feedMu = entry[g].feedMu
  <2>1. entry[g] \in Entries
    BY <1>1, Zenon DEF Types
  <2> QED BY <2>1, Zenon DEF Entries, Lives
<1>5. entry' = [entry EXCEPT ![g] = e]
  BY <1>2, Zenon DEF BeginDrain
<1> HIDE DEF e
<1>6. \A s \in Steps : loc[s] \notin {"asking", "resolving"}
  BY <1>1, <1>2, Sets DEF Locks, BeginDrain
<1>7. /\ "prompts" \in Locations /\ g \in Generation /\ IsCurrent(g)
      /\ \A w \in Watchers : watch'[w].at = watch[w].at /\ watch'[w].entry = watch[w].entry
  BY <1>2, <1>3, Zenon DEF Locations, OwnerLocations, IsCurrent
<1>8. /\ ActiveSteps' /\ Locks'
      /\ entry' \in [Generation -> Entries] /\ pub' \in [Publishers -> Publications]
      /\ loc' \in [Publishers -> Locations] /\ loc'[Owner] = "prompts"
      /\ \A s \in Steps : loc'[s] = loc[s]
      /\ \A h \in Generation : entry'[h] = IF h = g THEN e ELSE entry[h]
  BY <1>3, <1>4, <1>5, <1>6, <1>7, EntryTurns, Zenon
<1>9. Types'
  BY <1>1, <1>3, <1>8, ZenonT(40) DEF Types
<1>10. Lifecycle'
  BY <1>1, <1>2, <1>3, <1>4, <1>8, Indices, SMTT(30) DEF Lifecycle, Serves, Attached, FeedOver, Generation
<1>11. Prompts'
  BY <1>1, <1>3, <1>6, <1>8, ZenonT(40) DEF Prompts, Attached, Types
<1>12. \A w \in Watchers : watch[w].at \in Subscribing \/ watch[w].sub = "open" =>
         watch[w].entry \in Generation
  BY <1>1, Indices, Zenon DEF Watching
<1>13. Watching' /\ ObservationsAreReleased'
  BY <1>3, <1>4, <1>7, <1>8, EntryWatching, Zenon
<1>14. \A h \in Generation : entry'[h].life # "ready"
  BY <1>1, <1>2, <1>4, <1>8, Zenon DEF Lifecycle
<1>15. Hydrating' /\ SubscriberKnowsPrompts'
  BY <1>3, <1>12, <1>14, Zenon DEF Hydrating, SubscriberKnowsPrompts, Subscribing
<1>16. ClosedPromptsAreAnnounced'
  <2>1. SUFFICES ASSUME NEW w \in Watchers, watch[w].sub = "open", NEW s \in watch[w].known
                 PROVE  s \in prompts
    BY <1>3, Zenon DEF ClosedPromptsAreAnnounced
  <2>2. entry[watch[w].entry].life = "ready"
    BY <1>1, <1>3, <2>1, OpenIsCurrent, Zenon DEF Lifecycle, Serves
  <2>3. s \in Steps
    <3>1. watch[w] \in Subscriptions
      BY <1>1, Zenon DEF Types
    <3> QED BY <2>1, <3>1, Zenon DEF Subscriptions
  <2> QED BY <1>1, <1>6, <2>1, <2>2, <2>3, Zenon DEF Knowing, SubscriberKnowsPrompts
<1> QED BY <1>8, <1>9, <1>10, <1>11, <1>13, <1>15, <1>16, Zenon DEF Inductive, Knowing

\* The entry retires, after its prompts are closed and announced.
LEMMA RetireKeeps ==
  ASSUME Inductive, Retire
  PROVE  Inductive'
<1>1. /\ Types /\ Lifecycle /\ Locks /\ Prompts /\ Watching /\ ObservationsAreReleased /\ Knowing
  BY Zenon DEF Inductive
<1>2. PICK g \in Generation : g = current
  BY Indices, Zenon DEF Retire, At
<1>3. /\ loc[Owner] = "retire" /\ pub[Owner].at = "none" /\ Goto(Owner, "closeFeed")
      /\ UNCHANGED <<current, resource, registered, change, engine, prompts, notices,
                     home, pub, watch, observing>>
  BY <1>2, Zenon DEF Retire, At
<1> DEFINE e == [entry[g] EXCEPT !.life = "retired"]
<1>4. /\ e \in Entries /\ e.life = "retired" /\ e.view = entry[g].view
      /\ e.feedReady = entry[g].feedReady /\ e.feedClosed = entry[g].feedClosed
      /\ e.publicationMu = entry[g].publicationMu /\ e.feedMu = entry[g].feedMu
  <2>1. entry[g] \in Entries
    BY <1>1, Zenon DEF Types
  <2> QED BY <2>1, Zenon DEF Entries, Lives
<1>5. entry' = [entry EXCEPT ![g] = e]
  BY <1>2, Zenon DEF Retire
<1> HIDE DEF e
<1>6. \A s \in Steps : loc[s] \notin {"asking", "resolving"}
  BY <1>1, <1>3, Zenon DEF Locks, Attached
<1>7. /\ "closeFeed" \in Locations /\ g \in Generation /\ IsCurrent(g)
      /\ \A w \in Watchers : watch'[w].at = watch[w].at /\ watch'[w].entry = watch[w].entry
  BY <1>2, <1>3, Zenon DEF Locations, OwnerLocations, IsCurrent
<1>8. /\ ActiveSteps' /\ Locks'
      /\ entry' \in [Generation -> Entries] /\ pub' \in [Publishers -> Publications]
      /\ loc' \in [Publishers -> Locations] /\ loc'[Owner] = "closeFeed"
      /\ \A s \in Steps : loc'[s] = loc[s]
      /\ \A h \in Generation : entry'[h] = IF h = g THEN e ELSE entry[h]
  BY <1>3, <1>4, <1>5, <1>6, <1>7, EntryTurns, Zenon
<1>9. Types'
  <2>1. version' \in Nat
    BY <1>1 DEF Types, Retire
  <2> QED BY <1>1, <1>3, <1>8, <2>1, Zenon DEF Types
<1>10. Lifecycle'
  BY <1>1, <1>2, <1>3, <1>4, <1>8, Indices DEF Lifecycle, Serves, Attached, FeedOver, Generation
<1>11. Prompts'
  BY <1>1, <1>3, <1>6, <1>8 DEF Prompts, Attached, Types
<1>12. \A w \in Watchers : watch[w].at \in Subscribing \/ watch[w].sub = "open" =>
         watch[w].entry \in Generation
  BY <1>1, Indices, Zenon DEF Watching
<1>13. Watching' /\ ObservationsAreReleased'
  BY <1>3, <1>4, <1>7, <1>8, EntryWatching, Zenon
<1>14. \A h \in Generation : entry[h].life # "ready" /\ entry'[h].life # "ready"
  BY <1>1, <1>2, <1>3, <1>4, <1>8, Zenon DEF Lifecycle, Serves
<1>15. Knowing'
  BY <1>1, <1>3, <1>12, <1>14, Zenon
     DEF Knowing, Hydrating, SubscriberKnowsPrompts, ClosedPromptsAreAnnounced, Subscribing
<1> QED BY <1>8, <1>9, <1>10, <1>11, <1>13, <1>15 DEF Inductive

\* CloseSession moves the prompts to the notices.
LEMMA CloseSessionKeeps ==
  ASSUME Inductive, CloseSession
  PROVE  Inductive'
<1>1. /\ Types /\ Lifecycle /\ ActiveSteps /\ Locks /\ Prompts /\ Watching
      /\ ObservationsAreReleased /\ Knowing
  BY Zenon DEF Inductive
<1>2. /\ loc[Owner] = "prompts" /\ Goto(Owner, "notices") /\ "notices" \in Locations
      /\ prompts' = {} /\ notices' = prompts
      /\ UNCHANGED <<current, resource, registered, change, entry, engine, version, home, pub,
                     watch, observing>>
  BY Zenon DEF CloseSession, At, Locations, OwnerLocations
<1>3. /\ loc' \in [Publishers -> Locations] /\ loc'[Owner] = "notices"
      /\ \A s \in Steps : loc'[s] = loc[s]
  BY <1>1, <1>2, SetLocation, Sets, Zenon
<1>4. \A s \in Steps : loc[s] \notin {"asking", "resolving"}
  BY <1>1, <1>2, Zenon DEF Locks, Attached
<1>5. Types'
  BY <1>1, <1>2, <1>3, Zenon DEF Types
<1>6. Lifecycle'
  BY <1>1, <1>2, <1>3, Zenon DEF Lifecycle, Serves, Attached, FeedOver
<1>7. ActiveSteps' /\ Locks'
  BY <1>1, <1>2, <1>3, <1>4, Zenon DEF ActiveSteps, Locks
<1>8. Prompts'
  BY <1>2, <1>3, <1>4, Zenon DEF Prompts
<1>9. Watching' /\ ObservationsAreReleased'
  BY <1>1, <1>2, Zenon DEF Watching, ObservationsAreReleased
<1>10. Hydrating' /\ ClosedPromptsAreAnnounced'
  BY <1>1, <1>2, Zenon DEF Hydrating, ClosedPromptsAreAnnounced, Knowing, Prompts
<1>11. SubscriberKnowsPrompts'
  BY <1>1, <1>2, OpenIsCurrent, Zenon DEF SubscriberKnowsPrompts, Lifecycle, Serves
<1> QED BY <1>5, <1>6, <1>7, <1>8, <1>9, <1>10, <1>11, Zenon DEF Inductive, Knowing

\* publishPromptResolution for one notice, or the end of them.
LEMMA PublishResolutionKeeps ==
  ASSUME Inductive, PublishResolution
  PROVE  Inductive'
<1>1. /\ Types /\ Lifecycle /\ ActiveSteps /\ Locks /\ Prompts /\ Watching
      /\ ObservationsAreReleased /\ Knowing
  BY Zenon DEF Inductive
<1>2. PICK g \in Generation : g = current
  BY Indices, Zenon DEF PublishResolution, At
<1>3. /\ loc[Owner] = "notices" /\ pub[Owner].at = "none"
      /\ UNCHANGED <<current, resource, registered, change, entry, engine, prompts, version,
                     home>>
  BY Zenon DEF PublishResolution, At
<1>4. CASE notices = {}
  <2>1. /\ "retire" \in Locations /\ change \in Nat
        /\ resource \in [Generation -> {"none", "ready", "draining", "closed"}]
    BY <1>1, Zenon DEF Locations, OwnerLocations, Types
  <2> QED BY <1>3, <1>4, <2>1, OwnerMoves, Zenon DEF PublishResolution
<1>5. CASE notices # {}
  <2>1. PICK s \in notices : FeedPublish(current, {}, {s}) /\ notices' = notices \ {s}
    BY <1>5, Zenon DEF PublishResolution
  <2>2. FeedPublish(g, {}, {s}) /\ UNCHANGED <<loc, pub>>
    BY <1>2, <1>5, <2>1, Zenon DEF PublishResolution, FeedPublish, Closing, Subscribed
  <2>3. /\ watch' \in [Watchers -> Subscriptions]
        /\ observing' \in [Generation -> SUBSET Watchers]
        /\ \A w \in Watchers :
             /\ watch'[w].at = watch[w].at /\ watch'[w].entry = watch[w].entry
             /\ watch'[w].sub = "open" => watch[w].sub = "open" /\ Learnt(w, g, {}, {s})
    BY <1>1, <2>2, FeedPublishEffect, Zenon
  <2>4. \A h \in Generation : LifeKept(h)
    BY <1>3, Zenon DEF LifeKept
  <2>5. Watching' /\ ObservationsAreReleased'
    BY <2>2, <2>4, FeedPublishKeeps, Zenon
  <2>6. Types'
    BY <1>1, <1>3, <2>1, <2>2, <2>3, Zenon DEF Types
  <2>7. Lifecycle' /\ ActiveSteps'
    BY <1>1, <1>3, <2>2, Zenon DEF Lifecycle, ActiveSteps
  <2>8. Locks'
    BY <1>1, <1>3, <2>2, <2>3, ZenonT(40) DEF Locks
  <2>9. Prompts'
    BY <1>1, <1>3, <2>2, Zenon DEF Prompts
  <2>10. prompts = {}
    BY <1>1, <1>3, Zenon DEF Prompts, Attached
  <2>11. Hydrating'
    BY <1>3, <2>10, Zenon DEF Hydrating
  <2>12. ASSUME NEW w \in Watchers, watch'[w].sub = "open"
         PROVE  entry[watch[w].entry].life # "ready" /\ watch'[w].known \subseteq notices'
    <3>1. watch[w].sub = "open" /\ Learnt(w, g, {}, {s}) /\ watch[w].entry = g
      BY <1>2, <2>3, <2>12, OpenIsCurrent, Zenon
    <3>2. entry[g].life # "ready"
      BY <1>1, <1>2, <1>3, Zenon DEF Lifecycle, Serves
    <3>3. watch[w].known \subseteq notices
      BY <1>1, <2>10, <3>1, <3>2, Zenon DEF Knowing, ClosedPromptsAreAnnounced
    <3> QED BY <2>1, <3>1, <3>2, <3>3, Zenon DEF Learnt
  <2>13. SubscriberKnowsPrompts' /\ ClosedPromptsAreAnnounced'
    BY <1>3, <2>3, <2>12, Zenon DEF SubscriberKnowsPrompts, ClosedPromptsAreAnnounced
  <2> QED BY <2>5, <2>6, <2>7, <2>11, <2>13, <2>8, <2>9, Zenon DEF Inductive, Knowing
<1> QED BY <1>4, <1>5, Zenon

\* CloseWithRuntimeReadModel ends every stream of the feed.
LEMMA FeedCloseEffect ==
  ASSUME Types, NEW g \in Generation, FeedClose(g)
  PROVE  /\ watch' \in [Watchers -> Subscriptions] /\ observing' \in [Generation -> SUBSET Watchers]
         /\ \A w \in Watchers :
              /\ watch'[w].at = watch[w].at /\ watch'[w].entry = watch[w].entry
              /\ watch'[w].bound = watch[w].bound
              /\ watch'[w].sub = "open" => watch[w].sub = "open" /\ watch[w].entry # g
              /\ watch[w].entry # g => watch'[w] = watch[w]
         /\ \A h \in Generation : \A w \in observing'[h] :
              /\ w \in observing[h]
              /\ h = g /\ watch[w].sub = "open" /\ watch[w].entry = g => ~watch[w].bound
<1>1. watch \in [Watchers -> Subscriptions] /\ observing \in [Generation -> SUBSET Watchers]
  BY Zenon DEF Types
<1>2. \A w \in Watchers : [watch[w] EXCEPT !.sub = "closed"] \in Subscriptions
  BY <1>1 DEF Subscriptions
<1>3. \A w \in Watchers :
        watch'[w] = IF watch[w].sub = "open" /\ watch[w].entry = g
                    THEN [watch[w] EXCEPT !.sub = "closed"] ELSE watch[w]
  BY Zenon DEF FeedClose, Subscribed
<1>4. watch' \in [Watchers -> Subscriptions]
  BY <1>1, <1>2, Zenon DEF FeedClose
<1>5. ASSUME NEW w \in Watchers
      PROVE  /\ watch'[w].at = watch[w].at /\ watch'[w].entry = watch[w].entry
             /\ watch'[w].bound = watch[w].bound
             /\ watch'[w].sub = "open" => watch[w].sub = "open" /\ watch[w].entry # g
             /\ watch[w].entry # g => watch'[w] = watch[w]
  <2>1. watch[w] \in Subscriptions
    BY <1>1, Zenon
  <2> QED BY <1>3, <2>1, Zenon DEF Subscriptions
<1>6. observing' = [observing EXCEPT ![g] = @ \ {w \in Subscribed(g) : watch[w].bound}]
  BY Zenon DEF FeedClose, Closing
<1>7. observing' \in [Generation -> SUBSET Watchers]
  BY <1>1, <1>6, Zenon
<1>8. ASSUME NEW h \in Generation, NEW w \in observing'[h]
      PROVE  /\ w \in observing[h]
             /\ h = g /\ watch[w].sub = "open" /\ watch[w].entry = g => ~watch[w].bound
  <2>1. w \in Watchers
    BY <1>7, Zenon
  <2> QED BY <1>1, <1>6, <2>1, Zenon DEF Subscribed
<1> QED BY <1>4, <1>5, <1>7, <1>8, Zenon

\* The feed is closed: only subscribers that have yet to bind keep an observation.
LEMMA CloseFeedKeeps ==
  ASSUME Inductive, CloseFeed
  PROVE  Inductive'
<1>1. /\ Types /\ Lifecycle /\ Locks /\ Prompts /\ Watching /\ ObservationsAreReleased /\ Knowing
  BY Zenon DEF Inductive
<1>2. PICK g \in Generation : g = current
  BY Indices, Zenon DEF CloseFeed, At
<1>3. /\ loc[Owner] = "closeFeed" /\ pub[Owner].at = "none" /\ Goto(Owner, "clear")
      /\ FeedClose(g)
      /\ UNCHANGED <<current, resource, registered, change, engine, prompts, notices, version,
                     home, pub>>
  BY <1>2, Zenon DEF CloseFeed, At, FeedClose, Closing, Subscribed
<1> DEFINE e == [entry[g] EXCEPT !.feedClosed = TRUE]
<1>4. /\ e \in Entries /\ e.life = entry[g].life /\ e.view = entry[g].view
      /\ e.feedReady = entry[g].feedReady /\ e.feedClosed
      /\ e.publicationMu = entry[g].publicationMu /\ e.feedMu = entry[g].feedMu
  <2>1. entry[g] \in Entries
    BY <1>1, Zenon DEF Types
  <2> QED BY <2>1, Zenon DEF Entries
<1>5. entry' = [entry EXCEPT ![g] = e]
  BY <1>2, Zenon DEF CloseFeed
<1> HIDE DEF e
<1>6. \A s \in Steps : loc[s] \notin {"asking", "resolving"}
  BY <1>1, <1>3, Zenon DEF Locks, Attached
<1>7. /\ "clear" \in Locations /\ g \in Generation /\ IsCurrent(g)
  BY <1>2, <1>3, ZenonT(40) DEF Locations, OwnerLocations, IsCurrent
<1>8. /\ watch' \in [Watchers -> Subscriptions] /\ observing' \in [Generation -> SUBSET Watchers]
      /\ \A w \in Watchers :
           /\ watch'[w].at = watch[w].at /\ watch'[w].entry = watch[w].entry
           /\ watch'[w].bound = watch[w].bound
           /\ watch'[w].sub = "open" => watch[w].sub = "open" /\ watch[w].entry # g
           /\ watch[w].entry # g => watch'[w] = watch[w]
      /\ \A h \in Generation : \A w \in observing'[h] :
           /\ w \in observing[h]
           /\ h = g /\ watch[w].sub = "open" /\ watch[w].entry = g => ~watch[w].bound
  BY <1>1, <1>3, FeedCloseEffect, Zenon
<1>9. /\ ActiveSteps' /\ Locks'
      /\ entry' \in [Generation -> Entries] /\ pub' \in [Publishers -> Publications]
      /\ loc' \in [Publishers -> Locations] /\ loc'[Owner] = "clear"
      /\ \A s \in Steps : loc'[s] = loc[s]
      /\ \A h \in Generation : entry'[h] = IF h = g THEN e ELSE entry[h]
  BY <1>3, <1>4, <1>5, <1>6, <1>7, <1>8, EntryTurns, ZenonT(40)
<1>10. Types'
  BY <1>1, <1>3, <1>8, <1>9, Zenon DEF Types
<1>11. Lifecycle'
  <2>1. \A h \in Generation :
          /\ entry'[h].life = entry[h].life /\ entry'[h].view = entry[h].view
          /\ entry'[h].feedReady = entry[h].feedReady
          /\ entry[h].feedClosed => entry'[h].feedClosed
    BY <1>4, <1>9, Zenon
  <2>2. Lifecycle /\ current' = g /\ registered' = registered /\ g # 0 /\ entry'[g].feedClosed
    BY <1>1, <1>2, <1>3, <1>4, <1>9 DEF Generation
  <2>3. \A h \in Generation :
          /\ entry'[h].life # "ready"
          /\ entry'[h].view # 0 => entry'[h].life = "ready"
          /\ entry'[h].life # "absent" \/ entry'[h].feedReady => h <= g
          /\ h < g => entry'[h].feedClosed
    BY <1>2, <1>3, <2>1, <2>2, Zenon DEF Lifecycle, Serves
  <2>4. registered' # 0 => entry'[registered'].life # "absent"
    BY <2>1, <2>2, Indices, Zenon DEF Lifecycle
  <2> QED BY <1>9, <2>2, <2>3, <2>4, Zenon DEF Lifecycle, Serves, Attached
<1>12. Prompts'
  BY <1>1, <1>3, <1>6, <1>9, Zenon DEF Prompts, Attached, Types
<1>13. \A w \in Watchers : watch[w].at \in Subscribing \/ watch[w].sub = "open" =>
         watch[w].entry \in Generation
  BY <1>1, Indices, Zenon DEF Watching
<1>14. \A w \in Watchers : watch'[w].sub # "open"
  BY <1>2, <1>8, OpenIsCurrent, ZenonT(40)
<1>15. ASSUME NEW w \in Watchers, watch[w].at \in Subscribing
       PROVE  entry'[watch[w].entry].life # "absent"
  <2>1. watch[w].entry \in Generation /\ entry[watch[w].entry].life # "absent"
    BY <1>1, <1>13, <1>15, Zenon DEF Watching
  <2> QED BY <1>4, <1>9, <2>1, Zenon
<1>16. \A w \in Watchers : /\ watch[w].at \in Subscribing => watch[w].entry # 0
                           /\ watch[w].at \notin {"reading", "done"} => ~watch[w].bound
  BY <1>1, Zenon DEF Watching
<1>17. Watching'
  <2>1. SUFFICES ASSUME NEW w \in Watchers
                 PROVE  /\ watch[w].at \in Subscribing =>
                             watch[w].entry # 0 /\ entry'[watch[w].entry].life # "absent"
                        /\ watch[w].at \notin {"reading", "done"} => ~watch[w].bound
    BY <1>8, <1>14 DEF Watching
  <2> QED BY <1>15, <1>16
<1>18. ASSUME NEW h \in Generation, NEW w \in observing'[h]
       PROVE  /\ watch'[w].entry = h
              /\ watch'[w].at \in {"hydrate", "subscribe", "failed", "bind"}
  <2>1. w \in observing[h] /\ w \in Watchers
    BY <1>8, Zenon
  <2>2. /\ watch[w].entry = h
        /\ watch[w].at \in {"hydrate", "subscribe", "failed", "bind"} \/ watch[w].sub = "open"
    BY <1>1, <2>1, Zenon DEF ObservationsAreReleased
  <2>3. watch[w].sub = "open" => h = g /\ ~watch[w].bound
    BY <1>2, <1>8, <2>1, <2>2, OpenIsCurrent, Zenon
  <2>4. watch[w].sub = "open" => watch[w].at = "bind"
    BY <1>1, <2>1, <2>3, Zenon DEF Watching
  <2> QED BY <1>8, <2>1, <2>2, <2>4, Zenon
<1>19. ObservationsAreReleased'
  BY <1>18, Zenon DEF ObservationsAreReleased
<1>20. prompts = {}
  BY <1>1, <1>3, Zenon DEF Prompts, Attached
<1>21. Knowing'
  BY <1>3, <1>14, <1>20, Zenon DEF Knowing, Hydrating, SubscriberKnowsPrompts, ClosedPromptsAreAnnounced
<1> QED BY <1>9, <1>10, <1>11, <1>12, <1>17, <1>19, <1>21, Zenon DEF Inductive

\* Every step of the owner keeps the invariant.
LEMMA OwnerKeeps ==
  ASSUME Inductive, OwnerAction
  PROVE  Inductive'
BY OwnerMovesKeep, OpenResourceKeeps, RegisterKeeps, FeedReadyKeeps, BeginDrainKeeps,
   CloseSessionKeeps, PublishResolutionKeeps, RetireKeeps, CloseFeedKeeps, Zenon DEF OwnerAction
===============================================================================
