------------------------ MODULE CatalogStore_proofs ------------------------
(***************************************************************************)
(* Proofs about CatalogStore, for any markets, searches and clock.         *)
(***************************************************************************)
EXTENDS CatalogStore, TLAPS

\* What a load or a refresh has in hand.
Carried ==
    /\ \A l \in Loads : at[l] \in {"decode", "decode again"} => got[l] # None
    /\ \A f \in Refreshes : doing[f] \in {"store", "adopt"} => list[f] \in Times

\* A search that builds has seen no version that is yet to come, and if the
\* version is the same, the entries are.
SeenIsOfItsVersion ==
    \A r \in Searches : pc[r] = "build" =>
        /\ seen[r].version <= version
        /\ seen[r].version = version => seen[r].entries = entries

SeenWhenBuilding ==
    \A r \in Searches : pc[r] = "build" => seen[r] \in [version : Nat, entries : Snapshots]

Inv ==
    /\ TypeOK /\ Carried
    /\ CatalogIsCurrent /\ SeenWhenBuilding /\ SeenIsOfItsVersion
    /\ LoadingIsRunning

\* What _adopt does: lists are newer or the same, and the version tells.
LEMMA Adopting ==
    ASSUME entries \in Snapshots, version \in Nat,
           NEW m \in Markets, NEW time \in Times, Adopt(m, time)
    PROVE  /\ entries' \in Snapshots /\ version' \in Nat
           /\ catalog' = None \/ (catalog' = catalog /\ entries' = entries)
           /\ version' >= version
           /\ version' = version => entries' = entries
           /\ \A n \in Markets :
                 entries[n] # None => entries'[n] # None /\ entries'[n] >= entries[n]
<1>1. None \notin Nat /\ \A t \in Times : t \in Nat
  BY CatalogStoreAssumption DEF Times
<1>2. \A n \in Markets : entries[n] # None => entries[n] \in Times
  BY DEF Snapshots
<1>3. CASE Newer(m, time)
  <2>1. entries' = [entries EXCEPT ![m] = time] /\ catalog' = None /\ version' = version + 1
    BY <1>3 DEF Adopt
  <2>2. entries' \in Snapshots
    BY <2>1 DEF Snapshots
  <2>3. entries[m] # None => time > entries[m]
    BY <1>3 DEF Newer
  <2>4. ASSUME NEW n \in Markets, entries[n] # None
        PROVE  entries'[n] # None /\ entries'[n] >= entries[n]
    <3>1. CASE n = m
      <4>1. entries'[n] = time  BY <2>1, <3>1 DEF Snapshots
      <4> QED  BY <1>1, <1>2, <2>3, <2>4, <3>1, <4>1
    <3>2. CASE n # m
      <4>1. entries'[n] = entries[n]  BY <2>1, <3>2 DEF Snapshots
      <4> QED  BY <1>1, <1>2, <2>4, <4>1
    <3> QED  BY <3>1, <3>2
  <2> QED  BY <2>1, <2>2, <2>4
<1>4. CASE ~Newer(m, time)
  <2>1. UNCHANGED <<entries, catalog, version>>  BY <1>4 DEF Adopt
  <2> QED  BY <1>1, <1>2, <2>1
<1> QED  BY <1>3, <1>4

LEMMA AdoptKeeps ==
    ASSUME Inv, NEW m \in Markets, NEW time \in Times, Adopt(m, time), UNCHANGED <<pc, seen>>
    PROVE  CatalogIsCurrent' /\ SeenIsOfItsVersion'
<1>1. /\ entries' \in Snapshots /\ version' \in Nat
      /\ catalog' = None \/ (catalog' = catalog /\ entries' = entries)
      /\ version' >= version
      /\ version' = version => entries' = entries
  BY Adopting DEF Inv, TypeOK
<1>2. CatalogIsCurrent'
  BY <1>1 DEF Inv, CatalogIsCurrent
<1>3. ASSUME NEW r \in Searches, pc[r] = "build"
      PROVE  /\ seen[r].version <= version'
             /\ seen[r].version = version' => seen[r].entries = entries'
  <2>1. seen[r].version \in Nat /\ version \in Nat
    BY <1>3 DEF Inv, TypeOK, SeenWhenBuilding
  <2>2. /\ seen[r].version <= version
        /\ seen[r].version = version => seen[r].entries = entries
    BY <1>3 DEF Inv, SeenIsOfItsVersion
  <2> QED  BY <1>1, <2>1, <2>2
<1>4. SeenIsOfItsVersion'
  BY <1>3 DEF SeenIsOfItsVersion
<1> QED  BY <1>2, <1>4

LEMMA InitInv == Init => Inv
<1> SUFFICES ASSUME Init PROVE Inv
  OBVIOUS
<1>1. 0 \in Times
  BY CatalogStoreAssumption DEF Times
<1>2. TypeOK
  BY <1>1 DEF Init, TypeOK, Snapshots, Lists
<1>3. \A m \in Markets : <<Background, m>> \in Loads
  BY DEF Loads
<1> QED
  BY <1>2, <1>3 DEF Init, Inv, Carried, CatalogIsCurrent, SeenWhenBuilding, SeenIsOfItsVersion,
                    LoadingIsRunning

\* What a step leaves alone, it keeps.
LEMMA Kept ==
    ASSUME Inv
    PROVE  /\ UNCHANGED <<entries, catalog>> => CatalogIsCurrent'
           /\ UNCHANGED <<pc, seen, entries, version>> => SeenIsOfItsVersion'
           /\ UNCHANGED <<pc, seen>> => SeenWhenBuilding'
           /\ UNCHANGED <<loading, at>> => LoadingIsRunning'
           /\ UNCHANGED <<at, got, doing, list>> => Carried'
  BY DEF Inv, CatalogIsCurrent, SeenIsOfItsVersion, SeenWhenBuilding, LoadingIsRunning, Carried

\* Where a load of a market is, and whether the market is loading.
LEMMA LoadGoesOn ==
    ASSUME Inv, NEW l \in Loads, NEW place,
           \/ AfterLoad(l, place)
           \/ LoadGoes(l, place) /\ UNCHANGED loading /\ place # "idle" /\ at[l] # "idle",
           at[l] # "idle"
    PROVE  LoadingIsRunning' /\ loading' \subseteq Markets
<1>1. l = <<l[1], l[2]>> /\ l[2] \in Markets
  BY DEF Loads
<1>2. at \in [Loads -> {"idle", "entry", "load", "decode", "drop", "load again",
                         "decode again", "loaded", "failed", "broken"}] /\ loading \subseteq Markets
  BY DEF Inv, TypeOK
<1>3. ASSUME NEW m \in Markets
      PROVE  <<Background, m>> \in Loads /\ (m \in loading <=> at[<<Background, m>>] # "idle")
  BY DEF Inv, LoadingIsRunning, Loads
<1>4. CASE l[1] = Background /\ AfterLoad(l, place)
  <2>1. at' = [at EXCEPT ![l] = "idle"] /\ loading' = loading \ {l[2]}
    BY <1>4 DEF AfterLoad, LoadGoes, MarketOf
  <2>2. ASSUME NEW m \in Markets
        PROVE  m \in loading' <=> at'[<<Background, m>>] # "idle"
    <3>1. CASE m = l[2]
      BY <1>1, <1>2, <1>3, <1>4, <2>1, <3>1
    <3>2. CASE m # l[2]
      <4>1. <<Background, m>> # l  BY <1>1, <3>2
      <4> QED  BY <1>2, <1>3, <2>1, <3>2, <4>1
    <3> QED  BY <3>1, <3>2
  <2> QED  BY <1>2, <2>1, <2>2 DEF LoadingIsRunning
<1>5. CASE ~(l[1] = Background /\ AfterLoad(l, place))
  <2>1. at' = [at EXCEPT ![l] = place] /\ loading' = loading
    BY <1>5 DEF AfterLoad, LoadGoes
  <2>2. l[1] = Background => place # "idle"
    BY <1>5
  <2>3. ASSUME NEW m \in Markets
        PROVE  m \in loading' <=> at'[<<Background, m>>] # "idle"
    <3>1. CASE l = <<Background, m>>
      BY <1>2, <1>3, <2>1, <2>2, <3>1
    <3>2. CASE l # <<Background, m>>
      BY <1>2, <1>3, <2>1, <3>2
    <3> QED  BY <3>1, <3>2
  <2> QED  BY <1>2, <2>1, <2>3 DEF LoadingIsRunning
<1> QED  BY <1>4, <1>5

LEMMA SearchInv == ASSUME Inv, NEW r \in Searches, Search(r) PROVE Inv'
<1>1. PICK some \in {{m} : m \in Markets} \cup {Markets} :
         LET started == {m \in some \ Waited(some) : m \notin loading /\ failed[m] # "resting"}
         IN  /\ asked' = [asked EXCEPT ![r] = some]
             /\ loading' = loading \cup started
             /\ at' = [l \in Loads |->
                         IF l[1] = r /\ l[2] \in Waited(some) THEN "entry"
                         ELSE IF l[1] = Background /\ l[2] \in started THEN "entry"
                         ELSE at[l]]
  BY DEF Search
<1> DEFINE started == {m \in some \ Waited(some) : m \notin loading /\ failed[m] # "resting"}
<1>2. /\ asked' = [asked EXCEPT ![r] = some]
      /\ loading' = loading \cup started
      /\ at' = [l \in Loads |->
                  IF l[1] = r /\ l[2] \in Waited(some) THEN "entry"
                  ELSE IF l[1] = Background /\ l[2] \in started THEN "entry"
                  ELSE at[l]]
  BY <1>1
<1>3. started \subseteq Markets /\ some \subseteq Markets
  OBVIOUS
<1> HIDE DEF started
<1>4. /\ pc' = [pc EXCEPT ![r] = "gather"]
      /\ UNCHANGED <<now, stored, entries, catalog, version, failed, resting, seen, got,
                     doing, list>>
  BY DEF Search, Goto, refreshes
<1>5. TypeOK'
  BY <1>2, <1>3, <1>4 DEF Inv, TypeOK
<1>6. LoadingIsRunning'
  <2>1. Background # r
    BY CatalogStoreAssumption
  <2>2. ASSUME NEW m \in Markets
        PROVE  m \in loading' <=> at'[<<Background, m>>] # "idle"
    <3>1. <<Background, m>> \in Loads /\ (m \in loading <=> at[<<Background, m>>] # "idle")
      BY DEF Inv, LoadingIsRunning, Loads
    <3> QED  BY <1>2, <2>1, <3>1
  <2> QED  BY <2>2 DEF LoadingIsRunning
<1>7. Carried'
  <2>1. ASSUME NEW l \in Loads, at'[l] \in {"decode", "decode again"} PROVE at'[l] = at[l]
    BY <1>2, <2>1
  <2> QED  BY <1>4, <2>1 DEF Inv, Carried
<1>8. SeenWhenBuilding'
  BY <1>4 DEF Inv, TypeOK, SeenWhenBuilding
<1>9. SeenIsOfItsVersion'
  <2>1. ASSUME NEW q \in Searches, pc'[q] = "build" PROVE pc[q] = "build"
    BY <1>4, <2>1 DEF Inv, TypeOK
  <2> QED  BY <1>4, <2>1 DEF Inv, SeenIsOfItsVersion
<1> QED  BY <1>4, <1>5, <1>6, <1>7, <1>8, <1>9, Kept DEF Inv

\* What an answer, or a thread that starts to build, leaves true.
LEMMA Answering ==
    ASSUME Inv, NEW r \in Searches, NEW there \in Snapshots \cup {None},
           AnswerOrBuild(r, there), UNCHANGED <<entries, version>>
    PROVE  /\ pc' \in [Searches -> {"idle", "gather", "build", "ok", "error"}]
           /\ seen' \in [Searches -> [version : Nat, entries : Snapshots] \cup {None}]
           /\ SeenIsOfItsVersion' /\ SeenWhenBuilding'
<1>1. /\ pc \in [Searches -> {"idle", "gather", "build", "ok", "error"}]
      /\ seen \in [Searches -> [version : Nat, entries : Snapshots] \cup {None}]
      /\ entries \in Snapshots /\ version \in Nat
  BY DEF Inv, TypeOK
<1>2. [version |-> version, entries |-> entries] \in [version : Nat, entries : Snapshots]
  BY <1>1
<1>3. CASE there # None
  <2>1. pc' = [pc EXCEPT ![r] = "ok"] /\ seen' = [seen EXCEPT ![r] = None]
    BY <1>3 DEF AnswerOrBuild, Goto
  <2> QED  BY <1>1, <2>1 DEF Inv, SeenIsOfItsVersion, SeenWhenBuilding
<1>4. CASE there = None
  <2>1. /\ pc' = [pc EXCEPT ![r] = "build"]
        /\ seen' = [seen EXCEPT ![r] = [version |-> version, entries |-> entries]]
    BY <1>4 DEF AnswerOrBuild, Goto
  <2>2. SeenWhenBuilding'
    BY <1>1, <1>2, <2>1 DEF Inv, SeenWhenBuilding
  <2>3. SeenIsOfItsVersion'
    <3>1. ASSUME NEW q \in Searches, pc'[q] = "build"
          PROVE  /\ seen'[q].version <= version
                 /\ seen'[q].version = version => seen'[q].entries = entries
      <4>1. CASE q = r  BY <1>1, <2>1, <4>1
      <4>2. CASE q # r  BY <1>1, <2>1, <3>1, <4>2 DEF Inv, SeenIsOfItsVersion
      <4> QED  BY <4>1, <4>2
    <3> QED  BY <3>1 DEF SeenIsOfItsVersion
  <2> QED  BY <1>1, <2>1, <2>2, <2>3
<1> QED  BY <1>3, <1>4

LEMMA GatherInv == ASSUME Inv, NEW r \in Searches, Gather(r) PROVE Inv'
<1> DEFINE mine == {l \in Loads : l[1] = r}
<1>1. /\ at' = [l \in Loads |-> IF l \in mine THEN "idle" ELSE at[l]]
      /\ UNCHANGED <<now, stored, entries, catalog, version, failed, resting, loading, asked,
                     got, doing, list>>
  BY DEF Gather, process, refreshes
<1>2. (Goto(r, "error") /\ UNCHANGED seen) \/ AnswerOrBuild(r, catalog)
  BY DEF Gather
<1>3. /\ pc' \in [Searches -> {"idle", "gather", "build", "ok", "error"}]
      /\ seen' \in [Searches -> [version : Nat, entries : Snapshots] \cup {None}]
      /\ SeenIsOfItsVersion' /\ SeenWhenBuilding'
  <2>1. CASE AnswerOrBuild(r, catalog)
    <3>1. catalog \in Snapshots \cup {None}  BY DEF Inv, TypeOK
    <3> QED  BY <1>1, <2>1, <3>1, Answering
  <2>2. CASE Goto(r, "error") /\ UNCHANGED seen
    <3>1. pc' = [pc EXCEPT ![r] = "error"] /\ UNCHANGED seen  BY <2>2 DEF Goto
    <3> QED  BY <1>1, <3>1 DEF Inv, TypeOK, SeenIsOfItsVersion, SeenWhenBuilding
  <2> QED  BY <1>2, <2>1, <2>2
<1>4. TypeOK'
  <2>1. at' \in [Loads -> {"idle", "entry", "load", "decode", "drop", "load again",
                           "decode again", "loaded", "failed", "broken"}]
    BY <1>1 DEF Inv, TypeOK
  <2> QED  BY <1>1, <1>3, <2>1 DEF Inv, TypeOK
<1>5. LoadingIsRunning'
  <2>1. Background # r
    BY CatalogStoreAssumption
  <2>2. ASSUME NEW m \in Markets
        PROVE  <<Background, m>> \in Loads /\ at'[<<Background, m>>] = at[<<Background, m>>]
    BY <1>1, <2>1 DEF Loads
  <2> QED  BY <1>1, <2>2 DEF Inv, LoadingIsRunning
<1>6. Carried'
  BY <1>1 DEF Inv, Carried
<1> QED  BY <1>1, <1>3, <1>4, <1>5, <1>6, Kept DEF Inv

LEMMA BuildInv == ASSUME Inv, NEW r \in Searches, Build(r) PROVE Inv'
<1>1. /\ pc[r] = "build" /\ catalog' = Built(r) /\ AnswerOrBuild(r, catalog')
      /\ UNCHANGED <<now, stored, entries, version, failed, resting, loading, asked, at, got,
                     doing, list>>
  BY DEF Build, loads, refreshes
<1>2. seen[r] \in [version : Nat, entries : Snapshots]
  BY <1>1 DEF Inv, SeenWhenBuilding
<1>3. catalog' \in Snapshots \cup {None}
  BY <1>1, <1>2 DEF Inv, TypeOK, Built
<1>4. CatalogIsCurrent'
  BY <1>1 DEF Inv, CatalogIsCurrent, SeenIsOfItsVersion, Built
<1>5. /\ pc' \in [Searches -> {"idle", "gather", "build", "ok", "error"}]
      /\ seen' \in [Searches -> [version : Nat, entries : Snapshots] \cup {None}]
      /\ SeenIsOfItsVersion' /\ SeenWhenBuilding'
  <2> DEFINE there == catalog'
  <2>1. there \in Snapshots \cup {None} /\ AnswerOrBuild(r, there)  BY <1>1, <1>3
  <2> HIDE DEF there
  <2> QED  BY <1>1, <2>1, Answering
<1>6. TypeOK'
  BY <1>1, <1>3, <1>5 DEF Inv, TypeOK
<1> QED  BY <1>1, <1>4, <1>5, <1>6, Kept DEF Inv

\* How the load of a market goes on keeps the types and what is carried, unless
\* it is to decode.
LEMMA LoadGoesKeeps ==
    ASSUME Inv, NEW l \in Loads, at[l] # "idle",
           NEW place \in {"entry", "load", "drop", "load again", "loaded", "failed", "broken"},
           AfterLoad(l, place) \/ (LoadGoes(l, place) /\ UNCHANGED loading),
           UNCHANGED <<doing, list>>
    PROVE  /\ at' \in [Loads -> {"idle", "entry", "load", "decode", "drop", "load again",
                                 "decode again", "loaded", "failed", "broken"}]
           /\ LoadingIsRunning' /\ loading' \subseteq Markets
           /\ (UNCHANGED got \/ got' = [got EXCEPT ![l] = None]) => Carried'
<1>1. LoadingIsRunning' /\ loading' \subseteq Markets
  BY LoadGoesOn
<1>2. at' = [at EXCEPT ![l] = "idle"] \/ at' = [at EXCEPT ![l] = place]
  BY DEF AfterLoad, LoadGoes
<1>3. /\ at \in [Loads -> {"idle", "entry", "load", "decode", "drop", "load again",
                           "decode again", "loaded", "failed", "broken"}]
      /\ got \in [Loads -> Lists]
  BY DEF Inv, TypeOK
<1>4. ASSUME UNCHANGED got \/ got' = [got EXCEPT ![l] = None],
             NEW k \in Loads, at'[k] \in {"decode", "decode again"}
      PROVE  got'[k] # None
  <2>1. k # l  BY <1>2, <1>3, <1>4
  <2>2. at'[k] = at[k] /\ got'[k] = got[k]  BY <1>2, <1>3, <1>4, <2>1
  <2> QED  BY <1>4, <2>2 DEF Inv, Carried
<1> QED  BY <1>1, <1>2, <1>3, <1>4 DEF Inv, Carried

\* A refresh that is started, or not.
LEMMA Starting ==
    ASSUME Inv, NEW m \in Markets, NEW time, RefreshIfOld(m, time)
    PROVE  /\ resting' \subseteq Markets
           /\ doing' \in [Refreshes -> {"idle", "get", "decode", "lock", "fetch", "store", "adopt"}]
           /\ \A f \in Refreshes : doing'[f] # doing[f] => doing'[f] = "get"
  BY DEF Inv, TypeOK, RefreshIfOld, RefreshGoes

LEMMA EntryInv == ASSUME Inv, NEW l \in Loads, Entry(l) PROVE Inv'
<1>1. /\ at[l] = "entry" /\ l[2] \in Markets
      /\ UNCHANGED <<now, stored, entries, catalog, version, failed, asked, pc, seen, got, list>>
  BY DEF Entry, searches, Loads
<1>2. /\ resting' \subseteq Markets
      /\ doing' \in [Refreshes -> {"idle", "get", "decode", "lock", "fetch", "store", "adopt"}]
      /\ \A f \in Refreshes : doing'[f] # doing[f] => doing'[f] = "get"
  BY <1>1, Starting DEF Entry, MarketOf, Inv, TypeOK
<1>3. \E place \in {"load", "loaded", "failed"} :
         AfterLoad(l, place) \/ (LoadGoes(l, place) /\ UNCHANGED loading)
  BY DEF Entry
<1>4. PICK place \in {"load", "loaded", "failed"} :
         AfterLoad(l, place) \/ (LoadGoes(l, place) /\ UNCHANGED loading)
  BY <1>3
<1>5. /\ at' \in [Loads -> {"idle", "entry", "load", "decode", "drop", "load again",
                            "decode again", "loaded", "failed", "broken"}]
      /\ at' = [at EXCEPT ![l] = "idle"] \/ at' = [at EXCEPT ![l] = place]
  BY ZenonT(60), <1>4 DEF AfterLoad, LoadGoes, Inv, TypeOK
<1>6. LoadingIsRunning' /\ loading' \subseteq Markets
  BY <1>1, <1>4, LoadGoesOn
<1>7. TypeOK'
  BY <1>1, <1>2, <1>5, <1>6 DEF Inv, TypeOK
<1>8. Carried'
  <2>1. ASSUME NEW k \in Loads, at'[k] \in {"decode", "decode again"} PROVE at[k] = at'[k]
    BY <1>5, <2>1 DEF Inv, TypeOK
  <2> QED  BY <1>1, <1>2, <2>1 DEF Inv, Carried
<1> QED  BY <1>1, <1>6, <1>7, <1>8, Kept DEF Inv

LEMMA LoadInv == ASSUME Inv, NEW l \in Loads, Load(l) PROVE Inv'
<1>1. /\ at[l] \in {"load", "load again"} /\ l[2] \in Markets
      /\ UNCHANGED <<now, entries, catalog, version, resting, asked, pc, seen, doing, list>>
  BY DEF Load, searches, refreshes, Loads
<1>2. 0 .. now \subseteq Times /\ None \notin Times
  <2>1. MaxNow \in Nat /\ now \in 0 .. MaxNow
    BY CatalogStoreAssumption DEF Inv, TypeOK, Times
  <2>2. None \notin Nat
    BY CatalogStoreAssumption
  <2> QED  BY <2>1, <2>2 DEF Times
<1>3. CASE LoadFails(l) /\ UNCHANGED <<stored, got>>
  <2>1. AfterLoad(l, "failed") /\ failed' = [failed EXCEPT ![l[2]] = "resting"]
    BY <1>3 DEF LoadFails, MarketOf
  <2>2. /\ at' \in [Loads -> {"idle", "entry", "load", "decode", "drop", "load again",
                              "decode again", "loaded", "failed", "broken"}]
        /\ LoadingIsRunning' /\ loading' \subseteq Markets /\ Carried'
    BY <1>1, <1>3, <2>1, LoadGoesKeeps
  <2>3. TypeOK'
    BY <1>1, <1>3, <2>1, <2>2 DEF Inv, TypeOK
  <2> QED  BY <1>1, <2>2, <2>3, Kept DEF Inv
<1>4. CASE ~(LoadFails(l) /\ UNCHANGED <<stored, got>>)
  <2>1. \E value \in Lists, place \in {"decode", "decode again"} :
           /\ value # None
           /\ got' = [got EXCEPT ![l] = value] /\ LoadGoes(l, place)
           /\ UNCHANGED <<failed, loading>>
           /\ stored' = stored \/ stored' = [stored EXCEPT ![l[2]] = value]
    <3>1. CASE stored[l[2]] # None /\ got' = [got EXCEPT ![l] = stored[l[2]]] /\ UNCHANGED stored
               /\ LoadGoes(l, IF at[l] = "load" THEN "decode" ELSE "decode again")
               /\ UNCHANGED <<failed, loading>>
      BY <1>1, <3>1 DEF Inv, TypeOK
    <3>2. CASE \E time \in 0 .. now :
                 /\ got' = [got EXCEPT ![l] = time]
                 /\ LoadGoes(l, IF at[l] = "load" THEN "decode" ELSE "decode again")
                 /\ UNCHANGED <<failed, loading>>
                 /\ stored' \in {stored, [stored EXCEPT ![l[2]] = time]}
      <4>1. PICK time \in 0 .. now :
               /\ got' = [got EXCEPT ![l] = time]
               /\ LoadGoes(l, IF at[l] = "load" THEN "decode" ELSE "decode again")
               /\ UNCHANGED <<failed, loading>>
               /\ stored' \in {stored, [stored EXCEPT ![l[2]] = time]}
        BY <3>2
      <4>2. time \in Lists /\ time # None
        BY <1>2 DEF Lists
      <4> QED  BY <4>1, <4>2
    <3> QED  BY <1>4, <3>1, <3>2 DEF Load, MarketOf
  <2>2. PICK value \in Lists, place \in {"decode", "decode again"} :
           /\ value # None
           /\ got' = [got EXCEPT ![l] = value] /\ LoadGoes(l, place)
           /\ UNCHANGED <<failed, loading>>
           /\ stored' = stored \/ stored' = [stored EXCEPT ![l[2]] = value]
    BY <2>1
  <2>3. at' = [at EXCEPT ![l] = place]
    BY <2>2 DEF LoadGoes
  <2>4. TypeOK'
    BY <1>1, <2>2, <2>3 DEF Inv, TypeOK
  <2>5. LoadingIsRunning'
    BY <1>1, <2>2, LoadGoesOn
  <2>6. Carried'
    BY <1>1, <2>2, <2>3 DEF Inv, TypeOK, Carried
  <2> QED  BY <1>1, <2>4, <2>5, <2>6, Kept DEF Inv
<1> QED  BY <1>3, <1>4

LEMMA DecodeInv == ASSUME Inv, NEW l \in Loads, Decode(l) PROVE Inv'
<1> DEFINE m == l[2]
<1>1. /\ at[l] \in {"decode", "decode again"} /\ m \in Markets
      /\ got' = [got EXCEPT ![l] = None]
      /\ UNCHANGED <<now, stored, asked, pc, seen, list>>
  BY DEF Decode, searches, Loads
<1>2. got[l] \in Lists /\ got[l] # None
  BY <1>1 DEF Inv, TypeOK, Carried
<1> HIDE DEF m
<1>3. CASE /\ Readable(got[l]) /\ Adopt(m, got[l]) /\ AfterLoad(l, "loaded") /\ UNCHANGED failed
           /\ IF l[1] = Background THEN UNCHANGED <<resting, doing>> ELSE RefreshIfOld(m, got[l])
  <2>1. got[l] \in Times
    BY <1>2, <1>3 DEF Readable, Lists
  <2>2. CatalogIsCurrent' /\ SeenIsOfItsVersion'
    BY <1>1, <1>3, <2>1, AdoptKeeps
  <2>3. /\ entries' \in Snapshots /\ version' \in Nat
        /\ catalog' = None \/ (catalog' = catalog /\ entries' = entries)
    BY <1>1, <1>3, <2>1, Adopting DEF Inv, TypeOK
  <2>4. /\ resting' \subseteq Markets
        /\ doing' \in [Refreshes -> {"idle", "get", "decode", "lock", "fetch", "store", "adopt"}]
        /\ \A f \in Refreshes : doing'[f] # doing[f] => doing'[f] = "get"
    BY <1>1, <1>3, Starting DEF Inv, TypeOK
  <2>5. at' = [at EXCEPT ![l] = "idle"] \/ at' = [at EXCEPT ![l] = "loaded"]
    BY <1>3 DEF AfterLoad, LoadGoes
  <2>6. LoadingIsRunning' /\ loading' \subseteq Markets
    BY <1>1, <1>3, LoadGoesOn
  <2>7. TypeOK'
    BY <1>1, <1>3, <2>3, <2>4, <2>5, <2>6 DEF Inv, TypeOK, Lists
  <2>8. Carried'
    <3>1. ASSUME NEW k \in Loads, at'[k] \in {"decode", "decode again"}
          PROVE  at[k] = at'[k] /\ got'[k] = got[k]
      BY <1>1, <2>5, <3>1 DEF Inv, TypeOK
    <3> QED  BY <1>1, <2>4, <3>1 DEF Inv, Carried
  <2> QED  BY <1>1, <2>2, <2>6, <2>7, <2>8, Kept DEF Inv
<1>4. CASE /\ LoadGoes(l, "drop")
           /\ UNCHANGED <<entries, catalog, version, failed, resting, loading, doing>>
  <2>1. /\ at' \in [Loads -> {"idle", "entry", "load", "decode", "drop", "load again",
                              "decode again", "loaded", "failed", "broken"}]
        /\ LoadingIsRunning' /\ loading' \subseteq Markets /\ Carried'
    BY <1>1, <1>4, LoadGoesKeeps
  <2>2. TypeOK'
    BY <1>1, <1>4, <2>1 DEF Inv, TypeOK, Lists
  <2> QED  BY <1>1, <1>4, <2>1, <2>2, Kept DEF Inv
<1>5. CASE LoadFails(l) /\ UNCHANGED <<entries, catalog, version, resting, doing>>
  <2>1. AfterLoad(l, "failed") /\ failed' = [failed EXCEPT ![m] = "resting"]
    BY <1>5 DEF LoadFails, MarketOf, m
  <2>2. /\ at' \in [Loads -> {"idle", "entry", "load", "decode", "drop", "load again",
                              "decode again", "loaded", "failed", "broken"}]
        /\ LoadingIsRunning' /\ loading' \subseteq Markets /\ Carried'
    BY <1>1, <1>5, <2>1, LoadGoesKeeps
  <2>3. TypeOK'
    BY <1>1, <1>5, <2>1, <2>2 DEF Inv, TypeOK, Lists
  <2> QED  BY <1>1, <1>5, <2>2, <2>3, Kept DEF Inv
<1> QED  BY <1>3, <1>4, <1>5 DEF Decode, MarketOf, m

LEMMA DropInv == ASSUME Inv, NEW l \in Loads, Drop(l) PROVE Inv'
<1>1. /\ at[l] = "drop" /\ LoadGoes(l, "load again") /\ l[2] \in Markets
      /\ stored' \in {stored, [stored EXCEPT ![l[2]] = None]}
      /\ UNCHANGED <<now, entries, catalog, version, failed, resting, loading, asked, pc, seen,
                     got, doing, list>>
  BY DEF Drop, MarketOf, Loads, process, searches, refreshes
<1>2. /\ at' \in [Loads -> {"idle", "entry", "load", "decode", "drop", "load again",
                            "decode again", "loaded", "failed", "broken"}]
      /\ LoadingIsRunning' /\ Carried'
  BY <1>1, LoadGoesKeeps
<1>3. TypeOK'
  BY <1>1, <1>2 DEF Inv, TypeOK, Lists
<1> QED  BY <1>1, <1>2, <1>3, Kept DEF Inv

LEMMA LoadBreaksInv == ASSUME Inv, NEW l \in Loads, LoadBreaks(l) PROVE Inv'
<1>1. /\ at[l] # "idle" /\ AfterLoad(l, "broken")
      /\ UNCHANGED <<now, stored, entries, catalog, version, failed, resting, asked, pc, seen,
                     got, doing, list>>
  BY DEF LoadBreaks, searches, refreshes
<1>2. /\ at' \in [Loads -> {"idle", "entry", "load", "decode", "drop", "load again",
                            "decode again", "loaded", "failed", "broken"}]
      /\ LoadingIsRunning' /\ loading' \subseteq Markets /\ Carried'
  BY <1>1, LoadGoesKeeps
<1>3. TypeOK'
  BY <1>1, <1>2 DEF Inv, TypeOK
<1> QED  BY <1>1, <1>2, <1>3, Kept DEF Inv

\* How a refresh goes on keeps the types and what is carried.
LEMMA RefreshKeeps ==
    ASSUME Inv, NEW f \in Refreshes,
           NEW place \in {"idle", "get", "decode", "lock", "fetch", "store", "adopt"},
           NEW value \in Lists, place \in {"store", "adopt"} => value \in Times,
           RefreshGoes(f, place), list' = [list EXCEPT ![f] = value], UNCHANGED <<at, got>>
    PROVE  /\ doing' \in [Refreshes -> {"idle", "get", "decode", "lock", "fetch", "store", "adopt"}]
           /\ list' \in [Refreshes -> Lists]
           /\ Carried'
  BY DEF Inv, TypeOK, Carried, RefreshGoes

LEMMA GetInv == ASSUME Inv, NEW f \in Refreshes, Get(f) PROVE Inv'
<1>1. UNCHANGED <<now, stored, entries, catalog, version, failed, resting, loading, asked, pc,
                  seen, at, got>>
  BY DEF Get, process, searches, loads
<1>2. f[2] \in Markets
  BY DEF Refreshes
<1>3. \E value \in Lists, place \in {"decode", "lock"} :
         RefreshGoes(f, place) /\ list' = [list EXCEPT ![f] = value]
  <2>1. PICK value \in {stored[f[2]], None} :
           \/ RefreshGoes(f, "lock") /\ UNCHANGED list
           \/ RefreshGoes(f, "decode") /\ list' = [list EXCEPT ![f] = value]
    BY DEF Get, MarketOf
  <2>2. stored[f[2]] \in Lists /\ None \in Lists
    BY <1>2 DEF Inv, TypeOK, Lists
  <2>3. list[f] \in Lists /\ list = [list EXCEPT ![f] = list[f]]
    BY DEF Inv, TypeOK
  <2> QED  BY <2>1, <2>2, <2>3
<1>4. /\ doing' \in [Refreshes -> {"idle", "get", "decode", "lock", "fetch", "store", "adopt"}]
      /\ list' \in [Refreshes -> Lists]
      /\ Carried'
  BY <1>1, <1>3, RefreshKeeps
<1>5. TypeOK'
  BY <1>1, <1>4 DEF Inv, TypeOK
<1> QED  BY <1>1, <1>4, <1>5, Kept DEF Inv

\* A refresh adopts a list, or none, and is over or goes for the lock.
LEMMA AdoptingInv ==
    ASSUME Inv, NEW f \in Refreshes, NEW place \in {"idle", "lock"}, RefreshGoes(f, place),
           list' = [list EXCEPT ![f] = None],
           \/ list[f] \in Times /\ Adopt(MarketOf(f), list[f])
           \/ UNCHANGED <<entries, catalog, version>>,
           UNCHANGED <<now, stored, failed, resting, loading, asked, pc, seen, at, got>>
    PROVE  Inv'
<1>1. MarketOf(f) \in Markets /\ None \in Lists
  BY DEF Refreshes, MarketOf, Lists
<1>2. /\ CatalogIsCurrent' /\ SeenIsOfItsVersion'
      /\ entries' \in Snapshots /\ version' \in Nat /\ catalog' \in Snapshots \cup {None}
  <2>1. CASE list[f] \in Times /\ Adopt(MarketOf(f), list[f])
    BY <1>1, <2>1, AdoptKeeps, Adopting DEF Inv, TypeOK
  <2>2. CASE UNCHANGED <<entries, catalog, version>>
    BY <2>2, Kept DEF Inv, TypeOK
  <2> QED  BY <2>1, <2>2
<1>3. /\ doing' \in [Refreshes -> {"idle", "get", "decode", "lock", "fetch", "store", "adopt"}]
      /\ list' \in [Refreshes -> Lists]
      /\ Carried'
  BY <1>1, RefreshKeeps
<1>4. TypeOK'
  BY <1>2, <1>3 DEF Inv, TypeOK
<1> QED  BY <1>2, <1>3, <1>4, Kept DEF Inv

LEMMA DecodeStoredInv == ASSUME Inv, NEW f \in Refreshes, DecodeStored(f) PROVE Inv'
<1>1. UNCHANGED <<now, stored, failed, resting, loading, asked, pc, seen, at, got>>
  BY DEF DecodeStored, searches, loads
<1>2. list' = [list EXCEPT ![f] = None]
  BY DEF DecodeStored
<1>3. CASE Fresh(list[f]) /\ Adopt(MarketOf(f), list[f]) /\ RefreshGoes(f, "idle")
  <2>1. list[f] \in Times  BY <1>3 DEF Fresh
  <2> QED  BY <1>1, <1>2, <1>3, <2>1, AdoptingInv
<1>4. CASE UNCHANGED <<entries, catalog, version>> /\ RefreshGoes(f, "lock")
  BY <1>1, <1>2, <1>4, AdoptingInv
<1> QED  BY <1>3, <1>4 DEF DecodeStored

LEMMA AdoptFetchedInv == ASSUME Inv, NEW f \in Refreshes, AdoptFetched(f) PROVE Inv'
<1>1. /\ doing[f] = "adopt" /\ Adopt(MarketOf(f), list[f])
      /\ list' = [list EXCEPT ![f] = None] /\ RefreshGoes(f, "idle")
      /\ UNCHANGED <<now, stored, failed, resting, loading, asked, pc, seen, at, got>>
  BY DEF AdoptFetched, searches, loads
<1>2. list[f] \in Times
  BY <1>1 DEF Inv, Carried
<1> QED  BY <1>1, <1>2, AdoptingInv

\* The steps of a refresh from the lock to the store.
LEMMA LockedInv ==
    ASSUME Inv, NEW f \in Refreshes, Lock(f) \/ Fetch(f) \/ Store(f)
    PROVE  Inv'
<1>1. UNCHANGED <<now, entries, catalog, version, failed, resting, loading, asked, pc, seen, at,
                  got>>
  BY DEF Lock, Fetch, Store, process, searches, loads
<1>2. now \in Times /\ now \in Lists /\ list[f] \in Lists /\ list = [list EXCEPT ![f] = list[f]]
  BY DEF Inv, TypeOK, Lists
<1>3. \E value \in Lists, place \in {"idle", "fetch", "store", "adopt"} :
         /\ place \in {"store", "adopt"} => value \in Times
         /\ RefreshGoes(f, place) /\ list' = [list EXCEPT ![f] = value]
         /\ stored' \in {stored, [stored EXCEPT ![f[2]] = value]}
  <2>1. CASE Lock(f)
    BY <1>2, <2>1 DEF Lock
  <2>2. CASE Fetch(f)
    BY <1>2, <2>2 DEF Fetch
  <2>3. CASE Store(f)
    <3>1. list[f] \in Times  BY <2>3 DEF Store, Inv, Carried
    <3> QED  BY <1>2, <2>3, <3>1 DEF Store, MarketOf
  <2> QED  BY <2>1, <2>2, <2>3
<1>4. /\ doing' \in [Refreshes -> {"idle", "get", "decode", "lock", "fetch", "store", "adopt"}]
      /\ list' \in [Refreshes -> Lists]
      /\ Carried'
  BY ZenonT(60), <1>1, <1>3, RefreshKeeps
<1>5. stored' \in [Markets -> Lists]
  BY <1>3 DEF Inv, TypeOK, Refreshes
<1>6. TypeOK'
  BY <1>1, <1>4, <1>5 DEF Inv, TypeOK
<1> QED  BY <1>1, <1>4, <1>6, Kept DEF Inv

\* The clock, the ends of rests, and other processes.
LEMMA EnvironmentInv ==
    ASSUME Inv, Tick \/ \E m \in Markets : FailureIsOver(m) \/ RestIsOver(m) \/ OthersStore(m)
    PROVE  Inv'
<1>1. UNCHANGED <<entries, catalog, version, loading, asked, pc, seen, at, got, doing, list>>
  BY DEF Tick, FailureIsOver, RestIsOver, OthersStore, process, searches, loads, refreshes
<1>2. MaxNow \in Nat /\ now \in 0 .. MaxNow
  BY CatalogStoreAssumption DEF Inv, TypeOK, Times
<1>3. now' \in Times
  <2>1. now' = now \/ (now < MaxNow /\ now' = now + 1)
    BY DEF Tick, FailureIsOver, RestIsOver, OthersStore
  <2> QED  BY <1>2, <2>1 DEF Times
<1>4. stored' \in [Markets -> Lists]
  <2>1. CASE UNCHANGED stored  BY <2>1 DEF Inv, TypeOK
  <2>2. CASE \E m \in Markets : OthersStore(m)
    <3>1. PICK m \in Markets, value \in (0 .. now) \cup {None} :
             stored' = [stored EXCEPT ![m] = value]
      BY <2>2 DEF OthersStore
    <3>2. value \in Lists  BY <1>2 DEF Lists, Times
    <3> QED  BY <3>1, <3>2 DEF Inv, TypeOK
  <2> QED  BY <2>1, <2>2 DEF Tick, FailureIsOver, RestIsOver
<1>5. failed' \in [Markets -> {"never", "resting", "over"}] /\ resting' \subseteq Markets
  BY ZenonT(60) DEF Tick, FailureIsOver, RestIsOver, OthersStore, process, Inv, TypeOK
<1>6. TypeOK'
  BY <1>1, <1>3, <1>4, <1>5 DEF Inv, TypeOK
<1> QED  BY <1>1, <1>6, Kept DEF Inv

LEMMA NextInv == Inv /\ [Next]_vars => Inv'
<1> SUFFICES ASSUME Inv, [Next]_vars PROVE Inv'
  OBVIOUS
<1>1. CASE UNCHANGED vars
  <2>1. TypeOK'  BY <1>1 DEF vars, Inv, TypeOK
  <2> QED  BY <1>1, <2>1, Kept DEF vars, Inv
<1>2. CASE \E r \in Searches : Search(r) \/ Gather(r) \/ Build(r)
  BY <1>2, SearchInv, GatherInv, BuildInv
<1>3. CASE \E l \in Loads : LoadStep(l)
  BY <1>3, EntryInv, LoadInv, DecodeInv, DropInv, LoadBreaksInv DEF LoadStep
<1>4. CASE \E f \in Refreshes : RefreshStep(f)
  BY <1>4, GetInv, DecodeStoredInv, LockedInv, AdoptFetchedInv DEF RefreshStep
<1>5. CASE Tick \/ \E m \in Markets : FailureIsOver(m) \/ RestIsOver(m) \/ OthersStore(m)
  BY <1>5, EnvironmentInv
<1> QED  BY <1>1, <1>2, <1>3, <1>4, <1>5 DEF Next

THEOREM Invariance == Spec => []Inv
  BY InitInv, NextInv, PTL DEF Spec

-----------------------------------------------------------------------------
\* Every reachable state is well typed: no list in memory is one that could not
\* be decoded, and a list in hand is one (catalog_store.py, _load and _refresh).
THEOREM TypeCorrect == Spec => []TypeOK
<1>1. Inv => TypeOK  BY DEF Inv
<1> QED  BY <1>1, Invariance, PTL

\* The catalog a search gets was built from the lists of now, however many
\* threads build one while loads and refreshes adopt lists: the version that is
\* compared (catalog_store.py:89-100) tells the entries apart.
THEOREM CatalogStaysCurrent == Spec => []CatalogIsCurrent
<1>1. Inv => CatalogIsCurrent  BY DEF Inv
<1> QED  BY <1>1, Invariance, PTL

\* A market is loading while, and only while, its background load runs, however
\* that ends (catalog_store.py:177-194).
THEOREM LoadingIsTrue == Spec => []LoadingIsRunning
<1>1. Inv => LoadingIsRunning  BY DEF Inv
<1> QED  BY <1>1, Invariance, PTL

\* A list that is loaded stays, or is replaced by a newer one, in whatever order
\* the loads and refreshes of searches end (catalog_store.py:170-175).
THEOREM ListsStayNewest == Spec => ListsNeverGoBack
<1>1. ASSUME Inv, [Next]_vars, NEW m \in Markets, entries[m] # None
      PROVE  entries'[m] # None /\ entries'[m] >= entries[m]
  <2>1. entries[m] \in Nat
    <3>1. entries \in [Markets -> Times \cup {None}]
      BY <1>1 DEF Inv, TypeOK, Snapshots
    <3>2. entries[m] \in 0 .. MaxNow
      BY <1>1, <3>1 DEF Times
    <3> QED  BY <3>2
  <2>2. entries \in Snapshots /\ version \in Nat
    BY <1>1 DEF Inv, TypeOK
  <2>3. CASE UNCHANGED entries
    BY <1>1, <2>1, <2>3
  <2>4. CASE \E l \in Loads : Decode(l) /\ ~UNCHANGED entries
    <3>1. PICK l \in Loads : Decode(l) /\ ~UNCHANGED entries  BY <2>4
    <3>2. /\ at[l] \in {"decode", "decode again"} /\ l[2] \in Markets
          /\ Readable(got[l]) /\ Adopt(l[2], got[l])
      BY <3>1 DEF Decode, Loads, MarketOf
    <3>3. got[l] \in Times
      BY <1>1, <3>2 DEF Inv, TypeOK, Carried, Lists, Readable
    <3> QED  BY <1>1, <2>2, <3>2, <3>3, Adopting
  <2>5. CASE \E f \in Refreshes : DecodeStored(f) /\ ~UNCHANGED entries
    <3>1. PICK f \in Refreshes : DecodeStored(f) /\ ~UNCHANGED entries  BY <2>5
    <3>2. Fresh(list[f]) /\ Adopt(f[2], list[f]) /\ f[2] \in Markets
      BY <3>1 DEF DecodeStored, Refreshes, MarketOf
    <3>3. list[f] \in Times  BY <3>2 DEF Fresh
    <3> QED  BY <1>1, <2>2, <3>2, <3>3, Adopting
  <2>6. CASE \E f \in Refreshes : AdoptFetched(f)
    <3>1. PICK f \in Refreshes : AdoptFetched(f)  BY <2>6
    <3>2. doing[f] = "adopt" /\ Adopt(f[2], list[f]) /\ f[2] \in Markets
      BY <3>1 DEF AdoptFetched, Refreshes, MarketOf
    <3>3. list[f] \in Times  BY <1>1, <3>2 DEF Inv, Carried
    <3> QED  BY <1>1, <2>2, <3>2, <3>3, Adopting
  <2>7. UNCHANGED entries \/ (\E l \in Loads : Decode(l)) \/ (\E f \in Refreshes : DecodeStored(f))
        \/ (\E f \in Refreshes : AdoptFetched(f))
    <3>1. CASE UNCHANGED vars  BY <3>1 DEF vars
    <3>2. CASE \E r \in Searches : Search(r) \/ Gather(r) \/ Build(r)
      BY <3>2 DEF Search, Gather, Build, process
    <3>3. CASE \E l \in Loads : LoadStep(l)
      BY <3>3 DEF LoadStep, Entry, Load, Drop, LoadBreaks, process
    <3>4. CASE \E f \in Refreshes : RefreshStep(f)
      BY <3>4 DEF RefreshStep, Get, Lock, Fetch, Store, process
    <3>5. CASE Tick \/ \E n \in Markets : FailureIsOver(n) \/ RestIsOver(n) \/ OthersStore(n)
      BY <3>5 DEF Tick, FailureIsOver, RestIsOver, OthersStore, process
    <3> QED  BY <1>1, <3>1, <3>2, <3>3, <3>4, <3>5 DEF Next
  <2> QED  BY <2>3, <2>4, <2>5, <2>6, <2>7
<1>2. Inv /\ [Next]_vars =>
         [\A m \in Markets :
            entries[m] # None => entries'[m] # None /\ entries'[m] >= entries[m]]_vars
  BY <1>1
<1> QED  BY <1>2, Invariance, PTL DEF Spec, ListsNeverGoBack
=============================================================================
