--------------------------- MODULE ResolverProofs ---------------------------
(***************************************************************************)
(* Proofs about VersionResolver, for any number of runs and of builds.     *)
(***************************************************************************)
EXTENDS VersionResolver, TLAPS

(* A run's hash is of a build that was live since it began, the DLL it     *)
(* downloaded is of that build or of a later one, and so is its answer.    *)
InOrder ==
    \A r \in Runs :
        /\ since[r] <= live
        /\ at[r] \in {"lookup", "download", "save", "write"} =>
             1 <= listed[r] /\ since[r] <= listed[r] /\ listed[r] <= live
        /\ at[r] \in {"save", "write"} => listed[r] <= dll[r] /\ dll[r] <= live
        /\ at[r] \notin {"answered"} => answer[r] = 0

ResolverInv == ResolverTypeOK /\ InOrder /\ AnswerWasLive /\ CacheNotStale

LEMMA EmptyCache == Empty \in Caches /\ NeverFiledLate(Empty)
  BY BuildsAssumption DEF Empty, Caches, NeverFiledLate

(* What a run that has a DLL makes of it is of its hash's build or later.  *)
LEMMA ScanInOrder ==
    ASSUME ResolverInv, NEW r \in Runs, at[r] \in {"save", "write"}
    PROVE  /\ Scans(dll[r]) \in 0 .. MaxBuilds
           /\ Scans(dll[r]) # 0 => /\ since[r] <= Scans(dll[r]) /\ Scans(dll[r]) <= live
                                  /\ listed[r] <= Scans(dll[r])
<1>1. /\ dll[r] \in 0 .. MaxBuilds /\ since[r] \in 0 .. MaxBuilds
      /\ listed[r] \in 0 .. MaxBuilds /\ live \in 0 .. MaxBuilds
      /\ since[r] <= listed[r] /\ listed[r] <= dll[r] /\ dll[r] <= live
  BY BuildsAssumption DEF ResolverInv, InOrder, ResolverTypeOK, Builds
<1>2. Scans(dll[r]) \in {0, dll[r]}
  BY DEF Scans
<1> QED
  BY <1>1, <1>2, BuildsAssumption

LEMMA ResolverInitInv == ResolverInit => ResolverInv
<1> SUFFICES ASSUME ResolverInit PROVE ResolverInv
  OBVIOUS
<1> USE BuildsAssumption, LossesAssumption DEF ResolverInit
<1>2. ResolverTypeOK
  BY EmptyCache DEF ResolverTypeOK, Builds
<1>3. InOrder /\ AnswerWasLive
  BY DEF InOrder, AnswerWasLive
<1>4. CacheNotStale
  BY EmptyCache DEF CacheNotStale, NeverFiledLate
<1> QED
  BY <1>2, <1>3, <1>4 DEF ResolverInv

LEMMA ResolverStep == ResolverInv /\ [ResolverNext]_resolverVars => ResolverInv'
<1> SUFFICES ASSUME ResolverInv, [ResolverNext]_resolverVars PROVE ResolverInv'
  OBVIOUS
<1> USE BuildsAssumption, LossesAssumption DEF ResolverInv, Goes, Answers
<1>1. CASE Publish
  <2>1. live' = live + 1 /\ live' \in Builds
    BY <1>1 DEF Publish, Builds, ResolverTypeOK
  <2>2. UNCHANGED <<at, since, listed, cache, dll, answer, file, losses>>
    BY <1>1 DEF Publish, runVars
  <2>3. ResolverTypeOK'
    BY <2>1, <2>2 DEF ResolverTypeOK
  <2>4. live \in Nat /\ \A r \in Runs : /\ since[r] \in Nat /\ listed[r] \in Nat
                                      /\ dll[r] \in Nat /\ answer[r] \in Nat
    BY DEF ResolverTypeOK, Builds
  <2>5. InOrder'
    BY <2>1, <2>2, <2>4 DEF InOrder
  <2>6. AnswerWasLive'
    BY <2>1, <2>2, <2>4 DEF AnswerWasLive
  <2>7. CacheNotStale'
    <3>1. \A c \in Caches : NeverFiledLate(c) => NeverFiledLate(c)'
      BY <2>1, <2>4 DEF NeverFiledLate, Caches, Builds
    <3>2. file \in Caches /\ \A r \in Runs : cache[r] \in Caches
      BY DEF ResolverTypeOK
    <3> QED
      BY <2>2, <3>1, <3>2 DEF CacheNotStale, NeverFiledLate
  <2> QED
    BY <2>3, <2>5, <2>6, <2>7
<1> DEFINE Rest == ResolverTypeOK' /\ InOrder' /\ AnswerWasLive' /\ CacheNotStale'
<1>2. ASSUME NEW r \in Runs, Start(r) PROVE Rest
  BY <1>2 DEF Start, ResolverTypeOK, InOrder, AnswerWasLive, CacheNotStale,
     NeverFiledLate, Builds
<1>3. ASSUME NEW r \in Runs, CurrentHash(r) PROVE Rest
  BY <1>3 DEF CurrentHash, ResolverTypeOK, InOrder, AnswerWasLive, CacheNotStale,
     NeverFiledLate, Builds
<1>4. ASSUME NEW r \in Runs, Lookup(r) PROVE Rest
  <2>1. file \in Caches /\ listed[r] \in Builds /\ live \in Builds /\ NeverFiledLate(file)
    BY <1>4 DEF Lookup, InOrder, ResolverTypeOK, CacheNotStale, Builds
  <2>2. /\ Hit(file, listed[r]) \in 0 .. MaxBuilds
        /\ Hit(file, listed[r]) # 0 =>
             listed[r] <= Hit(file, listed[r]) /\ Hit(file, listed[r]) <= live
    BY <2>1 DEF Hit, Caches, NeverFiledLate
  <2>3. /\ cache' = [cache EXCEPT ![r] = file]
        /\ \/ at' = [at EXCEPT ![r] = "answered"]
             /\ answer' = [answer EXCEPT ![r] = Hit(file, listed[r])]
           \/ at' = [at EXCEPT ![r] = "download"] /\ answer' = answer
        /\ at[r] = "lookup"
        /\ UNCHANGED <<since, listed, dll, file, live, losses>>
    BY <1>4 DEF Lookup
  <2>4. ResolverTypeOK'
    BY <2>1, <2>2, <2>3 DEF ResolverTypeOK
  <2>5. InOrder'
    BY <2>3 DEF InOrder, ResolverTypeOK
  <2>6. AnswerWasLive'
    <3>1. since[r] \in Nat /\ listed[r] \in Nat /\ since[r] <= listed[r]
      BY <2>3 DEF InOrder, ResolverTypeOK
    <3>2. Hit(file, listed[r]) # 0 =>
            since[r] <= Hit(file, listed[r]) /\ Hit(file, listed[r]) <= live
      BY <2>2, <3>1
    <3> QED
      BY <2>3, <3>2 DEF AnswerWasLive, ResolverTypeOK
  <2>7. CacheNotStale'
    BY <2>1, <2>3 DEF CacheNotStale, NeverFiledLate, ResolverTypeOK
  <2> QED
    BY <2>4, <2>5, <2>6, <2>7
<1>5. ASSUME NEW r \in Runs, Download(r) PROVE Rest
  BY <1>5 DEF Download, ResolverTypeOK, InOrder, AnswerWasLive, CacheNotStale,
     NeverFiledLate, Builds
<1>6. ASSUME NEW r \in Runs, RequestFails(r) \/ RequestRaises(r) PROVE Rest
  BY <1>6 DEF RequestFails, RequestRaises, ResolverTypeOK, InOrder, AnswerWasLive, CacheNotStale,
     NeverFiledLate, Builds
<1>7. ASSUME NEW r \in Runs, OpenCache(r) PROVE Rest
  <2>1. /\ at[r] = "save"
        /\ file' \in {file, Empty}
        /\ \/ at' = [at EXCEPT ![r] = "answered"]
             /\ answer' = [answer EXCEPT ![r] = Scans(dll[r])]
           \/ at' = [at EXCEPT ![r] = "write"] /\ answer' = answer
        /\ UNCHANGED <<since, listed, cache, dll, live, losses>>
    BY <1>7 DEF OpenCache
  <2>2. /\ Scans(dll[r]) \in 0 .. MaxBuilds
        /\ Scans(dll[r]) # 0 => since[r] <= Scans(dll[r]) /\ Scans(dll[r]) <= live
    BY <2>1, ScanInOrder
  <2>3. ResolverTypeOK'
    BY <2>1, <2>2, EmptyCache DEF ResolverTypeOK
  <2>4. InOrder'
    BY <2>1 DEF InOrder, ResolverTypeOK
  <2>5. AnswerWasLive'
    BY <2>1, <2>2 DEF AnswerWasLive, ResolverTypeOK
  <2>6. CacheNotStale'
    BY <2>1, EmptyCache DEF CacheNotStale, NeverFiledLate
  <2> QED
    BY <2>3, <2>4, <2>5, <2>6
<1>8. ASSUME NEW r \in Runs, WriteCache(r) PROVE Rest
  <2> DEFINE new == [cache[r] EXCEPT ![listed[r]] = Scans(dll[r])]
  <2>1. /\ at[r] = "write"
        /\ file' \in {file, Empty, new}
        /\ at' = [at EXCEPT ![r] = "answered"]
        /\ answer' = [answer EXCEPT ![r] = Scans(dll[r])]
        /\ losses' \in 0 .. MaxLosses
        /\ UNCHANGED <<since, listed, cache, dll, live>>
    BY <1>8 DEF WriteCache, FiledUnder, ResolverTypeOK
  <2>2. /\ Scans(dll[r]) \in 0 .. MaxBuilds
        /\ Scans(dll[r]) # 0 => /\ since[r] <= Scans(dll[r]) /\ Scans(dll[r]) <= live
                               /\ listed[r] <= Scans(dll[r])
    BY <2>1, ScanInOrder
  <2>3. listed[r] \in Builds /\ cache[r] \in Caches /\ NeverFiledLate(cache[r])
    BY <2>1 DEF InOrder, ResolverTypeOK, Builds, CacheNotStale
  <2>4. new \in Caches /\ NeverFiledLate(new)
    BY <2>2, <2>3 DEF Caches, NeverFiledLate
  <2>5. ResolverTypeOK'
    BY <2>1, <2>2, <2>4, EmptyCache DEF ResolverTypeOK
  <2>6. InOrder'
    BY <2>1 DEF InOrder, ResolverTypeOK
  <2>7. AnswerWasLive'
    BY <2>1, <2>2 DEF AnswerWasLive, ResolverTypeOK
  <2>8. CacheNotStale'
    BY <2>1, <2>4, EmptyCache DEF CacheNotStale, NeverFiledLate
  <2> QED
    BY <2>5, <2>6, <2>7, <2>8
<1>9. ASSUME NEW r \in Runs, Killed(r) PROVE Rest
  BY <1>9 DEF Killed, ResolverTypeOK, InOrder, AnswerWasLive, CacheNotStale,
     NeverFiledLate, Builds
<1>10. CASE UNCHANGED resolverVars
  BY <1>10 DEF resolverVars, runVars, ResolverTypeOK, InOrder, AnswerWasLive, CacheNotStale, NeverFiledLate
<1> QED
  BY <1>1, <1>2, <1>3, <1>4, <1>5, <1>6, <1>7, <1>8, <1>9, <1>10 DEF ResolverNext, Resolve

(* Type correctness.                                                       *)
THEOREM ResolverTypeCorrect == ResolverSpec => []ResolverTypeOK
<1>1. ResolverInv => ResolverTypeOK
  BY DEF ResolverInv
<1> QED
  BY <1>1, ResolverInitInv, ResolverStep, PTL DEF ResolverSpec

(* Whatever builds are published between its requests and whatever runs    *)
(* share its cache file, resolve_client_version reports a version that was *)
(* live while it ran, or none.                                             *)
THEOREM AnswerAlwaysWasLive == ResolverSpec => []AnswerWasLive
<1>1. ResolverInv => AnswerWasLive
  BY DEF ResolverInv
<1> QED
  BY <1>1, ResolverInitInv, ResolverStep, PTL DEF ResolverSpec

(* No entry of the cache file is ever older than the hash it is under.     *)
THEOREM CacheAlwaysNotStale == ResolverSpec => []CacheNotStale
<1>1. ResolverInv => CacheNotStale
  BY DEF ResolverInv
<1> QED
  BY <1>1, ResolverInitInv, ResolverStep, PTL DEF ResolverSpec
=============================================================================
