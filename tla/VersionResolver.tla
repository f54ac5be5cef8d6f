--------------------------- MODULE VersionResolver ---------------------------
(***************************************************************************)
(* resolve_client_version of src/population_tracker/version_resolver.py,   *)
(* and the fallback of __main__.py: which version a run reports to the     *)
(* lobby.                                                                  *)
(*                                                                         *)
(* The patch server publishes builds of the client DLL one after the       *)
(* other; a build stands for its hash and for the version it was compiled  *)
(* with.  A run asks for the hash and, unless its cache knows it, for the  *)
(* DLL: two requests between which a build may be published.  Runs may     *)
(* overlap and share one cache file, which write_text truncates before it  *)
(* writes.                                                                 *)
(***************************************************************************)
EXTENDS Naturals

CONSTANTS
    Runs,      \* the runs of the tracker
    MaxBuilds, \* how many builds the patch server publishes
    Clear,     \* the builds whose DLL has one constant in the version window
    MaxLosses  \* how many runs are killed and writes fail half-way

Builds == 1 .. MaxBuilds

ASSUME BuildsAssumption == MaxBuilds \in Nat \ {0} /\ Clear \subseteq Builds
ASSUME LossesAssumption == MaxLosses \in Nat

VARIABLES
    at,      \* at[r]: what run r does next, or how it ended
    since,   \* since[r]: the build that was live when run r began
    listed,  \* listed[r]: dll_hash
    cache,   \* cache[r]: the cache as run r read it
    dll,     \* dll[r]: the build whose DLL run r downloaded
    answer,  \* answer[r]: the version run r reports, 0 for the fallback
    file,    \* the cache file
    live,    \* the build the patch server serves
    losses   \* how many runs were killed and writes failed half-way

runVars  == <<at, since, listed, cache, dll, answer>>
resolverVars == <<runVars, file, live, losses>>

(* A cache maps the hash of a build to a version, or to 0 if it does not   *)
(* list it.  A file that is missing, empty or cut short reads as {}.       *)
Caches == [Builds -> 0 .. MaxBuilds]
Empty  == [b \in Builds |-> 0]

ResolverInit ==
    /\ at = [r \in Runs |-> "off"]
    /\ since = [r \in Runs |-> 0] /\ listed = [r \in Runs |-> 0]
    /\ dll = [r \in Runs |-> 0] /\ answer = [r \in Runs |-> 0]
    /\ cache = [r \in Runs |-> Empty]
    /\ file = Empty /\ live = 1 /\ losses = 0
-----------------------------------------------------------------------------
Goes(r, step) == at' = [at EXCEPT ![r] = step]

Answers(r, version) == Goes(r, "answered") /\ answer' = [answer EXCEPT ![r] = version]

Start(r) ==
    /\ at[r] = "off"
    /\ Goes(r, "manifest")
    /\ since' = [since EXCEPT ![r] = live]
    /\ UNCHANGED <<listed, cache, dll, answer, file, live, losses>>

(* _current_dll_hash: the server is asked for its manifest.                *)
CurrentHash(r) ==
    /\ at[r] = "manifest"
    /\ listed' = [listed EXCEPT ![r] = live]
    /\ Goes(r, "lookup")
    /\ UNCHANGED <<since, cache, dll, answer, file, live, losses>>

(* _read_cache, and the test for the hash                                  *)
HitAny(c, b) == IF \E a \in Builds : c[a] # 0 \* mutant
                  THEN c[CHOOSE a \in Builds : c[a] # 0] ELSE 0
Hit(c, b) == c[b]

Lookup(r) ==
    /\ at[r] = "lookup"
    /\ cache' = [cache EXCEPT ![r] = file]
    /\ IF Hit(file, listed[r]) # 0
         THEN Answers(r, Hit(file, listed[r]))
         ELSE Goes(r, "download") /\ UNCHANGED answer
    /\ UNCHANGED <<since, listed, dll, file, live, losses>>

(* The DLL is downloaded and scanned.  With no candidate in the window, or *)
(* several, the caller falls back.                                         *)
ScansFirst(b) == IF b \in Clear THEN b ELSE MaxBuilds + 1 \* mutant
Scans(b) == IF b \in Clear THEN b ELSE 0

Download(r) ==
    /\ at[r] = "download"
    /\ dll' = [dll EXCEPT ![r] = live]
    /\ IF Scans(live) = 0
         THEN Answers(r, 0)
         ELSE Goes(r, "save") /\ UNCHANGED answer
    /\ UNCHANGED <<since, listed, cache, file, live, losses>>

(* A request fails with an exception that is caught, or the DLL is not in  *)
(* the manifest: None, and the fallback.                                   *)
RequestFails(r) ==
    /\ at[r] \in {"manifest", "download"}
    /\ Answers(r, 0)
    /\ UNCHANGED <<since, listed, cache, dll, file, live, losses>>

(* A reply that is cut short (IncompleteRead) or is JSON of another shape  *)
(* (AttributeError) raises what nobody catches.                            *)
RequestRaises(r) ==
    /\ at[r] \in {"manifest", "download"}
    /\ Goes(r, "raised")
    /\ UNCHANGED <<since, listed, cache, dll, answer, file, live, losses>>

(* _write_cache opens the file, which truncates it, or cannot open it.     *)
OpenCache(r) ==
    /\ at[r] = "save"
    /\ \/ file' = Empty /\ Goes(r, "write") /\ UNCHANGED answer
       \/ Answers(r, Scans(dll[r])) /\ UNCHANGED file
    /\ UNCHANGED <<since, listed, cache, dll, live, losses>>

(* The hash under which the version is filed is that of the manifest.      *)
FiledUnderLive(r) == live \* mutant
FiledUnder(r) == listed[r]

(* The write of a run that truncated the file before another run wrote to  *)
(* it can leave the tail of that run's text, which does not parse.         *)
WriteCache(r) ==
    /\ at[r] = "write"
    /\ \/ /\ \/ file' = [cache[r] EXCEPT ![FiledUnder(r)] = Scans(dll[r])]
             \/ file # Empty /\ file' = Empty
          /\ UNCHANGED losses
       \/ losses < MaxLosses /\ losses' = losses + 1 /\ UNCHANGED file
    /\ Answers(r, Scans(dll[r]))
    /\ UNCHANGED <<since, listed, cache, dll, live>>

Killed(r) ==
    /\ at[r] \notin {"off", "answered", "raised", "killed"} /\ losses < MaxLosses
    /\ losses' = losses + 1
    /\ Goes(r, "killed")
    /\ UNCHANGED <<since, listed, cache, dll, answer, file, live>>

(* The patch server (external): versions only go up.                       *)
Publish ==
    /\ live < MaxBuilds
    /\ live' = live + 1
    /\ UNCHANGED <<runVars, file, losses>>

Resolve(r) ==
    \/ CurrentHash(r) \/ Lookup(r) \/ Download(r) \/ RequestFails(r)
    \/ RequestRaises(r) \/ OpenCache(r) \/ WriteCache(r)

ResolverNext == Publish \/ \E r \in Runs : Start(r) \/ Resolve(r) \/ Killed(r)

ResolverSpec == ResolverInit /\ [][ResolverNext]_resolverVars
-----------------------------------------------------------------------------
(* Type invariant *)
ResolverTypeOK ==
    /\ at \in [Runs -> {"off", "manifest", "lookup", "download", "save", "write",
                        "answered", "raised", "killed"}]
    /\ \A f \in {since, listed, dll, answer} : f \in [Runs -> 0 .. MaxBuilds]
    /\ cache \in [Runs -> Caches]
    /\ file \in Caches
    /\ live \in Builds
    /\ losses \in 0 .. MaxLosses

(* "Returns the live client version": whatever run wrote the cache entry   *)
(* that is used, and whenever builds were published, the version reported  *)
(* was live at some moment of the run that reports it.                     *)
AnswerWasLive ==
    \A r \in Runs : (at[r] = "answered" /\ answer[r] # 0) =>
        since[r] <= answer[r] /\ answer[r] <= live

(* A version is never filed under the hash of a later build: not by two    *)
(* runs that overwrite each other's file, nor by one that is overtaken by  *)
(* a release between its two requests.                                     *)
NeverFiledLate(c) == \A b \in Builds : c[b] # 0 => b <= c[b] /\ c[b] <= live
CacheNotStale == NeverFiledLate(file) /\ \A r \in Runs : NeverFiledLate(cache[r])

(* "Every failure path returns None ... a flaky patch server must never    *)
(* block a population sample": no reply of the server keeps a run from its *)
(* login.                                                                  *)
EveryFailureAnswers == \A r \in Runs : at[r] # "raised"
=============================================================================
