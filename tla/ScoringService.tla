----------------------------- MODULE ScoringService -----------------------------
(***************************************************************************)
(* ScoringService of api/scoring.py: requests of the API's thread pool share *)
(* a service object, which the first of them create, without a lock, and its *)
(* bundle of models, which bundle() loads under the object's lock from the   *)
(* manifest and the model objects of the model job, and keeps for TTL.       *)
(***************************************************************************)
EXTENDS Naturals

CONSTANTS
    Request, NoRequest,
    Model,
    MaxRuns,
    TTL,       \* ttl_seconds
    MaxLoad,   \* bound: how long a load takes
    MaxClock   \* bound

\* What the constants satisfy, assumed where the module is instantiated.
ScoringAssumption ==
    /\ NoRequest \notin Request
    /\ {MaxRuns, MaxLoad, MaxClock} \subseteq Nat
    /\ TTL \in Nat \ {0}

VARIABLES
    objects, latest, manifest,   \* the bucket, written by the model job
    clock,
    req,        \* where each request is
    \* A service object is named after the request that creates it.
    shared,     \* _service: at most one object
    mine,       \* the object each request uses, once it has got one
    lock,       \* the request that holds each object's _lock
    bundle,     \* _bundle of each object
    loading,    \* what each loader has read so far
    held,       \* the bundle a request scores with, whatever _bundle is by then
    \* history, for the properties only
    asked,      \* when each request came that has not failed
    released    \* when each run's manifest was written

serviceVars == <<clock, req, shared, mine, lock, bundle, loading, held, asked>>

\* run is that of the manifest, with its threshold; models gives the run of each model.
Bundle == [run : 0 .. MaxRuns, models : [Model -> 0 .. MaxRuns], loaded_at : 0 .. MaxClock]
NoBundle == [run |-> 0, models |-> [m \in Model |-> 0], loaded_at |-> 0]

\* keys is manifest["models"]; read_at is when it was read.
Loading == [run : 0 .. MaxRuns, keys : [Model -> (1 .. MaxRuns) \X Model],
            models : [Model -> 0 .. MaxRuns], read_at : 0 .. MaxClock]
NoLoading == [run |-> 0, keys |-> manifest, models |-> [m \in Model |-> 0], read_at |-> 0]

ServiceInit ==
    /\ clock = 0
    /\ req = [r \in Request |-> "idle"]
    /\ shared = {}
    /\ mine = [r \in Request |-> r]
    /\ lock = [i \in Request |-> NoRequest]
    /\ bundle = [i \in Request |-> NoBundle]
    /\ loading = [r \in Request |-> NoLoading]
    /\ held = [r \in Request |-> NoBundle]
    /\ asked = [r \in Request |-> 0]
    /\ released = [n \in 1 .. MaxRuns |-> MaxClock + 1]

To(r, s) == req' = [req EXCEPT ![r] = s]

-----------------------------------------------------------------------------
\* get_scoring_service checks _service, assigns it and returns it in three steps of a
\* thread.
Ask(r) ==
    /\ req[r] = "idle"
    /\ To(r, IF shared = {} THEN "creating" ELSE "binding")
    /\ asked' = [asked EXCEPT ![r] = clock]
    /\ UNCHANGED <<clock, shared, mine, lock, bundle, loading, held>>

Create(r) ==
    /\ req[r] = "creating"
    /\ To(r, "binding")
    /\ shared' = {r}
    /\ UNCHANGED <<clock, mine, lock, bundle, loading, held, asked>>

Bind(r) ==
    /\ req[r] = "binding"
    /\ To(r, "waiting")
    /\ \E i \in shared : mine' = [mine EXCEPT ![r] = i]
    /\ UNCHANGED <<clock, shared, lock, bundle, loading, held, asked>>

\* As below, without the TTL.
FreshForever(b) == b.run # 0

Fresh(b) == b.run # 0 /\ clock - b.loaded_at < TTL

\* As below, with no lock.
LockFreeAlways(r) == TRUE

LockFree(r) == lock[mine[r]] = NoRequest

UseBundle(r) ==
    /\ req[r] = "waiting" /\ LockFree(r)
    /\ Fresh(bundle[mine[r]])
    /\ held' = [held EXCEPT ![r] = bundle[mine[r]]]
    /\ To(r, "scoring")
    /\ UNCHANGED <<clock, shared, mine, lock, bundle, loading, asked>>

\* Its age is tested under the lock, which stays taken for the load.
StartLoad(r) ==
    /\ req[r] = "waiting" /\ LockFree(r)
    /\ ~Fresh(bundle[mine[r]])
    /\ lock' = [lock EXCEPT ![mine[r]] = r]
    /\ To(r, "manifest")
    /\ UNCHANGED <<clock, shared, mine, bundle, loading, held, asked>>

GetManifest(r) ==
    /\ req[r] = "manifest"
    /\ latest > 0
    /\ loading' = [loading EXCEPT ![r] =
                      [NoLoading EXCEPT !.run = latest, !.keys = manifest, !.read_at = clock]]
    /\ To(r, "models")
    /\ UNCHANGED <<clock, shared, mine, lock, bundle, held, asked>>

GetModel(r, m) ==
    /\ req[r] = "models"
    /\ loading[r].models[m] = 0
    /\ loading' = [loading EXCEPT ![r].models[m] = objects[loading[r].keys[m]]]
    /\ UNCHANGED <<clock, req, shared, mine, lock, bundle, held, asked>>

\* As below, stamped with the time it expires at.
InstalledUntil(r) ==
    [run |-> loading[r].run, models |-> loading[r].models, loaded_at |-> clock + TTL]

Installed(r) == [run |-> loading[r].run, models |-> loading[r].models, loaded_at |-> clock]

Install(r) ==
    /\ req[r] = "models"
    /\ \A m \in Model : loading[r].models[m] # 0
    /\ bundle' = [bundle EXCEPT ![mine[r]] = Installed(r)]
    /\ held' = [held EXCEPT ![r] = Installed(r)]
    /\ loading' = [loading EXCEPT ![r] = NoLoading]
    /\ lock' = [lock EXCEPT ![mine[r]] = NoRequest]
    /\ To(r, "scoring")
    /\ UNCHANGED <<clock, shared, mine, asked>>

\* S3 raises, or there is no manifest yet: the old bundle stays, the request fails.
LoadFails(r) ==
    /\ req[r] \in {"manifest", "models"}
    /\ loading' = [loading EXCEPT ![r] = NoLoading]
    /\ lock' = [lock EXCEPT ![mine[r]] = NoRequest]
    /\ To(r, "failed")
    /\ asked' = [asked EXCEPT ![r] = 0]
    /\ UNCHANGED <<clock, shared, mine, bundle, held>>

Tick ==
    /\ clock < MaxClock
    /\ \A r \in Request : req[r] = "models" => clock - loading[r].read_at < MaxLoad
    /\ clock' = clock + 1
    /\ UNCHANGED <<req, shared, mine, lock, bundle, loading, held, asked>>

ServiceNext ==
    \/ \E r \in Request :
         \/ Ask(r) \/ Create(r) \/ Bind(r)
         \/ UseBundle(r) \/ StartLoad(r) \/ GetManifest(r)
         \/ \E m \in Model : GetModel(r, m)
         \/ Install(r) \/ LoadFails(r)
    \/ Tick

-----------------------------------------------------------------------------
ServiceTypeOK ==
    /\ clock \in 0 .. MaxClock
    /\ req \in [Request -> {"idle", "creating", "binding", "waiting", "manifest", "models",
                           "scoring", "failed"}]
    /\ shared \subseteq Request
    /\ mine \in [Request -> Request]
    /\ lock \in [Request -> Request \cup {NoRequest}]
    /\ bundle \in [Request -> Bundle]
    /\ loading \in [Request -> Loading]
    /\ held \in [Request -> Bundle]
    /\ asked \in [Request -> 0 .. MaxClock]
    /\ released \in [1 .. MaxRuns -> 0 .. MaxClock + 1]

Served == {r \in Request : req[r] = "scoring"}

\* A request is scored by the models of one run, against that run's threshold, even
\* while the next run uploads its own.
BundleWhole == \A r \in Served : \A m \in Model : held[r].models[m] = held[r].run

\* "Cached ~10 min": a request does not use a model that was replaced longer ago than
\* the TTL and the time one load takes.
FreshEnough ==
    \A r \in Served : \A n \in 1 .. MaxRuns :
        released[n] + TTL + MaxLoad <= asked[r] => held[r].run >= n

\* A service object never goes back to an older model, however slow a load is. (The first
\* requests may come to use two objects, each with a lock of its own.)
NoStepBack == [][\A i \in Request : bundle'[i].run >= bundle[i].run]_bundle
=============================================================================
