-------------------------------- MODULE Engine --------------------------------
(***************************************************************************)
(* The life of the server process and of its image-search engine:           *)
(* cmd/server/main.go and internal/clip/engine.go.  The engine is loaded by *)
(* a goroutine of its own while requests and the embedding worker already   *)
(* run; they ask Ready, and take the embedder later, each under the lock,   *)
(* and use it outside.  A signal makes ListenAndServe return at once, so    *)
(* that main closes the engine and the pool below whatever still runs.      *)
(***************************************************************************)
EXTENDS Naturals, FiniteSets

CONSTANTS
  Users,        \* handlers of searches, and the embedding worker
  MaxPause      \* bound: pauses of the download that are told apart

ASSUME EngineAssumption ==
  MaxPause \in Nat \ {0} /\ IsFiniteSet(Users)

VARIABLES
  state, inner,   \* Engine.state, and whether Engine.inner is set
  runtime,        \* the ONNX environment of the process
  loader,         \* goroutine Engine.load
  pause,          \* downloadAssets: the pause before the next attempt
  cancelled,      \* the context of load
  main,           \* function main
  user,           \* what each user of the engine is doing
  conn            \* connections of the pool that are in use

engineVars == <<state, inner, runtime, loader, pause, cancelled>>
processVars == <<engineVars, main, user, conn>>

Loader == {"none", "start", "download", "pause", "open", "publish"}
Main   == {"serving", "stopping", "engineClosing", "poolClosing", "exited"}
\* "ready": Ready was true; "using": has the embedder; "refused": has got ErrNotReady.
User   == {"idle", "ready", "using", "refused"}

\* clip.New
New(enabled) ==
  /\ state = IF enabled THEN "loading" ELSE "off"
  /\ loader = IF enabled THEN "start" ELSE "none"
  /\ inner = FALSE /\ runtime = FALSE /\ cancelled = FALSE
  /\ pause = 1

Started(enabled) ==
  /\ New(enabled)
  /\ main = "serving"
  /\ user = [u \in Users |-> "idle"]
  /\ conn = {}

EngineInit == \E enabled \in BOOLEAN : Started(enabled)

Running == main # "exited"

-----------------------------------------------------------------------------
\* load: between its steps anything may happen, Close included

fail == state' = "error" /\ loader' = "none"

\* The attempt and the look at the context before the download.
initORT ==
  /\ loader = "start"
  /\ \/ fail /\ UNCHANGED runtime
     \/ /\ runtime' = TRUE
        /\ loader' = IF cancelled THEN "none" ELSE "download"
        /\ UNCHANGED state
  /\ UNCHANGED <<inner, pause, cancelled>>

\* downloadAssets: each attempt that fails doubles the pause, up to the longest.  An
\* attempt knows nothing of the context: it may succeed although load was cancelled.
Downloaded ==
  /\ loader = "download"
  /\ loader' = "open"
  /\ UNCHANGED <<state, inner, runtime, pause, cancelled>>

DownloadFails ==
  /\ loader = "download" /\ ~cancelled
  /\ loader' = "pause"
  /\ UNCHANGED <<state, inner, runtime, pause, cancelled>>

\* Mutant: a pause that is over ends the download
DownloadAgainOnce ==
  /\ loader = "pause" /\ ~cancelled /\ pause < MaxPause
  /\ loader' = "download"
  /\ pause' = pause + 1
  /\ UNCHANGED <<state, inner, runtime, cancelled>>

DownloadAgain ==
  /\ loader = "pause" /\ ~cancelled
  /\ loader' = "download"
  /\ pause' = IF pause < MaxPause THEN pause + 1 ELSE pause
  /\ UNCHANGED <<state, inner, runtime, cancelled>>

\* Cancelled before an attempt, in the pause, or while an attempt failed.
DownloadCancelled ==
  /\ loader \in {"download", "pause"} /\ cancelled
  /\ fail
  /\ UNCHANGED <<inner, runtime, pause, cancelled>>

\* The context is looked at for the last time before the model is opened: when it was
\* cancelled, the state stays "loading".
NewEmbedder ==
  /\ loader = "open"
  /\ \/ cancelled /\ loader' = "none" /\ UNCHANGED state
     \/ ~cancelled /\ fail
     \/ ~cancelled /\ loader' = "publish" /\ UNCHANGED state
  /\ UNCHANGED <<inner, runtime, pause, cancelled>>

Publish ==
  /\ loader = "publish"
  /\ inner' = TRUE /\ state' = "ready" /\ loader' = "none"
  /\ UNCHANGED <<runtime, pause, cancelled>>

load ==
  \/ initORT \/ Downloaded \/ DownloadFails \/ DownloadAgain \/ DownloadCancelled
  \/ NewEmbedder \/ Publish

-----------------------------------------------------------------------------
\* Its users

\* Mutant: ready as soon as nothing has failed
ReadyState == state \in {"ready", "loading"}

Ready == inner /\ state = "ready"

\* requireEmbeddings, and the test of the worker before it drains.
AskReady(u) ==
  /\ user[u] = "idle" /\ Ready
  /\ user' = [user EXCEPT ![u] = "ready"]
  /\ UNCHANGED <<engineVars, main, conn>>

embedder(u) ==
  /\ user[u] = "ready"
  /\ user' = [user EXCEPT ![u] = IF inner THEN "using" ELSE "refused"]
  /\ UNCHANGED <<engineVars, main, conn>>

\* The vector goes into a statement, which takes a connection and gives it back;
\* a pool that is being closed gives none.
Query(u) ==
  /\ user[u] = "using" /\ u \notin conn
  /\ main # "poolClosing"
  /\ conn' = conn \cup {u}
  /\ UNCHANGED <<engineVars, main, user>>

\* Mutant: the connection is not given back
EndUseKeeps(u) ==
  /\ user[u] \in {"using", "refused"}
  /\ user' = [user EXCEPT ![u] = "idle"]
  /\ UNCHANGED <<engineVars, main, conn>>

EndUse(u) ==
  /\ user[u] \in {"using", "refused"}
  /\ user' = [user EXCEPT ![u] = "idle"]
  /\ conn' = conn \ {u}
  /\ UNCHANGED <<engineVars, main>>

-----------------------------------------------------------------------------
\* main: after a signal ListenAndServe returns and the deferred calls follow

Signal ==
  /\ main = "serving"
  /\ main' = "stopping"
  /\ UNCHANGED <<engineVars, user, conn>>

\* The port is taken: log.Fatal ends the process without the deferred calls.
ListenFails ==
  /\ main = "serving"
  /\ main' = "exited"
  /\ UNCHANGED <<engineVars, user, conn>>

\* Engine.Close, first half
Cancel ==
  /\ main = "stopping"
  /\ main' = "engineClosing"
  /\ cancelled' = TRUE
  /\ UNCHANGED <<state, inner, runtime, loader, pause, user, conn>>

\* Engine.Close, under the lock: the state stays what it is.
CloseInner ==
  /\ main = "engineClosing"
  /\ inner' = FALSE /\ runtime' = FALSE
  /\ main' = "poolClosing"
  /\ UNCHANGED <<state, loader, pause, cancelled, user, conn>>

\* pool.Close waits for the connections that are in use.
ClosePool ==
  /\ main = "poolClosing" /\ conn = {}
  /\ main' = "exited"
  /\ UNCHANGED <<engineVars, user, conn>>

EngineNext ==
  /\ Running
  /\ \/ load /\ UNCHANGED <<main, user, conn>>
     \/ \E u \in Users : AskReady(u) \/ embedder(u) \/ Query(u) \/ EndUse(u)
     \/ Signal \/ ListenFails \/ Cancel \/ CloseInner \/ ClosePool

\* The loader is scheduled, a download that is tried again and again succeeds in
\* the end, main goes on, and a statement ends or is cut by its deadline.
EngineFairness ==
  /\ WF_processVars(Running /\ load /\ UNCHANGED <<main, user, conn>>)
  /\ SF_processVars(Running /\ Downloaded /\ UNCHANGED <<main, user, conn>>)
  /\ WF_processVars(Cancel \/ CloseInner \/ ClosePool)
  /\ \A u \in Users : WF_processVars(Running /\ (embedder(u) \/ EndUse(u)))

EngineSpec == EngineInit /\ [][EngineNext]_processVars /\ EngineFairness

-----------------------------------------------------------------------------
\* Properties

\* The type invariant.
EngineTypeOK ==
  /\ state \in {"off", "loading", "error", "ready"}
  /\ inner \in BOOLEAN /\ runtime \in BOOLEAN /\ cancelled \in BOOLEAN
  /\ loader \in Loader /\ main \in Main /\ pause \in 1..MaxPause
  /\ user \in [Users -> User] /\ conn \subseteq Users

\* Whoever was told that the engine is ready gets ErrNotReady only while the
\* process ends; until then readiness is not taken back, by no failure of the
\* loader either, and nobody works with a runtime that is gone.
ReadyUntilClose ==
  \A u \in Users :
    /\ user[u] = "refused" => main \in {"poolClosing", "exited"}
    /\ user[u] = "using" /\ main \in {"serving", "stopping", "engineClosing"} => inner /\ runtime

\* Loading comes to an end: the search is ready, or has failed for good, or the
\* process stops, however often the download fails.
LoadingEnds == state = "loading" ~> state # "loading" \/ main # "serving"

\* After a signal the process ends: closing waits for nothing that waits for it.
ShutdownEnds == main = "stopping" ~> main = "exited"
================================================================================
