------------------------------- MODULE MCServer -------------------------------
(* The instances TLC checks of what the server does besides its requests: the   *)
(* worker that embeds crops, the life of the engine, and the limit on logins.   *)
(* The worker finds the engine ready in its model, and they share no other      *)
(* state, so a behaviour is one of one of the three.                            *)
EXTENDS Embedding, LoginLimit, Engine

VARIABLE part

allVars == <<part, vars, loginVars, processVars>>

ServerInit ==
  /\ Init /\ LoginInit
  /\ \/ part \in {"embedding", "login"} /\ Started(FALSE)
     \/ part = "engine" /\ EngineInit

EmbeddingPart == part = "embedding" /\ Next /\ UNCHANGED <<part, loginVars, processVars>>
LoginPart     == part = "login" /\ LoginNext /\ UNCHANGED <<part, vars, processVars>>
EnginePart    == part = "engine" /\ EngineNext /\ UNCHANGED <<part, vars, loginVars>>

\* The fairness of each module, where its part runs: of an engine that is not
\* started no step is enabled that EngineFairness is about.
ServerSpec ==
  /\ ServerInit
  /\ [][EmbeddingPart \/ LoginPart \/ EnginePart]_allVars
  /\ \A w \in Workers : WF_vars(part = "embedding" /\ Run(w))
  /\ \A s \in Sightings : WF_vars(part = "embedding" /\ Age(s))
  /\ WF_loginVars(part = "login" /\ LoginTick)
  /\ EngineFairness
===============================================================================
