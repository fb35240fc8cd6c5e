------------------------------- MODULE MCUsers -------------------------------
(* The instances TLC checks of what users do at the same time: the queue of the *)
(* phone, the requests about motifs and deletions, and those about accounts and *)
(* tokens.  They share no state in the models, so a behaviour is one of one of  *)
(* the three.                                                                   *)
EXTENDS UploadQueue, Catalog, Accounts

VARIABLE part

allVars == <<part, queueVars, vars, accountsVars>>

\* The queue and the catalog do not look at how the first password was set.
UsersInit ==
  /\ QueueInit /\ Init /\ AccountsInit
  /\ \/ part = "accounts"
     \/ part \in {"queue", "catalog"} /\ user[Admin].password = "own"

QueuePart    == part = "queue" /\ QueueNext /\ UNCHANGED <<part, vars, accountsVars>>
CatalogPart  == part = "catalog" /\ Next /\ UNCHANGED <<part, queueVars, accountsVars>>
AccountsPart == part = "accounts" /\ AccountsNext /\ UNCHANGED <<part, queueVars, vars>>

\* QueueFairSpec of UploadQueue where it runs, and no fairness anywhere else.
UsersSpec ==
  /\ UsersInit
  /\ [][QueuePart \/ CatalogPart \/ AccountsPart]_allVars
  /\ \A s \in Screens :
       WF_queueVars(part = "queue" /\ (Send(s) \/ Accept(s) \/ Timeout(s) \/ Confirm(s) \/ Unlink(s)))
  /\ WF_queueVars(part = "queue" /\ NetUp)
===============================================================================
