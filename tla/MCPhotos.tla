------------------------------- MODULE MCPhotos -------------------------------
(* The instances TLC checks of what becomes of a photo in the archive: the      *)
(* calls that store it, and the requests and the sweep that change it later and *)
(* remove its location in the end.  Retention begins with rows that are stored, *)
(* Upload ends with them, so a behaviour is one of one of the two.              *)
EXTENDS Retention, Upload

VARIABLE part

allVars == <<part, vars, uploadVars>>

PhotosInit == Init /\ UploadInit /\ part \in {"retention", "upload"}

RetentionPart == part = "retention" /\ Next /\ UNCHANGED <<part, uploadVars>>
UploadPart    == part = "upload" /\ UploadNext /\ UNCHANGED <<part, vars>>

\* FairSpec of Retention where it runs, and no fairness for uploads.
PhotosSpec ==
  /\ PhotosInit
  /\ [][RetentionPart \/ UploadPart]_allVars
  /\ WF_vars(part = "retention" /\ RedactDueLocations)
  /\ WF_vars(part = "retention" /\ Tick)
===============================================================================
