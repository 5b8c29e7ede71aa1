----------------------------- MODULE Comparison -----------------------------
(***************************************************************************)
(* The texture experiment as a whole: the lists are made (TextureLists)    *)
(* while runs are trained and scored on them (Experiments), each reading   *)
(* whatever stage of a list it finds, over one catalog that changes under  *)
(* both.                                                                   *)
(***************************************************************************)
EXTENDS TextureLists, Experiments

comparisonVars == <<textureVars, runVars>>

ComparisonInit == CatalogInit /\ TextureInit /\ RunsInit

(* load_subset_uids, where the run is one on the subset: without the file  *)
(* there is no run.                                                        *)
CreateArm(r, config, cloud) ==
  /\ config.subset => Read("subset", cloud).exists
  /\ CreateRun(r, config, Read("subset", cloud).uids)

(* An evaluation on a gold list: the selection of build_dev_set, or what   *)
(* the texture experiment made of it.                                      *)
LoadDev(cloud) ==
  /\ Read("dev", cloud).exists
  /\ LoadRendered(Read("dev", cloud).uids)

ReadersNext ==
  \/ \E u \in Uids : Change(u)
  \/ LoadSamples \/ StopJob
  \/ \E r \in Runs, config \in Configs, cloud \in BOOLEAN : CreateArm(r, config, cloud)
  \/ \E cloud \in BOOLEAN : LoadDev(cloud)
  \/ \E list \in DevLists : LoadRendered(list)
  \/ EndEvaluation

ComparisonNext ==
  \/ ListsNext /\ UNCHANGED runVars
  \/ ReadersNext /\ UNCHANGED listVars

ComparisonSpec == ComparisonInit /\ [][ComparisonNext]_comparisonVars

(* Types, in both parts.                                                   *)
ComparisonTypeOK == CatalogTypeOK /\ TextureTypeOK /\ RunsTypeOK
=============================================================================
