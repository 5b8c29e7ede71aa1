---------------------------- MODULE TextureLists ----------------------------
(***************************************************************************)
(* The lists both arms of the texture experiment are trained and scored    *)
(* on: the census of colour (ml/texture_census.py), the two selections     *)
(* made from it, cut down to what was rendered and pushed to the bucket    *)
(* (ml/build_texture_subset.py).  A query or a file is read or written in  *)
(* one step; between two of them the catalog changes, views arrive and the *)
(* command may stop.                                                       *)
(***************************************************************************)
EXTENDS Catalog

CONSTANTS
  GoldClass,   \* GoldClass[u]: the annotators' class
  Glb,         \* Glb[u]: what the source of u is and carries, see Tier
  CensusRank,  \* CensusRank[u]: census_rank
  SubsetRank,  \* SubsetRank[u]: subset_rank
  Flaky,       \* uids whose mesh the census may fail to read
  Limits,      \* --limit of the census
  Cap,         \* --cap
  NumViews     \* views of a model

ASSUME TextureListsAssumption ==
  /\ CensusRank \in [Uids -> Nat] /\ SubsetRank \in [Uids -> Nat]
  /\ Limits \subseteq Int \cup {Unlimited} /\ Cap \in Nat /\ NumViews \in Nat \ {0}

VARIABLES
  census,   \* the rows of texture_census.csv
  views,    \* views[u]: how many of its textured views exist
  local,    \* local[l]: a selection's CSV in the operator's checkout
  bucket,   \* bucket[l]: its copy in the processed bucket
  tool      \* the operator's command and what it has read

listVars == <<census, views, local, bucket, tool>>
textureVars == <<catalogVars, listVars>>

(* A selection: its uids, and whether verify_against_renders cut it down,  *)
(* which is history.                                                       *)
Lists == {"subset", "dev"}
Absent == [exists |-> FALSE, uids |-> {}, verified |-> FALSE]
List(uids, verified) == [exists |-> TRUE, uids |-> uids, verified |-> verified]

NoTool == [pc |-> "idle", targets |-> {}, rendered |-> {}, push |-> FALSE]

Tiers == {"texture", "vertex_colour", "multi_colour", "uniform_colour", "none", "unreadable"}
Populations == {"trainable", "lvis"}
Target(u, class, population) == [uid |-> u, class |-> class, population |-> population]

TextureTypeOK ==
  /\ views \in [Uids -> 0 .. NumViews]
  /\ \A row \in census : /\ row.target.uid \in Uids /\ row.target.population \in Populations
                         /\ row.tier \in Tiers
  /\ \A copy \in {local, bucket} :
       /\ copy["subset"].uids \subseteq Uids /\ copy["dev"].uids \subseteq Gold
       /\ \A l \in Lists : copy[l].verified => copy[l].exists
  /\ tool.pc \in {"idle", "goldTargets", "census", "dev", "rewriteSubset", "rewriteDev",
                  "pushSubset", "pushDev"}

TextureInit ==
  /\ census = {}
  /\ views = [u \in Uids |-> 0]
  /\ local = [l \in Lists |-> Absent]
  /\ bucket = [l \in Lists |-> Absent]
  /\ tool = NoTool

Command(step) ==
  /\ tool.pc = "idle"
  /\ Event
  /\ tool' = step
  /\ UNCHANGED <<label, live>>

Goto(pc) == tool' = [tool EXCEPT !.pc = pc] /\ UNCHANGED catalogVars
Done == tool' = NoTool /\ UNCHANGED catalogVars

-----------------------------------------------------------------------------
(* The census: the targets of both populations (a pilot takes some by      *)
(* rank, and a uid of both is two targets), then the headers of their      *)
(* meshes.  What is not a GLB is left out.                                 *)
LoadTrainable ==
  /\ Command([NoTool EXCEPT !.pc = "goldTargets",
       !.targets = {Target(u, label[u], "trainable") :
                      u \in {o \in Rendered : label[o] # Unlabeled /\ Glb[o].glb}}])
  /\ UNCHANGED <<census, views, local, bucket>>

LoadGold(limit) ==
  LET all == tool.targets \cup {Target(u, GoldClass[u], "lvis") :
                                  u \in {o \in Rendered \cap Gold : Glb[o].glb}}
      rank == [t \in all |->
                 2 * CensusRank[t.uid] + (IF t.population = "lvis" THEN 1 ELSE 0)] IN
  /\ tool.pc = "goldTargets"
  /\ tool' = [tool EXCEPT !.pc = "census",
                !.targets = Limited(limit, all, rank)]
  /\ UNCHANGED <<catalogVars, census, views, local, bucket>>

(* colour_profile: a texture needs coordinates to be sampled through.      *)
Tier(u) ==
  LET g == Glb[u] IN
  IF g.baseColorTexture /\ g.texcoord THEN "texture"
  ELSE IF g.vertexColour THEN "vertex_colour"
  ELSE IF Cardinality(g.baseColours) > 1 THEN "multi_colour"
  ELSE IF g.baseColours \subseteq {"default"} THEN "none" ELSE "uniform_colour"

WriteCensus ==
  /\ tool.pc = "census"
  /\ \E unreadable \in SUBSET Flaky :
       census' = {[target |-> t, tier |-> IF t.uid \in unreadable THEN "unreadable"
                                          ELSE Tier(t.uid)] : t \in tool.targets}
  /\ Done
  /\ UNCHANGED <<views, local, bucket>>

-----------------------------------------------------------------------------
(* The selections: load_qualifying_candidates and select_subset, then      *)
(* select_textured_dev_set.                                                *)
Qualifying(population) ==
  {row.target : row \in {o \in census : o.target.population = population /\ o.tier = "texture"}}

SelectSubset(push) ==
  LET candidates(c) == {t.uid : t \in {o \in Qualifying("trainable") : o.class = c}} IN
  /\ census # {}
  /\ Command([NoTool EXCEPT !.pc = "dev", !.push = push])
  /\ local' = [local EXCEPT !["subset"] =
       List(UNION {Lowest(Cap, candidates(c), SubsetRank) : c \in Roster}, FALSE)]
  /\ UNCHANGED <<census, views, bucket>>

SelectDev ==
  /\ tool.pc = "dev"
  /\ local' = [local EXCEPT !["dev"] =
       List(Gold \cap {t.uid : t \in Qualifying("lvis")}, FALSE)]
  /\ IF tool.push THEN Goto("pushSubset") ELSE Done
  /\ UNCHANGED <<census, views, bucket>>

(* The textured pipeline is seeded from a local selection.  It may refuse  *)
(* a mesh, which then is never rendered.                                   *)
(* (Mutant: one more than there are.)                                      *)
NeededMore(u) == views[u] <= NumViews
Needed(u) == views[u] < NumViews

RenderView(u) ==
  /\ \E l \in Lists : u \in local[l].uids
  /\ Needed(u)
  /\ views' = [views EXCEPT ![u] = @ + 1]
  /\ UNCHANGED <<catalogVars, census, local, bucket, tool>>

-----------------------------------------------------------------------------
(* --push-only; --verify-renders lists the textured views, cuts both files *)
(* down to them, and pushes them.                                          *)
PushOnly ==
  /\ Command([NoTool EXCEPT !.pc = "pushSubset"])
  /\ UNCHANGED <<census, views, local, bucket>>

(* rendered_uids: the models whose views are all there.                    *)
(* (Mutant: any view will do.)                                             *)
RenderedUidsAny == {u \in Uids : views[u] > 0}
RenderedUids == {u \in Uids : views[u] >= NumViews}

ListRenders ==
  /\ Command([NoTool EXCEPT !.pc = "rewriteSubset", !.rendered = RenderedUids])
  /\ UNCHANGED <<census, views, local, bucket>>

Rewrite(l, pc, next) ==
  /\ tool.pc = pc
  /\ local[l].exists
  /\ local' = [local EXCEPT ![l] = List(@.uids \cap tool.rendered, TRUE)]
  /\ Goto(next)
  /\ UNCHANGED <<census, views, bucket>>

(* push_subset, push_dev_set.                                              *)
Push(l, pc) ==
  /\ tool.pc = pc
  /\ local[l].exists
  /\ bucket' = [bucket EXCEPT ![l] = local[l]]
  /\ UNCHANGED <<census, views, local>>

PushSubset == Push("subset", "pushSubset") /\ Goto("pushDev")
PushDev == Push("dev", "pushDev") /\ Done

(* A file is missing, the bucket is out of reach, or the operator stops.   *)
StopTool ==
  /\ tool.pc # "idle"
  /\ Done
  /\ UNCHANGED <<census, views, local, bucket>>

(* load_subset, load_dev_set: the local file where there is one.           *)
Read(l, cloud) == IF ~cloud /\ local[l].exists THEN local[l] ELSE bucket[l]

ListsNext ==
  \/ \E u \in Uids : RenderView(u)
  \/ LoadTrainable \/ WriteCensus
  \/ \E limit \in Limits : LoadGold(limit)
  \/ \E push \in BOOLEAN : SelectSubset(push)
  \/ SelectDev \/ PushOnly \/ ListRenders
  \/ Rewrite("subset", "rewriteSubset", "rewriteDev")
  \/ Rewrite("dev", "rewriteDev", "pushSubset")
  \/ PushSubset \/ PushDev \/ StopTool

TextureNext ==
  \/ ListsNext
  \/ \E u \in Uids : /\ \/ \E c \in Roster \cup {OffRoster} : Relabel(u, c)
                        \/ Delete(u) \/ Restore(u)
                     /\ UNCHANGED listVars

TextureSpec == CatalogInit /\ TextureInit /\ [][TextureNext]_textureVars
-----------------------------------------------------------------------------
(* Once a list was cut down to what rendered, no arm that reads it, from   *)
(* the checkout or in the cloud, meets a model without all of its views,   *)
(* however commands were stopped half way and views arrived meanwhile.     *)
VerifiedListsRender ==
  \A l \in Lists, cloud \in BOOLEAN :
    Read(l, cloud).verified => \A u \in Read(l, cloud).uids : views[u] = NumViews

=============================================================================
