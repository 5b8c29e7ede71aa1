------------------------- MODULE TextureListsProofs -------------------------
(***************************************************************************)
(* Theorems about TextureLists for any models, meshes, ranks and number of *)
(* views.  The invariant adds to the types: Listed, that what a rewrite    *)
(* found complete is complete; and that every copy of a list which was cut *)
(* down, in the checkout or in the bucket, names complete models only.     *)
(***************************************************************************)
EXTENDS TextureLists, TLAPS

Classes == Roster \cup {OffRoster, Unlabeled} \cup {GoldClass[u] : u \in Gold}
TargetType == [uid : Uids, class : Classes, population : Populations]
ListType == [exists : BOOLEAN, uids : SUBSET Uids, verified : BOOLEAN]
CopyType ==
  {copy \in [Lists -> ListType] :
     copy["dev"].uids \subseteq Gold /\ \A l \in Lists : copy[l].verified => copy[l].exists}
ToolType ==
  [pc : {"idle", "goldTargets", "census", "dev", "rewriteSubset", "rewriteDev", "pushSubset",
         "pushDev"},
   targets : SUBSET TargetType, rendered : SUBSET Uids, push : BOOLEAN]

ListsTyped ==
  /\ CatalogTypeOK
  /\ census \in SUBSET [target : TargetType, tier : Tiers]
  /\ views \in [Uids -> 0 .. NumViews]
  /\ local \in CopyType /\ bucket \in CopyType
  /\ tool \in ToolType

Listed == \A u \in tool.rendered : views[u] = NumViews

Complete(copy, seen) ==
  \A l \in Lists : copy[l].verified => \A u \in copy[l].uids : seen[u] = NumViews

XInv == ListsTyped /\ Listed /\ Complete(local, views) /\ Complete(bucket, views)

-----------------------------------------------------------------------------
LEMMA XInvInit == CatalogInit /\ TextureInit => XInv
<1> SUFFICES ASSUME CatalogInit, TextureInit PROVE XInv
  OBVIOUS
<1>1. CatalogTypeOK
  <2>1. PICK c \in Roster, labeled \in {Corpus, Corpus \cup WeakGold} :
          label = [u \in Uids |-> IF u \in labeled THEN c ELSE Unlabeled]
    BY DEF CatalogInit
  <2>2. label \in [Uids -> Roster \cup {OffRoster, Unlabeled}]
    BY <2>1
  <2> QED
    BY <2>2, CatalogAssumption DEF CatalogInit, CatalogTypeOK
<1>2. views \in [Uids -> 0 .. NumViews]
  BY TextureListsAssumption DEF TextureInit
<1>3. Absent \in ListType /\ ~Absent.verified /\ Absent.uids = {}
  BY DEF Absent, ListType
<1>4. /\ local \in [Lists -> ListType] /\ bucket \in [Lists -> ListType]
      /\ \A l \in Lists : local[l] = Absent /\ bucket[l] = Absent
  BY <1>3 DEF TextureInit
<1>5. local \in CopyType /\ bucket \in CopyType
  BY <1>3, <1>4 DEF CopyType, Lists
<1>6. Complete(local, views) /\ Complete(bucket, views)
  BY <1>3, <1>4 DEF Complete
<1>7. tool \in ToolType /\ tool.rendered = {} /\ census = {}
  BY DEF TextureInit, NoTool, ToolType
<1> QED
  BY <1>1, <1>2, <1>5, <1>6, <1>7 DEF XInv, ListsTyped, Listed

(* The catalog, under every step.                                          *)
LEMMA CatalogStep ==
  ASSUME CatalogTypeOK,
         \/ \E u \in Uids : \/ \E c \in Roster \cup {OffRoster} : Relabel(u, c)
                            \/ Delete(u) \/ Restore(u)
         \/ Event /\ UNCHANGED <<label, live>>
         \/ UNCHANGED catalogVars
  PROVE  CatalogTypeOK'
<1>1. MaxEvents \in Nat
  BY CatalogAssumption
<1>2. CASE UNCHANGED catalogVars
  BY <1>2 DEF catalogVars, CatalogTypeOK
<1>3. CASE Event /\ UNCHANGED <<label, live>>
  BY <1>1, <1>3 DEF Event, CatalogTypeOK
<1>4. ASSUME NEW u \in Uids, \/ \E c \in Roster \cup {OffRoster} : Relabel(u, c)
                             \/ Delete(u) \/ Restore(u)
      PROVE  CatalogTypeOK'
  <2>1. events' \in 0 .. MaxEvents
    BY <1>1, <1>4 DEF Relabel, Delete, Restore, Event, CatalogTypeOK
  <2>2. CASE \E c \in Roster \cup {OffRoster} : Relabel(u, c)
    <3>1. PICK c \in Roster \cup {OffRoster} : Relabel(u, c)
      BY <2>2
    <3>2. label' = [label EXCEPT ![u] = c] /\ live' = live
      BY <3>1 DEF Relabel
    <3> QED
      BY <2>1, <3>2 DEF CatalogTypeOK
  <2>3. CASE Delete(u) \/ Restore(u)
    <3>1. PICK x \in BOOLEAN : live' = [live EXCEPT ![u] = x] /\ label' = label
      BY <2>3 DEF Delete, Restore
    <3> QED
      BY <2>1, <3>1 DEF CatalogTypeOK
  <2> QED
    BY <1>4, <2>2, <2>3
<1> QED
  BY <1>2, <1>3, <1>4

(* A list of a copy is replaced.                                           *)
LEMMA ReplaceList ==
  ASSUME NEW copy \in CopyType, NEW l \in Lists, NEW x \in ListType, NEW seen,
         l = "dev" => x.uids \subseteq Gold, x.verified => x.exists,
         Complete(copy, seen), x.verified => \A u \in x.uids : seen[u] = NumViews
  PROVE  /\ [copy EXCEPT ![l] = x] \in CopyType
         /\ Complete([copy EXCEPT ![l] = x], seen)
<1> DEFINE after == [copy EXCEPT ![l] = x]
<1>1. /\ after \in [Lists -> ListType] /\ after[l] = x
      /\ \A o \in Lists \ {l} : after[o] = copy[o]
  BY DEF CopyType
<1> HIDE DEF after
<1>2. after \in CopyType
  BY <1>1 DEF CopyType, Lists
<1>3. Complete(after, seen)
  BY <1>1 DEF Complete
<1> QED
  BY <1>2, <1>3 DEF after

LEMMA XInvStep == XInv /\ [TextureNext]_textureVars => XInv'
<1> SUFFICES ASSUME XInv, [TextureNext]_textureVars PROVE XInv'
  OBVIOUS
<1>1. /\ CatalogTypeOK /\ census \in SUBSET [target : TargetType, tier : Tiers]
      /\ views \in [Uids -> 0 .. NumViews] /\ local \in CopyType /\ bucket \in CopyType
      /\ tool \in ToolType /\ Listed /\ Complete(local, views) /\ Complete(bucket, views)
  BY DEF XInv, ListsTyped
<1>2. NumViews \in Nat
  BY TextureListsAssumption
<1>3. NoTool \in ToolType /\ NoTool.rendered = {}
  BY DEF NoTool, ToolType
<1>4. ASSUME CatalogTypeOK', census' = census, views' = views,
             local' \in CopyType, bucket' \in CopyType, tool' \in ToolType, Listed',
             Complete(local', views), Complete(bucket', views)
      PROVE  XInv'
  BY <1>1, <1>4 DEF XInv, ListsTyped, Complete
<1>5. ASSUME NEW pc \in {"idle", "goldTargets", "census", "dev", "rewriteSubset", "rewriteDev",
                         "pushSubset", "pushDev"},
             Goto(pc), views' = views
      PROVE  tool' \in ToolType /\ Listed' /\ CatalogTypeOK'
  <2>1. tool' = [tool EXCEPT !.pc = pc]
    BY <1>5 DEF Goto
  <2>2. tool' \in ToolType /\ tool'.rendered = tool.rendered
    BY <1>1, <2>1 DEF ToolType
  <2> QED
    BY <1>1, <1>5, <2>2, CatalogStep DEF Goto, Listed
<1>6. ASSUME Done
      PROVE  tool' \in ToolType /\ Listed' /\ CatalogTypeOK'
  BY <1>1, <1>3, <1>6, CatalogStep DEF Done, Listed
<1>7. ASSUME NEW x \in ToolType, Command(x)
      PROVE  tool' = x /\ CatalogTypeOK'
  BY <1>1, <1>7, CatalogStep DEF Command
<1>8. CASE \E u \in Uids : /\ \/ \E c \in Roster \cup {OffRoster} : Relabel(u, c)
                              \/ Delete(u) \/ Restore(u)
                           /\ UNCHANGED listVars
  <2>1. CatalogTypeOK'
    BY <1>1, <1>8, CatalogStep
  <2> QED
    BY <1>1, <1>4, <1>8, <2>1 DEF listVars, Listed
<1>9. CASE \E u \in Uids : RenderView(u)
  <2>1. PICK u \in Uids : RenderView(u)
    BY <1>9
  <2>2. /\ views[u] < NumViews /\ views' = [views EXCEPT ![u] = @ + 1]
        /\ UNCHANGED <<catalogVars, census, local, bucket, tool>>
    BY <2>1 DEF RenderView, Needed
  <2>3. /\ views' \in [Uids -> 0 .. NumViews]
        /\ \A o \in Uids : views[o] = NumViews => views'[o] = NumViews
    BY <1>1, <1>2, <2>2
  <2>4. ASSUME NEW copy \in CopyType, Complete(copy, views)
        PROVE  Complete(copy, views')
    <3>1. \A l \in Lists : copy[l].uids \subseteq Uids
      BY <2>4 DEF CopyType, ListType
    <3> QED
      BY <2>3, <2>4, <3>1 DEF Complete
  <2>5. Complete(local, views') /\ Complete(bucket, views')
    BY <1>1, <2>4
  <2>6. Listed'
    BY <1>1, <2>2, <2>3 DEF Listed, ToolType
  <2>7. CatalogTypeOK'
    BY <1>1, <2>2, CatalogStep
  <2> QED
    BY <1>1, <2>2, <2>3, <2>5, <2>6, <2>7 DEF XInv, ListsTyped
<1>10. CASE LoadTrainable
  <2>1. PICK targets : targets = {Target(u, label[u], "trainable") :
                                    u \in {o \in Rendered : label[o] # Unlabeled /\ Glb[o].glb}}
    OBVIOUS
  <2>2. PICK x : x = [NoTool EXCEPT !.pc = "goldTargets", !.targets = targets]
    OBVIOUS
  <2>3. targets \in SUBSET TargetType
    BY <1>1, <2>1 DEF Target, TargetType, Classes, Populations, Rendered, CatalogTypeOK
  <2>4. x \in ToolType /\ x.rendered = {}
    BY <1>3, <2>2, <2>3 DEF ToolType
  <2>5. Command(x) /\ UNCHANGED <<census, views, local, bucket>>
    BY <1>10, <2>1, <2>2 DEF LoadTrainable
  <2> QED
    BY <1>1, <1>4, <1>7, <2>4, <2>5 DEF Listed
<1>11. CASE \E limit \in Limits : LoadGold(limit)
  <2>1. PICK limit \in Limits : LoadGold(limit)
    BY <1>11
  <2>2. PICK all : all = tool.targets \cup {Target(u, GoldClass[u], "lvis") :
                                             u \in {o \in Rendered \cap Gold : Glb[o].glb}}
    OBVIOUS
  <2>3. PICK rank : rank = [t \in all |->
                              2 * CensusRank[t.uid] + (IF t.population = "lvis" THEN 1 ELSE 0)]
    OBVIOUS
  <2>4. PICK targets :
          targets = Limited(limit, all, rank)
    OBVIOUS
  <2>5. /\ tool' = [tool EXCEPT !.pc = "census", !.targets = targets]
        /\ UNCHANGED <<catalogVars, census, views, local, bucket>>
    BY <2>1, <2>2, <2>3, <2>4 DEF LoadGold
  <2>6. all \in SUBSET TargetType
    BY <1>1, <2>2 DEF Target, TargetType, Classes, Populations, Rendered, ToolType
  <2>7. targets \in SUBSET TargetType
    BY <2>4, <2>6 DEF Limited, Lowest
  <2>8. tool' \in ToolType /\ tool'.rendered = tool.rendered
    BY <1>1, <2>5, <2>7 DEF ToolType
  <2>9. CatalogTypeOK'
    BY <1>1, <2>5, CatalogStep
  <2> QED
    BY <1>1, <1>4, <2>5, <2>8, <2>9 DEF Listed
<1>12. CASE WriteCensus
  <2>1. PICK unreadable \in SUBSET Flaky :
          census' = {[target |-> t, tier |-> IF t.uid \in unreadable THEN "unreadable"
                                             ELSE Tier(t.uid)] : t \in tool.targets}
    BY <1>12 DEF WriteCensus
  <2>2. \A u : Tier(u) \in Tiers
    BY DEF Tier, Tiers
  <2>3. \A t \in tool.targets : t \in TargetType
    BY <1>1 DEF ToolType
  <2>4. census' \in SUBSET [target : TargetType, tier : Tiers]
    BY <2>1, <2>2, <2>3 DEF Tiers
  <2>5. Done /\ views' = views /\ local' = local /\ bucket' = bucket
    BY <1>12 DEF WriteCensus
  <2> QED
    BY <1>1, <1>6, <2>4, <2>5 DEF XInv, ListsTyped
<1>13. ASSUME NEW population \in Populations
       PROVE  \A t \in Qualifying(population) : t \in TargetType
  BY <1>1 DEF Qualifying
<1>14. CASE \E push \in BOOLEAN : SelectSubset(push)
  <2>1. PICK push \in BOOLEAN : SelectSubset(push)
    BY <1>14
  <2> DEFINE candidates(c) == {t.uid : t \in {o \in Qualifying("trainable") : o.class = c}}
  <2>2. PICK uids : uids = UNION {Lowest(Cap, candidates(c), SubsetRank) : c \in Roster}
    OBVIOUS
  <2>3. \A c \in Roster : Lowest(Cap, candidates(c), SubsetRank) \subseteq Uids
    BY <1>13 DEF Lowest, TargetType, Populations
  <2>4. uids \in SUBSET Uids
    BY <2>2, <2>3
  <2>5. PICK list : list = List(uids, FALSE)
    OBVIOUS
  <2>6. list \in ListType /\ ~list.verified
    BY <2>4, <2>5 DEF List, ListType
  <2>7. local' = [local EXCEPT !["subset"] = list] /\ UNCHANGED <<census, views, bucket>>
    BY <2>1, <2>2, <2>5 DEF SelectSubset
  <2>8. local' \in CopyType /\ Complete(local', views)
    BY <1>1, <2>6, <2>7, ReplaceList DEF Lists
  <2>9. PICK x : x = [NoTool EXCEPT !.pc = "dev", !.push = push]
    OBVIOUS
  <2>10. x \in ToolType /\ x.rendered = {} /\ Command(x)
    BY <1>3, <2>1, <2>9 DEF ToolType, SelectSubset
  <2> QED
    BY <1>1, <1>4, <1>7, <2>7, <2>8, <2>10 DEF Listed
<1>15. CASE SelectDev
  <2>1. PICK list : list = List(Gold \cap {t.uid : t \in Qualifying("lvis")}, FALSE)
    OBVIOUS
  <2>2. list \in ListType /\ ~list.verified /\ list.uids \subseteq Gold
    BY <2>1 DEF List, ListType, Uids
  <2>3. local' = [local EXCEPT !["dev"] = list] /\ UNCHANGED <<census, views, bucket>>
    BY <1>15, <2>1 DEF SelectDev
  <2>4. local' \in CopyType /\ Complete(local', views)
    BY <1>1, <2>2, <2>3, ReplaceList DEF Lists
  <2>5. tool' \in ToolType /\ Listed' /\ CatalogTypeOK'
    <3>1. Goto("pushSubset") \/ Done
      BY <1>15 DEF SelectDev
    <3> QED
      BY <1>5, <1>6, <2>3, <3>1
  <2> QED
    BY <1>1, <1>4, <2>3, <2>4, <2>5
<1>16. CASE PushOnly
  <2>1. PICK x : x = [NoTool EXCEPT !.pc = "pushSubset"]
    OBVIOUS
  <2>2. x \in ToolType /\ x.rendered = {} /\ Command(x)
    BY <1>3, <1>16, <2>1 DEF ToolType, PushOnly
  <2> QED
    BY <1>1, <1>4, <1>7, <1>16, <2>2 DEF Listed, PushOnly
<1>17. CASE ListRenders
  <2>1. PICK x : x = [NoTool EXCEPT !.pc = "rewriteSubset", !.rendered = RenderedUids]
    OBVIOUS
  <2>2. RenderedUids \in SUBSET Uids /\ \A u \in RenderedUids : views[u] = NumViews
    BY <1>1, <1>2 DEF RenderedUids
  <2>3. x \in ToolType /\ x.rendered = RenderedUids /\ Command(x)
    BY <1>3, <1>17, <2>1, <2>2 DEF ToolType, ListRenders
  <2> QED
    BY <1>1, <1>4, <1>7, <1>17, <2>2, <2>3 DEF Listed, ListRenders
<1>18. ASSUME NEW l \in Lists, NEW pc, NEW next \in {"rewriteDev", "pushSubset"},
              Rewrite(l, pc, next)
       PROVE  XInv'
  <2>1. PICK uids : uids = local[l].uids \cap tool.rendered
    OBVIOUS
  <2>2. PICK list : list = List(uids, TRUE)
    OBVIOUS
  <2>3. /\ uids \in SUBSET Uids
        /\ l = "dev" => uids \subseteq Gold
        /\ \A u \in uids : views[u] = NumViews
    BY <1>1, <2>1 DEF CopyType, ListType, Listed
  <2>4. /\ list \in ListType
        /\ l = "dev" => list.uids \subseteq Gold
        /\ list.exists /\ \A u \in list.uids : views[u] = NumViews
    <3>1. list = [exists |-> TRUE, uids |-> uids, verified |-> TRUE]
      BY <2>2 DEF List
    <3>2. list.exists /\ list.uids = uids
      BY <3>1
    <3>3. list \in ListType
      BY <2>3, <3>1 DEF ListType
    <3> QED
      BY <2>3, <3>2, <3>3
  <2>5. local' = [local EXCEPT ![l] = list] /\ UNCHANGED <<census, views, bucket>>
    BY <1>1, <1>18, <2>1, <2>2 DEF Rewrite, CopyType
  <2>6. local' \in CopyType /\ Complete(local', views)
    <3>1. /\ [local EXCEPT ![l] = list] \in CopyType
          /\ Complete([local EXCEPT ![l] = list], views)
      BY <1>1, <2>4, ReplaceList
    <3> QED
      BY <2>5, <3>1
  <2>7. tool' \in ToolType /\ Listed' /\ CatalogTypeOK'
    BY <1>5, <1>18, <2>5 DEF Rewrite
  <2> QED
    BY <1>1, <1>4, <2>5, <2>6, <2>7
<1>19. ASSUME NEW l \in Lists, NEW pc, Push(l, pc), Goto("pushDev") \/ Done
       PROVE  XInv'
  <2>1. PICK list : list = local[l]
    OBVIOUS
  <2>2. /\ list \in ListType
        /\ l = "dev" => list.uids \subseteq Gold
        /\ list.verified => list.exists /\ \A u \in list.uids : views[u] = NumViews
    BY <1>1, <2>1 DEF CopyType, Complete
  <2>3. bucket' = [bucket EXCEPT ![l] = list] /\ UNCHANGED <<census, views, local>>
    BY <1>19, <2>1 DEF Push
  <2>4. bucket' \in CopyType /\ Complete(bucket', views)
    <3>1. /\ [bucket EXCEPT ![l] = list] \in CopyType
          /\ Complete([bucket EXCEPT ![l] = list], views)
      BY <1>1, <2>2, ReplaceList
    <3> QED
      BY <2>3, <3>1
  <2>5. tool' \in ToolType /\ Listed' /\ CatalogTypeOK'
    BY <1>5, <1>6, <1>19, <2>3
  <2> QED
    BY <1>1, <1>4, <2>3, <2>4, <2>5
<1>20. CASE StopTool
  BY <1>1, <1>4, <1>6, <1>20 DEF StopTool
<1>21. CASE UNCHANGED textureVars
  BY <1>1, <1>4, <1>21, CatalogStep DEF textureVars, listVars, catalogVars, Listed
<1>22. /\ Rewrite("subset", "rewriteSubset", "rewriteDev") => XInv'
       /\ Rewrite("dev", "rewriteDev", "pushSubset") => XInv'
  BY <1>18 DEF Lists
<1>23. PushSubset \/ PushDev => XInv'
  BY <1>19 DEF PushSubset, PushDev, Lists
<1> QED
  BY <1>8, <1>9, <1>10, <1>11, <1>12, <1>14, <1>15, <1>16, <1>17, <1>20, <1>21, <1>22, <1>23
     DEF TextureNext, ListsNext

-----------------------------------------------------------------------------
(* The invariant holds of every behaviour.                                 *)
THEOREM ListsInvariant == TextureSpec => []XInv
<1>1. CatalogInit /\ TextureInit => XInv
  BY XInvInit
<1>2. XInv /\ [TextureNext]_textureVars => XInv'
  BY XInvStep
<1> QED
  BY <1>1, <1>2, PTL DEF TextureSpec

LEMMA TextureTypes == XInv => TextureTypeOK
<1> SUFFICES ASSUME XInv PROVE TextureTypeOK
  OBVIOUS
<1>1. ListsTyped
  BY DEF XInv
<1>2. \A copy \in {local, bucket} :
        /\ copy["subset"].uids \subseteq Uids /\ copy["dev"].uids \subseteq Gold
        /\ \A l \in Lists : copy[l].verified => copy[l].exists
  BY <1>1 DEF ListsTyped, CopyType, ListType, Lists
<1>3. \A row \in census : /\ row.target.uid \in Uids /\ row.target.population \in Populations
                          /\ row.tier \in Tiers
  BY <1>1 DEF ListsTyped, TargetType
<1> QED
  BY <1>1, <1>2, <1>3 DEF ListsTyped, ToolType, TextureTypeOK

(* Types: a selection names known models, that of the annotators' models   *)
(* gold ones (select_textured_dev_set).                                    *)
THEOREM TextureTypeCorrect == TextureSpec => []TextureTypeOK
<1>1. XInv => TextureTypeOK
  BY TextureTypes
<1> QED
  BY <1>1, ListsInvariant, PTL

LEMMA VerifiedRender == XInv => VerifiedListsRender
BY DEF XInv, Complete, VerifiedListsRender, Read

(* A list that was cut down to the renders names only models that have     *)
(* all of their views, wherever it is read (verify_against_renders).       *)
THEOREM VerifiedListsAreRendered == TextureSpec => []VerifiedListsRender
<1>1. XInv => VerifiedListsRender
  BY VerifiedRender
<1> QED
  BY <1>1, ListsInvariant, PTL

=============================================================================
