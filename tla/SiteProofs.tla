----------------------------- MODULE SiteProofs -----------------------------
(***************************************************************************)
(* What Startup keeps, for any rows and any classification of them: the    *)
(* invariant follows the key file, the columns and the categories through  *)
(* the steps of a start, and through the starts that died before it.       *)
(*                                                                         *)
(* Then, that one process over one data directory implements both of its   *)
(* parts: what Startup promises of the key, the columns and the categories *)
(* holds while requests are served, and what Gallery promises of the files *)
(* holds however often the process stops and starts.                       *)
(***************************************************************************)
EXTENDS Site, GalleryProofs

Started == {"look", "add_category", "add_platform", "carry", "script", "index",
            "serving"}
Migrating == {"add_category", "add_platform", "carry"}

\* Of the key file, and of what was read from it.
KeyInv ==
    /\ boot = "key_write" => key = "empty"
    /\ key = "empty" => "key" \in marred \/ boot = "key_write"
    /\ boot = "key_read" => key # "missing"
    /\ boot \in Started => secret = "full" \/ "key" \in marred

\* Of the columns: half a migration is under way, or has died.
ColumnInv ==
    /\ columns # {} => "id" \in columns
    /\ "platform" \in columns => "category" \in columns
    /\ "category" \in columns /\ "platform" \notin columns =>
         "migration" \in marred \/ boot = "add_platform"
    /\ boot = "add_category" => columns # {} /\ "category" \notin columns
    /\ boot = "add_platform" => "category" \in columns
    /\ boot = "carry" => Current \subseteq columns
    /\ boot = "script" /\ "category" \notin columns => columns = {}
    /\ boot = "index" => "category" \in columns
    /\ boot = "refused" => "migration" \in marred

\* Of a database that has served, and no longer has anything to migrate.
ServedInv ==
    /\ boot = "serving" => served
    /\ served => "category" \in columns /\ boot \notin Migrating

\* Of one that has not: its categories are written in one go.
Untouched(d) == category[d] = "none"
Moved(d) == category[d] = IF d \in owed THEN "Software" ELSE "none"

CategoryInv ==
    ~served /\ "migration" \notin marred =>
        \/ /\ "category" \notin columns \/ boot \in {"add_platform", "carry"}
           /\ \A d \in Discs : Untouched(d)
           /\ owed = IF "media_type" \in columns THEN DataDiscs ELSE {}
        \/ /\ "category" \in columns /\ boot \notin {"add_platform", "carry"}
           /\ \A d \in Discs : Moved(d)

StartIInv == StartTypeOK /\ KeyInv /\ ColumnInv /\ ServedInv /\ CategoryInv

-----------------------------------------------------------------------------
\* The invariant holds of every database a start may find.
LEMMA StartInitIInv == StartInit => StartIInv
<1> SUFFICES ASSUME StartInit PROVE StartIInv
  OBVIOUS
<1> USE DEF StartInit, Columns, Current
<1>1. StartTypeOK
  <2>1. columns \subseteq Columns
    OBVIOUS
  <2>2. category \in [Discs -> Categories]
    BY CategoriesAssumption
  <2> QED
    BY <2>1, <2>2, DataAssumption DEF StartTypeOK, Boots, Keys
<1>2. KeyInv
  BY DEF KeyInv, Started
<1>3. ColumnInv
  BY DEF ColumnInv
<1>4. ServedInv
  BY DEF ServedInv, Migrating
<1>5. CategoryInv
  BY DEF CategoryInv, Untouched
<1> QED
  BY <1>1, <1>2, <1>3, <1>4, <1>5 DEF StartIInv

\* Every step keeps the types.
LEMMA StartTypeStep ==
    ASSUME StartTypeOK, [StartNext]_startVars PROVE StartTypeOK'
<1> USE DEF StartTypeOK, Boots, Keys, Columns, Current
<1>1. CASE Launch
  BY <1>1 DEF Launch
<1>2. CASE KeyCheck
  BY <1>2 DEF KeyCheck
<1>3. CASE KeyWrite
  BY <1>3 DEF KeyWrite
<1>4. CASE KeyRead
  BY <1>4 DEF KeyRead
<1>5. CASE Look
  BY <1>5 DEF Look
<1>6. CASE AddCategory
  BY <1>6 DEF AddCategory, AddColumn
<1>7. CASE AddPlatform
  BY <1>7 DEF AddPlatform, AddColumn
<1>8. CASE Carry
  <2>1. category' \in [Discs -> Categories]
    <3>1. \A d \in Discs : Carried(d) \in Categories
      BY CategoriesAssumption DEF Carried
    <3> QED
      BY <1>8, <3>1 DEF Carry
  <2> QED
    BY <1>8, <2>1 DEF Carry
<1>9. CASE Script
  BY <1>9 DEF Script
<1>10. CASE Serve
  BY <1>10 DEF Serve
<1>11. CASE Fail
  BY <1>11 DEF Fail
<1>12. CASE Stop
  <2>1. Halves \subseteq {"key", "migration"}
    BY DEF Halves
  <2> QED
    BY <1>12, <2>1 DEF Stop
<1>13. ASSUME NEW d \in Discs, NEW c \in Categories, Classify(d, c)
       PROVE  StartTypeOK'
  BY <1>13 DEF Classify
<1>14. CASE UNCHANGED startVars
  BY <1>14 DEF startVars
<1> QED
  BY <1>1, <1>2, <1>3, <1>4, <1>5, <1>6, <1>7, <1>8, <1>9, <1>10, <1>11, <1>12,
     <1>13, <1>14 DEF StartNext, Boot

\* Every step keeps what is said of the key.
LEMMA KeyStep ==
    ASSUME StartTypeOK, KeyInv, [StartNext]_startVars PROVE KeyInv'
<1> USE DEF StartTypeOK, Boots, Keys, KeyInv, Started
<1>1. CASE Launch
  BY <1>1 DEF Launch
<1>2. CASE KeyCheck
  BY <1>2 DEF KeyCheck
<1>3. CASE KeyWrite
  BY <1>3 DEF KeyWrite
<1>4. CASE KeyRead
  BY <1>4 DEF KeyRead
<1>5. CASE Look
  BY <1>5 DEF Look
<1>6. CASE AddCategory \/ AddPlatform
  BY <1>6 DEF AddCategory, AddPlatform, AddColumn
<1>7. CASE Carry \/ Script
  BY <1>7 DEF Carry, Script
<1>8. CASE Serve \/ Fail
  BY <1>8 DEF Serve, Fail
<1>9. CASE Stop
  <2>1. boot = "key_write" => "key" \in marred'
    BY <1>9 DEF Stop, Halves
  <2> QED
    BY <1>9, <2>1 DEF Stop
<1>10. ASSUME NEW d \in Discs, NEW c \in Categories, Classify(d, c)
       PROVE  KeyInv'
  BY <1>10 DEF Classify
<1>11. CASE UNCHANGED startVars
  BY <1>11 DEF startVars
<1> QED
  BY <1>1, <1>2, <1>3, <1>4, <1>5, <1>6, <1>7, <1>8, <1>9, <1>10, <1>11
     DEF StartNext, Boot

\* Every step keeps what is said of the columns.
LEMMA ColumnStep ==
    ASSUME StartTypeOK, ColumnInv, [StartNext]_startVars PROVE ColumnInv'
<1> USE DEF StartTypeOK, Boots, ColumnInv, Current
<1>1. CASE Launch \/ KeyCheck \/ KeyWrite \/ KeyRead
  BY <1>1 DEF Launch, KeyCheck, KeyWrite, KeyRead
<1>2. CASE Look
  BY <1>2 DEF Look, UpToDate
<1>3. CASE AddCategory
  BY <1>3 DEF AddCategory, AddColumn
<1>4. CASE AddPlatform
  BY <1>4 DEF AddPlatform, AddColumn
<1>5. CASE Carry
  BY <1>5 DEF Carry
<1>6. CASE Script
  BY <1>6 DEF Script
<1>7. CASE Serve
  BY <1>7 DEF Serve
<1>8. CASE Fail
  BY <1>8 DEF Fail
<1>9. CASE Stop
  <2>1. boot = "add_platform" => "migration" \in marred'
    BY <1>9 DEF Stop, Halves
  <2> QED
    BY <1>9, <2>1 DEF Stop
<1>10. ASSUME NEW d \in Discs, NEW c \in Categories, Classify(d, c)
       PROVE  ColumnInv'
  BY <1>10 DEF Classify
<1>11. CASE UNCHANGED startVars
  BY <1>11 DEF startVars
<1> QED
  BY <1>1, <1>2, <1>3, <1>4, <1>5, <1>6, <1>7, <1>8, <1>9, <1>10, <1>11
     DEF StartNext, Boot

\* A database that has served is never migrated again.
LEMMA ServedStep ==
    ASSUME StartTypeOK, ColumnInv, ServedInv, [StartNext]_startVars
    PROVE  ServedInv'
<1> USE DEF StartTypeOK, Boots, ServedInv, Migrating, Current
<1>1. CASE Launch \/ KeyCheck \/ KeyWrite \/ KeyRead
  BY <1>1 DEF Launch, KeyCheck, KeyWrite, KeyRead
<1>2. CASE Look
  BY <1>2 DEF Look, UpToDate
<1>3. CASE AddCategory \/ AddPlatform
  BY <1>3 DEF AddCategory, AddPlatform, AddColumn
<1>4. CASE Carry \/ Script
  BY <1>4 DEF Carry, Script
<1>5. CASE Serve \/ Fail
  BY <1>5 DEF Serve, Fail
<1>6. CASE Stop
  BY <1>6 DEF Stop
<1>7. ASSUME NEW d \in Discs, NEW c \in Categories, Classify(d, c)
      PROVE  ServedInv'
  BY <1>7 DEF Classify
<1>8. CASE UNCHANGED startVars
  BY <1>8 DEF startVars
<1> QED
  BY <1>1, <1>2, <1>3, <1>4, <1>5, <1>6, <1>7, <1>8 DEF StartNext, Boot

\* Until it has, its categories are all from before the transaction, or all
\* from after it.
LEMMA CategoryStep ==
    ASSUME StartIInv, [StartNext]_startVars PROVE CategoryInv'
<1> USE DEF StartIInv, StartTypeOK, Boots, CategoryInv, Untouched, Moved
<1>1. CASE Launch \/ KeyCheck \/ KeyWrite \/ KeyRead
  BY <1>1 DEF Launch, KeyCheck, KeyWrite, KeyRead
<1>2. CASE Look
  BY <1>2 DEF Look
<1>3. CASE AddCategory
  <2>1. ~served /\ "migration" \notin marred =>
          /\ \A d \in Discs : category[d] = "none"
          /\ owed = IF "media_type" \in columns THEN DataDiscs ELSE {}
    BY <1>3 DEF AddCategory, AddColumn, ColumnInv
  <2>2. "media_type" \in columns' <=> "media_type" \in columns
    BY <1>3 DEF AddCategory, AddColumn
  <2> QED
    BY <1>3, <2>1, <2>2 DEF AddCategory, AddColumn
<1>4. CASE AddPlatform
  BY <1>4 DEF AddPlatform, AddColumn
<1>5. CASE Carry
  <2> SUFFICES ASSUME ~served, "migration" \notin marred
               PROVE  CategoryInv'
    BY <1>5 DEF Carry
  <2>1. /\ \A d \in Discs : category[d] = "none"
        /\ owed = IF "media_type" \in columns THEN DataDiscs ELSE {}
    BY <1>5 DEF Carry
  <2>2. /\ category' = [d \in Discs |-> Carried(d)]
        /\ owed' = owed
        /\ boot' = "script"
    BY <1>5 DEF Carry
  <2>3. \A d \in Discs : Moved(d)'
    BY <2>1, <2>2 DEF Carried
  <2>4. "category" \in columns'
    BY <1>5 DEF Carry, ColumnInv, Current
  <2> QED
    BY <2>2, <2>3, <2>4
<1>6. CASE Script
  BY <1>6 DEF Script, ColumnInv, Current
<1>7. CASE Serve
  BY <1>7 DEF Serve
<1>8. CASE Fail
  BY <1>8 DEF Fail
<1>9. CASE Stop
  <2>1. boot \in {"add_platform", "carry"} => "migration" \in marred'
    BY <1>9 DEF Stop, Halves
  <2> QED
    BY <1>9, <2>1 DEF Stop
<1>10. ASSUME NEW d \in Discs, NEW c \in Categories, Classify(d, c)
       PROVE  CategoryInv'
  BY <1>10 DEF Classify, ServedInv
<1>11. CASE UNCHANGED startVars
  BY <1>11 DEF startVars
<1> QED
  BY <1>1, <1>2, <1>3, <1>4, <1>5, <1>6, <1>7, <1>8, <1>9, <1>10, <1>11
     DEF StartNext, Boot

\* StartIInv is an invariant.
LEMMA StartInvariant == StartSpec => []StartIInv
<1>1. StartIInv /\ [StartNext]_startVars => StartIInv'
  BY StartTypeStep, KeyStep, ColumnStep, ServedStep, CategoryStep
     DEF StartIInv
<1> QED
  BY StartInitIInv, <1>1, PTL DEF StartSpec

-----------------------------------------------------------------------------
\* Every state of a start is well typed.
THEOREM StartTypeCorrect == StartSpec => []StartTypeOK
<1>1. StartIInv => StartTypeOK
  BY DEF StartIInv
<1> QED
  BY StartInvariant, <1>1, PTL

\* A start is refused only where one has died between two ALTERs.
THEOREM OnlyTornIsRefused == StartSpec => []RefusedIsMarred
<1>1. StartIInv => RefusedIsMarred
  BY DEF StartIInv, ColumnInv, RefusedIsMarred
<1> QED
  BY StartInvariant, <1>1, PTL

\* Whoever serves signs with a whole key, unless a start died as it wrote it.
THEOREM ServesWithKey == StartSpec => []KeyIsWhole
<1>1. StartIInv => KeyIsWhole
  BY DEF StartIInv, KeyInv, Started, KeyIsWhole
<1> QED
  BY StartInvariant, <1>1, PTL

\* Data becomes Software, once, and nothing else is classified.
THEOREM DataBecomesSoftware == StartSpec => DataCarried
<1>1. StartIInv /\ [StartNext]_startVars =>
        [~served /\ served' /\ marred = {}
         => \A d \in Discs :
              category'[d] = IF d \in owed THEN "Software" ELSE "none"]_startVars
  <2> SUFFICES ASSUME StartIInv, StartNext, ~served, served', marred = {},
                      NEW d \in Discs
               PROVE  category'[d] = IF d \in owed THEN "Software" ELSE "none"
    OBVIOUS
  <2>1. Serve
    BY DEF StartNext, Boot, Launch, KeyCheck, KeyWrite, KeyRead, Look,
           AddCategory, AddPlatform, AddColumn, Carry, Script, Fail, Stop,
           Classify
  <2>2. category' = category /\ Moved(d)
    BY <2>1 DEF Serve, StartIInv, CategoryInv, Current
  <2> QED
    BY <2>2 DEF Moved
<1> QED
  BY StartInvariant, <1>1, PTL DEF StartSpec, DataCarried

\* Once a database has served, a start changes no category.
THEOREM StartsLeaveCategories == StartSpec => NeverReclassified
<1>1. StartIInv /\ [StartNext]_startVars =>
        [served /\ boot # "serving" => category' = category]_startVars
  <2> SUFFICES ASSUME StartIInv, StartNext, served, boot # "serving"
               PROVE  category' = category
    OBVIOUS
  <2>1. ~Carry
    BY DEF StartIInv, ServedInv, Migrating, Carry
  <2> QED
    BY <2>1 DEF StartNext, Boot, Launch, KeyCheck, KeyWrite, KeyRead, Look,
           AddCategory, AddPlatform, AddColumn, Script, Serve, Fail, Stop,
           Classify
<1> QED
  BY StartInvariant, <1>1, PTL DEF StartSpec, NeverReclassified

-----------------------------------------------------------------------------
(* The site: Startup and Gallery in one process.                            *)

\* A step of the site is a step of the gallery, or leaves it alone.
LEMMA SiteArtStep ==
    ASSUME [SiteNext]_siteVars PROVE [ArtNext]_artVars
<1>1. CASE Boot /\ UNCHANGED artVars
  BY <1>1
<1>2. ASSUME NEW r \in Requests, SiteRequest(r) PROVE ArtNext
  BY <1>2 DEF SiteRequest, Save, ArtNext
<1>3. ASSUME NEW d \in Ids, Create(d) PROVE ArtNext
  BY <1>3 DEF ArtNext
<1>4. CASE ArtStop
  BY <1>4 DEF ArtNext
<1>5. CASE UNCHANGED siteVars
  BY <1>5 DEF siteVars
<1> QED
  BY <1>1, <1>2, <1>3, <1>4, <1>5 DEF SiteNext

\* What a request is about to write to is a row.
LEMMA RequestHasDisc ==
    ASSUME ArtIInv, NEW r \in Requests, at[r] # "idle"
    PROVE  disc[r] \in Discs
BY RowsAssumption DEF ArtIInv, Holding

\* A step of the site is a step of the start, or leaves it alone.
LEMMA SiteStartStep ==
    ASSUME ArtIInv, [SiteNext]_siteVars PROVE [StartNext]_startVars
<1>1. CASE Boot
  BY <1>1 DEF StartNext
<1>2. ASSUME NEW r \in Requests, SiteRequest(r) PROVE [StartNext]_startVars
  <2>1. CASE UNCHANGED startVars
    BY <2>1
  <2>2. ASSUME Save(r), ~UNCHANGED startVars PROVE StartNext
    <3>1. PICK c \in Categories : Classify(disc[r], c)
      BY <2>2 DEF Save
    <3>2. disc[r] \in Discs
      BY <2>2, RequestHasDisc DEF Save, Update
    <3> QED
      BY <3>1, <3>2 DEF StartNext
  <2>3. ASSUME Delete(r), Remake(disc[r]) PROVE StartNext
    <3>1. disc[r] \in Discs
      BY <2>3, RequestHasDisc DEF Delete
    <3> QED
      BY <2>3, <3>1, CategoriesAssumption DEF Remake, StartNext
  <2> QED
    BY <1>2, <2>1, <2>2, <2>3 DEF SiteRequest
<1>3. ASSUME NEW d \in Ids, Remake(d) PROVE StartNext
  BY <1>3, RowsAssumption, CategoriesAssumption DEF Remake, StartNext
<1>4. CASE Stop
  BY <1>4 DEF StartNext
<1>5. CASE UNCHANGED siteVars
  BY <1>5 DEF siteVars
<1> QED
  BY <1>1, <1>2, <1>3, <1>4, <1>5 DEF SiteNext

-----------------------------------------------------------------------------
\* The site is a gallery: stops and starts of the process add nothing that the
\* requests and their ends do not do already.
THEOREM SiteImplementsGallery == SiteSpec => ArtSpec
<1>1. SiteInit => ArtInit
  BY DEF SiteInit
<1>2. [SiteNext]_siteVars => [ArtNext]_artVars
  BY SiteArtStep
<1> QED
  BY <1>1, <1>2, PTL DEF SiteSpec, ArtSpec

\* The site is a start: a request that edits, deletes or creates a row changes
\* what the row says, and nothing else of the database's shape.
THEOREM SiteImplementsStartup == SiteSpec => StartSpec
<1>1. SiteInit => StartInit
  BY DEF SiteInit
<1>2. ArtIInv /\ [SiteNext]_siteVars => [StartNext]_startVars
  BY SiteStartStep
<1> QED
  BY <1>1, <1>2, SiteImplementsGallery, ArtInvariant, PTL
     DEF SiteSpec, StartSpec

\* Every state of the site is well typed.
THEOREM SiteTypeCorrect == SiteSpec => []SiteTypeOK
<1>1. StartTypeOK /\ ArtTypeOK => SiteTypeOK
  BY DEF SiteTypeOK
<1> QED
  BY <1>1, SiteImplementsGallery, SiteImplementsStartup, StartTypeCorrect,
     ArtTypeCorrect, PTL

\* What each part promises, the whole keeps.
THEOREM SiteCorrect ==
    SiteSpec => /\ []RefusedIsMarred /\ []KeyIsWhole
                /\ []ArtIsThere /\ []NoStrayFiles
                /\ DataCarried /\ NeverReclassified
BY SiteImplementsGallery, SiteImplementsStartup, OnlyTornIsRefused,
   ServesWithKey, ArtStaysThere, FilesAreKept, DataBecomesSoftware,
   StartsLeaveCategories, PTL
=============================================================================
