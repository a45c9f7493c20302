---------------------------- MODULE GalleryProofs ----------------------------
(***************************************************************************)
(* What Gallery keeps, for any number of requests, rows and names.  What a *)
(* request read may be out of date at every step; the invariant says what  *)
(* is true of it all the same, because a name is drawn once and is named   *)
(* by one row at most.                                                     *)
(***************************************************************************)
EXTENDS Gallery, TLAPS

Erasing  == {"erase_thumb", "erase_full"}
Removing == {"remove_thumb", "remove_full"}
Storing  == {"store_thumb", "store_full"}

\* What a request holds where it is.
Holding ==
    \A r \in Requests :
        /\ at[r] = "idle" => disc[r] = None /\ old[r] = None /\ new[r] = None
        /\ at[r] # "idle" => disc[r] \in Ids
        /\ at[r] \in {"edit", "delete"} \cup Erasing => new[r] = None
        /\ at[r] \in Storing \cup Removing => new[r] \in Stems
        /\ at[r] \in Removing \cup Erasing => old[r] \in Stems

\* No two rows name the same art; what a request has read is named by the row
\* it read or by none, and what it has drawn is nobody else's.
OwnArt ==
    /\ \A d, e \in Ids : art[d] \in Stems /\ art[d] = art[e] => d = e
    /\ \A r \in Requests, d \in Ids :
         /\ old[r] \in Stems /\ art[d] = old[r] => d = disc[r]
         /\ at[r] \in Erasing => art[d] # old[r]
         /\ new[r] \in Stems => art[d] # new[r]
    /\ \A r, q \in Requests :
         /\ new[r] \in Stems => old[q] # new[r]
         /\ new[r] \in Stems /\ new[q] = new[r] => q = r

Has(s, size) == <<s, size>> \in files

\* How far the new files are.
StoredArt ==
    \A r \in Requests : new[r] \in Stems =>
        /\ at[r] = "store_thumb" =>
             ~Has(new[r], "thumb") /\ ~Has(new[r], "full")
        /\ at[r] = "store_full" => Has(new[r], "thumb")
        /\ at[r] \in Removing \cup {"update"} =>
             Has(new[r], "thumb") /\ Has(new[r], "full")

\* How far the old ones are, unless the disk refused.
RemovedArt ==
    \A r \in Requests :
        /\ at[r] \in {"remove_full", "erase_full"} =>
             ~Has(old[r], "thumb") \/ old[r] \in lapsed
        /\ at[r] = "update" /\ new[r] \in Stems /\ old[r] \in Stems =>
             \/ ~Has(old[r], "thumb") /\ ~Has(old[r], "full")
             \/ old[r] \in lapsed

\* ArtIsThere and NoStrayFiles, file by file.
ThereInv ==
    \A d \in Ids : art[d] \in Stems =>
        \/ Has(art[d], "thumb") /\ Has(art[d], "full")
        \/ art[d] \in lapsed
        \/ \E q \in Requests : /\ old[q] = art[d] /\ new[q] # None
                               /\ at[q] \in {"remove_full", "update"}

Kept(s) ==
    \/ s \in lapsed
    \/ \E d \in Ids : art[d] = s
    \/ \E q \in Requests : new[q] = s \/ (old[q] = s /\ at[q] \in Erasing)

StrayInv == \A s \in Stems, size \in Sizes : Has(s, size) => Kept(s)

ArtIInv ==
    /\ ArtTypeOK /\ Holding /\ OwnArt /\ StoredArt /\ RemovedArt
    /\ ThereInv /\ StrayInv

-----------------------------------------------------------------------------
\* The sets that the types are made of have nothing in common.
LEMMA Names == None \notin Stems /\ Absent \notin Stems /\ None # Absent
               /\ None \notin Ids /\ Absent \notin Ids
<1>1. Ids \subseteq Nat
  BY IdsAssumption DEF Ids
<1> QED
  BY <1>1, NamesAssumption

\* Every step keeps the types.
LEMMA ArtTypeStep ==
    ASSUME ArtTypeOK, Holding, [ArtNext]_artVars PROVE ArtTypeOK'
<1> USE DEF ArtTypeOK, Arts, Steps, Sizes, Erasing, Removing, Storing, Holding
<1> USE Names
<1>1. ASSUME NEW r \in Requests, NEW d \in Ids,
            Read(r, d, "edit") \/ Read(r, d, "delete")
     PROVE  ArtTypeOK'
  BY <1>1 DEF Read, Goto
<1>2. ASSUME NEW r \in Requests, NEW s \in Stems, Draw(r, s)
     PROVE  ArtTypeOK'
  BY <1>2 DEF Draw, Fresh, Goto, Named
<1>3. ASSUME NEW r \in Requests, KeepArt(r)
     PROVE  ArtTypeOK'
  BY <1>3 DEF KeepArt, Goto, heldVars
<1>4. ASSUME NEW r \in Requests, StoreThumb(r)
     PROVE  ArtTypeOK'
  BY <1>4 DEF StoreThumb, Goto, heldVars
<1>5. ASSUME NEW r \in Requests, StoreFull(r)
     PROVE  ArtTypeOK'
  BY <1>5 DEF StoreFull, Goto, heldVars
<1>6. ASSUME NEW r \in Requests, RemoveThumb(r)
     PROVE  ArtTypeOK'
  BY <1>6 DEF RemoveThumb, Remove, Goto, heldVars
<1>7. ASSUME NEW r \in Requests, RemoveFull(r)
     PROVE  ArtTypeOK'
  BY <1>7 DEF RemoveFull, Remove, Goto, heldVars
<1>8. ASSUME NEW r \in Requests, EraseThumb(r)
     PROVE  ArtTypeOK'
  BY <1>8 DEF EraseThumb, Remove, Goto, heldVars
<1>9. ASSUME NEW r \in Requests, EraseFull(r)
     PROVE  ArtTypeOK'
  BY <1>9 DEF EraseFull, Remove, Over, Goto
<1>10. ASSUME NEW r \in Requests, Refuse(r)
     PROVE  ArtTypeOK'
  BY <1>10 DEF Refuse, Over, Goto
<1>11. ASSUME NEW r \in Requests, Die(r)
     PROVE  ArtTypeOK'
  BY <1>11 DEF Die, Loose, Over, Goto
<1>12. ASSUME NEW r \in Requests, Update(r)
     PROVE  ArtTypeOK'
  BY <1>12 DEF Update, Dropped, Over, Goto
<1>13. ASSUME NEW r \in Requests, Delete(r)
     PROVE  ArtTypeOK'
  BY <1>13 DEF Delete, Dropped, Over, Goto, heldVars
<1>14. ASSUME NEW d \in Ids, Create(d)
      PROVE  ArtTypeOK'
  BY <1>14 DEF Create, heldVars
<1>15. CASE ArtStop
  BY <1>15 DEF ArtStop, Loose
<1>16. CASE UNCHANGED artVars
  BY <1>16 DEF artVars
<1> QED
  BY <1>1, <1>2, <1>3, <1>4, <1>5, <1>6, <1>7, <1>8, <1>9, <1>10, <1>11,
     <1>12, <1>13, <1>14, <1>15, <1>16
     DEF ArtNext, Request

\* Every step keeps what a request holds.
LEMMA HoldingStep ==
    ASSUME ArtTypeOK, Holding, [ArtNext]_artVars PROVE Holding'
<1> USE DEF ArtTypeOK, Arts, Steps, Holding, Erasing, Removing, Storing
<1> USE Names
<1>1. ASSUME NEW r \in Requests, NEW d \in Ids,
            Read(r, d, "edit") \/ Read(r, d, "delete")
     PROVE  Holding'
  BY <1>1 DEF Read, Goto
<1>2. ASSUME NEW r \in Requests, NEW s \in Stems, Draw(r, s)
     PROVE  Holding'
  BY <1>2 DEF Draw, Fresh, Goto, Named
<1>3. ASSUME NEW r \in Requests, KeepArt(r)
     PROVE  Holding'
  BY <1>3 DEF KeepArt, Goto, heldVars
<1>4. ASSUME NEW r \in Requests, StoreThumb(r)
     PROVE  Holding'
  BY <1>4 DEF StoreThumb, Goto, heldVars
<1>5. ASSUME NEW r \in Requests, StoreFull(r)
     PROVE  Holding'
  BY <1>5 DEF StoreFull, Goto, heldVars
<1>6. ASSUME NEW r \in Requests, RemoveThumb(r)
     PROVE  Holding'
  BY <1>6 DEF RemoveThumb, Remove, Goto, heldVars
<1>7. ASSUME NEW r \in Requests, RemoveFull(r)
     PROVE  Holding'
  BY <1>7 DEF RemoveFull, Remove, Goto, heldVars
<1>8. ASSUME NEW r \in Requests, EraseThumb(r)
     PROVE  Holding'
  BY <1>8 DEF EraseThumb, Remove, Goto, heldVars
<1>9. ASSUME NEW r \in Requests, EraseFull(r)
     PROVE  Holding'
  BY <1>9 DEF EraseFull, Remove, Over, Goto
<1>10. ASSUME NEW r \in Requests, Refuse(r)
     PROVE  Holding'
  BY <1>10 DEF Refuse, Over, Goto
<1>11. ASSUME NEW r \in Requests, Die(r)
     PROVE  Holding'
  BY <1>11 DEF Die, Loose, Over, Goto
<1>12. ASSUME NEW r \in Requests, Update(r)
     PROVE  Holding'
  BY <1>12 DEF Update, Dropped, Over, Goto
<1>13. ASSUME NEW r \in Requests, Delete(r)
     PROVE  Holding'
  BY <1>13 DEF Delete, Dropped, Over, Goto, heldVars
<1>14. ASSUME NEW d \in Ids, Create(d)
      PROVE  Holding'
  BY <1>14 DEF Create, heldVars
<1>15. CASE ArtStop
  BY <1>15 DEF ArtStop, Loose
<1>16. CASE UNCHANGED artVars
  BY <1>16 DEF artVars
<1> QED
  BY <1>1, <1>2, <1>3, <1>4, <1>5, <1>6, <1>7, <1>8, <1>9, <1>10, <1>11,
     <1>12, <1>13, <1>14, <1>15, <1>16
     DEF ArtNext, Request

\* Every step keeps art apart.
LEMMA OwnStep ==
    ASSUME ArtTypeOK, Holding, OwnArt, [ArtNext]_artVars PROVE OwnArt'
<1> USE DEF ArtTypeOK, Arts, Steps, Holding, OwnArt, Erasing, Removing, Storing
<1> USE Names
<1>1. ASSUME NEW r \in Requests, NEW d \in Ids,
            Read(r, d, "edit") \/ Read(r, d, "delete")
     PROVE  OwnArt'
  BY <1>1 DEF Read, Goto
<1>2. ASSUME NEW r \in Requests, NEW s \in Stems, Draw(r, s)
     PROVE  OwnArt'
  BY <1>2 DEF Draw, Fresh, Goto, Named
<1>3. ASSUME NEW r \in Requests, KeepArt(r)
     PROVE  OwnArt'
  BY <1>3 DEF KeepArt, Goto, heldVars
<1>4. ASSUME NEW r \in Requests, StoreThumb(r)
     PROVE  OwnArt'
  BY <1>4 DEF StoreThumb, Goto, heldVars
<1>5. ASSUME NEW r \in Requests, StoreFull(r)
     PROVE  OwnArt'
  BY <1>5 DEF StoreFull, Goto, heldVars
<1>6. ASSUME NEW r \in Requests, RemoveThumb(r)
     PROVE  OwnArt'
  BY <1>6 DEF RemoveThumb, Remove, Goto, heldVars
<1>7. ASSUME NEW r \in Requests, RemoveFull(r)
     PROVE  OwnArt'
  BY <1>7 DEF RemoveFull, Remove, Goto, heldVars
<1>8. ASSUME NEW r \in Requests, EraseThumb(r)
     PROVE  OwnArt'
  BY <1>8 DEF EraseThumb, Remove, Goto, heldVars
<1>9. ASSUME NEW r \in Requests, EraseFull(r)
     PROVE  OwnArt'
  BY <1>9 DEF EraseFull, Remove, Over, Goto
<1>10. ASSUME NEW r \in Requests, Refuse(r)
     PROVE  OwnArt'
  BY <1>10 DEF Refuse, Over, Goto
<1>11. ASSUME NEW r \in Requests, Die(r)
     PROVE  OwnArt'
  BY <1>11 DEF Die, Loose, Over, Goto
<1>12. ASSUME NEW r \in Requests, Update(r)
     PROVE  OwnArt'
  BY <1>12 DEF Update, Dropped, Over, Goto
<1>13. ASSUME NEW r \in Requests, Delete(r)
     PROVE  OwnArt'
  BY <1>13 DEF Delete, Dropped, Over, Goto, heldVars
<1>14. ASSUME NEW d \in Ids, Create(d)
      PROVE  OwnArt'
  BY <1>14 DEF Create, heldVars
<1>15. CASE ArtStop
  BY <1>15 DEF ArtStop, Loose
<1>16. CASE UNCHANGED artVars
  BY <1>16 DEF artVars
<1> QED
  BY <1>1, <1>2, <1>3, <1>4, <1>5, <1>6, <1>7, <1>8, <1>9, <1>10, <1>11,
     <1>12, <1>13, <1>14, <1>15, <1>16
     DEF ArtNext, Request

\* Every step keeps new files whole.
LEMMA StoredStep ==
    ASSUME ArtTypeOK, Holding, OwnArt, StoredArt, [ArtNext]_artVars
    PROVE  StoredArt'
<1> USE DEF ArtTypeOK, Arts, Steps, Holding, OwnArt, StoredArt, Has, Erasing,
           Removing, Storing
<1> USE Names
<1>1. ASSUME NEW r \in Requests, NEW d \in Ids,
            Read(r, d, "edit") \/ Read(r, d, "delete")
     PROVE  StoredArt'
  BY <1>1 DEF Read, Goto
<1>2. ASSUME NEW r \in Requests, NEW s \in Stems, Draw(r, s)
     PROVE  StoredArt'
  BY <1>2 DEF Draw, Fresh, Goto, Named
<1>3. ASSUME NEW r \in Requests, KeepArt(r)
     PROVE  StoredArt'
  BY <1>3 DEF KeepArt, Goto, heldVars
<1>4. ASSUME NEW r \in Requests, StoreThumb(r)
     PROVE  StoredArt'
  BY <1>4 DEF StoreThumb, Goto, heldVars
<1>5. ASSUME NEW r \in Requests, StoreFull(r)
     PROVE  StoredArt'
  BY <1>5 DEF StoreFull, Goto, heldVars
<1>6. ASSUME NEW r \in Requests, RemoveThumb(r)
     PROVE  StoredArt'
  BY <1>6 DEF RemoveThumb, Remove, Goto, heldVars
<1>7. ASSUME NEW r \in Requests, RemoveFull(r)
     PROVE  StoredArt'
  BY <1>7 DEF RemoveFull, Remove, Goto, heldVars
<1>8. ASSUME NEW r \in Requests, EraseThumb(r)
     PROVE  StoredArt'
  BY <1>8 DEF EraseThumb, Remove, Goto, heldVars
<1>9. ASSUME NEW r \in Requests, EraseFull(r)
     PROVE  StoredArt'
  BY <1>9 DEF EraseFull, Remove, Over, Goto
<1>10. ASSUME NEW r \in Requests, Refuse(r)
     PROVE  StoredArt'
  BY <1>10 DEF Refuse, Over, Goto
<1>11. ASSUME NEW r \in Requests, Die(r)
     PROVE  StoredArt'
  BY <1>11 DEF Die, Loose, Over, Goto
<1>12. ASSUME NEW r \in Requests, Update(r)
     PROVE  StoredArt'
  BY <1>12 DEF Update, Dropped, Over, Goto
<1>13. ASSUME NEW r \in Requests, Delete(r)
     PROVE  StoredArt'
  BY <1>13 DEF Delete, Dropped, Over, Goto, heldVars
<1>14. ASSUME NEW d \in Ids, Create(d)
      PROVE  StoredArt'
  BY <1>14 DEF Create, heldVars
<1>15. CASE ArtStop
  BY <1>15 DEF ArtStop, Loose
<1>16. CASE UNCHANGED artVars
  BY <1>16 DEF artVars
<1> QED
  BY <1>1, <1>2, <1>3, <1>4, <1>5, <1>6, <1>7, <1>8, <1>9, <1>10, <1>11,
     <1>12, <1>13, <1>14, <1>15, <1>16
     DEF ArtNext, Request

\* Every step keeps old files away, once removed.
LEMMA RemovedStep ==
    ASSUME ArtTypeOK, Holding, OwnArt, RemovedArt, [ArtNext]_artVars
    PROVE  RemovedArt'
<1> USE DEF ArtTypeOK, Arts, Steps, Holding, OwnArt, RemovedArt, Has, Erasing,
           Removing, Storing
<1> USE Names
<1>1. ASSUME NEW r \in Requests, NEW d \in Ids,
            Read(r, d, "edit") \/ Read(r, d, "delete")
     PROVE  RemovedArt'
  BY <1>1 DEF Read, Goto
<1>2. ASSUME NEW r \in Requests, NEW s \in Stems, Draw(r, s)
     PROVE  RemovedArt'
  BY <1>2 DEF Draw, Fresh, Goto, Named
<1>3. ASSUME NEW r \in Requests, KeepArt(r)
     PROVE  RemovedArt'
  BY <1>3 DEF KeepArt, Goto, heldVars
<1>4. ASSUME NEW r \in Requests, StoreThumb(r)
     PROVE  RemovedArt'
  BY <1>4 DEF StoreThumb, Goto, heldVars
<1>5. ASSUME NEW r \in Requests, StoreFull(r)
     PROVE  RemovedArt'
  BY <1>5 DEF StoreFull, Goto, heldVars
<1>6. ASSUME NEW r \in Requests, RemoveThumb(r)
     PROVE  RemovedArt'
  BY <1>6 DEF RemoveThumb, Remove, Goto, heldVars
<1>7. ASSUME NEW r \in Requests, RemoveFull(r)
     PROVE  RemovedArt'
  BY <1>7 DEF RemoveFull, Remove, Goto, heldVars
<1>8. ASSUME NEW r \in Requests, EraseThumb(r)
     PROVE  RemovedArt'
  BY <1>8 DEF EraseThumb, Remove, Goto, heldVars
<1>9. ASSUME NEW r \in Requests, EraseFull(r)
     PROVE  RemovedArt'
  BY <1>9 DEF EraseFull, Remove, Over, Goto
<1>10. ASSUME NEW r \in Requests, Refuse(r)
     PROVE  RemovedArt'
  BY <1>10 DEF Refuse, Over, Goto
<1>11. ASSUME NEW r \in Requests, Die(r)
     PROVE  RemovedArt'
  BY <1>11 DEF Die, Loose, Over, Goto
<1>12. ASSUME NEW r \in Requests, Update(r)
     PROVE  RemovedArt'
  BY <1>12 DEF Update, Dropped, Over, Goto
<1>13. ASSUME NEW r \in Requests, Delete(r)
     PROVE  RemovedArt'
  BY <1>13 DEF Delete, Dropped, Over, Goto, heldVars
<1>14. ASSUME NEW d \in Ids, Create(d)
      PROVE  RemovedArt'
  BY <1>14 DEF Create, heldVars
<1>15. CASE ArtStop
  BY <1>15 DEF ArtStop, Loose
<1>16. CASE UNCHANGED artVars
  BY <1>16 DEF artVars
<1> QED
  BY <1>1, <1>2, <1>3, <1>4, <1>5, <1>6, <1>7, <1>8, <1>9, <1>10, <1>11,
     <1>12, <1>13, <1>14, <1>15, <1>16
     DEF ArtNext, Request

\* Every step keeps the files of what the rows name.
LEMMA ThereStep ==
    ASSUME ArtTypeOK, Holding, OwnArt, StoredArt, ThereInv, [ArtNext]_artVars
    PROVE  ThereInv'
<1> USE DEF ArtTypeOK, Arts, Steps, Holding, OwnArt, StoredArt, ThereInv, Has,
           Erasing, Removing, Storing
<1> USE Names
<1>1. ASSUME NEW r \in Requests, NEW d \in Ids,
            Read(r, d, "edit") \/ Read(r, d, "delete")
     PROVE  ThereInv'
  BY <1>1 DEF Read, Goto
<1>2. ASSUME NEW r \in Requests, NEW s \in Stems, Draw(r, s)
     PROVE  ThereInv'
  BY <1>2 DEF Draw, Fresh, Goto, Named
<1>3. ASSUME NEW r \in Requests, KeepArt(r)
     PROVE  ThereInv'
  BY <1>3 DEF KeepArt, Goto, heldVars
<1>4. ASSUME NEW r \in Requests, StoreThumb(r)
     PROVE  ThereInv'
  BY <1>4 DEF StoreThumb, Goto, heldVars
<1>5. ASSUME NEW r \in Requests, StoreFull(r)
     PROVE  ThereInv'
  BY <1>5 DEF StoreFull, Goto, heldVars
<1>6. ASSUME NEW r \in Requests, RemoveThumb(r)
     PROVE  ThereInv'
  BY <1>6 DEF RemoveThumb, Remove, Goto, heldVars
<1>7. ASSUME NEW r \in Requests, RemoveFull(r)
     PROVE  ThereInv'
  BY <1>7 DEF RemoveFull, Remove, Goto, heldVars
<1>8. ASSUME NEW r \in Requests, EraseThumb(r)
     PROVE  ThereInv'
  BY <1>8 DEF EraseThumb, Remove, Goto, heldVars
<1>9. ASSUME NEW r \in Requests, EraseFull(r)
     PROVE  ThereInv'
  BY <1>9 DEF EraseFull, Remove, Over, Goto
<1>10. ASSUME NEW r \in Requests, Refuse(r)
     PROVE  ThereInv'
  BY <1>10 DEF Refuse, Over, Goto
<1>11. ASSUME NEW r \in Requests, Die(r)
     PROVE  ThereInv'
  BY <1>11 DEF Die, Loose, Over, Goto
<1>12. ASSUME NEW r \in Requests, Update(r)
     PROVE  ThereInv'
  BY <1>12 DEF Update, Dropped, Over, Goto
<1>13. ASSUME NEW r \in Requests, Delete(r)
     PROVE  ThereInv'
  BY <1>13 DEF Delete, Dropped, Over, Goto, heldVars
<1>14. ASSUME NEW d \in Ids, Create(d)
      PROVE  ThereInv'
  BY <1>14 DEF Create, heldVars
<1>15. CASE ArtStop
  BY <1>15 DEF ArtStop, Loose
<1>16. CASE UNCHANGED artVars
  BY <1>16 DEF artVars
<1> QED
  BY <1>1, <1>2, <1>3, <1>4, <1>5, <1>6, <1>7, <1>8, <1>9, <1>10, <1>11,
     <1>12, <1>13, <1>14, <1>15, <1>16
     DEF ArtNext, Request

\* Every step keeps an eye on every file.
LEMMA StrayStep ==
    ASSUME ArtTypeOK, Holding, OwnArt, StoredArt, RemovedArt, StrayInv,
           [ArtNext]_artVars
    PROVE  StrayInv'
<1> SUFFICES ASSUME NEW t \in Stems, NEW size \in Sizes, Has(t, size)'
             PROVE  Kept(t)'
  BY DEF StrayInv
<1> SUFFICES ASSUME ~Kept(t)' PROVE FALSE
  OBVIOUS
<1>a. t \notin lapsed' /\ \A d \in Ids : art'[d] # t
  BY DEF Kept
<1>b. ASSUME NEW q \in Requests
      PROVE  new'[q] # t /\ (at'[q] \in Erasing => old'[q] # t)
  BY DEF Kept, Erasing
<1>0. \/ <<t, size>> \notin files
      \/ t \in lapsed
      \/ \E d \in Ids : art[d] = t
      \/ \E q \in Requests : new[q] = t \/ (old[q] = t /\ at[q] \in Erasing)
  BY DEF StrayInv, Kept, Has
<1> USE Names, <1>a, <1>b, <1>0
<1> USE DEF ArtTypeOK, Arts, Steps, Sizes, Holding, OwnArt, StoredArt,
            RemovedArt, Has, Erasing, Removing, Storing
<1>1. ASSUME NEW r \in Requests, NEW d \in Ids,
            Read(r, d, "edit") \/ Read(r, d, "delete")
     PROVE  FALSE
  BY <1>1 DEF Read, Goto
<1>2. ASSUME NEW r \in Requests, NEW s \in Stems, Draw(r, s)
     PROVE  FALSE
  BY <1>2 DEF Draw, Fresh, Goto, Named
<1>3. ASSUME NEW r \in Requests, KeepArt(r)
     PROVE  FALSE
  BY <1>3 DEF KeepArt, Goto, heldVars
<1>4. ASSUME NEW r \in Requests, StoreThumb(r)
     PROVE  FALSE
  BY <1>4 DEF StoreThumb, Goto, heldVars
<1>5. ASSUME NEW r \in Requests, StoreFull(r)
     PROVE  FALSE
  BY <1>5 DEF StoreFull, Goto, heldVars
<1>6. ASSUME NEW r \in Requests, RemoveThumb(r)
     PROVE  FALSE
  BY <1>6 DEF RemoveThumb, Remove, Goto, heldVars
<1>7. ASSUME NEW r \in Requests, RemoveFull(r)
     PROVE  FALSE
  BY <1>7 DEF RemoveFull, Remove, Goto, heldVars
<1>8. ASSUME NEW r \in Requests, EraseThumb(r)
     PROVE  FALSE
  BY <1>8 DEF EraseThumb, Remove, Goto, heldVars
<1>9. ASSUME NEW r \in Requests, EraseFull(r)
     PROVE  FALSE
  <2>1. files' \subseteq files /\ lapsed \subseteq lapsed' /\ art' = art
    BY <1>9 DEF EraseFull, Remove
  <2>2. old[r] = t /\ at[r] = "erase_full"
    BY <1>9, <2>1 DEF EraseFull, Over, Goto
  <2>3. <<t, "thumb">> \notin files /\ size = "full"
    BY <2>1, <2>2
  <2> QED
    BY <1>9, <2>2, <2>3 DEF EraseFull, Remove
<1>10. ASSUME NEW r \in Requests, Refuse(r)
     PROVE  FALSE
  BY <1>10 DEF Refuse, Over, Goto
<1>11. ASSUME NEW r \in Requests, Die(r)
     PROVE  FALSE
  BY <1>11 DEF Die, Loose, Over, Goto
<1>12. ASSUME NEW r \in Requests, Update(r)
     PROVE  FALSE
  <2>1. CASE new[r] = None
    BY <1>12, <2>1 DEF Update, Over, Goto
  <2>2. CASE new[r] \in Stems /\ art[disc[r]] = Absent
    BY <1>12, <2>2 DEF Update, Over, Goto
  <2>3. CASE new[r] \in Stems /\ art[disc[r]] # Absent
    <3>1. /\ art' = [art EXCEPT ![disc[r]] = new[r]]
          /\ lapsed' = lapsed \cup Dropped(r)
          /\ files' = files
          /\ at[r] = "update" /\ disc[r] \in Ids
      BY <1>12, <2>3 DEF Update
    <3>2. new[r] # t
      BY <3>1
    <3>3. CASE art[disc[r]] = t
      <4>1. t \in Dropped(r) \/ t = old[r]
        BY <3>3 DEF Dropped
      <4>2. ASSUME t = old[r], t \notin lapsed PROVE <<t, size>> \notin files
        <5>1. <<t, "thumb">> \notin files /\ <<t, "full">> \notin files
          BY <2>3, <3>1, <4>2
        <5> QED
          BY <5>1
      <4> QED
        BY <3>1, <4>1, <4>2
    <3>4. CASE art[disc[r]] # t
      BY <1>12, <3>1, <3>2, <3>4 DEF Update, Over, Goto
    <3> QED
      BY <3>3, <3>4
  <2> QED
    BY <2>1, <2>2, <2>3
<1>13. ASSUME NEW r \in Requests, Delete(r)
     PROVE  FALSE
  BY <1>13 DEF Delete, Dropped, Over, Goto, heldVars
<1>14. ASSUME NEW d \in Ids, Create(d)
      PROVE  FALSE
  <2>1. art[d] = Absent
    BY <1>14, IdsAssumption DEF Create, Ids
  <2> QED
    BY <1>14, <2>1 DEF Create, heldVars
<1>15. CASE ArtStop
  <2>1. /\ files' = files /\ art' = art
        /\ lapsed \subseteq lapsed'
        /\ \A q \in Requests : Loose(q) \subseteq lapsed'
    BY <1>15 DEF ArtStop
  <2>2. PICK q \in Requests : new[q] = t \/ (old[q] = t /\ at[q] \in Erasing)
    BY <2>1
  <2>3. t \notin Loose(q)
    BY <2>1
  <2>4. new[q] = t /\ at[q] = "store_thumb"
    BY <2>2, <2>3 DEF Loose
  <2> QED
    BY <2>1, <2>4
<1>16. CASE UNCHANGED artVars
  BY <1>16 DEF artVars
<1> QED
  BY <1>1, <1>2, <1>3, <1>4, <1>5, <1>6, <1>7, <1>8, <1>9, <1>10, <1>11,
     <1>12, <1>13, <1>14, <1>15, <1>16
     DEF ArtNext, Request

-----------------------------------------------------------------------------
\* The invariant holds at first.
LEMMA ArtInitIInv == ArtInit => ArtIInv
<1> SUFFICES ASSUME ArtInit PROVE ArtIInv
  OBVIOUS
<1> USE Names
<1> USE DEF ArtInit, Arts, Sizes, Erasing, Removing, Storing, Has
<1>1. ArtTypeOK
  BY DEF ArtTypeOK, Steps
<1>2. Holding /\ StoredArt /\ RemovedArt
  BY DEF Holding, StoredArt, RemovedArt
<1>3. OwnArt
  BY DEF OwnArt
<1>4. ThereInv
  BY DEF ThereInv, Named
<1>5. StrayInv
  BY DEF StrayInv, Kept, Named
<1> QED
  BY <1>1, <1>2, <1>3, <1>4, <1>5 DEF ArtIInv

\* ArtIInv is an invariant.
LEMMA ArtInvariant == ArtSpec => []ArtIInv
<1>1. ArtIInv /\ [ArtNext]_artVars => ArtIInv'
  BY ArtTypeStep, HoldingStep, OwnStep, StoredStep, RemovedStep, ThereStep,
     StrayStep DEF ArtIInv
<1> QED
  BY ArtInitIInv, <1>1, PTL DEF ArtSpec

\* Every state of the gallery is well typed.
THEOREM ArtTypeCorrect == ArtSpec => []ArtTypeOK
<1>1. ArtIInv => ArtTypeOK
  BY DEF ArtIInv
<1> QED
  BY ArtInvariant, <1>1, PTL

\* No row names files that are gone, but where an edit has them in hand or died
\* with them.
THEOREM ArtStaysThere == ArtSpec => []ArtIsThere
<1>1. ArtIInv => ArtIsThere
  <2> SUFFICES ASSUME ArtIInv, NEW d \in Ids, art[d] \in Stems
               PROVE  Whole(art[d]) \/ Replacing(art[d]) \/ art[d] \in lapsed
    BY DEF ArtIsThere
  <2>1. Has(art[d], "thumb") /\ Has(art[d], "full") => Whole(art[d])
    BY DEF Has, Whole, Sizes
  <2> QED
    BY <2>1 DEF ArtIInv, ThereInv, Replacing
<1> QED
  BY ArtInvariant, <1>1, PTL

\* Every file is named by a row or in the hands of a request, unless a request
\* has died with it, the disk refused to remove it, or a request wrote to a row
\* that had changed since it was read (art.py:174-182, app.py:239-281).
THEOREM FilesAreKept == ArtSpec => []NoStrayFiles
<1>1. ArtIInv => NoStrayFiles
  <2> SUFFICES ASSUME ArtIInv, NEW f \in files
               PROVE  Named(f[1]) \/ Cared(f[1]) \/ f[1] \in lapsed
    BY DEF NoStrayFiles
  <2>1. f[1] \in Stems /\ f[2] \in Sizes /\ f = <<f[1], f[2]>>
    BY DEF ArtIInv, ArtTypeOK
  <2>2. Kept(f[1])
    BY <2>1 DEF ArtIInv, StrayInv, Has
  <2> QED
    BY <2>2 DEF Kept, Named, Cared, Erasing
<1> QED
  BY ArtInvariant, <1>1, PTL
=============================================================================
