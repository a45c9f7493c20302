------------------------------ MODULE Gallery ------------------------------
(***************************************************************************)
(* Cover art: the two files that each row's art_path names, and the        *)
(* requests that replace and delete them (app.py:217-296, art.py:143-207). *)
(* A request reads its row once, at the start, and acts on what it read    *)
(* until its end; the files and the row change one after the other.        *)
(***************************************************************************)
EXTENDS Naturals

CONSTANTS
    Requests,    \* requests under way at the same time
    Stems,       \* the names store() may draw
    MAX_ID,      \* bound: the largest id a row may get
    None,        \* no art, no disc
    Absent       \* no row

ASSUME IdsAssumption == MAX_ID \in Nat
ASSUME NamesAssumption ==
    None # Absent /\ {None, Absent} \cap (Stems \cup Nat) = {}

VARIABLES
    art,        \* the art_path of each row
    files,      \* the files under static/art
    at,         \* where each request is
    disc,       \* the id it is about
    old,        \* the art_path it has read
    new,        \* the stem it stores
    lapsed      \* history: the stems that a request or the disk has let fall

artVars == <<art, files, at, disc, old, new, lapsed>>
heldVars == <<disc, old, new>>

Ids   == 1 .. MAX_ID
Sizes == {"thumb", "full"}
Arts  == Stems \cup {None}
Steps == {"idle", "edit", "store_thumb", "store_full", "remove_thumb",
          "remove_full", "update", "delete", "erase_thumb", "erase_full"}

ArtTypeOK ==
    /\ art \in [Ids -> Arts \cup {Absent}]
    /\ files \subseteq Stems \X Sizes
    /\ at \in [Requests -> Steps]
    /\ disc \in [Requests -> Ids \cup {None}]
    /\ old \in [Requests -> Arts]
    /\ new \in [Requests -> Arts]
    /\ lapsed \subseteq Stems

Whole(s) == {s} \X Sizes \subseteq files
Named(s) == \E d \in Ids : art[d] = s

\* Rows with art of their own, and no other file.
ArtInit ==
    /\ art \in [Ids -> Arts \cup {Absent}]
    /\ \A d, e \in Ids : art[d] \in Stems /\ art[d] = art[e] => d = e
    /\ files = {s \in Stems : Named(s)} \X Sizes
    /\ at = [r \in Requests |-> "idle"]
    /\ disc = [r \in Requests |-> None]
    /\ old = [r \in Requests |-> None]
    /\ new = [r \in Requests |-> None]
    /\ lapsed = {}

-----------------------------------------------------------------------------
(* A request begins, and ends.                                              *)

Goto(r, step) == at' = [at EXCEPT ![r] = step]

\* get_disc: what it finds is what the request goes by from here on.
Read(r, d, step) ==
    /\ at[r] = "idle"
    /\ art[d] # Absent
    /\ Goto(r, step)
    /\ disc' = [disc EXCEPT ![r] = d]
    /\ old' = [old EXCEPT ![r] = art[d]]
    /\ UNCHANGED <<art, files, new, lapsed>>

Over(r) ==
    /\ Goto(r, "idle")
    /\ disc' = [disc EXCEPT ![r] = None]
    /\ old' = [old EXCEPT ![r] = None]
    /\ new' = [new EXCEPT ![r] = None]

\* No title, an ArtError, a job on that disc, or no confirmation.
Refuse(r) ==
    /\ at[r] \in {"edit", "delete"}
    /\ Over(r)
    /\ UNCHANGED <<art, files, lapsed>>

\* The stems that no one looks after any more if the request ends here.
Loose(r) ==
    {s \in Stems :
        \/ s = new[r] /\ at[r] \in {"store_full", "remove_thumb", "remove_full",
                                    "update"}
        \/ s = old[r] /\ at[r] \in {"remove_full", "update"} /\ new[r] # None
        \/ s = old[r] /\ at[r] \in {"erase_thumb", "erase_full"}}

\* An exception nobody catches: a full disk, or a database kept locked.
Die(r) ==
    /\ at[r] \notin {"idle", "edit", "delete"}
    /\ lapsed' = lapsed \cup Loose(r)
    /\ Over(r)
    /\ UNCHANGED <<art, files>>

-----------------------------------------------------------------------------
(* disc_edit: ingest stores the new art under a fresh name, removes what    *)
(* the row named when it was read, and only then is the row updated.        *)

\* uuid4: a name nothing refers to.
Fresh(s) ==
    /\ ~Named(s)
    /\ \A z \in Sizes : <<s, z>> \notin files
    /\ \A r \in Requests : s \notin {old[r], new[r]}

Draw(r, s) ==
    /\ at[r] = "edit"
    /\ Fresh(s)
    /\ Goto(r, "store_thumb")
    /\ new' = [new EXCEPT ![r] = s]
    /\ lapsed' = lapsed \ {s}
    /\ UNCHANGED <<art, files, disc, old>>

KeepArt(r) ==
    /\ at[r] = "edit"
    /\ Goto(r, "update")
    /\ UNCHANGED <<art, files, heldVars, lapsed>>

\* Mutant: only the first of the two sizes is written.
StoreThumbOnly(r) ==
    /\ at[r] = "store_thumb"
    /\ files' = files \cup {<<new[r], "thumb">>}
    /\ Goto(r, IF old[r] = None THEN "update" ELSE "remove_thumb")
    /\ UNCHANGED <<art, heldVars, lapsed>>

StoreThumb(r) ==
    /\ at[r] = "store_thumb"
    /\ files' = files \cup {<<new[r], "thumb">>}
    /\ Goto(r, "store_full")
    /\ UNCHANGED <<art, heldVars, lapsed>>

\* Mutant: remove() and its caller take any stem (art.py:175, 205).
StoreFullThenRemove(r) ==
    /\ at[r] = "store_full"
    /\ files' = files \cup {<<new[r], "full">>}
    /\ Goto(r, "remove_thumb")
    /\ UNCHANGED <<art, heldVars, lapsed>>

StoreFull(r) ==
    /\ at[r] = "store_full"
    /\ files' = files \cup {<<new[r], "full">>}
    /\ Goto(r, IF old[r] = None THEN "update" ELSE "remove_thumb")
    /\ UNCHANGED <<art, heldVars, lapsed>>

\* os.remove, whose failure is swallowed (art.py:179-182).
Remove(r, size) ==
    \/ /\ files' = files \ {<<old[r], size>>}
       /\ UNCHANGED lapsed
    \/ /\ lapsed' = lapsed \cup {old[r]}
       /\ UNCHANGED files

RemoveThumb(r) ==
    /\ at[r] = "remove_thumb"
    /\ Remove(r, "thumb")
    /\ Goto(r, "remove_full")
    /\ UNCHANGED <<art, heldVars>>

RemoveFull(r) ==
    /\ at[r] = "remove_full"
    /\ Remove(r, "full")
    /\ Goto(r, "update")
    /\ UNCHANGED <<art, heldVars>>

\* What a write to row d lets fall: the art it did not read.
Dropped(r) ==
    {s \in Stems : s = art[disc[r]] /\ s # old[r]}

\* update_disc: an UPDATE of a row that is gone changes nothing.
Update(r) ==
    /\ at[r] = "update"
    /\ IF new[r] = None THEN UNCHANGED <<art, lapsed>>
       ELSE IF art[disc[r]] = Absent
            THEN lapsed' = lapsed \cup {new[r]} /\ UNCHANGED art
            ELSE /\ art' = [art EXCEPT ![disc[r]] = new[r]]
                 /\ lapsed' = lapsed \cup Dropped(r)
    /\ Over(r)
    /\ UNCHANGED files

-----------------------------------------------------------------------------
(* disc_delete: the row goes first, then the files it named when read.      *)

\* Mutant: the row goes and its files stay.
DeleteRow(r) ==
    /\ at[r] = "delete"
    /\ art' = [art EXCEPT ![disc[r]] = Absent]
    /\ lapsed' = lapsed \cup Dropped(r)
    /\ Over(r)
    /\ UNCHANGED files

Delete(r) ==
    /\ at[r] = "delete"
    /\ art' = [art EXCEPT ![disc[r]] = Absent]
    /\ lapsed' = lapsed \cup Dropped(r)
    /\ IF old[r] = None THEN Over(r)
                        ELSE Goto(r, "erase_thumb") /\ UNCHANGED heldVars
    /\ UNCHANGED files

EraseThumb(r) ==
    /\ at[r] = "erase_thumb"
    /\ Remove(r, "thumb")
    /\ Goto(r, "erase_full")
    /\ UNCHANGED <<art, heldVars>>

EraseFull(r) ==
    /\ at[r] = "erase_full"
    /\ Remove(r, "full")
    /\ Over(r)
    /\ UNCHANGED art

\* create_disc, by a job or by hand: the id after the largest, so one that was
\* deleted last comes back, and a request that still holds it goes on.
Create(d) ==
    /\ \A e \in Ids : e >= d => art[e] = Absent
    /\ \A e \in Ids : e = d - 1 => art[e] # Absent
    /\ art' = [art EXCEPT ![d] = None]
    /\ UNCHANGED <<files, at, heldVars, lapsed>>

-----------------------------------------------------------------------------

\* The steps that leave the row alone.
Request(r) ==
    \/ \E d \in Ids : Read(r, d, "edit") \/ Read(r, d, "delete")
    \/ \E s \in Stems : Draw(r, s)
    \/ KeepArt(r) \/ StoreThumb(r) \/ StoreFull(r)
    \/ RemoveThumb(r) \/ RemoveFull(r) \/ EraseThumb(r) \/ EraseFull(r)
    \/ Refuse(r) \/ Die(r)

\* The process stops, and every request with it.
ArtStop ==
    /\ lapsed' = lapsed \cup UNION {Loose(r) : r \in Requests}
    /\ at' = [r \in Requests |-> "idle"]
    /\ disc' = [r \in Requests |-> None]
    /\ old' = [r \in Requests |-> None]
    /\ new' = [r \in Requests |-> None]
    /\ UNCHANGED <<art, files>>

ArtNext ==
    \/ \E r \in Requests : Request(r) \/ Update(r) \/ Delete(r)
    \/ \E d \in Ids : Create(d)
    \/ ArtStop

ArtSpec == ArtInit /\ [][ArtNext]_artVars

-----------------------------------------------------------------------------
(* Properties.                                                              *)

\* A request has begun to take the files of s away, for others in their place.
Replacing(s) ==
    \E r \in Requests :
        /\ old[r] = s /\ new[r] # None
        /\ at[r] \in {"remove_full", "update"}

\* A row never names a file that is not there, except while an edit is between
\* art.remove and update_disc, or after one has died there (app.py:240-251):
\* other edits and deletes of the disc, on stale rows or reused ids, do not
\* break it, because every stem is drawn anew.
ArtIsThere ==
    \A d \in Ids : art[d] \in Stems =>
        Whole(art[d]) \/ Replacing(art[d]) \/ art[d] \in lapsed

\* A request is still going to name the files of s, or to remove them.
Cared(s) ==
    \E r \in Requests :
        \/ new[r] = s
        \/ old[r] = s /\ at[r] \in {"erase_thumb", "erase_full"}

\* A file stays behind without a row only if a request died with it, the disk
\* refused to remove it, or a request wrote to a row that had changed since it
\* was read (art.py:174-182, app.py:280-281).
NoStrayFiles ==
    \A f \in files : Named(f[1]) \/ Cared(f[1]) \/ f[1] \in lapsed
=============================================================================
