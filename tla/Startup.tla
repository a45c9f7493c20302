------------------------------ MODULE Startup ------------------------------
(***************************************************************************)
(* create_app (app.py:45-75) up to the point where requests are served:    *)
(* the secret key is made and read, and the database is brought to the     *)
(* current schema by db.init and _migrate (db.py:30-79).  An ALTER TABLE   *)
(* commits by itself; the UPDATE that carries Data over and the DROP after *)
(* it are one transaction.  The program may die before any step.           *)
(***************************************************************************)
CONSTANTS
    Discs,       \* the rows of disc
    DataDiscs,   \* those whose media_type, if the column is there, is Data
    Categories   \* what a row may say, "none" for NULL

ASSUME DataAssumption == DataDiscs \subseteq Discs
ASSUME CategoriesAssumption == {"none", "Software"} \subseteq Categories

VARIABLES
    boot,       \* how far the start has come
    key,        \* the file secret_key: missing, empty or full
    secret,     \* app.secret_key, as read from it
    columns,    \* the columns of disc; none when there is no such table
    category,   \* of each row
    owed,       \* history: the rows that have yet to become Software
    served,     \* history: this database has served requests
    marred      \* history: what a start has died in the middle of

startVars == <<boot, key, secret, columns, category, owed, served, marred>>

Keys    == {"missing", "empty", "full"}
Current == {"id", "category", "platform"}
Columns == Current \cup {"media_type"}
Boots   == {"down", "key_check", "key_write", "key_read", "look",
            "add_category", "add_platform", "carry", "script", "index",
            "serving", "refused"}

StartTypeOK ==
    /\ boot \in Boots
    /\ key \in Keys /\ secret \in Keys
    /\ columns \subseteq Columns
    /\ category \in [Discs -> Categories]
    /\ owed \subseteq DataDiscs
    /\ served \in BOOLEAN
    /\ marred \subseteq {"key", "migration"}

\* No database yet, one of an older schema, or one this program has left.
StartInit ==
    /\ boot = "down"
    /\ secret = "missing"
    /\ marred = {}
    /\ \/ /\ columns \in {{}, {"id"}, {"id", "media_type"}}
          /\ key = "missing"
          /\ category = [d \in Discs |-> "none"]
          /\ owed = IF "media_type" \in columns THEN DataDiscs ELSE {}
          /\ served = FALSE
       \/ /\ columns \in {Current, Columns}
          /\ key = "full"
          /\ category \in [Discs -> Categories]
          /\ owed = {}
          /\ served = TRUE

-----------------------------------------------------------------------------
(* The secret key.                                                          *)

Launch ==
    /\ boot \in {"down", "refused"}
    /\ boot' = "key_check"
    /\ UNCHANGED <<key, secret, columns, category, owed, served, marred>>

\* Mutant: the file is opened and nothing is written to it.
KeyCheckOnly ==
    /\ boot = "key_check"
    /\ key' = IF key = "missing" THEN "empty" ELSE key
    /\ boot' = "key_read"
    /\ UNCHANGED <<secret, columns, category, owed, served, marred>>

\* open(path, "wb") leaves an empty file until it is closed.
KeyCheck ==
    /\ boot = "key_check"
    /\ \/ key = "missing" /\ key' = "empty" /\ boot' = "key_write"
       \/ key # "missing" /\ key' = key /\ boot' = "key_read"
    /\ UNCHANGED <<secret, columns, category, owed, served, marred>>

KeyWrite ==
    /\ boot = "key_write"
    /\ key' = "full"
    /\ boot' = "key_read"
    /\ UNCHANGED <<secret, columns, category, owed, served, marred>>

\* Mutant: init runs the script before it migrates (db.py:43-47).
KeyReadThenScript ==
    /\ boot = "key_read"
    /\ secret' = key
    /\ boot' = "script"
    /\ UNCHANGED <<key, columns, category, owed, served, marred>>

KeyRead ==
    /\ boot = "key_read"
    /\ secret' = key
    /\ boot' = "look"
    /\ UNCHANGED <<key, columns, category, owed, served, marred>>

-----------------------------------------------------------------------------
(* The database.                                                            *)

\* A fresh database is for the script to build, a migrated one is left alone.
\* Mutant: the old column, which an older SQLite keeps, stands for "not yet".
UpToDateByOldColumn ==
    columns = {} \/ ("category" \in columns /\ "media_type" \notin columns)

UpToDate == columns = {} \/ "category" \in columns

Look ==
    /\ boot = "look"
    /\ boot' = IF UpToDate THEN "script" ELSE "add_category"
    /\ UNCHANGED <<key, secret, columns, category, owed, served, marred>>

AddColumn(here, name, next) ==
    /\ boot = here
    /\ columns' = columns \cup {name}
    /\ boot' = next
    /\ UNCHANGED <<key, secret, category, owed, served, marred>>

AddCategory == AddColumn("add_category", "category", "add_platform")
AddPlatform == AddColumn("add_platform", "platform", "carry")

\* Mutant: every disc that has a media_type becomes Software.
CarriedAll(d) == IF "media_type" \in columns THEN "Software" ELSE category[d]

Carried(d) ==
    IF "media_type" \in columns /\ d \in DataDiscs THEN "Software"
                                                   ELSE category[d]

\* One transaction; an SQLite before 3.35 cannot drop the column.
Carry ==
    /\ boot = "carry"
    /\ category' = [d \in Discs |-> Carried(d)]
    /\ columns' \in {columns, columns \ {"media_type"}}
    /\ boot' = "script"
    /\ UNCHANGED <<key, secret, owed, served, marred>>

\* CREATE TABLE IF NOT EXISTS
Script ==
    /\ boot = "script"
    /\ columns' = IF columns = {} THEN Current ELSE columns
    /\ boot' = "index"
    /\ UNCHANGED <<key, secret, category, owed, served, marred>>

\* CREATE INDEX on (category, platform) fails on a missing column, and the
\* exception ends create_app.
Serve ==
    /\ boot = "index" /\ Current \subseteq columns
    /\ boot' = "serving"
    /\ served' = TRUE
    /\ owed' = {}
    /\ UNCHANGED <<key, secret, columns, category, marred>>

Fail ==
    /\ boot = "index" /\ ~(Current \subseteq columns)
    /\ boot' = "refused"
    /\ UNCHANGED <<key, secret, columns, category, owed, served, marred>>

Boot ==
    \/ Launch \/ KeyCheck \/ KeyWrite \/ KeyRead
    \/ Look \/ AddCategory \/ AddPlatform \/ Carry \/ Script
    \/ Serve \/ Fail

\* What a start that dies here leaves half done.
Halves ==
    CASE boot = "key_write" -> {"key"}
      [] boot \in {"add_platform", "carry"} -> {"migration"}
      [] OTHER -> {}

\* The process is killed, the host loses power, or a statement fails.
Stop ==
    /\ boot \notin {"down", "refused"}
    /\ boot' = "down"
    /\ secret' = "missing"
    /\ marred' = marred \cup Halves
    /\ UNCHANGED <<key, columns, category, owed, served>>

\* update_disc with what the edit form says.
Classify(d, c) ==
    /\ boot = "serving"
    /\ category' = [category EXCEPT ![d] = c]
    /\ UNCHANGED <<boot, key, secret, columns, owed, served, marred>>

StartNext ==
    \/ Boot \/ Stop
    \/ \E d \in Discs, c \in Categories : Classify(d, c)

StartSpec == StartInit /\ [][StartNext]_startVars

-----------------------------------------------------------------------------
(* Properties.                                                              *)

\* Only a start that died between two ALTERs leaves a database no later start
\* can index (db.py:43-47): every older one is brought up to date.
RefusedIsMarred == boot = "refused" => "migration" \in marred

\* Only a start that died as it wrote the key leaves one that signs nothing
\* (app.py:66-75); every other start serves with the whole key.
KeyIsWhole == boot = "serving" /\ "key" \notin marred => secret = "full"

\* When a database first serves, what was Data is Software and nothing else has
\* been given a category (db.py:58-62), unless a start died half way.
DataCarried ==
    [][ ~served /\ served' /\ marred = {}
        => \A d \in Discs :
             category'[d] = IF d \in owed THEN "Software" ELSE "none" ]_startVars

\* Once a database has served, and people have classified its discs, no start
\* changes a category, however often it runs ("Safe to call repeatedly",
\* db.py:38).
NeverReclassified ==
    [][ served /\ boot # "serving" => category' = category ]_startVars

\* What db.py:38 says of init.  It is not so: a start that dies between the two
\* ALTERs leaves a database that no later start opens.
AlwaysStarts == boot # "refused"
=============================================================================
