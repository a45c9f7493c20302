-------------------------------- MODULE Site --------------------------------
(***************************************************************************)
(* One process over one data directory: it starts (Startup), serves        *)
(* requests that edit, delete and create discs and their art (Gallery),    *)
(* stops at any moment, and starts again on what it left.                  *)
(***************************************************************************)
EXTENDS Startup, Gallery

ASSUME RowsAssumption == Discs = Ids

siteVars == <<startVars, artVars>>

\* A database has the rows its columns say it can have.
SiteInit ==
    /\ StartInit
    /\ ArtInit
    /\ columns = {} => \A d \in Ids : art[d] = Absent
    /\ \A d \in owed : art[d] # Absent
    /\ \A d \in Ids : art[d] = Absent => category[d] = "none"

Serving == boot = "serving"

\* update_disc writes the category and the art in one statement.
Save(r) ==
    /\ Serving
    /\ Update(r)
    /\ IF art[disc[r]] = Absent THEN UNCHANGED startVars
                                ELSE \E c \in Categories : Classify(disc[r], c)

\* What a new row says, and one that is gone: nothing.
Remake(d) == Classify(d, "none")

SiteRequest(r) ==
    \/ Serving /\ Request(r) /\ UNCHANGED startVars
    \/ Save(r)
    \/ Delete(r) /\ Remake(disc[r])

SiteNext ==
    \/ Boot /\ UNCHANGED artVars
    \/ \E r \in Requests : SiteRequest(r)
    \/ \E d \in Ids : Create(d) /\ Remake(d)
    \/ Stop /\ ArtStop

SiteTypeOK == StartTypeOK /\ ArtTypeOK

SiteSpec == SiteInit /\ [][SiteNext]_siteVars
=============================================================================
