------------------------------ MODULE AssetApi ------------------------------
(***************************************************************************)
(* The assets of a document: rows of the database for files that assets-   *)
(* api stores.  No transaction spans the two, and a call to assets-api may *)
(* have done its work although its answer never arrives.                   *)
(***************************************************************************)
EXTENDS DocumentApi

VARIABLES
    assets,  \* Asset: [id -> its document, its file, whether it is uploaded]
    files,   \* the files assets-api knows
    found    \* the asset each request has found

assetVars == <<assets, files, found>>
vars == <<documentVars, assetVars>>

Places == {"here", "elsewhere"}  \* the document of the requests, or another one
NoAsset == << >>

-----------------------------------------------------------------------------
\* Only what is uploaded is listed; with nothing to list no other service is asked.
FindUploaded(r) ==
    /\ At(r, "listAssets")
    /\ IF \E id \in DOMAIN assets : assets[id].place = "here" /\ assets[id].uploaded
       THEN Goto(r, NextStep(r))
       ELSE Answered(r, 200)
    /\ UNCHANGED <<request, document, rows, server, outbox, removed, raced, assetVars>>

\* createAssets and copyAsset: a new file, even if the answer is lost.
StoreFile(r) ==
    /\ At(r, "storeFile")
    /\ files' = files \cup {r}
    /\ Goto(r, NextStep(r)) \/ Answered(r, 500)
    /\ UNCHANGED <<request, document, rows, server, outbox, removed, raced, assets, found>>

\* A copy counts as uploaded.  Rows refer to a document that exists.
InsertAsset(r) ==
    /\ At(r, "insertAsset")
    /\ document # NoDocument
    /\ assets' = [id \in DOMAIN assets \cup {r} |->
                     IF id = r THEN [place |-> "here", file |-> r, uploaded |-> Kind(r) # "upload"]
                     ELSE assets[id]]
    /\ Goto(r, NextStep(r))
    /\ UNCHANGED <<request, document, rows, server, outbox, removed, raced, files, found>>

\* The client says which uploads have ended; ids of other documents are ignored.
MarkUploaded(r) ==
    /\ At(r, "markUploaded")
    /\ assets' = [id \in DOMAIN assets |->
                     IF id = request[r].asset /\ assets[id].place = "here"
                     THEN [assets[id] EXCEPT !.uploaded = TRUE]
                     ELSE assets[id]]
    /\ Goto(r, NextStep(r))
    /\ UNCHANGED <<request, document, rows, server, outbox, removed, raced, files, found>>

\* An asset of this document is read; an asset of any document is copied.
FindAsset(r) ==
    /\ At(r, "findAsset")
    /\ LET id == request[r].asset
       IN  IF id \in DOMAIN assets /\ (Kind(r) = "asset" => assets[id].place = "here")
           THEN /\ Goto(r, NextStep(r))
                /\ found' = [found EXCEPT ![r] = assets[id]]
           ELSE Answered(r, 404) /\ UNCHANGED found
    /\ UNCHANGED <<request, document, rows, server, outbox, removed, raced, assets, files>>

\* The document of the asset, unless it is archived.
FindSource(r) ==
    /\ At(r, "findSource")
    /\ \/ \E source \in IF found[r].place = "here" THEN {document} ELSE Documents :
             /\ ~source.archived
             /\ Continue(r, [at |-> NextStep(r), doc |-> source])
       \/ /\ found[r].place = "here" => document.archived
          /\ Answered(r, 404)
    /\ UNCHANGED <<request, document, rows, server, outbox, removed, raced, assetVars>>

\* Nothing is copied within one document.
Compare(r) ==
    /\ At(r, "compare")
    /\ Goto(r, IF found[r].place = "here" THEN "fetch" ELSE NextStep(r))
    /\ UNCHANGED <<request, document, rows, server, outbox, removed, raced, assetVars>>

\* fetchAsset: the answer, from assets-api.
FetchAsset(r) ==
    /\ At(r, "fetch")
    /\ \E status \in {200, 404} : Answered(r, status)
    /\ UNCHANGED <<request, document, rows, server, outbox, removed, raced, assetVars>>

AssetStep(r) ==
    \/ FindUploaded(r) \/ StoreFile(r) \/ InsertAsset(r) \/ MarkUploaded(r)
    \/ FindAsset(r) \/ FindSource(r) \/ Compare(r) \/ FetchAsset(r)

Step(r) == AssetStep(r) \/ (RequestStep(r) /\ UNCHANGED assetVars)

ApiNext ==
    \/ \E r \in Request : Step(r)
    \/ \E s \in Server : Die(s) /\ UNCHANGED assetVars

-----------------------------------------------------------------------------
CONSTANT Scenarios  \* what there is at first, and what is asked for

\* At first a user has one membership at most, and none of a document that is not
\* there; no row or file is one of the requests', and these carry valid values.
ASSUME ScenariosAssumption ==
    /\ "old" \notin Request
    /\ \A s \in Scenarios :
           /\ s.document \in Documents \cup {NoDocument}
           /\ s.document = NoDocument => DOMAIN s.rows = {}
           /\ \A id, other \in DOMAIN s.rows : id[3] = other[3] => id = other
           /\ \A id \in DOMAIN s.rows : id[1] \notin Request
           /\ \A id \in DOMAIN s.assets :
                 s.assets[id] \in [place : Places, file : {"old"}, uploaded : BOOLEAN]
           /\ \A r \in Request :
                 /\ s.request[r].visibility \in Visibilities
                 /\ DOMAIN s.request[r].members \subseteq 1..MaxMembers

Init ==
    /\ \E s \in Scenarios :
          /\ request = s.request
          /\ document = s.document
          /\ rows = s.rows
          /\ assets = s.assets
    /\ server = [s \in Server |-> "up"]
    /\ me = [r \in Request |->
                [at |-> IF request[r].kind \in Kinds THEN "admit" ELSE "done",
                 doc |-> NoDocument, row |-> NoRow, todo |-> << >>, answer |-> 0]]
    /\ outbox = {}
    /\ removed = {}
    /\ raced = {}
    /\ files = {assets[id].file : id \in DOMAIN assets}
    /\ found = [r \in Request |-> NoAsset]

Spec == Init /\ [][ApiNext]_vars

\* The event loop runs every continuation, the database and the services answer or
\* time out, and a process that is to exit exits.
FairSpec ==
    /\ Spec
    /\ \A r \in Request : WF_vars(Step(r))
    /\ \A s \in Server : WF_vars(Die(s) /\ UNCHANGED assetVars)

-----------------------------------------------------------------------------
TypeOK ==
    /\ DocumentTypeOK
    /\ \A id \in DOMAIN assets :
          assets[id] \in [place : Places, file : Request \cup {"old"}, uploaded : BOOLEAN]
    /\ files \subseteq Request \cup {"old"}

\* A row names a file that assets-api has, even when calls fail and processes die
\* in between; and an upload or a copy that was answered has its row.
AssetsAgree ==
    /\ \A id \in DOMAIN assets : assets[id].file \in files
    /\ \A r \in Request :
          (me[r].answer = 200 /\ r \in files) => r \in DOMAIN assets

\* Every request ends: it is answered, its process dies, or it is one that
\* GetMemberships leaves without an answer.
Ended(r) ==
    \/ me[r].at \in {"done", "lost"}
    \/ me[r].at = "hanging" /\ Kind(r) = "memberships"
    \/ server[ServerOf[r]] = "down"

RequestsEnd == <>(\A r \in Request : Ended(r))
=============================================================================
