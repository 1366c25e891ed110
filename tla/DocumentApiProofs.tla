------------------------- MODULE DocumentApiProofs -------------------------
(***************************************************************************)
(* Theorems about DocumentApi and AssetApi, for any requests in any        *)
(* processes, and any document, memberships and assets at first.           *)
(***************************************************************************)
EXTENDS AssetApi, FiniteSetTheorems, TLAPS

-----------------------------------------------------------------------------
(***************************************************************************)
(* What the lists of steps of the handlers have in common.                 *)
(***************************************************************************)
Ends == {"answer", "members", "adding", "fetch"}
Outside == {"admit", "awaiting", "hanging", "done", "lost"}
MembershipWrites == {"saveMembership", "destroyMembership"}
NeedDocument == {"select", "insert", "adding", "saveDocument"}
BeforeRow == {"find", "own", "check", "select"}

\* What the arguments below use of the list of a handler's steps.
WellFormed(s) ==
    /\ DOMAIN s = 1 .. Len(s) /\ Len(s) \in Nat \ {0}
    /\ \A i, j \in 1 .. Len(s) : s[i] = s[j] => i = j
    /\ \A i \in 1 .. Len(s) : s[i] \in Ends \/ i < Len(s)
    /\ \A i \in 1 .. Len(s) : s[i] \notin Outside
    /\ s[1] \notin {"insertAsset", "insert"} \cup MembershipWrites
    /\ \A i \in 1 .. Len(s) : i < Len(s) =>
          /\ s[i] = "storeFile" <=> s[i + 1] = "insertAsset"
          /\ s[i] = "select" <=> s[i + 1] = "insert"
          /\ s[i + 1] \in MembershipWrites => s[i] = "lookup"
    /\ \A i \in 1 .. Len(s) :
          /\ s[i] \in NeedDocument => s[1] = "find"
          /\ s[i] \in {"own", "select"} => \E j \in 1 .. Len(s) : s[j] = "read"
    /\ \A i, k \in 1 .. Len(s) :
          s[k] = "insert" /\ i < Len(s) /\ s[i + 1] \in BeforeRow \cup {"insert"} =>
              s[i] \in BeforeRow

LEMMA ProgramsWellFormed ==
    /\ WellFormed(<<"read", "answer">>)
    /\ WellFormed(<<"check", "createDocument", "read", "answer">>)
    /\ WellFormed(<<"find", "answer">>)
    /\ WellFormed(<<"find", "own", "check", "select", "insert", "read", "answer">>)
    /\ WellFormed(<<"find", "check", "read", "answer">>)
    /\ WellFormed(<<"find", "read", "answer">>)
    /\ WellFormed(<<"find", "check", "saveDocument", "answer">>)
    /\ WellFormed(<<"find", "members">>)
    /\ WellFormed(<<"find", "check", "adding">>)
    /\ WellFormed(<<"find", "check", "lookup", "saveMembership", "answer">>)
    /\ WellFormed(<<"find", "check", "lookup", "destroyMembership", "answer">>)
    /\ WellFormed(<<"find", "check", "answer">>)
    /\ WellFormed(<<"find", "saveDocument", "answer">>)
    /\ WellFormed(<<"answer">>)
    /\ WellFormed(<<"listAssets", "read", "answer">>)
    /\ WellFormed(<<"storeFile", "insertAsset", "answer">>)
    /\ WellFormed(<<"markUploaded", "read", "answer">>)
    /\ WellFormed(<<"findAsset", "fetch">>)
    /\ WellFormed(<<"findAsset", "findSource", "check", "compare",
                    "storeFile", "insertAsset", "answer">>)
    /\ WellFormed(<<"findLive", "check", "read", "answer">>)
    /\ WellFormed(<<"lookup", "saveMembership", "answer">>)
    /\ WellFormed(<<"findLive", "lookup", "saveMembership", "answer">>)
<1>1. WellFormed(<<"read", "answer">>)
  <2> DEFINE s == <<"read", "answer">>
  <2>1. /\ DOMAIN s = 1 .. 2 /\ Len(s) = 2
        /\ s[1] = "read" /\ s[2] = "answer"
    OBVIOUS
  <2> HIDE DEF s
  <2>2. WellFormed(s)
    BY <2>1 DEF WellFormed, Ends, Outside, MembershipWrites, NeedDocument, BeforeRow
  <2> QED BY <2>2 DEF s
<1>2. WellFormed(<<"check", "createDocument", "read", "answer">>)
  <2> DEFINE s == <<"check", "createDocument", "read", "answer">>
  <2>1. /\ DOMAIN s = 1 .. 4 /\ Len(s) = 4
        /\ s[1] = "check" /\ s[2] = "createDocument" /\ s[3] = "read" /\ s[4] = "answer"
    OBVIOUS
  <2> HIDE DEF s
  <2>2. WellFormed(s)
    BY <2>1 DEF WellFormed, Ends, Outside, MembershipWrites, NeedDocument, BeforeRow
  <2> QED BY <2>2 DEF s
<1>3. WellFormed(<<"find", "answer">>)
  <2> DEFINE s == <<"find", "answer">>
  <2>1. /\ DOMAIN s = 1 .. 2 /\ Len(s) = 2
        /\ s[1] = "find" /\ s[2] = "answer"
    OBVIOUS
  <2> HIDE DEF s
  <2>2. WellFormed(s)
    BY <2>1 DEF WellFormed, Ends, Outside, MembershipWrites, NeedDocument, BeforeRow
  <2> QED BY <2>2 DEF s
<1>4. WellFormed(<<"find", "own", "check", "select", "insert", "read", "answer">>)
  <2> DEFINE s == <<"find", "own", "check", "select", "insert", "read", "answer">>
  <2>1. /\ DOMAIN s = 1 .. 7 /\ Len(s) = 7
        /\ s[1] = "find" /\ s[2] = "own" /\ s[3] = "check" /\ s[4] = "select"
        /\ s[5] = "insert" /\ s[6] = "read" /\ s[7] = "answer"
    OBVIOUS
  <2> HIDE DEF s
  <2>2. WellFormed(s)
    BY <2>1 DEF WellFormed, Ends, Outside, MembershipWrites, NeedDocument, BeforeRow
  <2> QED BY <2>2 DEF s
<1>5. WellFormed(<<"find", "check", "read", "answer">>)
  <2> DEFINE s == <<"find", "check", "read", "answer">>
  <2>1. /\ DOMAIN s = 1 .. 4 /\ Len(s) = 4
        /\ s[1] = "find" /\ s[2] = "check" /\ s[3] = "read" /\ s[4] = "answer"
    OBVIOUS
  <2> HIDE DEF s
  <2>2. WellFormed(s)
    BY <2>1 DEF WellFormed, Ends, Outside, MembershipWrites, NeedDocument, BeforeRow
  <2> QED BY <2>2 DEF s
<1>6. WellFormed(<<"find", "read", "answer">>)
  <2> DEFINE s == <<"find", "read", "answer">>
  <2>1. /\ DOMAIN s = 1 .. 3 /\ Len(s) = 3
        /\ s[1] = "find" /\ s[2] = "read" /\ s[3] = "answer"
    OBVIOUS
  <2> HIDE DEF s
  <2>2. WellFormed(s)
    BY <2>1 DEF WellFormed, Ends, Outside, MembershipWrites, NeedDocument, BeforeRow
  <2> QED BY <2>2 DEF s
<1>7. WellFormed(<<"find", "check", "saveDocument", "answer">>)
  <2> DEFINE s == <<"find", "check", "saveDocument", "answer">>
  <2>1. /\ DOMAIN s = 1 .. 4 /\ Len(s) = 4
        /\ s[1] = "find" /\ s[2] = "check" /\ s[3] = "saveDocument" /\ s[4] = "answer"
    OBVIOUS
  <2> HIDE DEF s
  <2>2. WellFormed(s)
    BY <2>1 DEF WellFormed, Ends, Outside, MembershipWrites, NeedDocument, BeforeRow
  <2> QED BY <2>2 DEF s
<1>8. WellFormed(<<"find", "members">>)
  <2> DEFINE s == <<"find", "members">>
  <2>1. /\ DOMAIN s = 1 .. 2 /\ Len(s) = 2
        /\ s[1] = "find" /\ s[2] = "members"
    OBVIOUS
  <2> HIDE DEF s
  <2>2. WellFormed(s)
    BY <2>1 DEF WellFormed, Ends, Outside, MembershipWrites, NeedDocument, BeforeRow
  <2> QED BY <2>2 DEF s
<1>9. WellFormed(<<"find", "check", "adding">>)
  <2> DEFINE s == <<"find", "check", "adding">>
  <2>1. /\ DOMAIN s = 1 .. 3 /\ Len(s) = 3
        /\ s[1] = "find" /\ s[2] = "check" /\ s[3] = "adding"
    OBVIOUS
  <2> HIDE DEF s
  <2>2. WellFormed(s)
    BY <2>1 DEF WellFormed, Ends, Outside, MembershipWrites, NeedDocument, BeforeRow
  <2> QED BY <2>2 DEF s
<1>10. WellFormed(<<"find", "check", "lookup", "saveMembership", "answer">>)
  <2> DEFINE s == <<"find", "check", "lookup", "saveMembership", "answer">>
  <2>1. /\ DOMAIN s = 1 .. 5 /\ Len(s) = 5
        /\ s[1] = "find" /\ s[2] = "check" /\ s[3] = "lookup" /\ s[4] = "saveMembership"
        /\ s[5] = "answer"
    OBVIOUS
  <2> HIDE DEF s
  <2>2. WellFormed(s)
    BY <2>1 DEF WellFormed, Ends, Outside, MembershipWrites, NeedDocument, BeforeRow
  <2> QED BY <2>2 DEF s
<1>11. WellFormed(<<"find", "check", "lookup", "destroyMembership", "answer">>)
  <2> DEFINE s == <<"find", "check", "lookup", "destroyMembership", "answer">>
  <2>1. /\ DOMAIN s = 1 .. 5 /\ Len(s) = 5
        /\ s[1] = "find" /\ s[2] = "check" /\ s[3] = "lookup" /\ s[4] = "destroyMembership"
        /\ s[5] = "answer"
    OBVIOUS
  <2> HIDE DEF s
  <2>2. WellFormed(s)
    BY <2>1 DEF WellFormed, Ends, Outside, MembershipWrites, NeedDocument, BeforeRow
  <2> QED BY <2>2 DEF s
<1>12. WellFormed(<<"find", "check", "answer">>)
  <2> DEFINE s == <<"find", "check", "answer">>
  <2>1. /\ DOMAIN s = 1 .. 3 /\ Len(s) = 3
        /\ s[1] = "find" /\ s[2] = "check" /\ s[3] = "answer"
    OBVIOUS
  <2> HIDE DEF s
  <2>2. WellFormed(s)
    BY <2>1 DEF WellFormed, Ends, Outside, MembershipWrites, NeedDocument, BeforeRow
  <2> QED BY <2>2 DEF s
<1>13. WellFormed(<<"find", "saveDocument", "answer">>)
  <2> DEFINE s == <<"find", "saveDocument", "answer">>
  <2>1. /\ DOMAIN s = 1 .. 3 /\ Len(s) = 3
        /\ s[1] = "find" /\ s[2] = "saveDocument" /\ s[3] = "answer"
    OBVIOUS
  <2> HIDE DEF s
  <2>2. WellFormed(s)
    BY <2>1 DEF WellFormed, Ends, Outside, MembershipWrites, NeedDocument, BeforeRow
  <2> QED BY <2>2 DEF s
<1>14. WellFormed(<<"answer">>)
  <2> DEFINE s == <<"answer">>
  <2>1. /\ DOMAIN s = 1 .. 1 /\ Len(s) = 1
        /\ s[1] = "answer"
    OBVIOUS
  <2> HIDE DEF s
  <2>2. WellFormed(s)
    BY <2>1 DEF WellFormed, Ends, Outside, MembershipWrites, NeedDocument, BeforeRow
  <2> QED BY <2>2 DEF s
<1>15. WellFormed(<<"listAssets", "read", "answer">>)
  <2> DEFINE s == <<"listAssets", "read", "answer">>
  <2>1. /\ DOMAIN s = 1 .. 3 /\ Len(s) = 3
        /\ s[1] = "listAssets" /\ s[2] = "read" /\ s[3] = "answer"
    OBVIOUS
  <2> HIDE DEF s
  <2>2. WellFormed(s)
    BY <2>1 DEF WellFormed, Ends, Outside, MembershipWrites, NeedDocument, BeforeRow
  <2> QED BY <2>2 DEF s
<1>16. WellFormed(<<"storeFile", "insertAsset", "answer">>)
  <2> DEFINE s == <<"storeFile", "insertAsset", "answer">>
  <2>1. /\ DOMAIN s = 1 .. 3 /\ Len(s) = 3
        /\ s[1] = "storeFile" /\ s[2] = "insertAsset" /\ s[3] = "answer"
    OBVIOUS
  <2> HIDE DEF s
  <2>2. WellFormed(s)
    BY <2>1 DEF WellFormed, Ends, Outside, MembershipWrites, NeedDocument, BeforeRow
  <2> QED BY <2>2 DEF s
<1>17. WellFormed(<<"markUploaded", "read", "answer">>)
  <2> DEFINE s == <<"markUploaded", "read", "answer">>
  <2>1. /\ DOMAIN s = 1 .. 3 /\ Len(s) = 3
        /\ s[1] = "markUploaded" /\ s[2] = "read" /\ s[3] = "answer"
    OBVIOUS
  <2> HIDE DEF s
  <2>2. WellFormed(s)
    BY <2>1 DEF WellFormed, Ends, Outside, MembershipWrites, NeedDocument, BeforeRow
  <2> QED BY <2>2 DEF s
<1>18. WellFormed(<<"findAsset", "fetch">>)
  <2> DEFINE s == <<"findAsset", "fetch">>
  <2>1. /\ DOMAIN s = 1 .. 2 /\ Len(s) = 2
        /\ s[1] = "findAsset" /\ s[2] = "fetch"
    OBVIOUS
  <2> HIDE DEF s
  <2>2. WellFormed(s)
    BY <2>1 DEF WellFormed, Ends, Outside, MembershipWrites, NeedDocument, BeforeRow
  <2> QED BY <2>2 DEF s
<1>19. WellFormed(<<"findAsset", "findSource", "check", "compare",
                    "storeFile", "insertAsset", "answer">>)
  <2> DEFINE s == <<"findAsset", "findSource", "check", "compare",
                    "storeFile", "insertAsset", "answer">>
  <2>1. /\ DOMAIN s = 1 .. 7 /\ Len(s) = 7
        /\ s[1] = "findAsset" /\ s[2] = "findSource" /\ s[3] = "check" /\ s[4] = "compare"
        /\ s[5] = "storeFile" /\ s[6] = "insertAsset" /\ s[7] = "answer"
    OBVIOUS
  <2> HIDE DEF s
  <2>2. WellFormed(s)
    BY <2>1 DEF WellFormed, Ends, Outside, MembershipWrites, NeedDocument, BeforeRow
  <2> QED BY <2>2 DEF s
<1>20. WellFormed(<<"findLive", "check", "read", "answer">>)
  <2> DEFINE s == <<"findLive", "check", "read", "answer">>
  <2>1. /\ DOMAIN s = 1 .. 4 /\ Len(s) = 4
        /\ s[1] = "findLive" /\ s[2] = "check" /\ s[3] = "read" /\ s[4] = "answer"
    OBVIOUS
  <2> HIDE DEF s
  <2>2. WellFormed(s)
    BY <2>1 DEF WellFormed, Ends, Outside, MembershipWrites, NeedDocument, BeforeRow
  <2> QED BY <2>2 DEF s
<1>21. WellFormed(<<"lookup", "saveMembership", "answer">>)
  <2> DEFINE s == <<"lookup", "saveMembership", "answer">>
  <2>1. /\ DOMAIN s = 1 .. 3 /\ Len(s) = 3
        /\ s[1] = "lookup" /\ s[2] = "saveMembership" /\ s[3] = "answer"
    OBVIOUS
  <2> HIDE DEF s
  <2>2. WellFormed(s)
    BY <2>1 DEF WellFormed, Ends, Outside, MembershipWrites, NeedDocument, BeforeRow
  <2> QED BY <2>2 DEF s
<1>22. WellFormed(<<"findLive", "lookup", "saveMembership", "answer">>)
  <2> DEFINE s == <<"findLive", "lookup", "saveMembership", "answer">>
  <2>1. /\ DOMAIN s = 1 .. 4 /\ Len(s) = 4
        /\ s[1] = "findLive" /\ s[2] = "lookup" /\ s[3] = "saveMembership"
        /\ s[4] = "answer"
    OBVIOUS
  <2> HIDE DEF s
  <2>2. WellFormed(s)
    BY <2>1 DEF WellFormed, Ends, Outside, MembershipWrites, NeedDocument, BeforeRow
  <2> QED BY <2>2 DEF s
<1> QED BY <1>1, <1>2, <1>3, <1>4, <1>5, <1>6, <1>7, <1>8, <1>9, <1>10, <1>11, <1>12, <1>13,
           <1>14, <1>15, <1>16, <1>17, <1>18, <1>19, <1>20, <1>21, <1>22

LEMMA DocumentPrograms ==
    \A kind \in DOMAIN DocumentRoutes : WellFormed(DocumentRoutes[kind].handler.steps)
<1>1. /\ WellFormed(ListDocuments.steps) /\ WellFormed(CreateDocument.steps)
      /\ WellFormed(GetPermissionsForDocuments.steps) /\ WellFormed(GetDocument.steps)
      /\ WellFormed(GetDocumentRevisions.steps) /\ WellFormed(GetDocumentAtRevision.steps)
      /\ WellFormed(GetDocumentHtml.steps) /\ WellFormed(GetDocumentText.steps)
      /\ WellFormed(ArchiveDocument.steps) /\ WellFormed(UnarchiveDocument.steps)
      /\ WellFormed(GetRevisionsSinceRevision.steps)
  BY ProgramsWellFormed
  DEF Handler, Unchecked, ListDocuments, CreateDocument, GetPermissionsForDocuments, GetDocument,
      GetDocumentRevisions, GetDocumentAtRevision, GetDocumentHtml, GetDocumentText,
      ArchiveDocument, UnarchiveDocument, GetRevisionsSinceRevision
<1>2. /\ WellFormed(GetMemberships.steps) /\ WellFormed(AddMembersToMemberships.steps)
      /\ WellFormed(UpdateMemberships.steps) /\ WellFormed(RemoveFromMemberships.steps)
      /\ WellFormed(GetAccessSettings.steps) /\ WellFormed(GetPermissions.steps)
      /\ WellFormed(SetAccessSettings.steps) /\ WellFormed(GetDocumentThumbnail.steps)
      /\ WellFormed(SubscribeToDocument.steps) /\ WellFormed(UnsubscribeFromDocument.steps)
  BY ProgramsWellFormed
  DEF Handler, Unchecked, GetMemberships, AddMembersToMemberships, UpdateMemberships,
      RemoveFromMemberships, GetAccessSettings, GetPermissions, SetAccessSettings,
      GetDocumentThumbnail, SubscribeToDocument, UnsubscribeFromDocument, UpdateIsSubscribed
<1> QED BY <1>1, <1>2 DEF DocumentRoutes, Asyncified, Bare

LEMMA OtherPrograms ==
    \A controller \in Controllers \ {DocumentRoutes} :
        \A kind \in DOMAIN controller : WellFormed(controller[kind].handler.steps)
<1>1. \A kind \in DOMAIN AssetRoutes : WellFormed(AssetRoutes[kind].handler.steps)
  <2>1. WellFormed(CopyAssetFromUrl.steps)
    <3> DEFINE s == CopyAssetFromUrl.steps
    <3>1. s = <<"read">> \o CopyAsset.steps
      BY DEF CopyAssetFromUrl, Handler
    <3>2. CopyAsset.steps = <<"findAsset", "findSource", "check", "compare",
                              "storeFile", "insertAsset", "answer">>
      BY DEF CopyAsset, Handler
    <3> HIDE DEF s
    <3>3. /\ DOMAIN s = 1 .. 8 /\ Len(s) = 8
          /\ s[1] = "read" /\ s[2] = "findAsset" /\ s[3] = "findSource" /\ s[4] = "check"
          /\ s[5] = "compare" /\ s[6] = "storeFile" /\ s[7] = "insertAsset" /\ s[8] = "answer"
      BY <3>1, <3>2
    <3>4. WellFormed(s)
      BY <3>3 DEF WellFormed, Ends, Outside, MembershipWrites, NeedDocument, BeforeRow
    <3> QED BY <3>4 DEF s
  <2>2. /\ WellFormed(ListAssets.steps) /\ WellFormed(RequestUpload.steps)
        /\ WellFormed(FinishUpload.steps) /\ WellFormed(CopyAssetFromId.steps)
        /\ WellFormed(GetFlatPrototype.steps) /\ WellFormed(GetAsset.steps)
        /\ WellFormed(GetExternalDocument.steps)
    BY ProgramsWellFormed
    DEF Handler, Unchecked, ListAssets, RequestUpload, FinishUpload, CopyAssetFromId, CopyAsset,
        GetFlatPrototype, GetAsset, GetExternalDocument
  <2> QED BY <2>1, <2>2 DEF AssetRoutes, Asyncified
<1>2. \A kind \in DOMAIN PaneRoutes : WellFormed(PaneRoutes[kind].handler.steps)
  <2>1. /\ WellFormed(CreatePane.steps) /\ WellFormed(GetPane.steps)
        /\ WellFormed(DuplicatePane.steps) /\ WellFormed(GetPaneRevisionsSinceRevision.steps)
    BY ProgramsWellFormed
    DEF Handler, CreatePane, GetPane, DuplicatePane, GetPaneRevisionsSinceRevision
  <2> QED BY <2>1 DEF PaneRoutes, Asyncified
<1>3. \A kind \in DOMAIN TeamRoutes : WellFormed(TeamRoutes[kind].handler.steps)
  BY ProgramsWellFormed
  DEF TeamRoutes, Asyncified, Handler, Unchecked, GetTeamDocuments, GetUserDocuments
<1>4. \A kind \in DOMAIN PrivateRoutes : WellFormed(PrivateRoutes[kind].handler.steps)
  BY SMTT(30), ProgramsWellFormed
  DEF PrivateRoutes, Asyncified, Bare, Handler, Unchecked, GetDocumentAsGuest,
      GetTeamDocuments, EmitGenericEvent
<1>5. \A kind \in DOMAIN PermissionsRoutes : WellFormed(PermissionsRoutes[kind].handler.steps)
  BY ProgramsWellFormed
  DEF PermissionsRoutes, Bare, Handler, Unchecked, GetPermissionsOfActions
<1>6. \A kind \in DOMAIN Jobs : WellFormed(Jobs[kind].handler.steps)
  BY SMTT(30), ProgramsWellFormed
  DEF Jobs, Asyncified, Bare, Handler, Unchecked, AutoSubscribe, UpdateLastViewed
<1> QED BY <1>1, <1>2, <1>3, <1>4, <1>5, <1>6 DEF Controllers

LEMMA RoutesWellFormed == \A kind \in Kinds : WellFormed(Routes[kind].handler.steps)
<1> SUFFICES ASSUME NEW kind \in Kinds PROVE WellFormed(Routes[kind].handler.steps)
  OBVIOUS
<1> DEFINE controller == CHOOSE c \in Controllers : kind \in DOMAIN c
<1>1. controller \in Controllers /\ kind \in DOMAIN controller
  BY DEF Kinds
<1>2. Routes[kind] = controller[kind]
  BY DEF Routes
<1> HIDE DEF controller
<1>3. CASE controller = DocumentRoutes
  BY <1>1, <1>2, <1>3, DocumentPrograms
<1>4. CASE controller # DocumentRoutes
  BY <1>1, <1>2, <1>4, OtherPrograms
<1> QED BY <1>3, <1>4

\* AddMembersToMemberships has the one list of steps that adds members.
LEMMA AddProgram ==
    "add" \in Kinds /\ Routes["add"].handler.steps = <<"find", "check", "adding">>
<1> DEFINE controller == CHOOSE c \in Controllers : "add" \in DOMAIN c
<1>1. DocumentRoutes \in Controllers /\ "add" \in DOMAIN DocumentRoutes
  BY DEF Controllers, DocumentRoutes
<1>2. controller \in Controllers /\ "add" \in DOMAIN controller
  BY <1>1
<1>3. "add" \in Kinds /\ Routes["add"] = controller["add"]
  BY <1>1 DEF Kinds, Routes
<1> HIDE DEF controller
<1>4. controller = DocumentRoutes
  <2>1. /\ "add" \notin DOMAIN AssetRoutes /\ "add" \notin DOMAIN PaneRoutes
        /\ "add" \notin DOMAIN TeamRoutes /\ "add" \notin DOMAIN PrivateRoutes
        /\ "add" \notin DOMAIN PermissionsRoutes /\ "add" \notin DOMAIN Jobs
    BY DEF AssetRoutes, PaneRoutes, TeamRoutes, PrivateRoutes, PermissionsRoutes, Jobs
  <2> QED BY <1>2, <2>1 DEF Controllers
<1>5. DocumentRoutes["add"] = Asyncified(AddMembersToMemberships)
  BY DEF DocumentRoutes
<1>6. DocumentRoutes["add"].handler.steps = <<"find", "check", "adding">>
  BY <1>5 DEF Asyncified, AddMembersToMemberships, Handler
<1> QED BY <1>3, <1>4, <1>6

-----------------------------------------------------------------------------
StepSet(r) == {Steps(r)[i] : i \in 1 .. Len(Steps(r))}
Fields == {"at", "doc", "row", "todo", "answer"}

-----------------------------------------------------------------------------
(***************************************************************************)
(* Where a request stands.                                                 *)
(***************************************************************************)
RequestsOK ==
    \A r \in Request :
        /\ request[r].visibility \in Visibilities
        /\ DOMAIN request[r].members \subseteq 1 .. MaxMembers

LocalsOK ==
    /\ DOMAIN me = Request
    /\ \A r \in Request :
          /\ DOMAIN me[r] = Fields
          /\ DOMAIN me[r].todo \subseteq 1 .. MaxMembers
          /\ me[r].answer = 200 => me[r].at = "done"

OnProgram ==
    \A r \in Request :
        \/ me[r].at = "done"
        \/ Kind(r) \in Kinds /\ me[r].at \in Outside \cup {"fetch"} \cup StepSet(r)

Control == RequestsOK /\ LocalsOK /\ OnProgram

\* A step that changes the local variables of request r only, and not its promises.
Alone(r) ==
    /\ \A q \in Request \ {r} : me'[q] = me[q]
    /\ me'[r].todo = me[r].todo

Leaves(r) ==
    /\ me'[r].at \in {"done", "lost", "hanging"}
    /\ me'[r].answer = 200 => me'[r].at = "done" /\ me[r].at # "insertAsset"

Stays(r) == me'[r].answer = me[r].answer
Enters(r) == Stays(r) /\ me[r].at = "admit" /\ me'[r].at = Head(Steps(r))
Advances(r) == Stays(r) /\ me[r].at \in StepSet(r) \ Ends /\ me'[r].at = NextStep(r)
Jumps(r) ==
    /\ Stays(r)
    /\ \/ me[r].at \in {"own", "select"} /\ me'[r].at = "read"
       \/ me[r].at = "compare" /\ me'[r].at = "fetch"

Moves(r) ==
    /\ DOMAIN me' = Request /\ DOMAIN me'[r] = Fields
    /\ Alone(r)
    /\ me[r].at \notin {"done", "lost", "hanging"}
    /\ Leaves(r) \/ Enters(r) \/ Advances(r) \/ Jumps(r)

LEMMA StepsWellFormed ==
    ASSUME NEW r \in Request, Kind(r) \in Kinds
    PROVE  WellFormed(Steps(r))
BY RoutesWellFormed DEF Steps, Program

\* The step after one that is not the last.
LEMMA NextFacts ==
    ASSUME NEW r \in Request, Kind(r) \in Kinds, me[r].at \in StepSet(r) \ Ends
    PROVE  /\ NextStep(r) \in StepSet(r) \ {Head(Steps(r))}
           /\ me[r].at = "storeFile" <=> NextStep(r) = "insertAsset"
           /\ me[r].at = "select" <=> NextStep(r) = "insert"
           /\ NextStep(r) \in MembershipWrites => me[r].at = "lookup"
<1> DEFINE s == Steps(r)
<1>1. WellFormed(s)
  BY StepsWellFormed
<1>2. PICK i \in 1 .. Len(s) : s[i] = me[r].at
  BY DEF StepSet
<1> HIDE DEF s
<1>3. i < Len(s) /\ i + 1 \in 1 .. Len(s)
  BY <1>1, <1>2 DEF WellFormed
<1>4. (CHOOSE k \in DOMAIN s : s[k] = me[r].at) = i
  BY <1>1, <1>2 DEF WellFormed
<1>5. NextStep(r) = s[i + 1]
  <2>1. NextStep(r) = s[1 + CHOOSE k \in DOMAIN s : s[k] = me[r].at]
    BY Zenon DEF NextStep, s
  <2>2. 1 + i = i + 1
    BY <1>3
  <2> QED BY <1>4, <2>1, <2>2, Zenon
<1>6. Head(s) = s[1] /\ s[i + 1] # s[1]
  BY <1>1, <1>3 DEF WellFormed
<1>7. s[i + 1] \in StepSet(r)
  BY <1>3 DEF StepSet, s
<1>8. /\ s[i] = "storeFile" <=> s[i + 1] = "insertAsset"
      /\ s[i] = "select" <=> s[i + 1] = "insert"
      /\ s[i + 1] \in MembershipWrites => s[i] = "lookup"
  BY <1>1, <1>3 DEF WellFormed
<1> QED BY <1>2, <1>5, <1>6, <1>7, <1>8 DEF s

LEMMA HeadFacts ==
    ASSUME NEW r \in Request, Kind(r) \in Kinds
    PROVE  /\ Head(Steps(r)) \in StepSet(r)
           /\ Head(Steps(r)) \notin {"insertAsset", "insert"} \cup MembershipWrites
<1> DEFINE s == Steps(r)
<1>1. WellFormed(s)
  BY StepsWellFormed
<1> HIDE DEF s
<1>2. Head(s) = s[1] /\ 1 \in 1 .. Len(s)
  BY <1>1 DEF WellFormed
<1>3. s[1] \notin {"insertAsset", "insert"} \cup MembershipWrites
  BY <1>1 DEF WellFormed
<1>4. Head(s) \in StepSet(r)
  BY <1>2 DEF StepSet, s
<1> QED BY <1>2, <1>3, <1>4 DEF s

\* Where a request that moves gets to.
LEMMA MoveFacts ==
    ASSUME Control, NEW r \in Request, Moves(r)
    PROVE  /\ Kind(r) \in Kinds
           /\ me'[r].at \in {"done", "lost", "hanging", "fetch"} \cup StepSet(r)
           /\ me'[r].at = "insertAsset" => me[r].at = "storeFile"
           /\ me'[r].at = "insert" => me[r].at = "select"
           /\ me'[r].at \in MembershipWrites => me[r].at = "lookup"
           /\ me'[r].at \in StepSet(r) \ {Head(Steps(r))} => me[r].at \in StepSet(r)
<1>1. Kind(r) \in Kinds /\ me[r].at \in Outside \cup {"fetch"} \cup StepSet(r)
  BY DEF Control, OnProgram, Moves
<1>2. WellFormed(Steps(r))
  BY <1>1, StepsWellFormed
<1>3. Head(Steps(r)) \notin Outside /\ Head(Steps(r)) \in StepSet(r)
  BY <1>1, <1>2, HeadFacts DEF WellFormed, StepSet
<1>4. CASE Leaves(r)
  <2>1. me'[r].at = "fetch" \/ me'[r].at \notin StepSet(r)
    BY <1>2, <1>4 DEF Leaves, WellFormed, StepSet, Outside
  <2> QED BY <1>1, <1>3, <1>4, <2>1 DEF Leaves, MembershipWrites, Outside
<1>5. CASE Enters(r)
  BY <1>1, <1>3, <1>5, HeadFacts DEF Enters, MembershipWrites
<1>6. CASE Advances(r)
  BY <1>1, <1>6, NextFacts DEF Advances
<1>7. CASE Jumps(r)
  <2>2. me[r].at \in StepSet(r)
    BY <1>1, <1>7 DEF Jumps, Outside
  <2>1. me[r].at \in {"own", "select"} => "read" \in StepSet(r)
    BY <1>1, <1>2 DEF WellFormed, StepSet, Outside
  <2> QED BY <1>1, <1>7, <2>1, <2>2 DEF Jumps, MembershipWrites
<1> QED BY <1>4, <1>5, <1>6, <1>7 DEF Moves

-----------------------------------------------------------------------------
\* How the steps change the local variables.
LEMMA ContinueFacts ==
    ASSUME LocalsOK, NEW r \in Request, NEW locals, Continue(r, locals)
    PROVE  /\ DOMAIN me' = Request /\ DOMAIN me'[r] = Fields
           /\ \A q \in Request \ {r} : me'[q] = me[q]
           /\ \A f \in Fields : me'[r][f] = IF f \in DOMAIN locals THEN locals[f] ELSE me[r][f]
<1>1. me' = [me EXCEPT ![r] = Override(me[r], locals)]
  BY DEF Continue
<1>2. DOMAIN me = Request /\ DOMAIN me[r] = Fields
  BY DEF LocalsOK
<1>3. me'[r] = Override(me[r], locals)
  BY <1>1, <1>2
<1>4. me'[r] = [f \in Fields |-> IF f \in DOMAIN locals THEN locals[f] ELSE me[r][f]]
  BY <1>2, <1>3 DEF Override
<1> QED BY <1>1, <1>2, <1>4

LEMMA GotoFacts ==
    ASSUME LocalsOK, NEW r \in Request, NEW step, Goto(r, step)
    PROVE  /\ DOMAIN me' = Request /\ DOMAIN me'[r] = Fields
           /\ Alone(r) /\ Stays(r)
           /\ me'[r].at = step /\ me'[r].row = me[r].row
BY ContinueFacts DEF Goto, Alone, Stays, Fields

LEMMA AnsweredFacts ==
    ASSUME LocalsOK, NEW r \in Request, NEW status, Answered(r, status)
    PROVE  /\ DOMAIN me' = Request /\ DOMAIN me'[r] = Fields
           /\ Alone(r)
           /\ me'[r].at = "done" /\ me'[r].answer = status
<1> DEFINE locals == [at |-> "done", answer |-> status, doc |-> NoDocument, row |-> NoRow]
<1>1. Continue(r, locals)
  BY DEF Answered
<1>2. DOMAIN locals = {"at", "answer", "doc", "row"} /\ locals.at = "done" /\ locals.answer = status
  OBVIOUS
<1> HIDE DEF locals
<1> QED BY <1>1, <1>2, ContinueFacts DEF Alone, Fields

LEMMA ThrowFacts ==
    ASSUME LocalsOK, NEW r \in Request, NEW status, status # 200, me[r].at # "done",
           Throw(r, status)
    PROVE  /\ DOMAIN me' = Request /\ DOMAIN me'[r] = Fields
           /\ Alone(r) /\ Leaves(r) /\ me'[r].answer # 200
<1>1. CASE Answered(r, status)
  BY <1>1, AnsweredFacts DEF Leaves
<1>2. CASE ~ Answered(r, status)
  <2> DEFINE locals == [at |-> "lost", doc |-> NoDocument, row |-> NoRow]
  <2>1. Continue(r, locals)
    BY <1>2 DEF Throw
  <2>2. DOMAIN locals = {"at", "doc", "row"} /\ locals.at = "lost"
    OBVIOUS
  <2> HIDE DEF locals
  <2>3. me'[r].at = "lost" /\ me'[r].answer = me[r].answer
    BY <2>1, <2>2, ContinueFacts DEF Fields
  <2>4. me[r].answer # 200
    BY DEF LocalsOK
  <2> QED BY <2>1, <2>2, <2>3, <2>4, ContinueFacts DEF Alone, Leaves, Fields
<1> QED BY <1>1, <1>2

\* The moves of a request, from a literal step.
LEMMA PassMoves ==
    ASSUME Control, NEW r \in Request, me[r].at \notin Outside \cup Ends, Goto(r, NextStep(r))
    PROVE  Moves(r)
<1>1. me[r].at \in StepSet(r)
  BY DEF Control, OnProgram, Outside, Ends
<1> QED BY <1>1, GotoFacts DEF Control, Moves, Advances, Outside

LEMMA AnswerMoves ==
    ASSUME Control, NEW r \in Request, NEW status, Answered(r, status),
           me[r].at \notin {"done", "lost", "hanging"},
           status = 200 => me[r].at # "insertAsset"
    PROVE  Moves(r)
BY AnsweredFacts DEF Control, Moves, Leaves

LEMMA HangMoves ==
    ASSUME Control, NEW r \in Request, Goto(r, "hanging"),
           me[r].at \notin {"done", "lost", "hanging"}
    PROVE  Moves(r)
<1>1. me[r].answer # 200
  BY DEF Control, LocalsOK
<1> QED BY <1>1, GotoFacts DEF Control, Moves, Leaves, Stays

LEMMA ThrowMoves ==
    ASSUME Control, NEW r \in Request, NEW status, status # 200, Throw(r, status),
           me[r].at \notin {"done", "lost", "hanging"}
    PROVE  Moves(r)
BY ThrowFacts DEF Control, Moves

\* The steps that change no promise are moves.
SingleStep(r) ==
    \/ Admit(r) \/ FindDocument(r) \/ CheckPermission(r) \/ LookupMembership(r)
    \/ SaveMembership(r) \/ DestroyMembership(r)
    \/ FindOwn(r) \/ SelectOwn(r) \/ InsertOwn(r)
    \/ AnswerAdd(r) \/ ReadMembers(r)
    \/ SaveDocument(r) \/ InsertDocument(r) \/ Read(r) \/ Answer(r) \/ Reject(r)
    \/ AssetStep(r)

LEMMA SingleMoves ==
    ASSUME Control, NEW r \in Request, SingleStep(r)
    PROVE  Moves(r)
<1> USE DEF Outside, Ends, At
<1>1. CASE Admit(r)
  <2>1. CASE Goto(r, Head(Steps(r)))
    BY <1>1, <2>1, GotoFacts DEF Admit, Control, Moves, Enters
  <2>2. CASE ~ Goto(r, Head(Steps(r)))
    <3>1. PICK status \in {400, 403, 422, 500} : Answered(r, status)
      BY <1>1, <2>2 DEF Admit, Invalid, NoUser, NoAccess
    <3> QED BY <1>1, <3>1, AnswerMoves DEF Admit
  <2> QED BY <2>1, <2>2
<1>2. CASE FindDocument(r)
  <2>1. CASE Continue(r, [at |-> NextStep(r), doc |-> document])
    <3> DEFINE locals == [at |-> NextStep(r), doc |-> document]
    <3>1. DOMAIN locals = {"at", "doc"} /\ locals.at = NextStep(r)
      OBVIOUS
    <3> HIDE DEF locals
    <3>2. me[r].at \in StepSet(r)
      BY <1>2 DEF FindDocument, Control, OnProgram
    <3> QED BY <1>2, <2>1, <3>1, <3>2, ContinueFacts
        DEF FindDocument, Control, Moves, Advances, Stays, Alone, Fields, locals
  <2>2. CASE ~ Continue(r, [at |-> NextStep(r), doc |-> document])
    <3>1. Goto(r, "hanging") \/ Answered(r, 404)
      BY <1>2, <2>2 DEF FindDocument
    <3> QED BY <1>2, <3>1, HangMoves, AnswerMoves DEF FindDocument
  <2> QED BY <2>1, <2>2
<1>3. CASE CheckPermission(r)
  <2>1. me[r].at = "check" /\ (Goto(r, NextStep(r)) \/ Answered(r, 403) \/ Throw(r, 403))
    BY <1>3 DEF CheckPermission
  <2> QED BY <2>1, PassMoves, AnswerMoves, ThrowMoves
<1>4. CASE LookupMembership(r)
  <2>1. CASE \E status \in {200, 404} : Answered(r, status)
    BY <1>4, <2>1, AnswerMoves DEF LookupMembership
  <2>2. CASE ~ \E status \in {200, 404} : Answered(r, status)
    <3>1. PICK id \in RowsOf(Subject(r)) : Continue(r, [at |-> NextStep(r), row |-> Row(id)])
      BY <1>4, <2>2 DEF LookupMembership
    <3> DEFINE locals == [at |-> NextStep(r), row |-> Row(id)]
    <3>2. DOMAIN locals = {"at", "row"} /\ locals.at = NextStep(r)
      OBVIOUS
    <3> HIDE DEF locals
    <3>3. me[r].at = "lookup" /\ me[r].at \in StepSet(r)
      BY <1>4 DEF LookupMembership, Control, OnProgram
    <3> QED BY <3>1, <3>2, <3>3, ContinueFacts
        DEF Control, Moves, Advances, Stays, Alone, Fields, locals
  <2> QED BY <2>1, <2>2
<1>5. CASE SaveMembership(r) \/ DestroyMembership(r) \/ SaveDocument(r) \/ Read(r)
  BY <1>5, PassMoves DEF SaveMembership, DestroyMembership, SaveDocument, Read
<1>6. CASE FindOwn(r) \/ SelectOwn(r)
  <2>1. me[r].at \in {"own", "select"} /\ (Goto(r, NextStep(r)) \/ Goto(r, "read"))
    BY <1>6 DEF FindOwn, SelectOwn
  <2>2. CASE Goto(r, "read")
    BY <2>1, <2>2, GotoFacts DEF Control, Moves, Jumps
  <2> QED BY <2>1, <2>2, PassMoves
<1>7. CASE InsertOwn(r)
  BY <1>7, PassMoves DEF InsertOwn
<1>8. CASE AnswerAdd(r) \/ Answer(r)
  <2>1. me[r].at \in {"awaiting", "answer"} /\ \E status \in {200, 404, 500} : Answered(r, status)
    BY <1>8 DEF AnswerAdd, Answer
  <2> QED BY <2>1, AnswerMoves
<1>9. CASE ReadMembers(r)
  <2>1. me[r].at = "members" /\ (Answered(r, 200) \/ Goto(r, "hanging"))
    BY <1>9 DEF ReadMembers
  <2> QED BY <2>1, AnswerMoves, HangMoves
<1>10. CASE InsertDocument(r)
  <2>1. me[r].at = "createDocument" /\ (Goto(r, NextStep(r)) \/ Answered(r, 500))
    BY <1>10 DEF InsertDocument
  <2> QED BY <2>1, AnswerMoves, PassMoves
<1>11. CASE Reject(r)
  BY <1>11, ThrowMoves DEF Reject, Unfailing
<1>12. CASE FindUploaded(r)
  <2>1. me[r].at = "listAssets" /\ (Goto(r, NextStep(r)) \/ Answered(r, 200))
    BY <1>12 DEF FindUploaded
  <2> QED BY <2>1, AnswerMoves, PassMoves
<1>13. CASE StoreFile(r)
  <2>1. me[r].at = "storeFile" /\ (Goto(r, NextStep(r)) \/ Answered(r, 500))
    BY <1>13 DEF StoreFile
  <2> QED BY <2>1, AnswerMoves, PassMoves
<1>14. CASE InsertAsset(r) \/ MarkUploaded(r)
  BY <1>14, PassMoves DEF InsertAsset, MarkUploaded
<1>15. CASE FindAsset(r)
  <2>1. me[r].at = "findAsset" /\ (Goto(r, NextStep(r)) \/ Answered(r, 404))
    BY <1>15 DEF FindAsset
  <2> QED BY <2>1, AnswerMoves, PassMoves
<1>16. CASE FindSource(r)
  <2>1. CASE Answered(r, 404)
    BY <1>16, <2>1, AnswerMoves DEF FindSource
  <2>2. CASE ~ Answered(r, 404)
    <3>1. PICK source : Continue(r, [at |-> NextStep(r), doc |-> source])
      BY <1>16, <2>2 DEF FindSource
    <3> DEFINE locals == [at |-> NextStep(r), doc |-> source]
    <3>2. DOMAIN locals = {"at", "doc"} /\ locals.at = NextStep(r)
      OBVIOUS
    <3> HIDE DEF locals
    <3>3. me[r].at = "findSource" /\ me[r].at \in StepSet(r)
      BY <1>16 DEF FindSource, Control, OnProgram
    <3> QED BY <3>1, <3>2, <3>3, ContinueFacts
        DEF Control, Moves, Advances, Stays, Alone, Fields, locals
  <2> QED BY <2>1, <2>2
<1>17. CASE Compare(r)
  <2>1. me[r].at = "compare" /\ (Goto(r, NextStep(r)) \/ Goto(r, "fetch"))
    BY <1>17 DEF Compare
  <2>2. CASE Goto(r, "fetch")
    BY <2>1, <2>2, GotoFacts DEF Control, Moves, Jumps
  <2> QED BY <2>1, <2>2, PassMoves
<1>18. CASE FetchAsset(r)
  BY <1>18, AnswerMoves DEF FetchAsset
<1> QED BY <1>1, <1>2, <1>3, <1>4, <1>5, <1>6, <1>7, <1>8, <1>9, <1>10, <1>11, <1>12, <1>13,
           <1>14, <1>15, <1>16, <1>17, <1>18 DEF SingleStep, AssetStep

\* Every step of a request is a single step or one of its promises, none of which
\* changes what was asked for.
LEMMA StepCases ==
    ASSUME NEW r \in Request, Step(r)
    PROVE  /\ request' = request
           /\ \/ SingleStep(r) \/ StartAdding(r)
              \/ \E i \in 1 .. MaxMembers : SelectMember(r, i) \/ InsertMember(r, i)
<1> QED BY ZenonT(30) DEF Step, RequestStep, AssetStep, SingleStep, Admit, FindDocument,
    CheckPermission, LookupMembership, SaveMembership, DestroyMembership, FindOwn,
    SelectOwn, InsertOwn, StartAdding,
    SelectMember, InsertMember, AnswerAdd, ReadMembers, SaveDocument, InsertDocument, Read, Answer,
    Reject, FindUploaded, StoreFile, InsertAsset, MarkUploaded, FindAsset, FindSource, Compare,
    FetchAsset

\* The promises of a request that adds members.
LEMMA AddingFacts ==
    ASSUME LocalsOK, NEW r \in Request, StartAdding(r)
    PROVE  /\ DOMAIN me' = Request /\ DOMAIN me'[r] = Fields
           /\ \A q \in Request \ {r} : me'[q] = me[q]
           /\ Stays(r) /\ me[r].at = "adding" /\ me'[r].at = "awaiting"
           /\ DOMAIN me'[r].todo = DOMAIN request[r].members
           /\ \A i \in DOMAIN me'[r].todo : me'[r].todo[i] = "select"
<1> DEFINE locals == [at |-> "awaiting", todo |-> [i \in DOMAIN request[r].members |-> "select"]]
<1>1. Continue(r, locals) /\ me[r].at = "adding"
  BY DEF StartAdding, At
<1>2. /\ DOMAIN locals = {"at", "todo"} /\ locals.at = "awaiting"
      /\ DOMAIN locals.todo = DOMAIN request[r].members
      /\ \A i \in DOMAIN locals.todo : locals.todo[i] = "select"
  OBVIOUS
<1> HIDE DEF locals
<1> QED BY <1>1, <1>2, ContinueFacts DEF Stays, Fields

LEMMA PromiseFacts ==
    ASSUME LocalsOK, NEW r \in Request, NEW i \in DOMAIN me[r].todo, NEW state, Promise(r, i, state)
    PROVE  /\ DOMAIN me' = Request /\ DOMAIN me'[r] = Fields
           /\ \A q \in Request \ {r} : me'[q] = me[q]
           /\ \A f \in Fields \ {"todo"} : me'[r][f] = me[r][f]
           /\ DOMAIN me'[r].todo = DOMAIN me[r].todo
           /\ \A j \in DOMAIN me[r].todo : me'[r].todo[j] = IF j = i THEN state ELSE me[r].todo[j]
BY DEF LocalsOK, Promise, Fields

LEMMA ControlNext == Control /\ [ApiNext]_vars => Control'
<1> SUFFICES ASSUME Control, [ApiNext]_vars PROVE Control'
  OBVIOUS
<1>1. ASSUME NEW r \in Request, Step(r) PROVE Control'
  <2>1. request' = request
    BY <1>1, StepCases
  <2>2. RequestsOK'
    BY <2>1 DEF Control, RequestsOK
  <2>3. \A q \in Request : StepSet(q)' = StepSet(q) /\ Kind(q)' = Kind(q)
    BY <2>1 DEF StepSet, Steps, Program, Kind
  <2>4. CASE SingleStep(r)
    <3>1. Moves(r)
      BY <2>4, SingleMoves
    <3>2. LocalsOK'
      <4>1. me'[r].answer = 200 => me'[r].at = "done"
        <5>1. me[r].answer # 200
          BY <3>1 DEF Control, LocalsOK, Moves
        <5> QED BY <3>1, <5>1 DEF Moves, Leaves, Enters, Advances, Jumps, Stays
      <4> QED BY <3>1, <4>1 DEF Control, LocalsOK, Moves, Alone
    <3>3. OnProgram'
      <4>1. /\ Kind(r) \in Kinds
            /\ me'[r].at \in Outside \cup {"fetch"} \cup StepSet(r)
        BY <3>1, MoveFacts DEF Outside
      <4> QED BY <2>3, <3>1, <4>1 DEF Control, OnProgram, Moves, Alone
    <3> QED BY <2>2, <3>2, <3>3 DEF Control
  <2>5. CASE StartAdding(r)
    <3>1. LocalsOK'
      BY <2>5, AddingFacts DEF Control, LocalsOK, RequestsOK, Stays
    <3>2. Kind(r) \in Kinds
      BY <2>5, AddingFacts DEF Control, OnProgram
    <3>3. OnProgram'
      BY <2>3, <2>5, <3>2, AddingFacts DEF Control, OnProgram, Outside
    <3> QED BY <2>2, <3>1, <3>3 DEF Control
  <2>6. ASSUME NEW i \in 1 .. MaxMembers, SelectMember(r, i) \/ InsertMember(r, i) PROVE Control'
    <3>1. i \in DOMAIN me[r].todo /\ \E state : Promise(r, i, state)
      BY <2>6 DEF SelectMember, InsertMember, Pending
    <3>2. LocalsOK'
      BY <3>1, PromiseFacts DEF Control, LocalsOK, Fields
    <3>3. OnProgram'
      BY <2>3, <3>1, PromiseFacts DEF Control, OnProgram, Fields
    <3> QED BY <2>2, <3>2, <3>3 DEF Control
  <2> QED BY <1>1, <2>4, <2>5, <2>6, StepCases
<1>2. CASE UNCHANGED <<request, me>>
  BY <1>2 DEF Control, RequestsOK, LocalsOK, OnProgram, StepSet, Steps, Program, Kind
<1> QED BY <1>1, <1>2 DEF ApiNext, Die, vars, documentVars

-----------------------------------------------------------------------------
(***************************************************************************)
(* Whoever is past finding the document works on one that exists, and      *)
(* there are no memberships without it.                                    *)
(***************************************************************************)
PastFind(r) ==
    /\ Kind(r) \in Kinds
    /\ Head(Steps(r)) = "find"
    /\ me[r].at \in StepSet(r) \ {"find"}

DocumentThere ==
    /\ document # NoDocument =>
          "visibility" \in DOMAIN document /\ document.visibility \in Visibilities
    /\ \A r \in Request : PastFind(r) \/ DOMAIN me[r].todo # {} => document # NoDocument
    /\ document = NoDocument => DOMAIN rows = {}

LEMMA NeedsFacts ==
    ASSUME Control, DocumentThere, NEW r \in Request, me[r].at \in NeedDocument
    PROVE  document # NoDocument
<1>1. Kind(r) \in Kinds /\ me[r].at \in StepSet(r)
  BY DEF Control, OnProgram, NeedDocument, Outside
<1>2. WellFormed(Steps(r))
  BY <1>1, StepsWellFormed
<1> DEFINE s == Steps(r)
<1>3. PICK i \in 1 .. Len(s) : s[i] = me[r].at
  BY <1>1 DEF StepSet
<1> HIDE DEF s
<1>4. Head(s) = "find"
  BY <1>2, <1>3 DEF s, WellFormed
<1> QED BY <1>1, <1>4 DEF DocumentThere, PastFind, NeedDocument, s

\* Only two steps write the document, and neither makes it disappear.
LEMMA DocumentStays ==
    ASSUME Control, DocumentThere, NEW r \in Request, Step(r)
    PROVE  /\ document # NoDocument => document' # NoDocument
           /\ document' # NoDocument =>
                 "visibility" \in DOMAIN document' /\ document'.visibility \in Visibilities
<1>1. CASE SaveDocument(r)
  <2> DEFINE wanted == WantedOfDocument(r)
  <2> DEFINE changed == Changed(me[r].doc, wanted)
  <2>1. document # NoDocument
    BY <1>1, NeedsFacts DEF SaveDocument, At, NeedDocument
  <2>2. document' = Override(document, changed)
    BY <1>1 DEF SaveDocument
  <2>3. "visibility" \in DOMAIN wanted => wanted.visibility \in Visibilities
    BY DEF WantedOfDocument, Control, RequestsOK
  <2> HIDE DEF wanted
  <2>4. "visibility" \in DOMAIN changed => changed["visibility"] \in Visibilities
    BY <2>3 DEF Changed
  <2> HIDE DEF changed
  <2>5. "visibility" \in DOMAIN document /\ document.visibility \in Visibilities
    BY <2>1 DEF DocumentThere
  <2>6. "visibility" \in DOMAIN document' /\ document'.visibility \in Visibilities
    BY <2>2, <2>4, <2>5 DEF Override
  <2>7. document' # NoDocument
    BY <2>6 DEF NoDocument, Visibilities
  <2> QED BY <2>6, <2>7
<1>2. CASE InsertDocument(r)
  <2>1. document' \in {document, NewDocument} /\ document = NoDocument
    BY <1>2 DEF InsertDocument
  <2>2. "visibility" \in DOMAIN NewDocument /\ NewDocument.visibility \in Visibilities
    BY DEF NewDocument, Visibilities
  <2> QED BY <2>1, <2>2
<1>3. CASE ~ SaveDocument(r) /\ ~ InsertDocument(r)
  <2>1. document' = document
    BY <1>3 DEF Step, RequestStep, AssetStep, Admit, FindDocument, CheckPermission,
        LookupMembership, SaveMembership, DestroyMembership, FindOwn, SelectOwn, InsertOwn,
        StartAdding, SelectMember, InsertMember, AnswerAdd, ReadMembers, Read, Answer, Reject,
        FindUploaded, StoreFile, InsertAsset, MarkUploaded, FindAsset, FindSource, Compare,
        FetchAsset
  <2> QED BY <2>1 DEF DocumentThere
<1> QED BY <1>1, <1>2, <1>3

\* The steps that add rows, and the one that removes some.
LEMMA RowsCases ==
    ASSUME NEW r \in Request, Step(r)
    PROVE  \/ InsertOwn(r) \/ InsertDocument(r) \/ DestroyMembership(r)
           \/ \E i \in 1 .. MaxMembers : InsertMember(r, i)
           \/ DOMAIN rows' = DOMAIN rows /\ removed' = removed /\ raced' = raced
BY DEF Step, RequestStep, AssetStep, Admit, FindDocument, CheckPermission, LookupMembership,
    SaveMembership, FindOwn, SelectOwn, StartAdding, SelectMember, AnswerAdd, ReadMembers,
    SaveDocument, Read, Answer, Reject, FindUploaded, StoreFile, InsertAsset, MarkUploaded,
    FindAsset, FindSource, Compare, FetchAsset

LEMMA DocumentNext == Control /\ DocumentThere /\ [ApiNext]_vars => DocumentThere'
<1> SUFFICES ASSUME Control, DocumentThere, [ApiNext]_vars PROVE DocumentThere'
  OBVIOUS
<1>1. ASSUME NEW r \in Request, Step(r) PROVE DocumentThere'
  <2>1. \A q \in Request : /\ StepSet(q)' = StepSet(q) /\ Kind(q)' = Kind(q)
                           /\ Steps(q)' = Steps(q)
    BY <1>1, StepCases DEF StepSet, Steps, Program, Kind
  <2>2. /\ document # NoDocument => document' # NoDocument
        /\ document' # NoDocument =>
              "visibility" \in DOMAIN document' /\ document'.visibility \in Visibilities
    BY <1>1, DocumentStays
  <2>3. ASSUME PastFind(r)' PROVE document' # NoDocument
    <3>1. SingleStep(r) => Moves(r)
      BY SingleMoves
    <3>2. Kind(r) \in Kinds /\ WellFormed(Steps(r)) /\ Head(Steps(r)) = "find"
          /\ me'[r].at \in StepSet(r) \ {"find"}
      BY <2>1, <2>3, StepsWellFormed DEF PastFind
    <3>3. me'[r].at \notin Outside
      BY <3>2 DEF WellFormed, StepSet
    <3>4. CASE SingleStep(r)
      <4>1. me[r].at \in StepSet(r)
        BY <3>1, <3>2, <3>4, MoveFacts
      <4>2. CASE me[r].at # "find"
        BY <2>2, <3>2, <4>1, <4>2 DEF DocumentThere, PastFind
      <4>3. CASE me[r].at = "find"
        <5>1. CASE FindDocument(r)
          <6>1. CASE document = NoDocument
            <7>1. Goto(r, "hanging") \/ Answered(r, 404)
              BY <5>1, <6>1 DEF FindDocument
            <7> QED BY <3>3, <7>1, GotoFacts, AnsweredFacts DEF Control, Outside
          <6> QED BY <2>2, <6>1
        <5>2. CASE Reject(r)
          <6>1. me'[r].at \in {"done", "lost", "hanging"}
            BY <4>3, <5>2, ThrowFacts DEF Reject, Control, Leaves
          <6> QED BY <3>3, <6>1 DEF Outside
        <5>3. CASE ~ FindDocument(r) /\ ~ Reject(r)
          BY <3>4, <4>3, <5>3 DEF SingleStep, AssetStep, At, Admit, CheckPermission,
              LookupMembership, SaveMembership, DestroyMembership, FindOwn, SelectOwn, InsertOwn,
              AnswerAdd, ReadMembers, SaveDocument, InsertDocument, Read, Answer, FindUploaded,
              StoreFile, InsertAsset, MarkUploaded, FindAsset, FindSource, Compare, FetchAsset
        <5> QED BY <5>1, <5>2, <5>3
      <4> QED BY <4>2, <4>3
    <3>5. CASE StartAdding(r)
      BY <3>3, <3>5, AddingFacts DEF Control, Outside
    <3>6. ASSUME NEW i \in 1 .. MaxMembers, SelectMember(r, i) \/ InsertMember(r, i)
          PROVE  document' # NoDocument
      <4>1. i \in DOMAIN me[r].todo
        BY <3>6 DEF SelectMember, InsertMember, Pending
      <4> QED BY <2>2, <4>1 DEF DocumentThere
    <3> QED BY <1>1, <3>4, <3>5, <3>6, StepCases
  <2>4. ASSUME DOMAIN me'[r].todo # {} PROVE document' # NoDocument
    <3>1. CASE SingleStep(r)
      BY <2>2, <2>4, <3>1, SingleMoves DEF Moves, Alone, DocumentThere
    <3>2. CASE StartAdding(r)
      BY <2>2, <3>2, NeedsFacts DEF StartAdding, At, NeedDocument
    <3>3. ASSUME NEW i \in 1 .. MaxMembers, SelectMember(r, i) \/ InsertMember(r, i)
          PROVE  document' # NoDocument
      <4>1. i \in DOMAIN me[r].todo
        BY <3>3 DEF SelectMember, InsertMember, Pending
      <4> QED BY <2>2, <4>1 DEF DocumentThere
    <3> QED BY <1>1, <3>1, <3>2, <3>3, StepCases
  <2>5. \A q \in Request \ {r} : me'[q] = me[q]
    <3>1. CASE SingleStep(r)
      BY <3>1, SingleMoves DEF Moves, Alone
    <3>2. CASE StartAdding(r)
      BY <3>2, AddingFacts DEF Control
    <3>3. ASSUME NEW i \in 1 .. MaxMembers, SelectMember(r, i) \/ InsertMember(r, i)
          PROVE  \A q \in Request \ {r} : me'[q] = me[q]
      <4>1. i \in DOMAIN me[r].todo /\ \E state : Promise(r, i, state)
        BY <3>3 DEF SelectMember, InsertMember, Pending
      <4> QED BY <4>1, PromiseFacts DEF Control
    <3> QED BY <1>1, <3>1, <3>2, <3>3, StepCases
  <2>6. ASSUME document' = NoDocument PROVE DOMAIN rows' = {}
    <3>1. document = NoDocument /\ DOMAIN rows = {}
      BY <2>2, <2>6 DEF DocumentThere
    <3>2. ~ InsertOwn(r)
      BY <3>1, NeedsFacts DEF InsertOwn, At, NeedDocument
    <3>3. \A i \in 1 .. MaxMembers : ~ InsertMember(r, i)
      BY <3>1 DEF InsertMember, Pending, DocumentThere
    <3>4. InsertDocument(r) => rows' = rows
      BY <2>6 DEF InsertDocument, NewDocument, NoDocument
    <3>5. DestroyMembership(r) => DOMAIN rows' \subseteq DOMAIN rows
      BY DEF DestroyMembership
    <3> QED BY <1>1, <3>1, <3>2, <3>3, <3>4, <3>5, RowsCases
  <2>7. \A q \in Request : PastFind(q)' \/ DOMAIN me'[q].todo # {} => document' # NoDocument
    BY <2>1, <2>2, <2>3, <2>4, <2>5 DEF DocumentThere, PastFind
  <2> QED BY <2>2, <2>6, <2>7 DEF DocumentThere
<1>2. CASE UNCHANGED <<request, me, document, rows>>
  BY <1>2 DEF DocumentThere, PastFind, StepSet, Steps, Program, Kind
<1> QED BY <1>1, <1>2 DEF ApiNext, Die, vars, documentVars

-----------------------------------------------------------------------------
(***************************************************************************)
(* Memberships.                                                            *)
(***************************************************************************)
\* Whoever is about to create a row found none; if there is one by now, two have
\* found none.
Racing ==
    \A r \in Request, i \in 0 .. MaxMembers, id \in DOMAIN rows :
        Creating(r, i, id[3]) => id[3] \in raced

Twice == \A id, other \in DOMAIN rows : id[3] = other[3] => id = other \/ id[3] \in raced

RowHeld ==
    \A r \in Request : me[r].at \in MembershipWrites => me[r].row.id[3] = Subject(r)

RowInv == Racing /\ Twice /\ RowHeld /\ RemovedStaysOut

LEMMA CreateKeeps ==
    ASSUME RowInv, NEW r \in Request, NEW i \in 0 .. MaxMembers, NEW user, NEW columns,
           Create(r, i, user, columns), NoteRace(r, i, user), Creating(r, i, user),
           \A q \in Request, j \in 0 .. MaxMembers :
               \A u : Creating(q, j, u)' => Creating(q, j, u) /\ <<q, j>> # <<r, i>>
    PROVE  Racing' /\ Twice' /\ RemovedStaysOut'
<1> DEFINE id == <<r, i, user>>
<1>1. DOMAIN rows' = DOMAIN rows \cup {id} /\ removed' = removed \ {user}
  BY DEF Create
<1>2. \A u : u # user => RowsOf(u)' = RowsOf(u)
  BY <1>1 DEF RowsOf
<1>3. RowsOf(user)' = RowsOf(user) \cup {id}
  BY <1>1 DEF RowsOf
<1>4. raced \subseteq raced'
  BY DEF NoteRace
<1>5. Racing'
  <2> SUFFICES ASSUME NEW q \in Request, NEW j \in 0 .. MaxMembers, NEW k \in DOMAIN rows',
                      Creating(q, j, k[3])'
               PROVE  k[3] \in raced'
    BY DEF Racing
  <2>1. Creating(q, j, k[3]) /\ <<q, j>> # <<r, i>>
    OBVIOUS
  <2>2. CASE k[3] = user
    BY <2>1, <2>2 DEF NoteRace
  <2>3. CASE k[3] # user
    BY <1>1, <1>4, <2>1, <2>3 DEF RowInv, Racing
  <2> QED BY <2>2, <2>3
<1>6. Twice'
  <2> SUFFICES ASSUME NEW a \in DOMAIN rows', NEW b \in DOMAIN rows', a[3] = b[3], a # b
               PROVE  a[3] \in raced'
    BY DEF Twice
  <2>1. CASE a \in DOMAIN rows /\ b \in DOMAIN rows
    BY <1>4, <2>1 DEF RowInv, Twice
  <2>2. CASE ~ (a \in DOMAIN rows /\ b \in DOMAIN rows)
    <3>1. a[3] = user /\ (a \in DOMAIN rows \/ b \in DOMAIN rows)
      BY <1>1, <2>2
    <3> QED BY <1>4, <3>1 DEF RowInv, Racing
  <2> QED BY <2>1, <2>2
<1>7. RemovedStaysOut'
  BY <1>1, <1>2, <1>4 DEF RowInv, RemovedStaysOut
<1> QED BY <1>5, <1>6, <1>7

\* A step that adds no row.
LEMMA NoRowAdded ==
    ASSUME RowInv, DOMAIN rows' = DOMAIN rows, removed' = removed, raced' = raced,
           \A q \in Request, j \in 0 .. MaxMembers :
               \A u : Creating(q, j, u)' => Creating(q, j, u) \/ RowsOf(u) = {}
    PROVE  Racing' /\ Twice' /\ RemovedStaysOut'
<1>1. \A u : RowsOf(u)' = RowsOf(u)
  BY DEF RowsOf
<1>2. \A id \in DOMAIN rows : RowsOf(id[3]) # {}
  BY DEF RowsOf
<1> QED BY <1>1, <1>2 DEF RowInv, Racing, Twice, RemovedStaysOut

\* Only a select that finds no row makes a request create one.
LEMMA SingleCreating ==
    ASSUME Control, NEW r \in Request, SingleStep(r),
           NEW q \in Request, NEW j \in 0 .. MaxMembers, NEW u, Creating(q, j, u)'
    PROVE  \/ Creating(q, j, u) /\ (me[r].at = "insert" => <<q, j>> # <<r, 0>>)
           \/ me[r].at = "select" /\ RowsOf(u) = {}
<1> USE DEF Creating
<1>1. request' = request
  BY StepCases DEF SingleStep, Step, RequestStep, Admit, FindDocument, CheckPermission,
      LookupMembership, SaveMembership, DestroyMembership, FindOwn, SelectOwn, InsertOwn, AnswerAdd,
      ReadMembers, SaveDocument, InsertDocument, Read, Answer, Reject, AssetStep, FindUploaded,
      StoreFile, InsertAsset, MarkUploaded, FindAsset, FindSource, Compare, FetchAsset
<1>2. Moves(r)
  BY SingleMoves
<1>3. CASE q # r
  <2>1. me'[q] = me[q]
    BY <1>2, <1>3 DEF Moves, Alone
  <2> QED BY <1>1, <1>3, <2>1
<1>4. CASE q = r /\ j # 0
  <2>1. me'[r].todo = me[r].todo
    BY <1>2 DEF Moves, Alone
  <2> QED BY <1>1, <1>4, <2>1
<1>5. CASE q = r /\ j = 0
  <2>1. me'[r].at = "insert" /\ request[r].user = u
    BY <1>1, <1>5
  <2>2. me[r].at = "select"
    BY <1>2, <2>1, MoveFacts
  <2>3. CASE SelectOwn(r)
    <3>1. CASE RowsOf(request[r].user) # {}
      BY <2>1, <2>3, <3>1, GotoFacts DEF SelectOwn, Control
    <3> QED BY <2>1, <2>2, <3>1
  <2>4. CASE Reject(r)
    <3>1. me'[r].at \in {"done", "lost", "hanging"}
      BY <2>2, <2>4, ThrowFacts DEF Reject, Control, Leaves
    <3> QED BY <2>1, <3>1
  <2>5. CASE ~ SelectOwn(r) /\ ~ Reject(r)
    BY <2>2, <2>5 DEF SingleStep, AssetStep, At, Admit, FindDocument, CheckPermission,
        LookupMembership, SaveMembership, DestroyMembership, FindOwn, InsertOwn,
        AnswerAdd, ReadMembers, SaveDocument, InsertDocument, Read, Answer, FindUploaded,
        StoreFile, InsertAsset, MarkUploaded, FindAsset, FindSource, Compare, FetchAsset
  <2> QED BY <2>3, <2>4, <2>5
<1> QED BY <1>3, <1>4, <1>5

LEMMA PromiseCreating ==
    ASSUME Control, NEW r \in Request, NEW i \in DOMAIN me[r].todo, NEW state,
           Promise(r, i, state), request' = request,
           NEW q \in Request, NEW j \in 0 .. MaxMembers, NEW u, Creating(q, j, u)'
    PROVE  \/ Creating(q, j, u) /\ <<q, j>> # <<r, i>>
           \/ state = "insert" /\ u = request[r].members[i]
<1> USE DEF Creating
<1>1. i # 0
  BY DEF Control, LocalsOK
<1>2. CASE q # r
  <2>1. me'[q] = me[q]
    BY <1>2, PromiseFacts DEF Control
  <2> QED BY <1>2, <2>1
<1>3. CASE q = r /\ j = 0
  <2>1. me'[r].at = me[r].at
    BY PromiseFacts DEF Control, Fields
  <2> QED BY <1>1, <1>3, <2>1
<1>4. CASE q = r /\ j # 0
  <2>1. /\ DOMAIN me'[r].todo = DOMAIN me[r].todo
        /\ me'[r].todo[j] = IF j = i THEN state ELSE me[r].todo[j]
    BY <1>4, PromiseFacts DEF Control
  <2>2. CASE j = i
    BY <1>4, <2>1, <2>2
  <2>3. CASE j # i
    BY <1>4, <2>1, <2>3
  <2> QED BY <2>2, <2>3
<1> QED BY <1>2, <1>3, <1>4

\* The rows that a single step adds or removes.
LEMMA SingleRows ==
    ASSUME Control, DocumentThere, RowInv, NEW r \in Request, SingleStep(r)
    PROVE  Racing' /\ Twice' /\ RemovedStaysOut'
<1>1. CASE InsertOwn(r)
  <2>1. me[r].at = "insert"
    BY <1>1 DEF InsertOwn, At
  <2>2. \A q \in Request, j \in 0 .. MaxMembers :
           \A u : Creating(q, j, u)' => Creating(q, j, u) /\ <<q, j>> # <<r, 0>>
    BY <2>1, SingleCreating
  <2>3. Creating(r, 0, request[r].user)
    BY <2>1 DEF Creating
  <2>4. Create(r, 0, request[r].user, NewColumns(me[r].doc.permissions, "unset"))
        /\ NoteRace(r, 0, request[r].user)
    BY <1>1 DEF InsertOwn
  <2> QED BY <2>2, <2>3, <2>4, CreateKeeps, MembersAssumption
<1>2. CASE InsertDocument(r)
  <2>1. me[r].at = "createDocument" /\ document = NoDocument /\ raced' = raced
    BY <1>2 DEF InsertDocument, At
  <2>2. \A u : RowsOf(u) = {}
    BY <2>1 DEF DocumentThere, RowsOf
  <2>3. \A q \in Request, j \in 0 .. MaxMembers : \A u : ~ Creating(q, j, u)
    <3>1. \A q \in Request : me[q].at # "insert"
      BY <2>1, NeedsFacts DEF NeedDocument
    <3>2. \A q \in Request : DOMAIN me[q].todo = {}
      BY <2>1 DEF DocumentThere
    <3> QED BY <3>1, <3>2 DEF Creating
  <2>4. \A q \in Request, j \in 0 .. MaxMembers : \A u : ~ Creating(q, j, u)'
    BY <2>1, <2>3, SingleCreating
  <2> DEFINE id == <<r, 0, request[r].user>>
  <2>5. \/ DOMAIN rows' = DOMAIN rows \cup {id} /\ removed' = removed \ {request[r].user}
        \/ rows' = rows /\ removed' = removed
    BY <1>2 DEF InsertDocument, Create
  <2>6. \A u : RowsOf(u)' \subseteq {id}
    BY <2>2, <2>5 DEF RowsOf
  <2>7. \A u \in removed' : RowsOf(u)' = {}
    BY <2>2, <2>5 DEF RowsOf
  <2>8. Twice'
    BY <2>6 DEF Twice, RowsOf
  <2> QED BY <2>4, <2>7, <2>8 DEF Racing, RemovedStaysOut
<1>3. CASE DestroyMembership(r)
  <2> DEFINE id == me[r].row.id
  <2>1. /\ me[r].at = "destroyMembership" /\ raced' = raced
        /\ DOMAIN rows' = DOMAIN rows \ {id}
        /\ removed' = IF id \in DOMAIN rows THEN removed \cup {Subject(r)} ELSE removed
    BY <1>3 DEF DestroyMembership, At
  <2>2. id[3] = Subject(r)
    BY <2>1 DEF RowInv, RowHeld, MembershipWrites
  <2>3. \A u : RowsOf(u)' = RowsOf(u) \ {id}
    BY <2>1 DEF RowsOf
  <2>4. \A q \in Request, j \in 0 .. MaxMembers : \A u : Creating(q, j, u)' => Creating(q, j, u)
    BY <2>1, SingleCreating
  <2>5. Racing'
    BY <2>1, <2>3, <2>4 DEF RowInv, Racing
  <2>6. Twice'
    BY <2>1, <2>3 DEF RowInv, Twice
  <2>7. RemovedStaysOut'
    <3> SUFFICES ASSUME NEW u \in removed', u \notin raced PROVE RowsOf(u)' = {}
      BY <2>1 DEF RemovedStaysOut
    <3>1. CASE u \in removed
      BY <2>3, <3>1 DEF RowInv, RemovedStaysOut
    <3>2. CASE u \notin removed
      <4>1. u = Subject(r) /\ id \in RowsOf(u)
        BY <2>1, <2>2, <3>2 DEF RowsOf
      <4>2. \A other \in RowsOf(u) : other = id
        BY <2>2, <3>2, <4>1 DEF RowInv, Twice, RowsOf
      <4> QED BY <2>3, <4>2
    <3> QED BY <3>1, <3>2
  <2> QED BY <2>5, <2>6, <2>7
<1>4. CASE ~ InsertOwn(r) /\ ~ InsertDocument(r) /\ ~ DestroyMembership(r)
  <2>1. DOMAIN rows' = DOMAIN rows /\ removed' = removed /\ raced' = raced
    BY <1>4 DEF SingleStep, AssetStep, Admit, FindDocument, CheckPermission, LookupMembership,
        SaveMembership, FindOwn, SelectOwn, AnswerAdd, ReadMembers, SaveDocument, Read, Answer,
        Reject, FindUploaded, StoreFile, InsertAsset, MarkUploaded, FindAsset, FindSource, Compare,
        FetchAsset
  <2>2. \A q \in Request, j \in 0 .. MaxMembers :
           \A u : Creating(q, j, u)' => Creating(q, j, u) \/ RowsOf(u) = {}
    BY SingleCreating
  <2> QED BY <2>1, <2>2, NoRowAdded
<1> QED BY <1>1, <1>2, <1>3, <1>4

LEMMA RowHeldNext ==
    ASSUME Control, RowHeld, NEW r \in Request, Step(r)
    PROVE  RowHeld'
<1>1. \A q \in Request : Subject(q)' = Subject(q)
  BY StepCases DEF Subject, Kind
<1>2. CASE SingleStep(r)
  <2>1. Moves(r)
    BY <1>2, SingleMoves
  <2>2. ASSUME me'[r].at \in MembershipWrites PROVE me'[r].row.id[3] = Subject(r)
    <3>1. me[r].at = "lookup"
      BY <2>1, <2>2, MoveFacts
    <3>2. CASE LookupMembership(r)
      <4>1. PICK id \in RowsOf(Subject(r)) : Continue(r, [at |-> NextStep(r), row |-> Row(id)])
        <5>1. \A status : ~ Answered(r, status)
          BY <2>2, AnsweredFacts DEF Control, MembershipWrites
        <5> QED BY <3>2, <5>1 DEF LookupMembership
      <4> DEFINE locals == [at |-> NextStep(r), row |-> Row(id)]
      <4>2. DOMAIN locals = {"at", "row"} /\ locals.row = Row(id)
        OBVIOUS
      <4> HIDE DEF locals
      <4>3. me'[r].row = Row(id)
        BY <4>1, <4>2, ContinueFacts DEF Control, Fields, locals
      <4> QED BY <4>1, <4>3 DEF Row, RowsOf
    <3>3. CASE Reject(r)
      <4>1. me'[r].at \in {"done", "lost", "hanging"}
        BY <3>1, <3>3, ThrowFacts DEF Reject, Control, Leaves
      <4> QED BY <2>2, <4>1 DEF MembershipWrites
    <3>4. CASE ~ LookupMembership(r) /\ ~ Reject(r)
      BY <1>2, <3>1, <3>4 DEF SingleStep, AssetStep, At, Admit, FindDocument, CheckPermission,
          SaveMembership, DestroyMembership, FindOwn, SelectOwn, InsertOwn,
          AnswerAdd, ReadMembers, SaveDocument, InsertDocument, Read, Answer, FindUploaded,
          StoreFile, InsertAsset, MarkUploaded, FindAsset, FindSource, Compare, FetchAsset
    <3> QED BY <3>2, <3>3, <3>4
  <2> QED BY <1>1, <2>1, <2>2 DEF RowHeld, Moves, Alone
<1>3. CASE StartAdding(r)
  BY <1>1, <1>3, AddingFacts DEF Control, RowHeld, MembershipWrites
<1>4. ASSUME NEW i \in 1 .. MaxMembers, SelectMember(r, i) \/ InsertMember(r, i) PROVE RowHeld'
  <2>1. i \in DOMAIN me[r].todo /\ \E state : Promise(r, i, state)
    BY <1>4 DEF SelectMember, InsertMember, Pending
  <2> QED BY <1>1, <2>1, PromiseFacts DEF Control, RowHeld, Fields
<1> QED BY <1>2, <1>3, <1>4, StepCases

LEMMA RowNext == Control /\ DocumentThere /\ RowInv /\ [ApiNext]_vars => RowInv'
<1> SUFFICES ASSUME Control, DocumentThere, RowInv, [ApiNext]_vars PROVE RowInv'
  OBVIOUS
<1>1. ASSUME NEW r \in Request, Step(r) PROVE RowInv'
  <2>1. RowHeld'
    BY <1>1, RowHeldNext DEF RowInv
  <2>2. request' = request
    BY <1>1, StepCases
  <2>3. CASE SingleStep(r)
    BY <2>1, <2>3, SingleRows DEF RowInv
  <2>4. CASE StartAdding(r)
    <3>1. DOMAIN rows' = DOMAIN rows /\ removed' = removed /\ raced' = raced
      BY <2>4 DEF StartAdding
    <3>2. \A q \in Request, j \in 0 .. MaxMembers : \A u : Creating(q, j, u)' => Creating(q, j, u)
      BY <2>2, <2>4, AddingFacts DEF Control, Creating
    <3> QED BY <2>1, <3>1, <3>2, NoRowAdded DEF RowInv
  <2>5. ASSUME NEW i \in 1 .. MaxMembers, SelectMember(r, i) PROVE RowInv'
    <3>1. DOMAIN rows' = DOMAIN rows /\ removed' = removed /\ raced' = raced
          /\ i \in DOMAIN me[r].todo
      BY <2>5 DEF SelectMember, Pending
    <3>2. PICK state \in {"failed", "skipped", "insert", "found"} :
             Promise(r, i, state) /\ (state = "insert" => RowsOf(request[r].members[i]) = {})
      BY <2>5 DEF SelectMember
    <3>4. \A q \in Request, j \in 0 .. MaxMembers :
             \A u : Creating(q, j, u)' => Creating(q, j, u) \/ RowsOf(u) = {}
      BY <2>2, <3>1, <3>2, PromiseCreating
    <3> QED BY <2>1, <3>1, <3>4, NoRowAdded DEF RowInv
  <2>6. ASSUME NEW i \in 1 .. MaxMembers, InsertMember(r, i) PROVE RowInv'
    <3>1. i \in DOMAIN me[r].todo /\ me[r].todo[i] = "insert" /\ i \in 0 .. MaxMembers
      BY <2>6, MembersAssumption DEF InsertMember, Pending
    <3>2. CASE Promise(r, i, "failed") /\ UNCHANGED <<rows, removed, raced>>
      <4>1. \A q \in Request, j \in 0 .. MaxMembers : \A u : Creating(q, j, u)' => Creating(q, j, u)
        BY <2>2, <3>1, <3>2, PromiseCreating
      <4> QED BY <2>1, <3>2, <4>1, NoRowAdded DEF RowInv
    <3>3. CASE ~ (Promise(r, i, "failed") /\ UNCHANGED <<rows, removed, raced>>)
      <4> DEFINE user == request[r].members[i]
      <4>1. /\ Promise(r, i, "added") /\ NoteRace(r, i, user)
            /\ Create(r, i, user, NewColumns(request[r].grant, "unset"))
        BY <2>6, <3>3 DEF InsertMember
      <4>2. Creating(r, i, user)
        BY <3>1, MembersAssumption DEF Creating, Control, LocalsOK
      <4>3. \A q \in Request, j \in 0 .. MaxMembers :
               \A u : Creating(q, j, u)' => Creating(q, j, u) /\ <<q, j>> # <<r, i>>
        BY <2>2, <3>1, <4>1, PromiseCreating
      <4> QED BY <2>1, <3>1, <4>1, <4>2, <4>3, CreateKeeps DEF RowInv
    <3> QED BY <3>2, <3>3
  <2> QED BY <1>1, <2>3, <2>4, <2>5, <2>6, StepCases
<1>2. CASE UNCHANGED <<request, me, rows, removed, raced>>
  BY <1>2 DEF RowInv, Racing, Twice, RowHeld, RemovedStaysOut, Creating, RowsOf, Subject, Kind
<1> QED BY <1>1, <1>2 DEF ApiNext, Die, vars, documentVars

-----------------------------------------------------------------------------
(***************************************************************************)
(* Assets.                                                                 *)
(***************************************************************************)
AssetRows == [place : Places, file : Request \cup {"old"}, uploaded : BOOLEAN]

\* A row is created after its file; a file whose row is still to come belongs to a
\* request that is about to create it, or that has failed.
Stored ==
    /\ \A id \in DOMAIN assets : assets[id] \in AssetRows /\ assets[id].file \in files
    /\ \A r \in Request : me[r].at = "insertAsset" => r \in files
    /\ \A r \in Request : r \in files =>
          \/ r \in DOMAIN assets
          \/ me[r].at = "insertAsset"
          \/ me[r].at \in {"done", "lost", "hanging"} /\ me[r].answer # 200

\* Other steps change neither the files nor which rows there are.
LEMMA FilesUnchanged ==
    ASSUME NEW r \in Request, Step(r)
    PROVE  StoreFile(r) \/ InsertAsset(r) \/ MarkUploaded(r) \/ (files' = files /\ assets' = assets)
BY DEF Step, AssetStep, FindUploaded, FindAsset, FindSource, Compare, FetchAsset, assetVars

LEMMA FileFacts ==
    ASSUME Control, NEW r \in Request, Step(r)
    PROVE  /\ files \subseteq files' /\ files' \subseteq files \cup {r}
           /\ DOMAIN assets \subseteq DOMAIN assets'
           /\ \A q \in Request \ {r} : me'[q] = me[q]
<1>1. files \subseteq files' /\ files' \subseteq files \cup {r}
  BY FilesUnchanged DEF StoreFile, InsertAsset, MarkUploaded
<1>2. DOMAIN assets \subseteq DOMAIN assets'
  BY FilesUnchanged DEF StoreFile, InsertAsset, MarkUploaded
<1>3. \A q \in Request \ {r} : me'[q] = me[q]
  <2>1. CASE SingleStep(r)
    BY <2>1, SingleMoves DEF Moves, Alone
  <2>2. CASE StartAdding(r)
    BY <2>2, AddingFacts DEF Control
  <2>3. ASSUME NEW i \in 1 .. MaxMembers, SelectMember(r, i) \/ InsertMember(r, i)
        PROVE  \A q \in Request \ {r} : me'[q] = me[q]
    <3>1. i \in DOMAIN me[r].todo /\ \E state : Promise(r, i, state)
      BY <2>3 DEF SelectMember, InsertMember, Pending
    <3> QED BY <3>1, PromiseFacts DEF Control
  <2> QED BY <2>1, <2>2, <2>3, StepCases
<1> QED BY <1>1, <1>2, <1>3

\* The row of every asset names a file.
LEMMA AssetRowsNext ==
    ASSUME Stored, NEW r \in Request, Step(r)
    PROVE  \A id \in DOMAIN assets' : assets'[id] \in AssetRows /\ assets'[id].file \in files'
<1>1. CASE StoreFile(r)
  BY <1>1 DEF StoreFile, Stored
<1>2. CASE InsertAsset(r)
  <2> DEFINE row == [place |-> "here", file |-> r, uploaded |-> Kind(r) # "upload"]
  <2>1. row \in AssetRows /\ row.file = r
    BY DEF AssetRows, Places
  <2> HIDE DEF row
  <2>2. /\ files' = files /\ r \in files
        /\ assets' = [id \in DOMAIN assets \cup {r} |-> IF id = r THEN row ELSE assets[id]]
    BY <1>2 DEF InsertAsset, At, Stored, row
  <2> QED BY <2>1, <2>2 DEF Stored
<1>3. CASE MarkUploaded(r)
  <2> SUFFICES ASSUME NEW id \in DOMAIN assets'
               PROVE  assets'[id] \in AssetRows /\ assets'[id].file \in files'
    OBVIOUS
  <2>1. /\ id \in DOMAIN assets /\ files' = files
        /\ assets'[id] \in {assets[id], [assets[id] EXCEPT !.uploaded = TRUE]}
    BY <1>3 DEF MarkUploaded
  <2>2. assets[id] \in AssetRows /\ assets[id].file \in files
    BY <2>1 DEF Stored
  <2>3. /\ [assets[id] EXCEPT !.uploaded = TRUE] \in AssetRows
        /\ [assets[id] EXCEPT !.uploaded = TRUE].file = assets[id].file
    BY <2>2 DEF AssetRows
  <2> QED BY <2>1, <2>2, <2>3
<1>4. CASE files' = files /\ assets' = assets
  BY <1>4 DEF Stored
<1> QED BY <1>1, <1>2, <1>3, <1>4, FilesUnchanged

\* What becomes of the file of the request that takes a step.
LEMMA OwnFileNext ==
    ASSUME Control, Stored, NEW r \in Request, Step(r)
    PROVE  /\ me'[r].at = "insertAsset" => r \in files'
           /\ r \in files' =>
                 \/ r \in DOMAIN assets'
                 \/ me'[r].at = "insertAsset"
                 \/ me'[r].at \in {"done", "lost", "hanging"} /\ me'[r].answer # 200
<1>1. CASE StoreFile(r)
  <2>1. me[r].at = "storeFile" /\ r \in files' /\ (Goto(r, NextStep(r)) \/ Answered(r, 500))
    BY <1>1 DEF StoreFile, At
  <2>2. Kind(r) \in Kinds /\ me[r].at \in StepSet(r) \ Ends
    BY <2>1 DEF Control, OnProgram, Outside, Ends
  <2> QED BY <2>1, <2>2, NextFacts, GotoFacts, AnsweredFacts DEF Control
<1>2. CASE InsertAsset(r)
  BY <1>2 DEF InsertAsset, At, Stored
<1>3. CASE SingleStep(r) /\ ~ StoreFile(r) /\ ~ InsertAsset(r)
  <2>1. Moves(r)
    BY <1>3, SingleMoves
  <2>2. files' = files /\ DOMAIN assets \subseteq DOMAIN assets'
    BY <1>3, FilesUnchanged, FileFacts DEF MarkUploaded
  <2>3. CASE Reject(r)
    <3>1. me[r].at # "done"
      BY <2>3 DEF Reject, Unfailing
    <3>2. me'[r].at \in {"done", "lost", "hanging"} /\ me'[r].answer # 200
      BY <2>3, <3>1, ThrowFacts DEF Reject, Control, Leaves
    <3> QED BY <3>2
  <2>4. CASE ~ Reject(r)
    <3>1. me[r].at \notin {"storeFile", "insertAsset"}
      BY <1>3, <2>4 DEF SingleStep, AssetStep, At, Admit, FindDocument, CheckPermission,
          LookupMembership, SaveMembership, DestroyMembership, FindOwn, SelectOwn, InsertOwn,
          AnswerAdd, ReadMembers, SaveDocument, InsertDocument, Read, Answer, FindUploaded,
          MarkUploaded, FindAsset, FindSource, Compare, FetchAsset
    <3>2. me'[r].at # "insertAsset"
      BY <2>1, <3>1, MoveFacts
    <3>3. r \in files => r \in DOMAIN assets
      BY <2>1, <3>1 DEF Stored, Moves
    <3> QED BY <2>2, <3>2, <3>3
  <2> QED BY <2>3, <2>4
<1>4. CASE StartAdding(r)
  <2>1. me[r].at = "adding" /\ me'[r].at = "awaiting"
    BY <1>4, AddingFacts DEF Control
  <2>2. files' = files /\ DOMAIN assets \subseteq DOMAIN assets'
    BY <1>4, <2>1, FilesUnchanged, FileFacts DEF MarkUploaded, StoreFile, InsertAsset, At
  <2> QED BY <2>1, <2>2 DEF Stored
<1>5. ASSUME NEW i \in 1 .. MaxMembers, SelectMember(r, i) \/ InsertMember(r, i),
             ~ StoreFile(r), ~ InsertAsset(r)
      PROVE  /\ me'[r].at = "insertAsset" => r \in files'
             /\ r \in files' =>
                   \/ r \in DOMAIN assets'
                   \/ me'[r].at = "insertAsset"
                   \/ me'[r].at \in {"done", "lost", "hanging"} /\ me'[r].answer # 200
  <2>1. i \in DOMAIN me[r].todo /\ \E state : Promise(r, i, state)
    BY <1>5 DEF SelectMember, InsertMember, Pending
  <2>2. me'[r].at = me[r].at /\ me'[r].answer = me[r].answer
    BY <2>1, PromiseFacts DEF Control, Fields
  <2>3. files' = files /\ DOMAIN assets \subseteq DOMAIN assets'
    BY <1>5, FilesUnchanged, FileFacts DEF MarkUploaded
  <2> QED BY <2>2, <2>3 DEF Stored
<1> QED BY <1>1, <1>2, <1>3, <1>4, <1>5, StepCases

LEMMA StoredNext == Control /\ Stored /\ [ApiNext]_vars => Stored'
<1> SUFFICES ASSUME Control, Stored, [ApiNext]_vars PROVE Stored'
  OBVIOUS
<1>1. ASSUME NEW r \in Request, Step(r) PROVE Stored'
  <2>1. \A id \in DOMAIN assets' : assets'[id] \in AssetRows /\ assets'[id].file \in files'
    BY <1>1, AssetRowsNext
  <2>2. ASSUME NEW q \in Request
        PROVE  /\ me'[q].at = "insertAsset" => q \in files'
               /\ q \in files' =>
                     \/ q \in DOMAIN assets'
                     \/ me'[q].at = "insertAsset"
                     \/ me'[q].at \in {"done", "lost", "hanging"} /\ me'[q].answer # 200
    <3>1. CASE q = r
      BY <1>1, <3>1, OwnFileNext
    <3>2. CASE q # r
      BY <1>1, <3>2, FileFacts DEF Stored
    <3> QED BY <3>1, <3>2
  <2> QED BY <2>1, <2>2 DEF Stored
<1>2. CASE UNCHANGED <<me, assets, files>>
  BY <1>2 DEF Stored
<1> QED BY <1>1, <1>2 DEF ApiNext, Die, vars, documentVars, assetVars

-----------------------------------------------------------------------------
(***************************************************************************)
(* The invariant, and what follows from it.                                *)
(***************************************************************************)
ApiInv == Control /\ DocumentThere /\ RowInv /\ Stored

LEMMA ApiInit == Init => ApiInv
<1> SUFFICES ASSUME Init PROVE ApiInv
  OBVIOUS
<1>1. PICK s \in Scenarios :
         request = s.request /\ document = s.document /\ rows = s.rows /\ assets = s.assets
  BY DEF Init
<1>2. /\ document \in Documents \cup {NoDocument}
      /\ document = NoDocument => DOMAIN rows = {}
      /\ \A id, other \in DOMAIN rows : id[3] = other[3] => id = other
      /\ \A id \in DOMAIN assets :
            assets[id] \in [place : Places, file : {"old"}, uploaded : BOOLEAN]
      /\ \A r \in Request : /\ request[r].visibility \in Visibilities
                            /\ DOMAIN request[r].members \subseteq 1 .. MaxMembers
  BY <1>1, ScenariosAssumption
<1>3. DOMAIN me = Request
  BY DEF Init
<1>4. ASSUME NEW r \in Request
      PROVE  /\ DOMAIN me[r] = Fields /\ me[r].todo = << >> /\ me[r].answer = 0
             /\ me[r].at = IF request[r].kind \in Kinds THEN "admit" ELSE "done"
  BY DEF Init, Fields
<1>5. DOMAIN << >> = {}
  OBVIOUS
<1>6. Control
  <2>1. RequestsOK
    BY <1>2 DEF RequestsOK
  <2>2. LocalsOK
    BY <1>3, <1>4, <1>5 DEF LocalsOK
  <2>3. OnProgram
    BY <1>4 DEF OnProgram, Kind, Outside
  <2> QED BY <2>1, <2>2, <2>3 DEF Control
<1>7. DocumentThere
  <2>1. document # NoDocument =>
           "visibility" \in DOMAIN document /\ document.visibility \in Visibilities
    BY <1>2 DEF Documents
  <2>2. ASSUME NEW r \in Request, PastFind(r) PROVE FALSE
    <3>1. WellFormed(Steps(r)) /\ me[r].at \in StepSet(r)
      BY <2>2, StepsWellFormed DEF PastFind
    <3>2. me[r].at \notin Outside
      BY <3>1 DEF WellFormed, StepSet
    <3> QED BY <1>4, <3>2 DEF Outside
  <2> QED BY <1>2, <1>4, <1>5, <2>1, <2>2 DEF DocumentThere
<1>8. RowInv
  <2>1. Twice
    BY <1>2 DEF Twice
  <2>2. Racing
    BY <1>4, <1>5 DEF Racing, Creating
  <2>3. RowHeld
    BY <1>4 DEF RowHeld, MembershipWrites
  <2>4. RemovedStaysOut
    BY DEF Init, RemovedStaysOut
  <2> QED BY <2>1, <2>2, <2>3, <2>4 DEF RowInv
<1>9. Stored
  <2>1. files = {assets[id].file : id \in DOMAIN assets}
    BY DEF Init
  <2>2. ASSUME NEW id \in DOMAIN assets
        PROVE  assets[id] \in AssetRows /\ assets[id].file = "old"
    BY <1>2 DEF AssetRows
  <2>3. files \subseteq {"old"} /\ \A r \in Request : r \notin files
    BY <2>1, <2>2, ScenariosAssumption
  <2> QED BY <1>4, <2>1, <2>2, <2>3 DEF Stored
<1> QED BY <1>6, <1>7, <1>8, <1>9 DEF ApiInv

\* What the theorems below follow from: every request stands at a step of its
\* handler, the document of a request that has found it exists, whoever creates a
\* second row of a user has raced, and a row of an asset follows its file.
THEOREM ApiInvariant == Spec => []ApiInv
<1>1. ApiInv /\ [ApiNext]_vars => ApiInv'
  BY ControlNext, DocumentNext, RowNext, StoredNext DEF ApiInv
<1> QED BY <1>1, ApiInit, PTL DEF Spec

\* Document_memberships has no unique index: a user gets two rows only from two
\* requests that both found none (Document/Controller.ts, findOrCreate and
\* findCreateFind), however many requests there are, in whichever processes.
THEOREM DuplicatesAreRaces == Spec => []DuplicatesOnlyFromRaces
<1>1. ApiInv => DuplicatesOnlyFromRaces
  <2> SUFFICES ASSUME ApiInv, NEW user \in User, Cardinality(RowsOf(user)) > 1
               PROVE  user \in raced
    BY DEF DuplicatesOnlyFromRaces
  <2>1. CASE RowsOf(user) = {}
    BY <2>1, FS_EmptySet
  <2>2. CASE RowsOf(user) # {}
    <3>1. PICK id : id \in RowsOf(user)
      BY <2>2
    <3>2. RowsOf(user) # {id}
      <4>1. Cardinality({id}) = 1
        BY FS_Singleton
      <4> QED BY <4>1
    <3>3. PICK other \in RowsOf(user) : other # id
      BY <3>1, <3>2
    <3> QED BY <3>1, <3>3 DEF ApiInv, RowInv, Twice, RowsOf
  <2> QED BY <2>1, <2>2
<1> QED BY <1>1, ApiInvariant, PTL

\* A request that still holds a row which RemoveFromMemberships has destroyed does
\* not bring it back: membership.save() is an UPDATE.
THEOREM RemovedMembersStayOut == Spec => []RemovedStaysOut
<1>1. ApiInv => RemovedStaysOut
  BY DEF ApiInv, RowInv
<1> QED BY <1>1, ApiInvariant, PTL

\* An asset of the database is a file assets-api knows, and an upload or a copy that
\* was answered has its row (RequestUpload and copyAsset, Asset/Controller.ts).
THEOREM AssetsAndFilesAgree == Spec => []AssetsAgree
<1>1. ApiInv => AssetsAgree
  <2> SUFFICES ASSUME ApiInv PROVE AssetsAgree
    OBVIOUS
  <2>1. \A id \in DOMAIN assets : assets[id].file \in files
    BY DEF ApiInv, Stored
  <2>2. ASSUME NEW r \in Request, me[r].answer = 200, r \in files PROVE r \in DOMAIN assets
    BY <2>2 DEF ApiInv, Stored, Control, LocalsOK
  <2> QED BY <2>1, <2>2 DEF AssetsAgree
<1> QED BY <1>1, ApiInvariant, PTL

-----------------------------------------------------------------------------
(***************************************************************************)
(* Permissions.                                                            *)
(***************************************************************************)
LEMMA SaidFacts ==
    ASSUME NEW said \in Said
    PROVE  /\ Readable(said)
           /\ ExternalPermission(said).allow \in BOOLEAN
           /\ ExternalPermission(said).force \in BOOLEAN
           /\ said \notin Entry =>
                 ExternalPermission(said) = [allow |-> FALSE, force |-> FALSE]
<1>1. CASE said \in Entry
  <2>1. PICK a \in BOOLEAN, f \in BOOLEAN :
           said = [about |-> "action", permission |-> [allow |-> a, force |-> f]]
    BY <1>1 DEF Entry, Saying, Permission
  <2>2. said.about = "action" /\ said.permission.allow = a /\ said.permission.force = f
    BY <2>1
  <2>3. NoDocumentEntry.about = "other documents" /\ NoAnswer.about = "nothing"
    BY DEF NoDocumentEntry, NoAnswer, Saying
  <2> QED BY <1>1, <2>2, <2>3 DEF Readable, ExternalPermission
<1>2. CASE said \notin Entry
  <2>1. said = NoAction
    BY <1>2 DEF Said
  <2>2. /\ NoAction.about = "document"
        /\ NoDocumentEntry.about = "other documents" /\ NoAnswer.about = "nothing"
    BY DEF NoAction, NoDocumentEntry, NoAnswer, Saying
  <2>3. Readable(said)
    BY <2>1, <2>2 DEF Readable
  <2>4. ExternalPermission(said) = [allow |-> FALSE, force |-> FALSE]
    BY <1>2 DEF ExternalPermission, Permission
  <2> QED BY <2>3, <2>4
<1> QED BY <1>1, <1>2

\* An answer that is none, or not about the document, is refused by every check.
LEMMA AnswerFacts ==
    ASSUME NEW said \in Answers
    PROVE  Readable(said) <=> said \in Said
<1>1. said \in Said => Readable(said)
  BY SaidFacts
<1>2. said \notin Said => ~ Readable(said)
  BY DEF Answers, Readable
<1> QED BY <1>1, <1>2

\* hasJoinPermissionForDocument walks a list of one answer.
LEMMA AccumulatedOne ==
    ASSUME NEW said
    PROVE  Accumulated(<<said>>) = ExternalPermission(said)
<1> DEFINE answers == <<said>>
           ends == {i \in DOMAIN answers :
                       ExternalPermission(answers[i]).force \/ answers[i] \notin Entry}
<1>1. DOMAIN answers = {1} /\ answers[1] = said
  OBVIOUS
<1> HIDE DEF answers
<1>2. CASE ends = {}
  <2>1. ~ ExternalPermission(said).force /\ said \in Entry
    BY <1>1, <1>2
  <2>2. Accumulated(answers) =
           Permission(\A i \in DOMAIN answers : ExternalPermission(answers[i]).allow, FALSE)
    BY <1>2 DEF Accumulated
  <2>3. PICK a \in BOOLEAN, f \in BOOLEAN :
           said = [about |-> "action", permission |-> [allow |-> a, force |-> f]]
    BY <2>1 DEF Entry, Saying, Permission
  <2>4. ExternalPermission(said) = [allow |-> a, force |-> f]
    BY <2>1, <2>3 DEF ExternalPermission
  <2>5. (\A i \in DOMAIN answers : ExternalPermission(answers[i]).allow) <=> a
    BY <1>1, <2>4
  <2>6. f = FALSE
    BY <2>1, <2>4
  <2> QED BY <2>2, <2>4, <2>5, <2>6 DEF Permission, answers
<1>3. CASE ends # {}
  <2>1. ends = {1}
    BY <1>1, <1>3
  <2>2. Accumulated(answers) =
           ExternalPermission(answers[CHOOSE i \in ends : \A j \in ends : i <= j])
    BY <1>3 DEF Accumulated
  <2> HIDE DEF ends
  <2>3. (CHOOSE i \in ends : \A j \in ends : i <= j) = 1
    BY <2>1
  <2> QED BY <1>1, <2>2, <2>3 DEF answers
<1> QED BY <1>2, <1>3

LEMMA UnreadableRefused ==
    ASSUME NEW said, ~ Readable(said), NEW action, NEW grant, NEW visibility
    PROVE  /\ Verdict(action, said, grant, visibility) # Granted
           /\ JoinVerdict(said, visibility) # Granted
<1>1. Granted # External
  BY DEF Granted, External
<1>2. said \notin Entry
  <2>1. \A entry \in Entry : entry.about = "action"
    BY DEF Entry, Saying
  <2>2. said = NoDocumentEntry \/ said = NoAnswer
    BY DEF Readable
  <2>3. NoDocumentEntry.about # "action" /\ NoAnswer.about # "action"
    BY DEF NoDocumentEntry, NoAnswer, Saying
  <2> QED BY <2>1, <2>2, <2>3
<1>3. ExternalPermission(said) = Permission(FALSE, FALSE)
  BY <1>2 DEF ExternalPermission
<1>4. ~ ExternalPermission(said).force /\ ~ ExternalPermission(said).allow
  BY <1>3 DEF Permission
<1>5. Forced(ExternalPermission(said)) = External
  BY <1>4 DEF Forced
<1>6. Verdict(action, said, grant, visibility) = External
  BY <1>4, <1>5 DEF Verdict
<1>7. JoinVerdict(said, visibility) = External
  <2>1. Accumulated(<<said>>) = ExternalPermission(said)
    BY <1>2, <1>3, AccumulatedOne
  <2> QED BY <1>4, <2>1 DEF JoinVerdict
<1> QED BY <1>1, <1>6, <1>7

\* hasPermissionForDocument grants what permissionForAction tells.
LEMMA ToldIsVerdict ==
    ASSUME NEW said \in Said, NEW action, NEW grant, NEW visibility
    PROVE  Told(action, said, grant, visibility).allow
               <=> Verdict(action, said, grant, visibility) = Granted
<1> DEFINE external == ExternalPermission(said)
           rule == Rule(action, grant, visibility, external.allow)
<1>1. Readable(said) /\ external.allow \in BOOLEAN /\ external.force \in BOOLEAN
  BY SaidFacts
<1>2. Granted # External
  BY DEF Granted, External
<1>3. CASE external.force \/ ~ HasRule(action)
  <2>1. Told(action, said, grant, visibility) = external
    BY <1>3 DEF Told
  <2>2. Verdict(action, said, grant, visibility) = Forced(external)
    BY <1>1, <1>3 DEF Verdict
  <2>3. CASE external.allow
    <3>1. Forced(external) = Granted
      BY <2>3 DEF Forced
    <3> QED BY <2>1, <2>2, <2>3, <3>1
  <2>4. CASE ~ external.allow
    <3>1. Forced(external) = External
      BY <2>4 DEF Forced
    <3> QED BY <1>2, <2>1, <2>2, <2>4, <3>1
  <2> QED BY <2>3, <2>4
<1>4. CASE ~ (external.force \/ ~ HasRule(action))
  <2>1. Told(action, said, grant, visibility) = Permission(rule = Granted, FALSE)
    BY <1>4 DEF Told
  <2>2. Verdict(action, said, grant, visibility) = rule
    BY <1>1, <1>4 DEF Verdict
  <2>3. CASE rule = Granted
    <3>1. Permission(rule = Granted, FALSE).allow
      BY <2>3 DEF Permission
    <3> QED BY <2>1, <2>2, <2>3, <3>1
  <2>4. CASE rule # Granted
    <3>1. ~ Permission(rule = Granted, FALSE).allow
      BY <2>4 DEF Permission
    <3> QED BY <2>1, <2>2, <2>4, <3>1
  <2> QED BY <2>3, <2>4
<1> QED BY <1>3, <1>4

LEMMA ToldIsJoin ==
    ASSUME NEW said \in Said, NEW grant, NEW visibility
    PROVE  Told("join", said, grant, visibility).allow <=> JoinVerdict(said, visibility) = Granted
<1>1. HasRule("join")
  BY DEF HasRule
<1>2. Verdict("join", said, grant, visibility) = JoinVerdict(said, visibility)
  BY <1>1, AccumulatedOne DEF Verdict, JoinVerdict, Rule
<1> QED BY <1>2, ToldIsVerdict

LEMMA ToldIsSubmit ==
    ASSUME NEW said, NEW grant, NEW visibility, ~ ExternalPermission(said).force
    PROVE  Told("change", said, grant, visibility).allow <=> SubmitVerdict(grant) = Granted
<1>1. Told("change", said, grant, visibility).allow <=>
          MemberRule("change", grant, ExternalPermission(said).allow) = Granted
  BY DEF Told, HasRule, EditorsOnly, Rule, Permission
<1>2. MemberRule("change", grant, ExternalPermission(said).allow) = SubmitVerdict(grant)
  BY DEF MemberRule, SubmitVerdict, EditorsIfAllowed, MembersIfAllowed
<1> QED BY <1>1, <1>2

\* What a client is told it may do is what the checks of the handlers and of the
\* mentions grant, for every answer of index-api that has the document, grant and
\* visibility; if it lacks the document, or there is none, the checks refuse all
\* (services/permissions/Service.ts).
THEOREM ToldPermissionsAreEnforced == Spec => []ToldIsEnforced
<1>1. ASSUME NEW said \in Answers, NEW action, NEW grant, NEW visibility
      PROVE  /\ Readable(said) /\ Told(action, said, grant, visibility).allow
                    <=> Verdict(action, said, grant, visibility) = Granted
             /\ Readable(said) /\ Told("join", said, grant, visibility).allow
                    <=> JoinVerdict(said, visibility) = Granted
  <2>1. CASE Readable(said)
    BY <2>1, AnswerFacts, ToldIsVerdict, ToldIsJoin
  <2>2. CASE ~ Readable(said)
    BY <2>2, UnreadableRefused
  <2> QED BY <2>1, <2>2
<1>2. ToldIsEnforced
  <2> SUFFICES ASSUME NEW user \in User, NEW grant \in GrantsFound(user), NEW said \in Answers
               PROVE  LET visibility == document.visibility
                          May(action, answer) == Told(action, answer, grant, visibility).allow
                          Sure(action, answer) == Readable(answer) /\ May(action, answer)
                      IN  /\ \A action \in Actions :
                                Sure(action, said)
                                    <=> Verdict(action, said, grant, visibility) = Granted
                          /\ Sure("join", said) <=> JoinVerdict(said, visibility) = Granted
                          /\ \A joining \in Answers :
                                MayBeMentioned(said, joining, grant, visibility)
                                    <=> Sure("view", said) \/ Sure("join", joining)
                          /\ said # NoAnswer /\ ~ExternalPermission(said).force =>
                                (May("change", said) <=> SubmitVerdict(grant) = Granted)
    BY DEF ToldIsEnforced
  <2> QED BY <1>1, ToldIsSubmit DEF MayBeMentioned
<1> QED BY <1>2, PTL

-----------------------------------------------------------------------------
(***************************************************************************)
(* What a request may change of a membership, and what an answer says of   *)
(* the members it added, for any requests in any processes.                *)
(***************************************************************************)
(***************************************************************************)
(* A request has not created a row before the step that does.              *)
(***************************************************************************)
Inserts(r) == Kind(r) \in Kinds /\ "insert" \in StepSet(r)
Early == {"admit", "insert"} \cup BeforeRow
Adding == {"awaiting", "done", "lost", "hanging"}

OwnRows ==
    /\ \A r \in Request : DOMAIN me[r].todo # {} => me[r].at \in Adding
    /\ \A r \in Request, id \in DOMAIN rows :
          id[1] = r /\ id[2] # 0 => id[2] \in DOMAIN me[r].todo /\ me[r].todo[id[2]] = "added"
    /\ \A r \in Request, id \in DOMAIN rows :
          id[1] = r /\ id[2] = 0 /\ Inserts(r) => me[r].at \notin Early

\* Nobody gets back to a step before the insertion.
LEMMA EarlyFacts ==
    ASSUME Control, NEW r \in Request, Moves(r), Inserts(r), me'[r].at \in Early
    PROVE  me[r].at \in Early \ {"insert"}
<1> DEFINE s == Steps(r)
<1>1. Kind(r) \in Kinds /\ me[r].at \in Outside \cup {"fetch"} \cup StepSet(r)
  BY DEF Control, OnProgram, Moves
<1>2. WellFormed(s)
  BY <1>1, StepsWellFormed
<1>3. PICK k \in 1 .. Len(s) : s[k] = "insert"
  BY DEF Inserts, StepSet
<1> HIDE DEF s
<1>4. ~ Leaves(r) /\ ~ Jumps(r)
  BY DEF Leaves, Jumps, Early, BeforeRow
<1>5. CASE Enters(r)
  BY <1>5 DEF Enters, Early
<1>6. CASE Advances(r)
  <2>1. PICK i \in 1 .. Len(s) : s[i] = me[r].at
    BY <1>6 DEF Advances, StepSet, s
  <2>2. i < Len(s) /\ i + 1 \in 1 .. Len(s)
    BY <1>2, <1>6, <2>1 DEF WellFormed, Advances
  <2>3. (CHOOSE n \in DOMAIN s : s[n] = me[r].at) = i
    BY <1>2, <2>1 DEF WellFormed
  <2>4. NextStep(r) = s[1 + CHOOSE n \in DOMAIN s : s[n] = me[r].at]
    BY Zenon DEF NextStep, s
  <2>5. 1 + i = i + 1
    BY <2>2
  <2>6. me'[r].at = s[i + 1]
    BY <1>6, <2>3, <2>4, <2>5, Zenon DEF Advances
  <2>7. s[i + 1] \notin Outside
    BY <1>2, <2>2 DEF WellFormed
  <2>8. s[i + 1] \in BeforeRow \cup {"insert"}
    BY <2>6, <2>7 DEF Early, Outside
  <2>9. s[i] \in BeforeRow
    BY <1>2, <1>3, <2>2, <2>8 DEF WellFormed
  <2> QED BY <2>1, <2>9 DEF Early, BeforeRow
<1> QED BY <1>4, <1>5, <1>6 DEF Moves

\* The row that a request is about to create is not there yet.
LEMMA NewRow ==
    ASSUME Control, OwnRows, NEW r \in Request, NEW i \in 0 .. MaxMembers, NEW user,
           Creating(r, i, user)
    PROVE  <<r, i, user>> \notin DOMAIN rows
<1> DEFINE id == <<r, i, user>>
<1>1. CASE i = 0
  <2>1. me[r].at = "insert"
    BY <1>1 DEF Creating
  <2>2. Inserts(r)
    BY <2>1 DEF Control, OnProgram, Inserts, Outside
  <2> QED BY <1>1, <2>1, <2>2 DEF OwnRows, Early
<1>2. CASE i # 0
  <2>1. me[r].todo[i] = "insert"
    BY <1>2 DEF Creating
  <2> QED BY <1>2, <2>1 DEF OwnRows
<1> QED BY <1>1, <1>2

\* Which rows there are after a step.
LEMMA RowsAfter ==
    ASSUME Control, NEW r \in Request, Step(r)
    PROVE  \/ DOMAIN rows' \subseteq DOMAIN rows
           \/ /\ InsertOwn(r) \/ InsertDocument(r)
              /\ DOMAIN rows' = DOMAIN rows \cup {<<r, 0, request[r].user>>}
           \/ \E i \in 1 .. MaxMembers :
                 /\ InsertMember(r, i) /\ Promise(r, i, "added")
                 /\ DOMAIN rows' = DOMAIN rows \cup {<<r, i, request[r].members[i]>>}
<1>1. CASE InsertOwn(r)
  BY <1>1 DEF InsertOwn, Create
<1>2. CASE InsertDocument(r)
  BY <1>2 DEF InsertDocument, Create
<1>3. CASE DestroyMembership(r)
  BY <1>3 DEF DestroyMembership
<1>4. ASSUME NEW i \in 1 .. MaxMembers, InsertMember(r, i)
      PROVE  \/ DOMAIN rows' \subseteq DOMAIN rows
             \/ /\ Promise(r, i, "added")
                /\ DOMAIN rows' = DOMAIN rows \cup {<<r, i, request[r].members[i]>>}
  BY <1>4 DEF InsertMember, Create
<1> QED BY <1>1, <1>2, <1>3, <1>4, RowsCases

LEMMA OwnRowsNext == Control /\ OwnRows /\ [ApiNext]_vars => OwnRows'
<1> SUFFICES ASSUME Control, OwnRows, [ApiNext]_vars PROVE OwnRows'
  OBVIOUS
<1>1. ASSUME NEW r \in Request, Step(r) PROVE OwnRows'
  <2>1. \A q \in Request : Inserts(q)' = Inserts(q)
    BY <1>1, StepCases DEF Inserts, StepSet, Steps, Program, Kind
  <2>2. \A q \in Request \ {r} : me'[q] = me[q]
    BY <1>1, FileFacts
  <2>3. CASE SingleStep(r)
    <3>1. Moves(r)
      BY <2>3, SingleMoves
    <3>2. me'[r].todo = me[r].todo
      BY <3>1 DEF Moves, Alone
    <3>3. DOMAIN me[r].todo # {} => me'[r].at \in Adding
      <4>1. DOMAIN me[r].todo # {} => me[r].at = "awaiting"
        BY <3>1 DEF Moves, OwnRows, Adding
      <4>2. WellFormed(Steps(r))
        BY <3>1, StepsWellFormed DEF Control, OnProgram, Moves
      <4>3. "awaiting" \notin StepSet(r)
        BY <4>2 DEF WellFormed, StepSet, Outside
      <4> QED BY <3>1, <4>1, <4>3 DEF Moves, Leaves, Enters, Advances, Jumps, Adding
    <3>4. \/ DOMAIN rows' \subseteq DOMAIN rows
          \/ /\ InsertOwn(r) \/ InsertDocument(r)
             /\ DOMAIN rows' = DOMAIN rows \cup {<<r, 0, request[r].user>>}
          \/ \E i \in 1 .. MaxMembers : i \in DOMAIN me[r].todo /\ Promise(r, i, "added")
                                        /\ me[r].todo[i] = "insert"
      BY <1>1, RowsAfter DEF InsertMember, Pending
    <3>5. ~ \E i \in 1 .. MaxMembers : i \in DOMAIN me[r].todo /\ Promise(r, i, "added")
                                       /\ me[r].todo[i] = "insert"
      BY <3>2, PromiseFacts DEF Control
    <3>6. Inserts(r) /\ me'[r].at \in Early => me[r].at \in Early \ {"insert"}
      BY <3>1, EarlyFacts
    <3>7. Inserts(r) /\ me'[r].at \in Early => DOMAIN rows' \subseteq DOMAIN rows
      BY <3>4, <3>5, <3>6 DEF InsertOwn, InsertDocument, At, Early, BeforeRow
    <3>8. \A q \in Request, id \in DOMAIN rows' :
             id[1] = q /\ id[2] = 0 /\ Inserts(q) => me'[q].at \notin Early
      <4> SUFFICES ASSUME NEW q \in Request, NEW id \in DOMAIN rows',
                          id[1] = q, id[2] = 0, Inserts(q), me'[q].at \in Early
                   PROVE  FALSE
        OBVIOUS
      <4>1. CASE q = r
        <5>1. id \in DOMAIN rows /\ me[q].at \in Early
          BY <3>6, <3>7, <4>1
        <5> QED BY <5>1 DEF OwnRows
      <4>2. CASE q # r
        <5>1. id \in DOMAIN rows
          BY <3>4, <3>5, <4>2
        <5> QED BY <2>2, <4>2, <5>1 DEF OwnRows
      <4> QED BY <4>1, <4>2
    <3>9. \A q \in Request, id \in DOMAIN rows' :
             id[1] = q /\ id[2] # 0 => id[2] \in DOMAIN me'[q].todo /\ me'[q].todo[id[2]] = "added"
      BY <2>2, <3>2, <3>4, <3>5 DEF OwnRows
    <3> QED BY <2>1, <2>2, <3>2, <3>3, <3>8, <3>9 DEF OwnRows
  <2>4. CASE StartAdding(r)
    <3>1. me[r].at = "adding" /\ me'[r].at = "awaiting"
      BY <2>4, AddingFacts DEF Control
    <3>2. rows' = rows
      BY <2>4 DEF StartAdding
    <3>3. DOMAIN me[r].todo = {}
      BY <3>1 DEF OwnRows, Adding
    <3> QED BY <2>1, <2>2, <3>1, <3>2, <3>3 DEF OwnRows, Adding, Early, BeforeRow
  <2>5. ASSUME NEW i \in 1 .. MaxMembers, SelectMember(r, i) \/ InsertMember(r, i) PROVE OwnRows'
    <3>1. /\ i \in DOMAIN me[r].todo /\ me[r].todo[i] \in {"select", "insert"}
          /\ \E state : Promise(r, i, state)
      BY <2>5 DEF SelectMember, InsertMember, Pending
    <3>2. /\ me'[r].at = me[r].at /\ DOMAIN me'[r].todo = DOMAIN me[r].todo
          /\ \A j \in DOMAIN me[r].todo : j # i => me'[r].todo[j] = me[r].todo[j]
      BY <3>1, PromiseFacts DEF Control, Fields
    <3>3. \/ DOMAIN rows' \subseteq DOMAIN rows
          \/ /\ me'[r].todo[i] = "added"
             /\ \E user : DOMAIN rows' = DOMAIN rows \cup {<<r, i, user>>}
      <4>1. CASE SelectMember(r, i)
        BY <4>1 DEF SelectMember
      <4>2. CASE InsertMember(r, i) /\ rows' = rows
        BY <4>2
      <4>3. CASE InsertMember(r, i) /\ rows' # rows
        <5>1. /\ Promise(r, i, "added")
              /\ DOMAIN rows' = DOMAIN rows \cup {<<r, i, request[r].members[i]>>}
          BY <4>3 DEF InsertMember, Create
        <5>2. me'[r].todo[i] = "added"
          BY <3>1, <5>1, PromiseFacts DEF Control
        <5> QED BY <5>1, <5>2
      <4> QED BY <2>5, <4>1, <4>2, <4>3
    <3>4. i # 0
      OBVIOUS
    <3>5. \A q \in Request, id \in DOMAIN rows' :
             id[1] = q /\ id[2] # 0 => id[2] \in DOMAIN me'[q].todo /\ me'[q].todo[id[2]] = "added"
      <4> SUFFICES ASSUME NEW q \in Request, NEW id \in DOMAIN rows', id[1] = q, id[2] # 0
                   PROVE  id[2] \in DOMAIN me'[q].todo /\ me'[q].todo[id[2]] = "added"
        OBVIOUS
      <4>1. CASE id \in DOMAIN rows
        <5>1. id[2] \in DOMAIN me[q].todo /\ me[q].todo[id[2]] = "added"
          BY <4>1 DEF OwnRows
        <5> QED BY <2>2, <3>1, <3>2, <5>1
      <4>2. CASE id \notin DOMAIN rows
        <5>1. PICK user : id = <<r, i, user>> /\ me'[r].todo[i] = "added"
          BY <3>3, <4>2
        <5>2. q = r /\ id[2] = i
          BY <5>1
        <5> QED BY <3>1, <3>2, <5>1, <5>2
      <4> QED BY <4>1, <4>2
    <3>6. \A q \in Request, id \in DOMAIN rows' :
             id[1] = q /\ id[2] = 0 /\ Inserts(q) => me'[q].at \notin Early
      <4> SUFFICES ASSUME NEW q \in Request, NEW id \in DOMAIN rows',
                          id[1] = q, id[2] = 0, Inserts(q)
                   PROVE  me'[q].at \notin Early
        OBVIOUS
      <4>1. id \in DOMAIN rows
        <5>1. \A user : <<r, i, user>>[2] = i
          OBVIOUS
        <5> QED BY <3>3, <3>4, <5>1
      <4>2. me[q].at \notin Early
        BY <4>1 DEF OwnRows
      <4> QED BY <2>2, <3>2, <4>2
    <3> QED BY <2>1, <2>2, <3>2, <3>5, <3>6 DEF OwnRows
  <2> QED BY <1>1, <2>3, <2>4, <2>5, StepCases
<1>2. CASE UNCHANGED <<request, me, rows>>
  BY <1>2 DEF OwnRows, Inserts, StepSet, Steps, Program, Kind
<1> QED BY <1>1, <1>2 DEF ApiNext, Die, vars, documentVars

-----------------------------------------------------------------------------
(***************************************************************************)
(* The columns of a row.                                                   *)
(***************************************************************************)
AskedColumns ==
    \A id \in DOMAIN rows \cap DOMAIN rows' :
        \A column \in DOMAIN rows[id] :
            rows'[id][column] # rows[id][column] =>
                \E r \in Request :
                    /\ At(r, "saveMembership")
                    /\ column \in DOMAIN Wanted(r)
                    /\ id[3] = Subject(r)

\* Creating a row leaves those there are alone.
LEMMA CreateAlters ==
    ASSUME Control, OwnRows, NEW r \in Request, NEW i \in 0 .. MaxMembers, NEW user, NEW columns,
           Creating(r, i, user), Create(r, i, user, columns)
    PROVE  \A id \in DOMAIN rows : rows'[id] = rows[id]
<1>1. <<r, i, user>> \notin DOMAIN rows
  BY NewRow
<1> QED BY <1>1 DEF Create

LEMMA ColumnsNext ==
    Control /\ DocumentThere /\ RowHeld /\ OwnRows /\ [ApiNext]_vars => AskedColumns
<1> SUFFICES ASSUME Control, DocumentThere, RowHeld, OwnRows, [ApiNext]_vars PROVE AskedColumns
  OBVIOUS
<1>1. ASSUME \A id \in DOMAIN rows \cap DOMAIN rows' : rows'[id] = rows[id] PROVE AskedColumns
  BY <1>1 DEF AskedColumns
<1>2. ASSUME NEW r \in Request, Step(r) PROVE AskedColumns
  <2>1. CASE SaveMembership(r)
    <3> DEFINE row == me[r].row
               changed == Changed(row.columns, Wanted(r))
    <3>1. /\ At(r, "saveMembership")
          /\ rows' = [id \in DOMAIN rows |->
                         IF id = row.id THEN Override(rows[id], changed) ELSE rows[id]]
      BY <2>1 DEF SaveMembership
    <3>2. row.id[3] = Subject(r)
      BY <3>1 DEF RowHeld, At, MembershipWrites
    <3>3. DOMAIN changed \subseteq DOMAIN Wanted(r)
      BY DEF Changed
    <3> HIDE DEF row, changed
    <3>4. SUFFICES ASSUME NEW id \in DOMAIN rows, NEW column \in DOMAIN rows[id],
                          rows'[id][column] # rows[id][column]
                   PROVE  column \in DOMAIN Wanted(r) /\ id[3] = Subject(r)
      BY <3>1 DEF AskedColumns
    <3>5. id = row.id /\ rows'[id] = Override(rows[id], changed)
      BY <3>1, <3>4
    <3>6. column \in DOMAIN changed
      BY <3>4, <3>5 DEF Override
    <3> QED BY <3>2, <3>3, <3>5, <3>6
  <2>2. CASE InsertOwn(r)
    <3>1. Creating(r, 0, request[r].user)
      BY <2>2 DEF InsertOwn, At, Creating
    <3>2. Create(r, 0, request[r].user, NewColumns(me[r].doc.permissions, "unset"))
      BY <2>2 DEF InsertOwn
    <3> QED BY <1>1, <3>1, <3>2, CreateAlters, MembersAssumption
  <2>3. CASE InsertDocument(r)
    <3>1. DOMAIN rows = {}
      BY <2>3 DEF InsertDocument, DocumentThere
    <3> QED BY <3>1 DEF AskedColumns
  <2>4. ASSUME NEW i \in 1 .. MaxMembers, InsertMember(r, i) PROVE AskedColumns
    <3>1. i \in 0 .. MaxMembers /\ i # 0
      BY MembersAssumption
    <3>2. Creating(r, i, request[r].members[i])
      BY <2>4, <3>1 DEF InsertMember, Pending, Creating
    <3>3. \/ rows' = rows
          \/ Create(r, i, request[r].members[i], NewColumns(request[r].grant, "unset"))
      BY <2>4 DEF InsertMember
    <3> QED BY <1>1, <3>1, <3>2, <3>3, CreateAlters
  <2>5. CASE DestroyMembership(r)
    BY <1>1, <2>5 DEF DestroyMembership
  <2>6. CASE rows' = rows
    BY <1>1, <2>6
  <2>7. \/ SaveMembership(r) \/ InsertOwn(r) \/ InsertDocument(r) \/ DestroyMembership(r)
        \/ \E i \in 1 .. MaxMembers : InsertMember(r, i)
        \/ rows' = rows
    BY <1>2 DEF Step, RequestStep, AssetStep, Admit, FindDocument, CheckPermission,
        LookupMembership, FindOwn, SelectOwn, StartAdding, SelectMember, AnswerAdd, ReadMembers,
        SaveDocument, Read, Answer, Reject, FindUploaded, StoreFile, InsertAsset, MarkUploaded,
        FindAsset, FindSource, Compare, FetchAsset
  <2> QED BY <2>1, <2>2, <2>3, <2>4, <2>5, <2>6, <2>7
<1>3. CASE rows' = rows
  BY <1>1, <1>3
<1> QED BY <1>2, <1>3 DEF ApiNext, Die, vars, documentVars

LEMMA OwnRowsInit == Init => OwnRows
<1> SUFFICES ASSUME Init PROVE OwnRows
  OBVIOUS
<1>1. PICK s \in Scenarios : rows = s.rows
  BY DEF Init
<1>2. \A id \in DOMAIN rows : id[1] \notin Request
  BY <1>1, ScenariosAssumption
<1>3. \A r \in Request : me[r].todo = << >>
  BY DEF Init
<1>4. DOMAIN << >> = {}
  OBVIOUS
<1> QED BY <1>2, <1>3, <1>4 DEF OwnRows

\* A save writes the columns its request is about, of a row of whom it is about,
\* however old the instance it holds is (membership.save() and autoSubscribe).
THEOREM SavesOnlyWhatWasAsked == Spec => OnlyAskedColumns
<1>1. Spec => []OwnRows
  <2>1. Spec => [](Control /\ DocumentThere)
    <3>1. ApiInv => Control /\ DocumentThere
      BY DEF ApiInv
    <3> QED BY <3>1, ApiInvariant, PTL
  <2>2. (Control /\ DocumentThere) /\ OwnRows /\ [ApiNext]_vars => OwnRows'
    BY OwnRowsNext
  <2> QED BY <2>1, <2>2, OwnRowsInit, PTL DEF Spec
<1>2. ApiInv /\ OwnRows /\ [ApiNext]_vars => [AskedColumns]_rows
  BY ColumnsNext DEF ApiInv, RowInv
<1>3. Spec => [][AskedColumns]_rows
  BY <1>1, <1>2, ApiInvariant, PTL DEF Spec
<1> QED BY <1>3 DEF AskedColumns, OnlyAskedColumns

-----------------------------------------------------------------------------
(***************************************************************************)
(* Members that were added.                                                *)
(***************************************************************************)
HasAdded(r) ==
    /\ DOMAIN me[r].todo = DOMAIN request[r].members
    /\ \A i \in DOMAIN me[r].todo :
          /\ me[r].todo[i] \in Settled
          /\ me[r].todo[i] = "added" => Event("participantAdded", request[r].members[i]) \in outbox

Accounted ==
    \A r \in Request : \A i \in DOMAIN me[r].todo :
        me[r].todo[i] \in {"added", "found"} =>
            RowsOf(request[r].members[i]) # {} \/ request[r].members[i] \in removed

AddingOK ==
    /\ \A r \in Request : me[r].at = "awaiting" => DOMAIN me[r].todo = DOMAIN request[r].members
    /\ \A r \in Request : Kind(r) = "add" =>
          /\ me[r].at \in {"admit", "find", "check", "adding"} \cup Adding
          /\ me[r].answer = 200 => HasAdded(r)

\* Who has a row keeps it or counts as removed.
LEMMA RowsKept ==
    ASSUME Control, RowHeld, NEW r \in Request, Step(r),
           NEW user, RowsOf(user) # {} \/ user \in removed
    PROVE  RowsOf(user)' # {} \/ user \in removed'
<1>1. CASE DestroyMembership(r)
  <2> DEFINE gone == me[r].row.id
  <2>1. /\ DOMAIN rows' = DOMAIN rows \ {gone}
        /\ removed' = IF gone \in DOMAIN rows THEN removed \cup {Subject(r)} ELSE removed
        /\ gone[3] = Subject(r)
    BY <1>1 DEF DestroyMembership, At, RowHeld, MembershipWrites
  <2> HIDE DEF gone
  <2>2. CASE gone \in RowsOf(user)
    BY <2>1, <2>2 DEF RowsOf
  <2>3. CASE gone \notin RowsOf(user)
    <3>1. RowsOf(user) \subseteq RowsOf(user)'
      BY <2>1, <2>3 DEF RowsOf
    <3>2. removed \subseteq removed'
      BY <2>1
    <3> QED BY <3>1, <3>2
  <2> QED BY <2>2, <2>3
<1>2. CASE DOMAIN rows' = DOMAIN rows /\ removed' = removed
  BY <1>2 DEF RowsOf
<1>3. ASSUME NEW i, NEW u, NEW columns, Create(r, i, u, columns)
      PROVE  RowsOf(user)' # {} \/ user \in removed'
  <2> DEFINE id == <<r, i, u>>
  <2>1. DOMAIN rows' = DOMAIN rows \cup {id} /\ removed' = removed \ {u} /\ id[3] = u
    BY <1>3 DEF Create
  <2> HIDE DEF id
  <2>2. RowsOf(user) \subseteq RowsOf(user)' /\ id \in RowsOf(u)'
    BY <2>1 DEF RowsOf
  <2> QED BY <2>1, <2>2
<1>4. InsertOwn(r) => \E columns : Create(r, 0, request[r].user, columns)
  BY DEF InsertOwn
<1>5. InsertDocument(r) => (\E columns : Create(r, 0, request[r].user, columns))
                           \/ (DOMAIN rows' = DOMAIN rows /\ removed' = removed)
  BY DEF InsertDocument
<1>6. ASSUME NEW i \in 1 .. MaxMembers, InsertMember(r, i)
      PROVE  (\E columns : Create(r, i, request[r].members[i], columns))
             \/ (DOMAIN rows' = DOMAIN rows /\ removed' = removed)
  BY <1>6 DEF InsertMember
<1> QED BY <1>1, <1>2, <1>3, <1>4, <1>5, <1>6, RowsCases

LEMMA AccountedNext == Control /\ RowHeld /\ Accounted /\ [ApiNext]_vars => Accounted'
<1> SUFFICES ASSUME Control, RowHeld, Accounted, [ApiNext]_vars PROVE Accounted'
  OBVIOUS
<1>1. ASSUME NEW r \in Request, Step(r) PROVE Accounted'
  <2>1. request' = request
    BY <1>1, StepCases
  <2>2. \A user : RowsOf(user) # {} \/ user \in removed => RowsOf(user)' # {} \/ user \in removed'
    BY <1>1, RowsKept
  <2>3. ASSUME \A q \in Request : \A i \in DOMAIN me'[q].todo :
                  me'[q].todo[i] \in {"added", "found"} =>
                      i \in DOMAIN me[q].todo /\ me'[q].todo[i] = me[q].todo[i]
        PROVE  Accounted'
    BY <2>1, <2>2, <2>3 DEF Accounted
  <2>4. \A q \in Request \ {r} : me'[q] = me[q]
    BY <1>1, FileFacts
  <2>5. CASE SingleStep(r)
    <3>1. me'[r].todo = me[r].todo
      BY <2>5, SingleMoves DEF Moves, Alone
    <3> QED BY <2>3, <2>4, <3>1
  <2>6. CASE StartAdding(r)
    <3>1. \A i \in DOMAIN me'[r].todo : me'[r].todo[i] = "select"
      BY <2>6, AddingFacts DEF Control
    <3> QED BY <2>3, <2>4, <3>1
  <2>7. ASSUME NEW i \in 1 .. MaxMembers, SelectMember(r, i) \/ InsertMember(r, i) PROVE Accounted'
    <3>1. PICK state : i \in DOMAIN me[r].todo /\ Promise(r, i, state)
      BY <2>7 DEF SelectMember, InsertMember, Pending
    <3>2. /\ DOMAIN me'[r].todo = DOMAIN me[r].todo
          /\ \A j \in DOMAIN me[r].todo : j # i => me'[r].todo[j] = me[r].todo[j]
      BY <3>1, PromiseFacts DEF Control
    <3>3. ASSUME me'[r].todo[i] \in {"added", "found"}
          PROVE  RowsOf(request[r].members[i])' # {}
      <4>1. CASE InsertMember(r, i)
        <5>1. ~ Promise(r, i, "failed")
          BY <3>1, <3>3, PromiseFacts DEF Control
        <5>2. DOMAIN rows' = DOMAIN rows \cup {<<r, i, request[r].members[i]>>}
          BY <4>1, <5>1 DEF InsertMember, Create
        <5>3. \A user : <<r, i, user>>[3] = user
          OBVIOUS
        <5> QED BY <2>1, <5>2, <5>3 DEF RowsOf
      <4>2. CASE SelectMember(r, i)
        <5>1. \A s \in {"failed", "skipped", "insert"} : ~ Promise(r, i, s)
          BY <3>1, <3>3, PromiseFacts DEF Control
        <5>2. RowsOf(request[r].members[i]) # {} /\ rows' = rows
          BY <4>2, <5>1 DEF SelectMember
        <5> QED BY <2>1, <5>2 DEF RowsOf
      <4> QED BY <2>7, <4>1, <4>2
    <3> QED BY <2>1, <2>2, <2>4, <3>2, <3>3 DEF Accounted
  <2> QED BY <1>1, <2>5, <2>6, <2>7, StepCases
<1>2. CASE UNCHANGED <<request, me, rows, removed>>
  BY <1>2 DEF Accounted, RowsOf
<1> QED BY <1>1, <1>2 DEF ApiNext, Die, vars, documentVars

\* A request that adds members goes through three steps, and waits for the promises.
LEMMA AddSteps ==
    ASSUME NEW r \in Request, Kind(r) = "add"
    PROVE  Kind(r) \in Kinds /\ StepSet(r) = {"find", "check", "adding"}
<1> DEFINE s == Steps(r)
<1>1. s = <<"find", "check", "adding">>
  BY AddProgram DEF Steps, Program
<1>2. StepSet(r) = {s[i] : i \in 1 .. Len(s)}
  BY DEF StepSet
<1> HIDE DEF s
<1>3. Len(s) = 3 /\ s[1] = "find" /\ s[2] = "check" /\ s[3] = "adding"
  BY <1>1
<1> QED BY <1>2, <1>3, AddProgram

\* Nothing changes what was added once a request has answered so.
LEMMA OutboxGrows ==
    ASSUME NEW r \in Request, Step(r)
    PROVE  outbox \subseteq outbox'
BY DEF Step, RequestStep, AssetStep, Admit, FindDocument, CheckPermission, LookupMembership,
    SaveMembership, DestroyMembership, FindOwn, SelectOwn, InsertOwn, StartAdding, SelectMember,
    InsertMember, AnswerAdd, ReadMembers, SaveDocument, InsertDocument, Read, Answer, Reject,
    FindUploaded, StoreFile, InsertAsset, MarkUploaded, FindAsset, FindSource, Compare,
    FetchAsset, Emit

LEMMA AnswerAddFacts ==
    ASSUME Control, AddingOK, NEW r \in Request, AnswerAdd(r), me'[r].answer = 200,
           request' = request, outbox \subseteq outbox'
    PROVE  HasAdded(r)'
<1>1. me[r].at = "awaiting" /\ DOMAIN me[r].todo = DOMAIN request[r].members
  BY DEF AnswerAdd, At, AddingOK
<1>2. ~ Answered(r, 500)
  BY AnsweredFacts DEF Control
<1>3. /\ States(r) \subseteq Settled
      /\ Answered(r, 200)
      /\ {Event("participantAdded", request[r].members[i]) :
             i \in {j \in DOMAIN me[r].todo : me[r].todo[j] = "added"}} \subseteq outbox'
  BY <1>2 DEF AnswerAdd, Emit
<1>4. me'[r].todo = me[r].todo
  BY <1>3, AnsweredFacts DEF Control, Alone
<1>5. \A i \in DOMAIN me[r].todo : me[r].todo[i] \in Settled
  BY <1>3 DEF States
<1>6. \A i \in DOMAIN me[r].todo : me[r].todo[i] = "added" =>
          Event("participantAdded", request[r].members[i]) \in outbox'
  BY <1>3
<1> QED BY <1>1, <1>4, <1>5, <1>6 DEF HasAdded

LEMMA AddingNext == Control /\ AddingOK /\ [ApiNext]_vars => AddingOK'
<1> SUFFICES ASSUME Control, AddingOK, [ApiNext]_vars PROVE AddingOK'
  OBVIOUS
<1>1. ASSUME NEW r \in Request, Step(r) PROVE AddingOK'
  <2>1. request' = request /\ outbox \subseteq outbox'
    BY <1>1, StepCases, OutboxGrows
  <2>2. \A q \in Request \ {r} : me'[q] = me[q]
    BY <1>1, FileFacts
  <2>3. \A q \in Request : Kind(q)' = Kind(q)
    BY <2>1 DEF Kind
  <2>4. \A q \in Request \ {r} : HasAdded(q) => HasAdded(q)'
    BY <2>1, <2>2 DEF HasAdded
  <2>5. ASSUME /\ me'[r].at = "awaiting" => DOMAIN me'[r].todo = DOMAIN request[r].members
               /\ Kind(r) = "add" =>
                     /\ me'[r].at \in {"admit", "find", "check", "adding"} \cup Adding
                     /\ me'[r].answer = 200 => HasAdded(r)'
        PROVE  AddingOK'
    BY <2>1, <2>2, <2>3, <2>4, <2>5 DEF AddingOK
  <2>6. CASE SingleStep(r)
    <3>1. Moves(r)
      BY <2>6, SingleMoves
    <3>2. me'[r].at # "awaiting"
      <4>1. WellFormed(Steps(r)) /\ Kind(r) \in Kinds
        BY <3>1, StepsWellFormed DEF Control, OnProgram, Moves
      <4>2. "awaiting" \notin StepSet(r)
        BY <4>1 DEF WellFormed, StepSet, Outside
      <4> QED BY <3>1, <4>2, MoveFacts
    <3>3. CASE Kind(r) = "add"
      <4>1. StepSet(r) = {"find", "check", "adding"}
        BY <3>3, AddSteps
      <4>2. me[r].at \in {"admit", "find", "check", "adding", "awaiting"}
        BY <3>1, <3>3 DEF AddingOK, Moves, Adding
      <4>3. me'[r].at \in {"find", "check", "adding", "done", "lost", "hanging"}
        <5>1. me'[r].at \in {"done", "lost", "hanging", "fetch"} \cup StepSet(r)
          BY <3>1, MoveFacts
        <5>2. me'[r].at # "fetch"
          <6>1. Advances(r) => me'[r].at \in StepSet(r)
            BY <3>3, AddSteps, NextFacts DEF Advances
          <6>2. Enters(r) => me'[r].at \in StepSet(r)
            BY <3>3, AddSteps, HeadFacts DEF Enters
          <6> QED BY <3>1, <4>1, <4>2, <6>1, <6>2 DEF Moves, Leaves, Jumps
        <5> QED BY <4>1, <5>1, <5>2
      <4>4. ASSUME me'[r].answer = 200 PROVE HasAdded(r)'
        <5>1. me[r].answer # 200
          BY <3>1 DEF Control, LocalsOK, Moves
        <5>2. CASE AnswerAdd(r)
          BY <2>1, <4>4, <5>2, AnswerAddFacts
        <5>3. CASE Reject(r)
          BY <3>1, <4>4, <5>3, ThrowFacts DEF Reject, Control, Moves
        <5>4. CASE Admit(r)
          <6>1. Goto(r, Head(Steps(r))) \/ \E status \in {400, 403, 422, 500} : Answered(r, status)
            BY <5>4 DEF Admit, Invalid, NoUser, NoAccess
          <6> QED BY <4>4, <5>1, <6>1, GotoFacts, AnsweredFacts DEF Control, Stays
        <5>5. CASE FindDocument(r)
          <6>1. \/ Continue(r, [at |-> NextStep(r), doc |-> document])
                \/ Goto(r, "hanging") \/ Answered(r, 404)
            BY <5>5 DEF FindDocument
          <6> DEFINE locals == [at |-> NextStep(r), doc |-> document]
          <6>2. "answer" \notin DOMAIN locals
            OBVIOUS
          <6> HIDE DEF locals
          <6>3. ~ Continue(r, locals)
            BY <4>4, <5>1, <6>2, ContinueFacts DEF Control, Fields
          <6> QED BY <4>4, <5>1, <6>1, <6>3, GotoFacts, AnsweredFacts DEF Control, Stays, locals
        <5>6. CASE CheckPermission(r)
          <6>1. Goto(r, NextStep(r)) \/ Answered(r, 403) \/ Throw(r, 403)
            BY <5>6 DEF CheckPermission
          <6> QED BY <3>1, <4>4, <5>1, <6>1, GotoFacts, AnsweredFacts, ThrowFacts
              DEF Control, Stays, Moves
        <5>7. CASE /\ ~ AnswerAdd(r) /\ ~ Reject(r) /\ ~ Admit(r)
                   /\ ~ FindDocument(r) /\ ~ CheckPermission(r)
          BY <2>6, <4>2, <5>7 DEF SingleStep, AssetStep, At, LookupMembership, SaveMembership,
              DestroyMembership, FindOwn, SelectOwn, InsertOwn, ReadMembers, SaveDocument,
              InsertDocument, Read, Answer, FindUploaded, StoreFile, InsertAsset, MarkUploaded,
              FindAsset, FindSource, Compare, FetchAsset
        <5> QED BY <5>2, <5>3, <5>4, <5>5, <5>6, <5>7
      <4> QED BY <2>5, <3>2, <4>3, <4>4 DEF Adding
    <3>4. CASE Kind(r) # "add"
      BY <2>5, <3>2, <3>4
    <3> QED BY <3>3, <3>4
  <2>7. CASE StartAdding(r)
    <3>1. /\ me[r].at = "adding" /\ me'[r].at = "awaiting" /\ me'[r].answer = me[r].answer
          /\ DOMAIN me'[r].todo = DOMAIN request[r].members
      BY <2>7, AddingFacts DEF Control, Stays
    <3>2. me[r].answer # 200
      BY <3>1 DEF Control, LocalsOK
    <3> QED BY <2>5, <3>1, <3>2 DEF Adding
  <2>8. ASSUME NEW i \in 1 .. MaxMembers, SelectMember(r, i) \/ InsertMember(r, i) PROVE AddingOK'
    <3>1. PICK state : /\ i \in DOMAIN me[r].todo /\ Promise(r, i, state)
                       /\ me[r].todo[i] \in {"select", "insert"}
      BY <2>8 DEF SelectMember, InsertMember, Pending
    <3>2. /\ me'[r].at = me[r].at /\ me'[r].answer = me[r].answer
          /\ DOMAIN me'[r].todo = DOMAIN me[r].todo
      BY <3>1, PromiseFacts DEF Control, Fields
    <3>3. Kind(r) = "add" => me[r].answer # 200
      BY <3>1 DEF AddingOK, HasAdded, Settled
    <3> QED BY <2>5, <3>2, <3>3 DEF AddingOK
  <2> QED BY <1>1, <2>6, <2>7, <2>8, StepCases
<1>2. CASE UNCHANGED <<request, me, outbox>>
  BY <1>2 DEF AddingOK, HasAdded, Kind
<1> QED BY <1>1, <1>2 DEF ApiNext, Die, vars, documentVars

LEMMA AddingInit == Init => Accounted /\ AddingOK
<1> SUFFICES ASSUME Init PROVE Accounted /\ AddingOK
  OBVIOUS
<1>1. \A r \in Request : /\ me[r].todo = << >> /\ me[r].answer = 0
                         /\ me[r].at \in {"admit", "done"}
  BY DEF Init
<1>2. DOMAIN << >> = {}
  OBVIOUS
<1> QED BY <1>1, <1>2 DEF Accounted, AddingOK, Adding

\* AddMembersToMemberships answers 200 only when each member it was given has a
\* membership, or was removed since, and each new one was announced, whatever other
\* requests do between its promises.
THEOREM AddedMembersAreMembers == Spec => []AddedAreMembers
<1>1. Spec => [](Control /\ RowHeld)
  <2>1. ApiInv => Control /\ RowHeld
    BY DEF ApiInv, RowInv
  <2> QED BY <2>1, ApiInvariant, PTL
<1>2. Spec => [](Accounted /\ AddingOK)
  <2>1. (Control /\ RowHeld) /\ (Accounted /\ AddingOK) /\ [ApiNext]_vars
            => (Accounted /\ AddingOK)'
    BY AccountedNext, AddingNext
  <2> QED BY <1>1, <2>1, AddingInit, PTL DEF Spec
<1>3. Accounted /\ AddingOK => AddedAreMembers
  <2> SUFFICES ASSUME Accounted, AddingOK PROVE AddedAreMembers
    OBVIOUS
  <2>1. ASSUME NEW r \in Request, Kind(r) = "add", me[r].answer = 200,
               NEW i \in DOMAIN me[r].todo
        PROVE  /\ DOMAIN me[r].todo = DOMAIN request[r].members
               /\ me[r].todo[i] \in Settled
               /\ me[r].todo[i] # "skipped" =>
                     RowsOf(request[r].members[i]) # {} \/ request[r].members[i] \in removed
               /\ me[r].todo[i] = "added" =>
                     Event("participantAdded", request[r].members[i]) \in outbox
    BY <2>1 DEF Accounted, AddingOK, HasAdded, Settled
  <2>2. ASSUME NEW r \in Request, Kind(r) = "add", me[r].answer = 200
        PROVE  DOMAIN me[r].todo = DOMAIN request[r].members
    BY <2>2 DEF AddingOK, HasAdded
  <2> QED BY <2>1, <2>2 DEF AddedAreMembers
<1> QED BY <1>2, <1>3, PTL
=============================================================================
