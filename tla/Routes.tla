------------------------------- MODULE Routes -------------------------------
(***************************************************************************)
(* The HTTP endpoints around a document, and the jobs that write its       *)
(* memberships.  A handler is the list of what it awaits: queries and      *)
(* calls, between any two of which other requests run.  What the steps do  *)
(* is in DocumentApi and AssetApi.                                         *)
(***************************************************************************)
EXTENDS PermissionRules, Sequences

\* The action a handler checks the permission of, and its steps.  "read" stands
\* for queries and calls whose results only appear in the answer.
Handler(action, steps) == [action |-> action, steps |-> steps]
Unchecked(steps) == Handler("nothing", steps)

\* asyncify hands a rejection to HandleErrors.  Without it a rejection of the
\* handler is unhandled.
Asyncified(handler) == [handler |-> handler, bare |-> FALSE]
Bare(handler) == [handler |-> handler, bare |-> TRUE]

-----------------------------------------------------------------------------
\* controllers/Document/Controller.ts
ListDocuments == Unchecked(<<"read", "answer">>)
CreateDocument == Handler("create", <<"check", "createDocument", "read", "answer">>)
GetDocumentAsGuest == Unchecked(<<"find", "answer">>)
GetDocument ==
    Handler("joinAndView", <<"find", "own", "check", "select", "insert", "read", "answer">>)
GetDocumentRevisions == Handler("joinAndView", <<"find", "check", "read", "answer">>)
GetDocumentAtRevision == Handler("joinAndView", <<"find", "check", "read", "answer">>)
GetDocumentHtml == Unchecked(<<"find", "read", "answer">>)
GetDocumentText == Handler("joinAndView", <<"find", "check", "read", "answer">>)
ArchiveDocument == Handler("archive", <<"find", "check", "saveDocument", "answer">>)
UnarchiveDocument == Handler("archive", <<"find", "check", "saveDocument", "answer">>)
GetRevisionsSinceRevision == Unchecked(<<"find", "read", "answer">>)
GetMemberships == Unchecked(<<"find", "members">>)
AddMembersToMemberships == Handler("addMembers", <<"find", "check", "adding">>)
UpdateMemberships ==
    Handler("addMembers", <<"find", "check", "lookup", "saveMembership", "answer">>)
RemoveFromMemberships ==
    Handler("removeMembers", <<"find", "check", "lookup", "destroyMembership", "answer">>)
GetAccessSettings == Handler("removeMembers", <<"find", "check", "answer">>)
SetAccessSettings == Unchecked(<<"find", "saveDocument", "answer">>)
GetPermissions == Unchecked(<<"find", "read", "answer">>)
GetPermissionsForDocuments == Unchecked(<<"read", "answer">>)
GetDocumentThumbnail == Unchecked(<<"find", "read", "answer">>)
UpdateIsSubscribed ==
    Handler("comment", <<"find", "check", "lookup", "saveMembership", "answer">>)
SubscribeToDocument == UpdateIsSubscribed
UnsubscribeFromDocument == UpdateIsSubscribed
EmitGenericEvent == Unchecked(<<"answer">>)

DocumentRoutes ==
    [list |-> Asyncified(ListDocuments),
     create |-> Asyncified(CreateDocument),
     permissionsOf |-> Bare(GetPermissionsForDocuments),
     get |-> Bare(GetDocument),
     revisions |-> Bare(GetDocumentRevisions),
     atRevision |-> Bare(GetDocumentAtRevision),
     html |-> Asyncified(GetDocumentHtml),
     text |-> Asyncified(GetDocumentText),
     archive |-> Asyncified(ArchiveDocument),
     unarchive |-> Asyncified(UnarchiveDocument),
     since |-> Asyncified(GetRevisionsSinceRevision),
     memberships |-> Asyncified(GetMemberships),
     add |-> Asyncified(AddMembersToMemberships),
     update |-> Asyncified(UpdateMemberships),
     remove |-> Asyncified(RemoveFromMemberships),
     access |-> Asyncified(GetAccessSettings),
     permissions |-> Asyncified(GetPermissions),
     setAccess |-> Asyncified(SetAccessSettings),
     thumbnail |-> Asyncified(GetDocumentThumbnail),
     subscribe |-> Asyncified(SubscribeToDocument),
     unsubscribe |-> Asyncified(UnsubscribeFromDocument)]

-----------------------------------------------------------------------------
\* controllers/Asset/Controller.ts.  GetAsset and, for an asset that is in the
\* document already, CopyAsset leave the answer to fetchAsset without awaiting it.
ListAssets == Unchecked(<<"listAssets", "read", "answer">>)
RequestUpload == Unchecked(<<"storeFile", "insertAsset", "answer">>)
FinishUpload == Unchecked(<<"markUploaded", "read", "answer">>)
GetAsset == Unchecked(<<"findAsset", "fetch">>)

\* Mutant: the row is created before the file is copied.
CopyAssetRowFirst ==
    Handler("joinAndView", <<"findAsset", "findSource", "check", "compare",
                             "insertAsset", "storeFile", "answer">>)

CopyAsset ==
    Handler("joinAndView", <<"findAsset", "findSource", "check", "compare",
                             "storeFile", "insertAsset", "answer">>)
CopyAssetFromId == CopyAsset
CopyAssetFromUrl == Handler(CopyAsset.action, <<"read">> \o CopyAsset.steps)
GetFlatPrototype == Unchecked(<<"read", "answer">>)
GetExternalDocument == Unchecked(<<"read", "answer">>)

AssetRoutes ==
    [assets |-> Asyncified(ListAssets),
     upload |-> Asyncified(RequestUpload),
     finish |-> Asyncified(FinishUpload),
     copy |-> Asyncified(CopyAssetFromId),
     copyUrl |-> Asyncified(CopyAssetFromUrl),
     prototype |-> Asyncified(GetFlatPrototype),
     asset |-> Asyncified(GetAsset),
     external |-> Asyncified(GetExternalDocument)]

-----------------------------------------------------------------------------
\* The other controllers.
CreatePane == Handler("change", <<"findLive", "check", "read", "answer">>)
DuplicatePane == Handler("change", <<"findLive", "check", "read", "answer">>)
GetPane == Handler("view", <<"findLive", "check", "read", "answer">>)
GetPaneRevisionsSinceRevision == Handler("view", <<"findLive", "check", "read", "answer">>)

PaneRoutes ==
    [createPane |-> Asyncified(CreatePane),
     pane |-> Asyncified(GetPane),
     duplicatePane |-> Asyncified(DuplicatePane),
     sincePane |-> Asyncified(GetPaneRevisionsSinceRevision)]

GetTeamDocuments == Unchecked(<<"read", "answer">>)
GetUserDocuments == Unchecked(<<"read", "answer">>)

TeamRoutes ==
    [team |-> Asyncified(GetTeamDocuments), user |-> Asyncified(GetUserDocuments)]

PrivateRoutes ==
    [guest |-> Bare(GetDocumentAsGuest),
     teamPrivate |-> Asyncified(GetTeamDocuments),
     emit |-> Bare(EmitGenericEvent)]

GetPermissionsOfActions == Unchecked(<<"read", "answer">>)
PermissionsRoutes == [actions |-> Bare(GetPermissionsOfActions)]

-----------------------------------------------------------------------------
\* What other processes of the system run: the hook of a revision, whose promise
\* nobody awaits, and a worker of the queue.
AutoSubscribe == Unchecked(<<"lookup", "saveMembership", "answer">>)
UpdateLastViewed == Unchecked(<<"findLive", "lookup", "saveMembership", "answer">>)

Jobs == [autoSubscribe |-> Bare(AutoSubscribe), lastViewed |-> Asyncified(UpdateLastViewed)]

Controllers ==
    {DocumentRoutes, AssetRoutes, PaneRoutes, TeamRoutes, PrivateRoutes, PermissionsRoutes, Jobs}

Kinds == UNION {DOMAIN controller : controller \in Controllers}

Routes ==
    [kind \in Kinds |-> (CHOOSE controller \in Controllers : kind \in DOMAIN controller)[kind]]
=============================================================================
