-------------------------- MODULE PermissionRules --------------------------
(***************************************************************************)
(* Who may do what to a document.  Index-api is asked first: for each      *)
(* action it allows or not, and may force its answer.  Unless it is        *)
(* forced, the rules of the document decide, from the grant of the user's  *)
(* membership, the visibility of the document and what index-api allows.   *)
(***************************************************************************)
EXTENDS Naturals

Actions == {"archive", "view", "create", "join", "change", "comment", "discover",
            "privateComment", "addMembers", "addGuests", "removeMembers",
            "removeGuests", "managePublicLink", "commentView", "commentChange",
            "commentResolve", "commentDelete", "mentionDocumentMember",
            "mentionTeamMember"}

Grants == {"edit", "comment"}
NoGrant == "none"  \* no membership
Visibilities == {"all", "team", "invite"}

\* Why an action is refused (PermissionErrorReason), or that it is not.
Granted == "granted"
External == "External"
DocumentAccess == "Document_Access"
DocumentMembership == "Document_Membership"

\* What index-api says of one action of one document: that it allows it or not.
\* Its answer may not have the action, or not have the document, or there may be
\* no answer at all.
Permission(allow, force) == [allow |-> allow, force |-> force]
Saying(about, permission) == [about |-> about, permission |-> permission]
Entry == {Saying("action", Permission(a, f)) : a \in BOOLEAN, f \in BOOLEAN}
NoAction == Saying("document", Permission(FALSE, FALSE))
NoDocumentEntry == Saying("other documents", Permission(FALSE, FALSE))
NoAnswer == Saying("nothing", Permission(FALSE, FALSE))
Said == Entry \cup {NoAction}
Answers == Said \cup {NoDocumentEntry, NoAnswer}

-----------------------------------------------------------------------------
\* The rules of services/permissions/Rules.ts.
JoinRule(visibility, allow) ==
    CASE visibility = "all" -> Granted
      [] visibility = "team" /\ allow -> Granted
      [] visibility = "invite" -> DocumentMembership
      [] OTHER -> DocumentAccess

EditorsOnly == {"removeMembers", "addGuests", "change"}
EditorsIfAllowed == {"archive", "managePublicLink"}
EveryMember == {"view", "addMembers", "comment", "discover", "commentDelete",
                "commentResolve", "commentChange", "mentionTeamMember"}
MembersIfAllowed == {"mentionDocumentMember"}

MemberRule(action, grant, allow) ==
    IF \/ action \in EditorsOnly \cup EditorsIfAllowed /\ grant # "edit"
       \/ action \in EveryMember \cup MembersIfAllowed /\ grant \notin Grants
       \/ action \in EditorsIfAllowed \cup MembersIfAllowed /\ ~allow
    THEN DocumentMembership
    ELSE Granted

HasRule(action) ==
    action \in {"join"} \cup EditorsOnly \cup EditorsIfAllowed \cup EveryMember
               \cup MembersIfAllowed

Rule(action, grant, visibility, allow) ==
    IF action = "join" THEN JoinRule(visibility, allow)
    ELSE MemberRule(action, grant, allow)

-----------------------------------------------------------------------------
\* getExternalPermission: what is not said is neither allowed nor forced.
ExternalPermission(answer) ==
    IF answer \in Entry THEN answer.permission ELSE Permission(FALSE, FALSE)

\* accumulateActions: the first answer that is missing or forced ends the walk.
Accumulated(answers) ==
    LET ends == {i \in DOMAIN answers : ExternalPermission(answers[i]).force \/ answers[i] \notin Entry}
    IN  IF ends = {}
        THEN Permission(\A i \in DOMAIN answers : ExternalPermission(answers[i]).allow, FALSE)
        ELSE ExternalPermission(
                 answers[CHOOSE i \in ends : \A j \in ends : i <= j])

Forced(permission) == IF permission.allow THEN Granted ELSE External

\* No answer, or none about the document, refuses everything.
Readable(answer) == answer \notin {NoDocumentEntry, NoAnswer}

\* Mutant: what is not allowed is refused, whatever the rule says.
VerdictIfAllowed(action, answer, grant, visibility) ==
    LET external == ExternalPermission(answer)
    IN  CASE ~Readable(answer) -> External
          [] external.force \/ ~external.allow -> Forced(external)
          [] OTHER -> Rule(action, grant, visibility, external.allow)

\* hasPermissionForDocument, with the grant of the membership it looks up.
Verdict(action, answer, grant, visibility) ==
    LET external == ExternalPermission(answer)
    IN  CASE ~Readable(answer) -> External
          [] external.force \/ ~HasRule(action) -> Forced(external)
          [] OTHER -> Rule(action, grant, visibility, external.allow)

\* hasJoinAndViewPermissionForDocument and hasJoinPermissionForDocument: the
\* answer about viewing counts only when it is forced.
JoinAndViewVerdict(join, view, visibility) ==
    LET external == Accumulated(<<join, view>>)
    IN  CASE ~Readable(join) -> External
          [] external.force -> Forced(external)
          [] OTHER -> JoinRule(visibility, ExternalPermission(join).allow)

JoinVerdict(join, visibility) ==
    LET external == Accumulated(<<join>>)
    IN  CASE ~Readable(join) -> External
          [] external.force -> Forced(external)
          [] OTHER -> JoinRule(visibility, external.allow)

\* hasPermissionForSpace, and canSubmitOperationForDocument, which asks nobody.
SpaceVerdict(answer) ==
    IF Readable(answer) /\ ExternalPermission(answer).allow THEN Granted ELSE External

SubmitVerdict(grant) == MemberRule("change", grant, TRUE)

\* canSendMentionForDocument: who may view, or could join.
MayBeMentioned(view, join, grant, visibility) ==
    \/ Verdict("view", view, grant, visibility) = Granted
    \/ JoinVerdict(join, visibility) = Granted

-----------------------------------------------------------------------------
\* permissionForAction: what a client is told it may do.  It gets an error instead
\* (permissionsForDocuments) if index-api gives no answer; one that lacks the document
\* is like one that lacks the action.
Told(action, answer, grant, visibility) ==
    LET external == ExternalPermission(answer)
    IN  IF external.force \/ ~HasRule(action) THEN external
        ELSE Permission(Rule(action, grant, visibility, external.allow) = Granted, FALSE)
=============================================================================
