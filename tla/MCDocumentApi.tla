--------------------------- MODULE MCDocumentApi ---------------------------
(***************************************************************************)
(* Small instances of AssetApi: every handler alone and beside one that    *)
(* changes the document, and the handlers that change memberships or       *)
(* assets against each other, two or three at a time, in two processes.    *)
(***************************************************************************)
EXTENDS AssetApi, TLC

MCServerOf == [r1 |-> "s1", r2 |-> "s2", r3 |-> "s1"]

\* A request of bob, or about bob, with what it may be about.
Ask(kind) ==
    [kind |-> kind, user |-> "bob", member |-> "bob", members |-> <<"bob">>,
     grant |-> "edit", visibility |-> "invite", asset |-> "old"]

\* Ann owns the document; she changes what is not bob's own.
AskOf(kind) ==
    IF kind \in {"add", "update", "remove", "archive", "unarchive", "setAccess", "create"}
    THEN [Ask(kind) EXCEPT !.user = "ann"]
    ELSE Ask(kind)

Twice == [AskOf("add") EXCEPT !.members = <<"bob", "bob">>]
NoRequest == Ask("none")
Requests(a, b, c) == [r1 |-> a, r2 |-> b, r3 |-> c]
Pair(k, l) == Requests(AskOf(k), AskOf(l), NoRequest)

RowKinds == {"get", "add", "update", "remove", "subscribe", "unsubscribe",
             "autoSubscribe", "lastViewed"}
DocumentKinds == {"archive", "unarchive", "setAccess"}
AssetKinds == {"assets", "upload", "finish", "copy", "copyUrl", "asset"}

AnnsRow == <<"before", 0, "ann">>
BobsRow == <<"before", 0, "bob">>
Owner == AnnsRow :> [grant |-> "edit", subscribed |-> "yes", viewed |-> FALSE]
Bob(subscribed) == BobsRow :> [grant |-> "comment", subscribed |-> subscribed, viewed |-> FALSE]
Rows == {Owner, Owner @@ Bob("unset"), Owner @@ Bob("no")}

NoAssets == << >>
OldAsset(place, uploaded) == [old |-> [place |-> place, file |-> "old", uploaded |-> uploaded]]
OldAssets == {OldAsset("here", FALSE), OldAsset("here", TRUE), OldAsset("elsewhere", TRUE)}

Scenario(requests, doc, before, asset) ==
    [request |-> requests, document |-> doc, rows |-> before, assets |-> asset]

MCScenarios ==
    {Scenario(Requests(AskOf(k), NoRequest, NoRequest), NewDocument, Owner, NoAssets) : k \in Kinds}
    \cup {Scenario(Pair(k, l), NewDocument, Owner @@ Bob("unset"), NoAssets) :
              k \in DocumentKinds, l \in Kinds \ {"create"}}
    \cup {Scenario(Pair("create", l), NoDocument, << >>, NoAssets) : l \in RowKinds \cup {"upload"}}
    \cup {Scenario(Pair(k, l), NewDocument, before, NoAssets) :
              k \in RowKinds, l \in RowKinds, before \in Rows}
    \cup {Scenario(Pair(k, l), NewDocument, Owner, asset) :
              k \in AssetKinds, l \in AssetKinds, asset \in OldAssets}
    \cup {Scenario(Requests(Twice, AskOf("remove"), AskOf("get")), NewDocument, Owner, NoAssets),
          Scenario(Requests(AskOf("update"), AskOf("remove"), AskOf("get")), NewDocument,
                   Owner @@ Bob("unset"), NoAssets),
          Scenario(Requests(AskOf("unsubscribe"), AskOf("lastViewed"), AskOf("update")),
                   NewDocument, Owner @@ Bob("unset"), NoAssets)}
=============================================================================
