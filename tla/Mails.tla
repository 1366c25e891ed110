------------------------------- MODULE Mails -------------------------------
(***************************************************************************)
(* The worker composes one mail, about a mention or about the updates of a *)
(* document since a revision, while the document is edited.  Its members   *)
(* and panes may change as well, which is seen where they are read.  Each  *)
(* step is one query or call of services/MentionEmail.ts or                *)
(* DocumentUpdateEmail.ts; the queue and its retries are in Workers.       *)
(***************************************************************************)
EXTENDS Slices

CONSTANTS
    User,
    Inserts,      \* kinds of the characters that are inserted
    MaxEdits,     \* bound: edits since the revision of the job
    MailScenarios \* what there is at first

VARIABLES
    base,       \* the contents before the first revision
    log,        \* the revisions: [at, char], or [at] for a deletion
    job,        \* the job and its local variables
    mail        \* who it was sent to, and what it shows; or NoMail

mailVars == <<base, log, job, mail>>
editVars == <<base, log>>

NoMail == [to |-> {}, slices |-> << >>]

-----------------------------------------------------------------------------
\* An operation inserts or deletes one character after the first `at` ones.
Insertion(at, char) == [at |-> at, char |-> char]
Deletion(at) == [at |-> at]
Inserting(op) == "char" \in DOMAIN op

Apply(doc, op) ==
    IF Inserting(op)
    THEN SubSeq(doc, 1, op.at) \o <<op.char>> \o SubSeq(doc, op.at + 1, Len(doc))
    ELSE SubSeq(doc, 1, op.at) \o SubSeq(doc, op.at + 2, Len(doc))

\* The contents that a document had at first, after some of its revisions.
Contents(doc, ops, revision) ==
    LET contents[n \in 0..revision] == IF n = 0 THEN doc ELSE Apply(contents[n - 1], ops[n])
    IN  contents[revision]

ContentsAt(revision) == Contents(base, log, revision)

\* transformDocumentOperation, for the position of an insertion: what is inserted
\* concurrently at the same position comes first.
Transformed(at, revision) ==
    LET Shift(p, op) ==
            CASE Inserting(op) /\ op.at <= p -> p + 1
              [] ~Inserting(op) /\ op.at < p -> p - 1
              [] OTHER -> p
        position[n \in revision..Len(log)] ==
            IF n = revision THEN at ELSE Shift(position[n - 1], log[n])
    IN  position[Len(log)]

\* Who has inserted something since the revision, here or there.
Inserters(revision) ==
    {log[n].char.by : n \in {m \in DOMAIN log : m > revision /\ Inserting(log[m])}}

-----------------------------------------------------------------------------
Kinds == {"word", "mention"} \cup LineEnds \cup Embeds
Character == [kind : Kinds, from : {"base", "revision"} \X Nat, by : User]
Operation == [at : Nat, char : Character] \cup [at : Nat]

\* An operation is within the contents it was submitted for.
Within(op, doc) == IF Inserting(op) THEN op.at <= Len(doc) ELSE op.at < Len(doc)

ASSUME InsertsAssumption == Inserts \subseteq Kinds

\* What there is at first: the revisions can be applied one after the other, no two
\* characters are the same, and a mention is what the revision of the job inserted.
ASSUME MailScenariosAssumption ==
    \A s \in MailScenarios :
        /\ s.base \in Seq(Character)
        /\ \A i \in DOMAIN s.base : s.base[i].from = <<"base", i>>
        /\ s.log \in Seq(Operation)
        /\ \A n \in DOMAIN s.log :
              /\ Within(s.log[n], Contents(s.base, s.log, n - 1))
              /\ Inserting(s.log[n]) => s.log[n].char.from = <<"revision", n>>
        /\ s.revision \in 0..Len(s.log)
        /\ s.kind \in {"update", "mention", "paneMention", "none"}
        /\ s.at = IF s.kind = "none" THEN "nothing" ELSE "find"
        /\ s.kind = "mention" => /\ s.revision > 0 /\ Inserting(s.log[s.revision])
                                /\ s.log[s.revision].char.kind = "mention"

-----------------------------------------------------------------------------
\* The document goes on changing; edits after the last read of its log change no
\* mail any more.
Reading ==
    IF job.kind = "update"
    THEN {"find", "markUpdates", "slices", "members", "render", "authors"}
    ELSE {"find", "mention", "surrounding"}

Commit(op) ==
    /\ Len(log) < job.revision + MaxEdits /\ job.at \in Reading
    /\ log' = Append(log, op)
    /\ UNCHANGED <<base, job, mail>>

Edit ==
    LET doc == ContentsAt(Len(log))
        new == <<"revision", Len(log) + 1>>
    IN  \/ \E at \in 0..Len(doc), kind \in Inserts, user \in User :
               Commit(Insertion(at, Char(kind, new, user)))
        \/ \E at \in 0..(Len(doc) - 1) : Commit(Deletion(at))

-----------------------------------------------------------------------------
At(step) == job.at = step
Set(locals) == job' = [f \in DOMAIN job |-> IF f \in DOMAIN locals THEN locals[f] ELSE job[f]]
Goto(step) == Set([at |-> step])

\* No mail, and no reason to try again; or the job fails.
Nothing == Goto("nothing")
Throw == Goto("failed")

\* Document.findDocument; archived documents are found too.
FindDocument ==
    /\ At("find")
    /\ CASE job.kind = "update" -> Goto("markUpdates")
         [] job.kind = "mention" -> Goto("mention")
         [] job.kind = "paneMention" -> Goto("paneMention")
    /\ UNCHANGED <<editVars, mail>>

\* getDocumentMention: the position of the mention by now.  validateMentionDelta
\* throws when nothing precedes it, for the operation has no retain then.
FindMention ==
    /\ At("mention")
    /\ LET retain == Transformed(log[job.revision].at, job.revision)
       IN  CASE retain = 0 -> Throw
             [] retain > 0 /\ job.mentioned = job.user -> Nothing
             [] OTHER -> Set([at |-> "surrounding", retain |-> retain, seen |-> Len(log)])
    /\ UNCHANGED <<editVars, mail>>

\* getPaneMention: the pane or its mention may be gone by now.
FindPaneMention ==
    /\ At("paneMention")
    /\ \/ Nothing
       \/ job.mentioned # job.user /\ Set([at |-> "surrounding", seen |-> Len(log)])
    /\ UNCHANGED <<editVars, mail>>

\* What surrounds the mention or the pane, in the contents of now.
FindSurrounding ==
    /\ At("surrounding")
    /\ LET doc == ContentsAt(Len(log))
           shown == IF job.kind = "mention"
                    THEN SurroundingDelta(doc, job.retain)
                    ELSE PaneSurroundingDelta(doc)
           chars == {shown[i] : i \in DOMAIN shown}
       IN  IF shown = << >> THEN Nothing
           ELSE Set([at |-> IF job.kind = "mention" THEN "mentioned" ELSE "cell",
                     read |-> Len(log),
                     slices |-> <<[chars |-> chars, authors |-> {}]>>])
    /\ UNCHANGED <<editVars, mail>>

\* pane.contents(), whose cell with the mention may be gone.
FindCell ==
    /\ At("cell")
    /\ Goto("mentioned") \/ Throw
    /\ UNCHANGED <<editVars, mail>>

\* getMentionedUsers: the profiles of the members, or of one user, who needs access
\* to the product and a permission.  Then the profile of who mentions.
FindMentioned ==
    /\ At("mentioned")
    /\ \/ job.mentioned = "everyone" /\ \E found \in SUBSET User \ {{}} :
                                            Set([at |-> "profile", to |-> found])
       \/ job.mentioned # "everyone" /\ Set([at |-> "profile", to |-> {job.mentioned}])
       \/ job.mentioned # "everyone" /\ Nothing
       \/ Throw
    /\ UNCHANGED <<editVars, mail>>

FindProfile ==
    /\ At("profile")
    /\ Goto("render") \/ Throw
    /\ UNCHANGED <<editVars, mail>>

-----------------------------------------------------------------------------
\* markUpdates: a pane has changed since the job was pushed, or not.
MarkUpdates ==
    /\ At("markUpdates")
    /\ \E updated \in BOOLEAN : Set([at |-> "slices", updated |-> updated])
    /\ UNCHANGED <<editVars, mail>>

\* DeltaSlice.getSlices of the contents of now.
FindSlices ==
    /\ At("slices")
    /\ LET old == ContentsAt(job.revision)
           new == ContentsAt(Len(log))
       IN  \E way \in Ways(old, new) :
              LET slices == SlicesOf(new, Added(old, new, job.updated, way))
              IN  IF slices = << >> THEN Nothing
                  ELSE Set([at |-> "members", read |-> Len(log), slices |-> slices])
    /\ UNCHANGED <<editVars, mail>>

\* getSubscribedMembers, as they are now, and the profiles users-api has of them.
FindMembers ==
    /\ At("members")
    /\ \/ Nothing
       \/ Throw
       \/ \E found \in SUBSET User \ {{}} : Set([at |-> "render", members |-> found])
    /\ UNCHANGED <<editVars, mail>>

\* QuillDeltaConverter draws an embed whose service does not answer without its
\* picture, and one it does not know, or that has no uuid, not at all.
Drawn(chars) == {c \in chars : c.kind # "broken"}

\* A slice as the mail has it: with the names of its authors who are members.
Converted(slice) ==
    [chars |-> Drawn(slice.chars), authors |-> slice.authors \cap job.members]

\* The assets and the documents of other services are fetched for all slices, and
\* those that are missing left out; a pane that does not exist ends it.
Render ==
    /\ At("render")
    /\ \/ Set([at |-> IF job.kind = "update" THEN "authors" ELSE "recipients",
               slices |-> [n \in DOMAIN job.slices |-> Converted(job.slices[n])]])
       \/ Throw
    /\ UNCHANGED <<editVars, mail>>

\* Mutant: the last one to have edited is the only one who has.
FindRecipientsLast ==
    /\ At("authors")
    /\ LET last == {log[n].char.by : n \in {m \in DOMAIN log : m = Len(log) /\ Inserting(log[m])}}
           to == job.members \ last
       IN  IF to = {} THEN Nothing ELSE Set([at |-> "send", to |-> to])
    /\ UNCHANGED <<editVars, mail>>

\* getRecipients: who has made all insertions on his own is left out.  Revisions of
\* panes are not looked at.
FindRecipients ==
    /\ At("authors")
    /\ LET authors == Inserters(job.revision)
           to == IF Cardinality(authors) = 1 THEN job.members \ authors ELSE job.members
       IN  IF to = {} THEN Nothing ELSE Set([at |-> "send", to |-> to])
    /\ UNCHANGED <<editVars, mail>>

\* Nobody is told of his own mention.
FindRecipientsOfMention ==
    /\ At("recipients")
    /\ LET to == job.to \ {job.user}
       IN  IF to = {} THEN Nothing ELSE Set([at |-> "send", to |-> to])
    /\ UNCHANGED <<editVars, mail>>

\* EmailSender.send: one mail each, in one batch.
Send ==
    /\ At("send")
    /\ mail' = [to |-> job.to, slices |-> job.slices]
    /\ Goto("sent")
    /\ UNCHANGED editVars

Compose ==
    \/ FindDocument \/ FindMention \/ FindPaneMention \/ FindSurrounding \/ FindCell
    \/ FindMentioned \/ FindProfile \/ MarkUpdates \/ FindSlices \/ FindMembers
    \/ Render \/ FindRecipients \/ FindRecipientsOfMention \/ Send

MailInit ==
    /\ \E s \in MailScenarios :
          /\ base = s.base
          /\ log = s.log
          /\ job = [kind |-> s.kind, user |-> s.user, mentioned |-> s.mentioned,
                    revision |-> s.revision, at |-> s.at, retain |-> 0, seen |-> 0,
                    read |-> 0, updated |-> FALSE, members |-> {}, to |-> {},
                    slices |-> << >>]
    /\ mail = NoMail

MailNext == Edit \/ Compose

-----------------------------------------------------------------------------
ShownBy(slices) == UNION {slices[n].chars : n \in DOMAIN slices}

\* The mail about a mention shows it, wherever edits have moved it since, if
\* nothing is committed between the two reads of the log, and no embed precedes it
\* (see Counted).  It shows something else, or nothing, otherwise.
MentionShown ==
    (job.kind = "mention" /\ mail # NoMail /\ job.seen = job.read) =>
        LET doc == ContentsAt(job.read)
            mention == log[job.revision].char
        IN  (\E i \in DOMAIN doc :
                 doc[i] = mention /\ \A j \in 1..i : ~IsEmbed(doc, j))
            => mention \in ShownBy(mail.slices)

\* What the contents that were read have had inserted since the revision of the job.
News(doc) ==
    {i \in DOMAIN doc : doc[i] \notin {ContentsAt(job.revision)[j] :
                                           j \in DOMAIN ContentsAt(job.revision)}}

\* The mail about updates shows whatever was inserted since its revision, but for
\* the header, newlines and what cannot be drawn, in a slice that names who
\* inserted it, if that is a member.
UpdatesShown ==
    (job.kind = "update" /\ mail # NoMail) =>
        LET doc == ContentsAt(job.read)
        IN  \A i \in News(doc) :
               (~InHeader(doc, i) /\ doc[i].kind \notin LineEnds \cup {"broken"}) =>
                   \E n \in DOMAIN mail.slices :
                      /\ doc[i] \in mail.slices[n].chars
                      /\ doc[i].by \in job.members => doc[i].by \in mail.slices[n].authors

\* A subscribed member is left out of the mail about updates only if all that is
\* new in it is his own work, although authors are read after the contents.  What
\* is new in panes is not counted.
LeftOutWroteAll ==
    (job.kind = "update" /\ mail # NoMail) =>
        LET doc == ContentsAt(job.read)
        IN  \A user \in job.members \ mail.to : \A i \in News(doc) : doc[i].by = user
=============================================================================
