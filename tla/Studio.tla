------------------------------- MODULE Studio -------------------------------
(***************************************************************************)
(* The instructor's page over Authoring: the draft it last saw saved, the  *)
(* edits made on top, a preview from the provider, the conflict it is told *)
(* of, and one request at a time, whose answer may be lost while the       *)
(* service goes on with it.                                                *)
(*                                                                         *)
(* Others work on the same drafts: each is a page that has just opened the *)
(* draft it writes to, so that its requests are stale only if the draft    *)
(* changes before they are served.  A page works from one brief, so that   *)
(* the draft it creates bears its name.                                    *)
(***************************************************************************)
EXTENDS Authoring

CONSTANTS
  Pages,            \* the pages in detail
  Others,           \* instructors at pages elsewhere
  None,             \* no draft, no preview, no conflict
  MaxAsks           \* bound: how many requests are made, besides opening a draft

ASSUME StudioAssumption ==
  /\ MaxAsks \in Nat
  /\ Pages = Drafts

VARIABLES
  page,             \* what each page holds
  waits,            \* the handler whose answer each page awaits, at most one
  vouched,          \* history: what a page showed when its instructor approved
  asked,            \* how many requests were made, besides opening a draft
  signed            \* history: what a page showed when it asked to publish

vars == <<authoringVars, page, waits, vouched, signed, asked>>

\* What a page keeps of a draft.
View(doc) ==
  [draft |-> doc.draft, version |-> doc.version, status |-> doc.status, items |-> doc.items,
   approvals |-> {i \in Items : doc.approved[i] # NoText}]

Blank == [saved |-> None, edit |-> << >>, approvals |-> {}, final |-> FALSE,
          preview |-> None, base |-> NoText, conflict |-> None]

\* apply: a draft from the service replaces all that the page held.
Applied(v, base) ==
  [saved |-> v, edit |-> v.items, approvals |-> v.approvals, final |-> FALSE,
   preview |-> None, base |-> base, conflict |-> None]

Busy(p) == waits[p] # {}
Open(p) == page[p].saved # None
Dirty(p) == Open(p) /\ page[p].edit # page[p].saved.items
Locked(p) == page[p].saved.status = "published"

Counts == asked' = asked + 1 /\ asked' <= MaxAsks

Send(h, r) == Counts /\ Call(h, r)

\* The page awaits the answer.
Calls(p, r) == \E h \in Handlers : Call(h, r) /\ waits' = [waits EXCEPT ![p] = {h}]

Ask(p, r) == Counts /\ Calls(p, r)

AboutSaved(p, op) ==
  [op |-> op, by |-> p, draft |-> page[p].saved.draft, expected |-> page[p].saved.version]

StudioInit ==
  /\ Init
  /\ page = [p \in Pages |-> Blank]
  /\ waits = [p \in Pages |-> {}]
  /\ vouched = {}
  /\ signed = {}
  /\ asked = 0
-----------------------------------------------------------------------------
(* What an instructor asks for *)

CreateDraft(p) ==
  /\ ~Busy(p) /\ ~Dirty(p)
  /\ Ask(p, [op |-> "create", by |-> p, draft |-> p])
  /\ UNCHANGED <<page, vouched, signed>>

OpenDraft(p) ==
  /\ ~Busy(p) /\ ~Dirty(p)
  /\ \E d \in index \ OtherDrafts : Calls(p, [op |-> "open", by |-> p, draft |-> d])
  /\ UNCHANGED <<page, vouched, signed, asked>>

Save(p) ==
  /\ ~Busy(p) /\ Dirty(p) /\ ~Locked(p) /\ page[p].conflict = None
  /\ Ask(p, [op |-> "save", by |-> p, draft |-> page[p].saved.draft,
             expected |-> page[p].saved.version, items |-> page[p].edit])
  /\ UNCHANGED <<page, vouched, signed>>

\* The button is off once the question is approved, and while anything is unsaved.
Approve(p) ==
  /\ ~Busy(p) /\ Open(p) /\ ~Dirty(p) /\ ~Locked(p)
  /\ \E i \in Items \ page[p].approvals :
       /\ Ask(p, [op |-> "approve", by |-> p, draft |-> page[p].saved.draft,
                  expected |-> page[p].saved.version, item |-> i])
       /\ vouched' = vouched \cup {<<page[p].saved.draft, i, page[p].edit[i]>>}
  /\ UNCHANGED <<page, signed>>

Regenerate(p) ==
  /\ ~Busy(p) /\ Open(p) /\ ~Locked(p)
  /\ \E i \in Items :
       /\ Ask(p, [op |-> "regenerate", by |-> p, draft |-> page[p].saved.draft,
                  expected |-> page[p].saved.version, item |-> i])
       /\ page' = [page EXCEPT ![p].base = page[p].edit[i]]
  /\ UNCHANGED <<vouched, signed>>

CanPublish(p) ==
  /\ Open(p) /\ ~Dirty(p) /\ ~Locked(p)
  /\ page[p].approvals = Items
  /\ page[p].final
  /\ ~Busy(p)

PublishQuiz(p) ==
  /\ CanPublish(p)
  /\ Ask(p, [op |-> "publish", by |-> p, draft |-> page[p].saved.draft,
             expected |-> page[p].saved.version])
  /\ signed' = signed \cup {<<page[p].saved.draft, page[p].edit>>}
  /\ UNCHANGED <<page, vouched>>
\* Another instructor saves, approves or publishes, at a page like this one.
Elsewhere(o) ==
  /\ \E h \in Handlers :
       \E d \in index \ OtherDrafts :
            LET doc == drafts[d] IN
            /\ doc.status # "published"
            /\ \/ /\ \E items \in [Items -> Texts] \ {doc.items} :
                       Send(h, [op |-> "save", by |-> o, draft |-> d, expected |-> doc.version,
                                items |-> items])
                  /\ UNCHANGED <<vouched, signed>>
               \/ /\ \E i \in Items :
                       /\ doc.approved[i] = NoText
                       /\ Send(h, [op |-> "approve", by |-> o, draft |-> d, expected |-> doc.version,
                                   item |-> i])
                       /\ vouched' = vouched \cup {<<d, i, doc.items[i]>>}
                  /\ UNCHANGED signed
               \/ /\ \A i \in Items : doc.approved[i] # NoText
                  /\ Send(h, [op |-> "publish", by |-> o, draft |-> d, expected |-> doc.version])
                  /\ signed' = signed \cup {<<d, doc.items>>}
                  /\ UNCHANGED vouched
  /\ UNCHANGED <<page, waits>>
-----------------------------------------------------------------------------
(* What an instructor does on the page alone *)

Locally(p, new) ==
  /\ page' = [page EXCEPT ![p] = new]
  /\ UNCHANGED <<authoringVars, waits, vouched, signed, asked>>

\* An edited question still shows its approval, until it is saved.
EditItem(p) ==
  /\ ~Busy(p) /\ Open(p) /\ ~Locked(p)
  /\ \E i \in Items, text \in Texts :
       /\ text # page[p].edit[i]
       /\ Locally(p, [page[p] EXCEPT !.edit[i] = text])

Discard(p) ==
  /\ ~Busy(p) /\ Dirty(p) /\ ~Locked(p)
  /\ Locally(p, Applied(page[p].saved, page[p].base))

Review(p) ==
  /\ ~Busy(p) /\ Open(p) /\ ~Dirty(p) /\ ~Locked(p)
  /\ Locally(p, [page[p] EXCEPT !.final = ~@])

Fresh(p, pre) ==
  /\ pre.draft = page[p].saved.draft
  /\ pre.version = page[p].saved.version
  /\ page[p].edit[pre.item] = page[p].base

ReplacePreview(p) ==
  /\ Open(p) /\ page[p].preview # None
  /\ LET pre == page[p].preview IN
     /\ Fresh(p, pre)
     /\ Locally(p, [page[p] EXCEPT !.edit[pre.item] = pre.text, !.approvals = @ \ {pre.item},
                                   !.preview = None, !.final = FALSE])

DropPreview(p) ==
  /\ page[p].preview # None
  /\ Locally(p, [page[p] EXCEPT !.preview = None])

UseSaved(p) ==
  /\ page[p].conflict # None
  /\ Locally(p, Applied(page[p].conflict, page[p].base))

\* Mutation: only the version of the saved draft is taken over.
KeepEditingVersion(p) ==
  /\ page[p].conflict # None /\ page[p].conflict.status # "published"
  /\ Locally(p, [page[p] EXCEPT !.saved.version = page[p].conflict.version, !.conflict = None,
                                !.final = FALSE])

KeepEditing(p) ==
  /\ page[p].conflict # None /\ page[p].conflict.status # "published"
  /\ Locally(p, [page[p] EXCEPT !.saved = page[p].conflict, !.approvals = page[p].conflict.approvals,
                                !.conflict = None, !.final = FALSE])
-----------------------------------------------------------------------------
(* The answers *)

Free(h) == [handler EXCEPT ![h] = Idle]

\* After a version conflict the page asks for the saved draft, still busy.
Receive(p, h) ==
  /\ h \in waits[p] /\ handler[h].stage = "replied"
  /\ LET r == handler[h].request
         reply == handler[h].reply
         refused == "code" \in DOMAIN reply
     IN
     \/ /\ refused /\ reply.code = "VERSION_CONFLICT" /\ Open(p)
        /\ Goes(h, "called", AboutSaved(p, "compare"), Absent)
        /\ UNCHANGED <<page, waits>>
     \/ /\ refused /\ ~(reply.code = "VERSION_CONFLICT" /\ Open(p))
        /\ handler' = Free(h)
        /\ waits' = [waits EXCEPT ![p] = {}]
        /\ UNCHANGED page
     \/ /\ ~refused
        /\ page' = [page EXCEPT ![p] =
             CASE r.op = "compare" -> [@ EXCEPT !.conflict = View(reply)]
               [] r.op = "regenerate" -> [@ EXCEPT !.preview = reply]
               [] r.op \notin {"compare", "regenerate"} -> Applied(View(reply), @.base)]
        /\ handler' = Free(h)
        /\ waits' = [waits EXCEPT ![p] = {}]
  /\ UNCHANGED <<drafts, index, born, published, vouched, signed, asked>>

\* The connection breaks: the service may or may not go on with the request.
Lose(p) ==
  /\ Busy(p)
  /\ waits' = [waits EXCEPT ![p] = {}]
  /\ UNCHANGED <<authoringVars, page, vouched, signed, asked>>

Dropped(h) ==
  /\ handler[h].stage = "replied" /\ \A p \in Pages : h \notin waits[p]
  /\ handler' = Free(h)
  /\ UNCHANGED <<drafts, index, born, published, page, waits, vouched, signed, asked>>

Service == (\E h \in Handlers : Serve(h)) /\ UNCHANGED <<page, waits, vouched, signed, asked>>
Expiry ==
  /\ \E d \in index : Expire(d)
  /\ UNCHANGED <<page, waits, vouched, signed, asked>>
Places == (\E d \in OtherDrafts : TakePlace(d)) /\ UNCHANGED <<page, waits, vouched, signed, asked>>

StudioNext ==
  \/ \E p \in Pages :
       \/ CreateDraft(p) \/ OpenDraft(p) \/ Save(p) \/ Approve(p) \/ Regenerate(p) \/ PublishQuiz(p)
       \/ EditItem(p) \/ Discard(p) \/ Review(p) \/ ReplacePreview(p) \/ DropPreview(p)
       \/ UseSaved(p) \/ KeepEditing(p)
       \/ \E h \in Handlers : Receive(p, h)
       \/ Lose(p)
  \/ \E o \in Others : Elsewhere(o)
  \/ \E h \in Handlers : Dropped(h)
  \/ Service
  \/ Expiry
  \/ Places

StudioSpec == StudioInit /\ [][StudioNext]_vars
-----------------------------------------------------------------------------
(* Properties *)

Known == {d \in Drafts : drafts[d] # Absent}
Versions == 1..(MaxIntents + 2)
Views == [draft : Drafts, version : Versions, status : {"needs-review", "published"},
          items : [Items -> Texts], approvals : SUBSET Items]
Previews == [draft : Drafts, item : Items, version : Versions, text : Texts]

\* What the pages and the service hold has the shape the code gives it, and a
\* page awaits one answer, of a request of its own.
TypeOK ==
  /\ \A d \in Known :
       /\ View(drafts[d]) \in Views
       /\ drafts[d].approved \in [Items -> Texts \cup {NoText}]
       /\ Cardinality(drafts[d].intents) <=
            MaxIntents + (IF drafts[d].status = "published" THEN 1 ELSE 0)
  /\ index \subseteq Known \cup OtherDrafts
  /\ born \subseteq Drafts \cup OtherDrafts
  /\ \A d \in DOMAIN published \ OtherDrafts : published[d] \in [Items -> Texts]
  /\ \A h \in Handlers : handler[h].stage \in
       {"idle", "called", "generating", "writing", "conflicted", "replied"}
  /\ \A p \in Pages :
       /\ page[p].saved \in Views \cup {None}
       /\ Open(p) => page[p].edit \in [Items -> Texts]
       /\ page[p].conflict \in Views \cup {None}
       /\ page[p].preview \in Previews \cup {None}
       /\ \A h \in waits[p] : handler[h] # Idle /\ handler[h].request.by = p

\* An approval the service holds names the present content of its question, and
\* an instructor asked for it while a page showed that content: an approval sent
\* from a stale page, or for a question since edited elsewhere, is not kept.
ApprovedAsSeen ==
  \A d \in Known, i \in Items :
    drafts[d].approved[i] # NoText =>
      /\ drafts[d].approved[i] = drafts[d].items[i]
      /\ <<d, i, drafts[d].items[i]>> \in vouched

\* A published quiz is question by question what a page showed when its
\* instructor declared it reviewed and asked to publish; an instructor approved
\* every one of its questions while looking at it; and the draft, marked
\* published exactly when its quiz exists, says the same as the quiz.
PublishedAsReviewed ==
  /\ \A d \in DOMAIN published \ OtherDrafts :
       /\ <<d, published[d]>> \in signed
       /\ \A i \in Items : <<d, i, published[d][i]>> \in vouched
  /\ \A d \in Known :
       /\ drafts[d].status = "published" <=> d \in DOMAIN published
       /\ d \in DOMAIN published => published[d] = drafts[d].items

\* A page that names a version shows that version: what it takes for saved, or
\* compares its edits with, is the stored draft as long as the versions agree,
\* so that a request it composes from there is refused when it should be.
PageKnowsItsVersion ==
  TypeOK /\ \A p \in Pages : \A v \in {page[p].saved, page[p].conflict} \ {None} :
    drafts[v.draft].version = v.version => View(drafts[v.draft]) = v

\* While a draft lives no accepted change is undone by a slower one, each change
\* is one version, and a published quiz never changes.
NoChangeIsLost ==
  [][/\ \A d \in Known \cap Known' :
          /\ drafts[d].intents \subseteq drafts'[d].intents
          /\ drafts'[d].version - drafts[d].version =
               Cardinality(drafts'[d].intents \ drafts[d].intents)
     /\ \A d \in DOMAIN published : d \in DOMAIN published' /\ published'[d] = published[d]]_vars
=============================================================================
