----------------------------- MODULE ComposePage -----------------------------
(***************************************************************************)
(* ComposePage: from a draft on the screen to a job in the queue.  A job   *)
(* stands for a mail that goes out, so a draft queued twice is a mail sent *)
(* twice.  The text is in the page's state; the file is too, but its input *)
(* keeps a value of its own, and reports it only when it changes.          *)
(***************************************************************************)
EXTENDS Naturals, FiniteSets

CONSTANTS
    Files,      \* files to attach
    NoFile,
    MaxDrafts,  \* bound: drafts typed
    MaxPosts    \* bound: how often the button is pressed

ASSUME ComposeAssumption ==
    /\ NoFile \notin Files /\ MaxDrafts \in Nat /\ MaxPosts \in Nat

VARIABLES
    mailboxes,  \* what the list From offers: "loading", "none" or "some"
    typed,      \* how many drafts were typed; they are 1 .. typed
    draft,      \* the one on the screen, or 0: the form is not filled in
    picked,     \* the file that the input shows
    attachment, \* the file that will be sent
    sending,    \* the POST that handleSend awaits, or 0
    pressed,    \* how many POSTs there were
    posts,      \* those under way
    queued,     \* the jobs
    lost,       \* the POSTs whose answers were lost
    meanwhile,  \* the drafts typed while a POST was awaited
    dropped,    \* the drafts the user replaced, cleared or left
    cleared     \* whether an answer cleared the form since a file was picked

composeVars ==
    <<mailboxes, typed, draft, picked, attachment, sending, pressed, posts,
      queued, lost, meanwhile, dropped, cleared>>

screen == <<draft, picked, attachment>>
history == <<meanwhile, dropped>>

Drafts == 1 .. MaxDrafts
Posts == [no : 1 .. MaxPosts, draft : Drafts, file : Files \cup {NoFile},
          showing : Files \cup {NoFile}, stale : BOOLEAN]

ComposeTypeOK ==
    /\ mailboxes \in {"loading", "none", "some"}
    /\ typed \in 0 .. MaxDrafts /\ draft \in 0 .. typed
    /\ picked \in Files \cup {NoFile} /\ attachment \in Files \cup {NoFile}
    /\ sending \in 0 .. pressed /\ pressed \in 0 .. MaxPosts
    /\ posts \subseteq Posts /\ queued \subseteq Posts /\ lost \subseteq Posts
    /\ meanwhile \subseteq 1 .. typed /\ dropped \subseteq 1 .. typed
    /\ cleared \in BOOLEAN

-----------------------------------------------------------------------------
ComposeInit ==
    /\ mailboxes = "loading"
    /\ typed = 0 /\ draft = 0
    /\ picked = NoFile /\ attachment = NoFile
    /\ sending = 0 /\ pressed = 0
    /\ posts = {} /\ queued = {} /\ lost = {}
    /\ meanwhile = {} /\ dropped = {} /\ cleared = FALSE

Drop(d) == dropped' = dropped \cup ({d} \ {0})

(* fetchMailboxes; without a mailbox the form cannot be filled in. *)
FetchMailboxes ==
    /\ mailboxes = "loading"
    /\ mailboxes' \in {"none", "some"}
    /\ UNCHANGED <<typed, screen, sending, pressed, posts, queued, lost, history, cleared>>

(* A mail is typed, or the one on the screen made another; the fields are  *)
(* not disabled while one is sent.                                         *)
TypeDraft ==
    /\ mailboxes = "some" /\ typed < MaxDrafts
    /\ typed' = typed + 1 /\ draft' = typed + 1
    /\ meanwhile' = IF sending # 0 THEN meanwhile \cup {typed + 1} ELSE meanwhile
    /\ Drop(draft)
    /\ UNCHANGED <<mailboxes, picked, attachment, sending, pressed, posts,
                   queued, lost, cleared>>

(* onChange of the file's input: not if the same file is picked again. *)
PickFile(f) ==
    /\ mailboxes # "loading" /\ f # picked
    /\ picked' = f /\ attachment' = f /\ cleared' = FALSE
    /\ UNCHANGED <<mailboxes, typed, draft, sending, pressed, posts, queued,
                   lost, history>>

(* Mutant: the button is of no type reset, the input keeps its file. *)
Clear_KeepsInput ==
    /\ mailboxes # "loading"
    /\ draft' = 0 /\ attachment' = NoFile /\ cleared' = FALSE
    /\ Drop(draft)
    /\ UNCHANGED <<mailboxes, typed, picked, sending, pressed, posts, queued, lost,
                   meanwhile>>

(* Clear resets the input, too. *)
Clear ==
    /\ mailboxes # "loading"
    /\ draft' = 0 /\ picked' = NoFile /\ attachment' = NoFile /\ cleared' = FALSE
    /\ Drop(draft)
    /\ UNCHANGED <<mailboxes, typed, sending, pressed, posts, queued, lost, meanwhile>>

(* Mutant: the button is not disabled. *)
CanSend_Always == draft # 0

(* The form is filled in and its button enabled. *)
CanSend == draft # 0 /\ sending = 0

(* handleSend, up to the POST. *)
HandleSend ==
    /\ CanSend /\ pressed < MaxPosts
    /\ pressed' = pressed + 1 /\ sending' = pressed + 1
    /\ posts' = posts \cup {[no |-> pressed + 1, draft |-> draft, file |-> attachment,
                             showing |-> picked, stale |-> cleared]}
    /\ UNCHANGED <<mailboxes, typed, screen, queued, lost, history, cleared>>

(* send of MailController adds the job. *)
Enqueue(p) ==
    /\ p \notin queued
    /\ queued' = queued \cup {p}
    /\ UNCHANGED <<mailboxes, typed, screen, sending, pressed, posts, lost,
                   history, cleared>>

(* Mutant: the form is cleared whatever the answer. *)
Sent_Always(p) ==
    /\ sending = p.no
    /\ sending' = 0
    /\ posts' = posts \ {p}
    /\ draft' = 0 /\ attachment' = NoFile /\ cleared' = TRUE
    /\ UNCHANGED <<mailboxes, typed, picked, pressed, queued, lost, history>>

(* The POST succeeded: the form is cleared, with what was typed meanwhile, *)
(* but the input of the file is not.                                       *)
Sent(p) ==
    /\ sending = p.no /\ p \in queued
    /\ sending' = 0
    /\ posts' = posts \ {p}
    /\ draft' = 0 /\ attachment' = NoFile /\ cleared' = TRUE
    /\ UNCHANGED <<mailboxes, typed, picked, pressed, queued, lost, history>>

(* It is refused. *)
SendFails(p) ==
    /\ sending = p.no /\ p \notin queued
    /\ sending' = 0
    /\ posts' = posts \ {p}
    /\ UNCHANGED <<mailboxes, typed, screen, pressed, queued, lost, history, cleared>>

(* The connection is lost: the server may have queued the job, or may yet. *)
LoseAnswer(p) ==
    /\ sending = p.no
    /\ sending' = 0
    /\ lost' = lost \cup {p}
    /\ UNCHANGED <<mailboxes, typed, screen, pressed, posts, queued, history, cleared>>

(* A POST that nobody awaits any more ends. *)
Unawaited(p) ==
    /\ sending # p.no
    /\ posts' = posts \ {p}
    /\ UNCHANGED <<mailboxes, typed, screen, sending, pressed, queued, lost,
                   history, cleared>>

(* The page is left and opened again. *)
ReopenCompose ==
    /\ mailboxes # "loading"
    /\ mailboxes' = "loading"
    /\ Drop(draft)
    /\ draft' = 0 /\ picked' = NoFile /\ attachment' = NoFile
    /\ sending' = 0 /\ cleared' = FALSE
    /\ UNCHANGED <<typed, pressed, posts, queued, lost, meanwhile>>

ComposeNext ==
    \/ FetchMailboxes \/ TypeDraft \/ Clear \/ HandleSend \/ ReopenCompose
    \/ \E f \in Files \cup {NoFile} : PickFile(f)
    \/ \E p \in posts : Enqueue(p) \/ Sent(p) \/ SendFails(p)
                       \/ LoseAnswer(p) \/ Unawaited(p)

ComposeSpec == ComposeInit /\ [][ComposeNext]_composeVars

-----------------------------------------------------------------------------
(* A mail goes out twice only if the answer to one of its POSTs was lost:  *)
(* never by pressing the button again, nor by sending again what had been  *)
(* refused.                                                                *)
TwiceNeedsLostAnswer ==
    \A d \in 1 .. typed :
        Cardinality({p \in queued : p.draft = d})
            <= 1 + Cardinality({p \in lost : p.draft = d})

(* A draft does not vanish: it is on the screen or queued, the user has    *)
(* dropped it, or it was typed while another was being sent.               *)
NothingVanishes ==
    \A d \in 1 .. typed :
        \/ d = draft
        \/ d \in dropped \cup meanwhile
        \/ \E p \in queued : p.draft = d

(* A mail is queued with the file its page showed, unless an answer had    *)
(* cleared the form since that file was picked; then it has none.          *)
ShownFileIsSent ==
    \A p \in queued : p.file = p.showing \/ (p.stale /\ p.file = NoFile)

=============================================================================
