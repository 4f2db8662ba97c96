------------------------------ MODULE OAuthFlow ------------------------------
(***************************************************************************)
(* OAuthFlow: connecting a mailbox from the dialog of the mailboxes page   *)
(* to the redirect that ends it.  The server keeps nothing of a flow: what *)
(* was asked for travels in the signed state, through the provider, which  *)
(* issues a code for whatever account the user signs in with.  saveTokens  *)
(* is one step here; MailboxLinking has its calls.                         *)
(***************************************************************************)
EXTENDS Naturals, Sequences

CONSTANTS
    Dashboards,  \* the open mailboxes pages
    Emails,      \* the addresses entered; also the accounts at the provider
    Clients, Providers,
    Configured,  \* the providers whose client id the server has
    MaxFlows,    \* bound: flows started
    MaxSecrets   \* bound: secrets the states are signed with over time

ASSUME OAuthAssumption ==
    /\ Configured \subseteq Providers
    /\ MaxFlows \in Nat /\ MaxSecrets \in Nat \ {0}

VARIABLES
    listed,  \* the addresses in the list each page shows
    flows,   \* the flows, in the order they were started
    rows,    \* the mailboxes
    bound,   \* the provider each client is bound to, or "none"
    secret   \* the number of the secret now in use
vars == <<listed, flows, rows, bound, secret>>

Accounts == Emails
State == [email : Emails, client : Clients, signed : 1 .. MaxSecrets]
Flow == [state : State, provider : Providers,
         at : {"away", "denied", "code", "exchanged", "used", "lost"},
         account : Accounts \cup {"none"},
         answer : {"none", "connected", "error"}]
Mailbox == [email : Emails, client : Clients, provider : Providers,
            account : Accounts]

TypeOK ==
    /\ listed \in [Dashboards -> SUBSET Emails]
    /\ flows \in Seq(Flow)
    /\ rows \subseteq Mailbox
    /\ bound \in [Clients -> Providers \cup {"none"}]
    /\ secret \in 1 .. MaxSecrets

Init ==
    /\ listed = [d \in Dashboards |-> {}]
    /\ flows = <<>>
    /\ rows = {}
    /\ bound = [c \in Clients |-> "none"]
    /\ secret = 1

Becomes(f, at, answer) ==
    flows' = [flows EXCEPT ![f].at = at, ![f].answer = answer]

-----------------------------------------------------------------------------
FetchMailboxes(d) ==
    /\ listed' = [listed EXCEPT ![d] = {r.email : r \in rows}]
    /\ UNCHANGED <<flows, rows, bound, secret>>

(* The query of the provider's page: the state is signed. *)
RedirectState(email, client) == [email |-> email, client |-> client,
                                 signed |-> secret]

(* handleConnect, and the browser follows the redirect it gets; a provider *)
(* that is not configured, or an address that is listed, gets a message.   *)
HandleConnect(d, email, client, provider) ==
    /\ Len(flows) < MaxFlows
    /\ email \notin listed[d]
    /\ provider \in Configured
    /\ flows' = Append(flows, [state |-> RedirectState(email, client),
                               provider |-> provider, at |-> "away",
                               account |-> "none", answer |-> "none"])
    /\ UNCHANGED <<listed, rows, bound, secret>>

(* The user signs in at the provider and agrees, or does not. *)
Consent(f, account) ==
    /\ flows[f].at = "away"
    /\ flows' = [flows EXCEPT ![f].at = "code", ![f].account = account]
    /\ UNCHANGED <<listed, rows, bound, secret>>

Deny(f) ==
    /\ flows[f].at = "away"
    /\ Becomes(f, "denied", "none")
    /\ UNCHANGED <<listed, rows, bound, secret>>

(* callback: the state was signed with another secret, there is no code or *)
(* it was used before (the browser loads the callback again), or the       *)
(* provider cannot be reached.                                             *)
Verified(f) == flows[f].state.signed = secret

CallbackFails(f) ==
    /\ flows[f].at \in {"denied", "code", "used", "lost"}
    /\ Becomes(f, flows[f].at, "error")
    /\ UNCHANGED <<listed, rows, bound, secret>>

(* Mutant: the browser is answered before the tokens are saved. *)
Exchange_AnswersEarly(f) ==
    /\ flows[f].at = "code" /\ Verified(f)
    /\ Becomes(f, "exchanged", "connected")
    /\ UNCHANGED <<listed, rows, bound, secret>>

(* callback, up to the provider's answer to the code. *)
Exchange(f) ==
    /\ flows[f].at = "code" /\ Verified(f)
    /\ Becomes(f, "exchanged", flows[f].answer)
    /\ UNCHANGED <<listed, rows, bound, secret>>

(* Mutant: the client is that of the flow started last. *)
Decoded_LastFlow(f) == [email |-> flows[f].state.email,
                        client |-> flows[Len(flows)].state.client,
                        provider |-> flows[f].provider, account |-> flows[f].account]

(* The row that is saved: what the state says, the account's tokens. *)
Decoded(f) == [email |-> flows[f].state.email, client |-> flows[f].state.client,
               provider |-> flows[f].provider, account |-> flows[f].account]

(* How far saveTokens may get with r before a call of the database fails,  *)
(* the client is found bound to another provider, or the process dies.     *)
Free(r) == bound[r.client] \in {"none", r.provider}

BindClient(r) == Free(r) /\ bound' = [bound EXCEPT ![r.client] = r.provider]

SaveTokens(r) ==
    /\ BindClient(r)
    /\ rows' = {s \in rows : <<s.email, s.client, s.provider>>
                              # <<r.email, r.client, r.provider>>} \cup {r}

SavePart(r) ==
    \/ UNCHANGED <<rows, bound>>
    \/ BindClient(r) /\ UNCHANGED rows
    \/ SaveTokens(r)

(* callback, from saveTokens on. *)
Save(f) ==
    /\ flows[f].at = "exchanged"
    /\ \/ SaveTokens(Decoded(f)) /\ Becomes(f, "used", "connected")
       \/ SavePart(Decoded(f)) /\ Becomes(f, "used", "error")
    /\ UNCHANGED <<listed, secret>>

(* The process dies in the middle of it, and the code is spent. *)
Crash(f) ==
    /\ flows[f].at = "exchanged"
    /\ SavePart(Decoded(f))
    /\ Becomes(f, "lost", flows[f].answer)
    /\ UNCHANGED <<listed, secret>>

(* The server is configured with another secret. *)
Rotate ==
    /\ secret < MaxSecrets
    /\ secret' = secret + 1
    /\ UNCHANGED <<listed, flows, rows, bound>>

Next ==
    \/ \E d \in Dashboards :
         \/ FetchMailboxes(d)
         \/ \E e \in Emails, c \in Clients, p \in Providers : HandleConnect(d, e, c, p)
    \/ \E f \in DOMAIN flows :
         \/ Deny(f) \/ CallbackFails(f) \/ Exchange(f) \/ Save(f) \/ Crash(f)
         \/ \E a \in Accounts : Consent(f, a)
    \/ Rotate

Spec == Init /\ [][Next]_vars

-----------------------------------------------------------------------------
(* A mailbox exists only as somebody asked for it: one flow named its      *)
(* address, its client and its provider, and that flow's user consented    *)
(* with the account whose tokens it holds, whatever other flows came back  *)
(* in between.                                                             *)
LinkedAsAsked ==
    \A r \in rows :
        \E f \in DOMAIN flows :
            /\ flows[f].at \in {"used", "lost"} /\ flows[f].account = r.account
            /\ flows[f].state.email = r.email /\ flows[f].state.client = r.client
            /\ flows[f].provider = r.provider

(* The browser is told "connected" only if the mailbox is there. *)
ConnectedIsLinked ==
    \A f \in DOMAIN flows :
        flows[f].answer = "connected" =>
            \E r \in rows : /\ r.email = flows[f].state.email
                            /\ r.client = flows[f].state.client
                            /\ r.provider = flows[f].provider

=============================================================================
