------------------------------- MODULE Session -------------------------------
(***************************************************************************)
(* Session: who the frontend believes is signed in.  The token is kept     *)
(* three times: under "token" in localStorage, in the auth store (also in  *)
(* localStorage, under "auth-storage", and in the memory of each tab), and *)
(* as the default header of the tab's axios.  The pages look at the store; *)
(* the requests carry the first and, failing that, the header.             *)
(***************************************************************************)
EXTENDS Naturals

CONSTANTS
    Tabs,    \* the tabs of one browser
    Tokens,  \* bound: the tokens the server will sign
    None     \* no token, no request

ASSUME SessionAssumption == {None, "nothing"} \cap Tokens = {} /\ None # "nothing"

VARIABLES
    valid,    \* the tokens the server accepts
    signed,   \* those it has signed
    local,    \* localStorage "token"
    stored,   \* localStorage "auth-storage"
    mem,      \* the token in the store of each tab
    header,   \* the default Authorization header of each tab
    path,     \* "login" or "dashboard"
    loading,  \* the tabs whose document is being loaded
    sent      \* what the unanswered request of each tab carries, or "nothing"

server == <<valid, signed>>
browser == <<local, stored>>
vars == <<server, browser, mem, header, path, loading, sent>>

TypeOK ==
    /\ valid \subseteq signed /\ signed \subseteq Tokens
    /\ local \in signed \cup {None} /\ stored \in signed \cup {None}
    /\ mem \in [Tabs -> signed \cup {None}]
    /\ header \in [Tabs -> signed \cup {None}]
    /\ path \in [Tabs -> {"login", "dashboard"}]
    /\ loading \subseteq Tabs
    /\ sent \in [Tabs -> signed \cup {None, "nothing"}]

(* A tab opens at either page, by its address. *)
Init ==
    /\ valid = {} /\ signed = {}
    /\ local = None /\ stored = None
    /\ mem = [t \in Tabs |-> None] /\ header = [t \in Tabs |-> None]
    /\ path \in [Tabs -> {"login", "dashboard"}]
    /\ loading = Tabs
    /\ sent = [t \in Tabs |-> "nothing"]

(* The interceptor of requests. *)
Bearer(t) == IF local # None THEN local ELSE header[t]

GoTo(t, p) == path' = [path EXCEPT ![t] = p]

-----------------------------------------------------------------------------
(* The document is loaded: the store comes from storage, the header from   *)
(* nowhere.                                                                *)
Load(t) ==
    /\ t \in loading
    /\ loading' = loading \ {t}
    /\ mem' = [mem EXCEPT ![t] = stored]
    /\ header' = [header EXCEPT ![t] = None]
    /\ UNCHANGED <<server, browser, path, sent>>

(* The user loads the page again. *)
Reload(t) ==
    /\ t \notin loading
    /\ loading' = loading \cup {t}
    /\ sent' = [sent EXCEPT ![t] = "nothing"]
    /\ UNCHANGED <<server, browser, mem, header, path>>

(* The login page sends a tab with a token on, and the layout of the       *)
(* dashboard sends one without back.                                       *)
EnterDashboard(t) ==
    /\ t \notin loading /\ path[t] = "login" /\ mem[t] # None
    /\ GoTo(t, "dashboard")
    /\ UNCHANGED <<server, browser, mem, header, loading, sent>>

LeaveDashboard(t) ==
    /\ t \notin loading /\ path[t] = "dashboard" /\ mem[t] = None
    /\ GoTo(t, "login")
    /\ UNCHANGED <<server, browser, mem, header, loading, sent>>

(* login of the store, when the server has answered. *)
SignedIn(t, tok) ==
    /\ local' = tok
    /\ header' = [header EXCEPT ![t] = tok]
    /\ mem' = [mem EXCEPT ![t] = tok]
    /\ stored' = tok

(* The server: the password was right, a token is signed.                  *)
Sign(tok) ==
    /\ tok \notin signed
    /\ signed' = signed \cup {tok} /\ valid' = valid \cup {tok}

(* The form is submitted with the right password, the server signs a token *)
(* and the tab goes on.  (A wrong password changes nothing.)               *)
Login(t, tok) ==
    /\ t \notin loading /\ path[t] = "login" /\ mem[t] = None
    /\ Sign(tok)
    /\ SignedIn(t, tok)
    /\ GoTo(t, "dashboard")
    /\ UNCHANGED <<loading, sent>>

(* Mutant: localStorage "token" stays. *)
Logout_KeepsToken(t) ==
    /\ t \notin loading /\ path[t] = "dashboard" /\ mem[t] # None
    /\ header' = [header EXCEPT ![t] = None]
    /\ mem' = [mem EXCEPT ![t] = None]
    /\ stored' = None
    /\ GoTo(t, "login")
    /\ loading' = loading \cup {t}
    /\ sent' = [sent EXCEPT ![t] = "nothing"]
    /\ UNCHANGED <<server, local>>

Logout(t) ==
    /\ t \notin loading /\ path[t] = "dashboard" /\ mem[t] # None
    /\ local' = None
    /\ header' = [header EXCEPT ![t] = None]
    /\ mem' = [mem EXCEPT ![t] = None]
    /\ stored' = None
    /\ GoTo(t, "login")
    /\ loading' = loading \cup {t}
    /\ sent' = [sent EXCEPT ![t] = "nothing"]
    /\ UNCHANGED server

-----------------------------------------------------------------------------
(* A page of the dashboard asks for its data. *)
Request(t) ==
    /\ t \notin loading /\ path[t] = "dashboard" /\ mem[t] # None
    /\ sent[t] = "nothing"
    /\ sent' = [sent EXCEPT ![t] = Bearer(t)]
    /\ UNCHANGED <<server, browser, mem, header, path, loading>>

Answer(t) ==
    /\ sent[t] \in valid
    /\ sent' = [sent EXCEPT ![t] = "nothing"]
    /\ UNCHANGED <<server, browser, mem, header, path, loading>>

(* The server answers 401: the interceptor of answers. *)
Unauthorized(t) ==
    /\ sent[t] \notin valid \cup {"nothing"}
    /\ local' = None
    /\ GoTo(t, "login")
    /\ loading' = loading \cup {t}
    /\ sent' = [sent EXCEPT ![t] = "nothing"]
    /\ UNCHANGED <<server, stored, mem, header>>

(* A token expires (or the secret it was signed with is replaced). *)
Expire(tok) ==
    /\ tok \in valid
    /\ valid' = valid \ {tok}
    /\ UNCHANGED <<signed, browser, mem, header, path, loading, sent>>

Next ==
    \/ \E t \in Tabs :
         \/ Load(t) \/ Reload(t) \/ EnterDashboard(t) \/ LeaveDashboard(t)
         \/ Logout(t) \/ Request(t) \/ Answer(t) \/ Unauthorized(t)
         \/ \E tok \in Tokens : Login(t, tok)
    \/ \E tok \in Tokens : Expire(tok)

Spec == Init /\ [][Next]_vars

(* What the browser, the pages and the server do without the user, who     *)
(* lets them finish now and then instead of loading the page for ever.     *)
Fairness ==
    \A t \in Tabs :
        /\ WF_vars(Load(t))
        /\ SF_vars(EnterDashboard(t)) /\ SF_vars(LeaveDashboard(t))
        /\ SF_vars(Request(t)) /\ SF_vars(Answer(t)) /\ SF_vars(Unauthorized(t))

FairSpec == Spec /\ Fairness

-----------------------------------------------------------------------------
(* The three copies of the token agree as far as it matters: a tab that    *)
(* shows somebody signed in sends that token as long as the server accepts *)
(* it, and one that shows nobody signed in sends none, however often the   *)
(* tab was loaded and the token expired since.                             *)
SendsWhatItShows ==
    \A t \in Tabs \ loading :
        mem[t] \in valid \cup {None} => Bearer(t) = mem[t]

(* A tab that is sent to the login page gets to see its form, or turns out *)
(* to be signed in.                                                        *)
FormShown(t) == t \notin loading /\ path[t] = "login" /\ mem[t] = None
LoginIsReached ==
    \A t \in Tabs :
        path[t] = "login" ~> FormShown(t) \/ Bearer(t) \in valid

=============================================================================
