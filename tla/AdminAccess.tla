------------------------------ MODULE AdminAccess ------------------------------
(***************************************************************************)
(* Who gets in: the session tokens of api/auth.py, the gate in front of    *)
(* the routes (api/main.py), and the page that keeps the token             *)
(* (dashboard/app/page.tsx, dashboard/app/Login.tsx, dashboard/lib/api.ts).*)
(*                                                                         *)
(* A request is sent, handled and its answer taken in three steps, so that *)
(* a token may end, the server restart with another secret or whitelist,   *)
(* and another flow of the same page log out in between.  Signatures are   *)
(* not forged; GOOGLE_CLIENT_ID is set, and with an empty whitelist the    *)
(* gate is open.                                                           *)
(***************************************************************************)
EXTENDS Naturals, FiniteSets

CONSTANTS
  Tabs,
  Emails,      \* accounts that sign in
  Whitelists,  \* what ADMIN_ALLOWED_EMAILS may hold when a server starts
  Reads,       \* what load() asks for together: stats, listings, orders
  Ttl,         \* SESSION_TTL
  MaxTime,     \* bound: the clock
  MaxFaults,   \* bound: restarts, broken connections, impatient refreshes
  MaxOpen,     \* bound: with so many requests of a tab under way its user waits
  NULL

ASSUME AccessAssumption ==
  /\ Ttl \in Nat /\ MaxTime \in Nat /\ MaxFaults \in Nat /\ MaxOpen \in Nat
  /\ NULL \notin Emails /\ NULL \notin [at: Nat, secret: Nat]
  /\ NULL \notin [email: Emails, secret: Nat, exp: Nat]
  /\ Reads \cap {"config", "act", "monitor", "google"} = {}

VARIABLES
  now,        \* time.time()
  server,     \* the settings of the running server
  stored,     \* localStorage: the token the tabs share
  page,       \* [Tabs -> what the tab shows]
  requests,   \* under way: sent, or answered and the answer not yet taken
  vouched,    \* history: when and under which secret Google last vouched
  faults      \* history: faults so far

vars == <<now, server, stored, page, requests, vouched, faults>>

Token == [email: Emails, secret: 0..MaxFaults, exp: 0..(MaxTime + Ttl)]

\* known: the config has come; auth: what it said; login: needLogin; leaving:
\* the document has asked for a reload and still runs.
NewPage ==
  [known |-> FALSE, auth |-> FALSE, login |-> FALSE, err |-> FALSE, leaving |-> FALSE]

\* owner: the load on mount, the button that was clicked, the sign-in, or nobody.
Asks(t, owner, path, tok, who) ==
  [tab |-> t, owner |-> owner, path |-> path, token |-> tok, who |-> who, status |-> "sent"]

Init ==
  /\ now = 0
  /\ server \in [secret: {0}, fixed: BOOLEAN, allowed: Whitelists]
  /\ stored = NULL
  /\ page = [t \in Tabs |-> NewPage]
  /\ requests = {Asks(t, "mount", "config", NULL, NULL) : t \in Tabs}
  /\ vouched = [e \in Emails |-> NULL]
  /\ faults = 0
-----------------------------------------------------------------------------
(* The server.                                                             *)
AuthOn == server.allowed # {}

\* Mutant: the end of a token is not looked at.
GenuineForEver(tok) == tok # NULL /\ tok.secret = server.secret

Genuine(tok) ==
  /\ tok # NULL
  /\ tok.secret = server.secret
  /\ now <= tok.exp

\* require_admin, and then the handler: it may succeed or fail.
Guarded(r) ==
  IF AuthOn /\ ~Genuine(r.token) THEN {"401"}
  ELSE IF AuthOn /\ r.token.email \notin server.allowed THEN {"403"}
  ELSE {"ok", "fail"}

\* Mutant: what Google answered is not looked at.
SignedInUnchecked(who) ==
  IF ~AuthOn THEN "fail"
  ELSE IF who \in Emails \ server.allowed THEN "403"
  ELSE "ok"

SignedIn(who) ==
  IF ~AuthOn THEN "fail"
  ELSE IF who = NULL THEN "401"
  ELSE IF who \notin server.allowed THEN "403"
  ELSE "ok"

\* Of an answer nobody waits for only a 401 still matters, and a sign-in that fails
\* otherwise only shows why.
Matters(r) ==
  \/ r.owner \in {"mount", "click"}
  \/ r.owner = "google" /\ r.status \in {"sent", "ok", "401"}
  \/ r.owner = "gone" /\ r.status \in {"sent", "401"}

Answered(r, status, tok) ==
  requests' = (requests \ {r}) \cup
    {q \in {[r EXCEPT !.status = status, !.token = tok]} : Matters(q)}

\* auth_google: the answer carries a token; who is NULL when Google refuses.
ServeGoogle(r) ==
  LET status == SignedIn(r.who) IN
  IF status = "ok"
  THEN /\ Answered(r, status, [email |-> r.who, secret |-> server.secret, exp |-> now + Ttl])
       /\ vouched' = [vouched EXCEPT ![r.who] = [at |-> now, secret |-> server.secret]]
  ELSE Answered(r, status, NULL) /\ UNCHANGED vouched

Serve(r) ==
  /\ r.status = "sent"
  /\ CASE r.path = "google" -> ServeGoogle(r)
       [] r.path = "config" -> Answered(r, IF AuthOn THEN "on" ELSE "off", r.token)
                               /\ UNCHANGED vouched
       [] OTHER -> (\E s \in Guarded(r) : Answered(r, s, r.token)) /\ UNCHANGED vouched
  /\ UNCHANGED <<now, server, stored, page, faults>>

Fault == faults < MaxFaults /\ faults' = faults + 1

Broken(r) == IF r.status = "sent" THEN [r EXCEPT !.status = "fail"] ELSE r

\* A secret that is not configured is drawn anew at every start.
Restart ==
  /\ Fault
  /\ \E allowed \in Whitelists :
       server' = [server EXCEPT !.allowed = allowed,
                                !.secret = IF server.fixed THEN 0 ELSE faults']
  /\ requests' = {q \in {Broken(r) : r \in requests} : Matters(q)}
  /\ UNCHANGED <<now, stored, page, vouched>>

Break(r) ==
  /\ Fault
  /\ r.status = "sent"
  /\ Answered(r, "fail", r.token)
  /\ UNCHANGED <<now, server, stored, page, vouched>>

Tick ==
  /\ now < MaxTime
  /\ now' = now + 1
  /\ UNCHANGED <<server, stored, page, requests, vouched, faults>>
-----------------------------------------------------------------------------
(* The page.                                                               *)
Of(t, owner) == {r \in requests : r.tab = t /\ r.owner = owner}

LoginView(t) == page[t].login /\ page[t].known

\* Mutant: an account that is not on the whitelist is logged out as well.
KeptIfServed(r) == IF r.status \in {"401", "403"} THEN NULL ELSE stored

\* handle(): any 401 logs out, whatever token is stored by now.
Kept(r) == IF r.status = "401" THEN NULL ELSE stored

\* "fail": any other error answer, or none because the connection broke.
Bad == {"401", "403", "fail"}

\* window.location.reload() returns at once: until the new document is there the
\* old one takes the answers to what it asked for.
Leaves(t) == page' = [page EXCEPT ![t].leaving = TRUE]

\* A new document: what the old one asked for is no longer waited for.
Reload(t) ==
  /\ page' = [page EXCEPT ![t] = NewPage]
  /\ requests' = {r \in requests : r.tab # t} \cup {Asks(t, "mount", "config", NULL, NULL)}

\* load() has its config: it asks to log in, or reads with the stored token.
ConfigOk(r) ==
  /\ r.path = "config" /\ r.status \in {"on", "off"}
  /\ LET on == r.status = "on" IN
     /\ page' = [page EXCEPT ![r.tab].known = TRUE, ![r.tab].auth = on,
                             ![r.tab].login = @ \/ (on /\ stored = NULL)]
     /\ requests' = (requests \ {r}) \cup
          {Asks(r.tab, r.owner, p, stored, NULL) : p \in IF on /\ stored = NULL THEN {} ELSE Reads}

\* Promise.all resolves with the last answer.
ReadOk(r) ==
  /\ r.path \in Reads /\ r.status = "ok"
  /\ requests' = requests \ {r}
  /\ page' = IF Of(r.tab, r.owner) = {r} THEN [page EXCEPT ![r.tab].login = FALSE] ELSE page

\* load() ends with the first rejection, and nobody waits for the other reads.
LoadFails(r) ==
  /\ r.path \in Reads \cup {"config"} /\ r.status \in Bad
  /\ page' = IF r.status = "401" THEN [page EXCEPT ![r.tab].login = TRUE]
                                 ELSE [page EXCEPT ![r.tab].err = TRUE]
  /\ LET rest == {[s EXCEPT !.owner = "gone"] : s \in Of(r.tab, r.owner) \ {r}} IN
     requests' = (requests \ Of(r.tab, r.owner)) \cup {s \in rest : Matters(s)}

\* act() and runMonitor() load the page after an answer.
CallOk(r) ==
  /\ r.path \in {"act", "monitor"} /\ r.status = "ok"
  /\ page' = [page EXCEPT ![r.tab].err = FALSE]
  /\ requests' = (requests \ {r}) \cup {Asks(r.tab, r.owner, "config", stored, NULL)}

\* Mutant: act() swallows every error.
CallFailsSilently(r) ==
  /\ r.path \in {"act", "monitor"} /\ r.status \in Bad
  /\ UNCHANGED page
  /\ requests' = requests \ {r}

\* act() asks to log in after a 401 and swallows the rest; runMonitor() catches
\* nothing.
CallFails(r) ==
  /\ r.path \in {"act", "monitor"} /\ r.status \in Bad
  /\ page' = IF r.path = "act" /\ r.status = "401"
             THEN [page EXCEPT ![r.tab].login = TRUE] ELSE page
  /\ requests' = requests \ {r}

Take(r) ==
  /\ r.status # "sent"
  /\ \/ /\ r.owner = "gone"
        /\ requests' = requests \ {r} /\ UNCHANGED page /\ stored' = Kept(r)
     \/ /\ r.owner \in {"mount", "click"}
        /\ ConfigOk(r) \/ ReadOk(r) \/ LoadFails(r) \/ CallOk(r) \/ CallFails(r)
        /\ stored' = Kept(r)
     \/ /\ r.owner = "google"
        /\ requests' = requests \ {r}
        /\ IF r.status = "ok" THEN stored' = r.token /\ Leaves(r.tab)
                              ELSE stored' = Kept(r) /\ UNCHANGED page
  /\ UNCHANGED <<now, server, vouched, faults>>

\* The browser does what the document asked for.
Unload(t) ==
  /\ page[t].leaving
  /\ Reload(t)
  /\ UNCHANGED <<now, server, stored, vouched, faults>>
-----------------------------------------------------------------------------
(* The administrator.                                                      *)
Room(t) == Cardinality({r \in requests : r.tab = t}) < MaxOpen

Click(t, path) ==
  /\ ~LoginView(t) /\ Of(t, "click") = {} /\ Room(t)
  /\ requests' = requests \cup {Asks(t, "click", path, stored, NULL)}
  /\ UNCHANGED <<now, server, stored, page, vouched, faults>>

\* Google's button is never disabled, and nobody looks at the token a sign-in
\* carries.
SignIn(t, who) ==
  /\ LoginView(t) /\ Room(t)
  /\ requests' = requests \cup {Asks(t, "google", "google", NULL, who)}
  /\ UNCHANGED <<now, server, stored, page, vouched, faults>>

SignOut(t) ==
  /\ ~LoginView(t) /\ page[t].auth
  /\ stored' = NULL
  /\ Leaves(t)
  /\ UNCHANGED <<now, server, requests, vouched, faults>>

\* Without patience, a refresh may drop what is under way.
Refresh(t) ==
  /\ \/ (\A r \in requests : r.tab # t) /\ UNCHANGED faults
     \/ Fault
  /\ Reload(t)
  /\ UNCHANGED <<now, server, stored, vouched>>

Next ==
  \/ Tick \/ Restart
  \/ \E r \in requests : Serve(r) \/ Break(r) \/ Take(r)
  \/ \E t \in Tabs :
       \/ \E path \in {"act", "monitor"} : Click(t, path)
       \/ \E who \in Emails \cup {NULL} : SignIn(t, who)
       \/ SignOut(t) \/ Refresh(t) \/ Unload(t)

\* Requests are handled and their answers taken, and a reload that was asked for
\* happens; the administrator need do nothing.
Progress(t, owner) == \E r \in Of(t, owner) : Serve(r) \/ Take(r)

Spec ==
  /\ Init /\ [][Next]_vars
  /\ \A t \in Tabs : WF_vars(Unload(t))
  /\ \A t \in Tabs, owner \in {"mount", "click", "google"} : WF_vars(Progress(t, owner))
-----------------------------------------------------------------------------
Requests ==
  [tab: Tabs, owner: {"mount", "click", "google", "gone"},
   path: Reads \cup {"config", "act", "monitor", "google"},
   token: Token \cup {NULL}, who: Emails \cup {NULL},
   status: Bad \cup {"sent", "ok", "on", "off"}]

Pages ==
  [known: BOOLEAN, auth: BOOLEAN, login: BOOLEAN, err: BOOLEAN, leaving: BOOLEAN]

TypeOK ==
  /\ now \in 0..MaxTime /\ faults \in 0..MaxFaults
  /\ server \in [secret: 0..MaxFaults, fixed: BOOLEAN, allowed: Whitelists]
  /\ stored \in Token \cup {NULL}
  /\ page \in [Tabs -> Pages]
  /\ requests \subseteq Requests
  /\ vouched \in [Emails -> [at: 0..MaxTime, secret: 0..MaxFaults] \cup {NULL}]

\* While the gate is closed a handler runs only for someone whom Google vouched
\* for no longer than Ttl ago and under the secret in force, and who is on the
\* whitelist of the running server, even if he was not when the token was issued
\* (api/auth.py:57-85, api/main.py:59-73).
OnlyRecentAdminsServed ==
  [][\A r \in requests :
       /\ AuthOn /\ r.owner # "gone" /\ r.path \notin {"config", "google"}
       /\ r.status = "sent" /\ [r EXCEPT !.status = "ok"] \in requests' \ requests
       => /\ r.token # NULL /\ r.token.email \in server.allowed
          /\ LET v == vouched[r.token.email] IN
               v # NULL /\ v.secret = server.secret /\ now <= v.at + Ttl]_vars

\* Whatever overlaps, a token the server would still take is thrown away only if
\* the administrator signs out or an answer is taken to a request that did not
\* carry it: a request refused for its token was refused for good, since a token
\* that was once dead stays dead (dashboard/lib/api.ts: handle).
KeepsGoodToken ==
  [][stored # NULL /\ stored' = NULL
     => \/ ~Genuine(stored)
        \/ \E t \in Tabs : SignOut(t)
        \/ \E r \in requests \ requests' : r.status = "401" /\ r.token # stored]_vars

\* Only the expired or invalid token itself is thrown away
\* (dashboard/lib/api.ts:77).
OnlyDeadTokenDropped ==
  [][stored # NULL /\ stored' = NULL
     => ~Genuine(stored) \/ \E t \in Tabs : SignOut(t)]_vars

\* The page is asking for an act or a read with a token that has died.
Dead(t) ==
  /\ faults = MaxFaults /\ AuthOn /\ page[t].known /\ ~page[t].err
  /\ \E r \in Of(t, "mount") \cup Of(t, "click") :
       r.path \in Reads \cup {"act"} /\ r.status = "sent" /\ ~Genuine(r.token)

\* Whoever works on with a token that has died meets the login once nothing
\* breaks any more, unless a sign-in on its way has brought a new token, or an
\* error of another request came first and the page shows it
\* (dashboard/app/page.tsx: load, act; dashboard/lib/api.ts:77).
BackToLogin ==
  \A t \in Tabs : Dead(t) ~> LoginView(t) \/ Genuine(stored) \/ page[t].err
=============================================================================
