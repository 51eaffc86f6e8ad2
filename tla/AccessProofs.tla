------------------------------ MODULE AccessProofs ------------------------------
(***************************************************************************)
(* Session tokens, for any accounts, whitelists, clocks and numbers of     *)
(* restarts: what the gate lets through, and when the page logs out.       *)
(***************************************************************************)
EXTENDS AdminAccess, TLAPS

\* The tokens that exist: the stored one and those on their way.
InPlay == {stored} \cup {r.token : r \in requests}

\* A token was signed with a secret drawn so far and its life has begun; if the
\* secret is the one in force, Google vouched for the account when the token was
\* issued or later.
Backed(tok) ==
  tok # NULL =>
    /\ tok.secret <= faults /\ tok.exp <= now + Ttl
    /\ tok.secret = server.secret =>
         /\ vouched[tok.email] # NULL
         /\ vouched[tok.email].secret = server.secret
         /\ tok.exp <= vouched[tok.email].at + Ttl

\* A secret that is drawn at a start is one that no token was signed with.
SecretsAreFresh == server.secret <= faults /\ (server.fixed => server.secret = 0)

AccessInv == TypeOK /\ SecretsAreFresh /\ \A tok \in InPlay : Backed(tok)

LEMMA AsksType ==
  ASSUME NEW t \in Tabs, NEW owner \in {"mount", "click", "google"},
         NEW path \in Reads \cup {"config", "act", "monitor", "google"},
         NEW tok \in Token \cup {NULL}, NEW who \in Emails \cup {NULL}
  PROVE  /\ Asks(t, owner, path, tok, who) \in Requests
         /\ Asks(t, owner, path, tok, who).token = tok
         /\ Asks(t, owner, path, tok, who).tab = t
         /\ Asks(t, owner, path, tok, who).owner = owner
         /\ Asks(t, owner, path, tok, who).path = path
         /\ Asks(t, owner, path, tok, who).status = "sent"
BY DEF Asks, Requests, Bad

LEMMA InitAccessInv == Init => AccessInv
<1> SUFFICES ASSUME Init PROVE AccessInv
  OBVIOUS
<1>1. ASSUME NEW r \in requests PROVE r \in Requests /\ r.token = NULL
  <2>1. PICK t \in Tabs : r = Asks(t, "mount", "config", NULL, NULL)
    BY DEF Init
  <2>2. QED
    BY <2>1 DEF Asks, Requests, Bad
<1>2. InPlay = {NULL} \/ InPlay = {}
  BY <1>1 DEF InPlay, Init
<1>3. TypeOK
  <2>1. requests \subseteq Requests
    BY <1>1
  <2>2. page \in [Tabs -> Pages]
    BY DEF Init, NewPage, Pages
  <2>3. QED
    BY <2>1, <2>2, AccessAssumption DEF Init, TypeOK, Pages
<1>4. QED
  BY <1>2, <1>3, AccessAssumption DEF Init, AccessInv, SecretsAreFresh, Backed, TypeOK

\* A step of a page or of the network: tokens move about and none is issued.
LEMMA NothingIssued ==
  ASSUME AccessInv, UNCHANGED <<server, vouched>>,
         now' \in 0..MaxTime, now <= now', faults' \in 0..MaxFaults, faults <= faults',
         page' \in [Tabs -> Pages],
         stored' \in InPlay \cup {NULL},
         \A r \in requests' : r \in Requests /\ r.token \in InPlay \cup {NULL}
  PROVE  AccessInv'
<1>1. \A tok \in InPlay \cup {NULL} : tok \in Token \cup {NULL} /\ Backed(tok)
  BY DEF AccessInv, TypeOK, InPlay, Requests, Backed
<1>2. InPlay' \subseteq InPlay \cup {NULL}
  BY DEF InPlay
<1>3. \A tok \in InPlay' : Backed(tok)'
  <2> SUFFICES ASSUME NEW tok \in InPlay', tok # NULL PROVE Backed(tok)'
    BY DEF Backed
  <2>1. tok \in Token /\ Backed(tok)
    BY <1>1, <1>2
  <2>2. tok.secret \in 0..MaxFaults /\ faults \in 0..MaxFaults /\ tok.exp \in Nat /\ now \in Nat
    BY <2>1, AccessAssumption DEF Token, AccessInv, TypeOK
  <2>3. QED
    BY <2>1, <2>2, AccessAssumption DEF Backed
<1>4. TypeOK'
  BY <1>1 DEF AccessInv, TypeOK, Pages
<1>5. SecretsAreFresh'
  BY AccessAssumption DEF AccessInv, TypeOK, SecretsAreFresh
<1>6. QED
  BY <1>3, <1>4, <1>5 DEF AccessInv

\* What the requests of r's successor are like.
LEMMA AnsweredType ==
  ASSUME AccessInv, NEW r \in requests, NEW status \in Bad \cup {"ok", "on", "off"},
         NEW tok \in Token \cup {NULL}, Answered(r, status, tok)
  PROVE  \A q \in requests' : \/ q \in requests
                              \/ q \in Requests /\ q.token = tok
<1>1. r \in Requests
  BY DEF AccessInv, TypeOK
<1>2. /\ [r EXCEPT !.status = status, !.token = tok] \in Requests
      /\ [r EXCEPT !.status = status, !.token = tok].token = tok
  BY <1>1 DEF Requests, Bad
<1>3. QED
  BY <1>2 DEF Answered

LEMMA InPlayTokens ==
  ASSUME AccessInv
  PROVE  /\ stored \in InPlay
         /\ \A r \in requests : r \in Requests /\ r.token \in InPlay
         /\ InPlay \subseteq Token \cup {NULL}
BY DEF AccessInv, TypeOK, InPlay, Requests

LEMMA TickAccess == AccessInv /\ Tick => AccessInv'
<1> SUFFICES ASSUME AccessInv, Tick PROVE AccessInv'
  OBVIOUS
<1>1. now' \in 0..MaxTime /\ now <= now' /\ faults' \in 0..MaxFaults /\ faults <= faults'
  BY AccessAssumption DEF AccessInv, TypeOK, Tick
<1>2. page' \in [Tabs -> Pages]
  BY DEF AccessInv, TypeOK, Tick, Pages
<1>3. QED
  BY <1>1, <1>2, InPlayTokens, NothingIssued DEF Tick

LEMMA BreakAccess ==
  ASSUME AccessInv, NEW r \in requests, Break(r)
  PROVE  AccessInv'
<1>1. now' \in 0..MaxTime /\ now <= now' /\ faults' \in 0..MaxFaults /\ faults <= faults'
  BY AccessAssumption DEF AccessInv, TypeOK, Break, Fault
<1>2. page' \in [Tabs -> Pages]
  BY DEF AccessInv, TypeOK, Break, Pages
<1>3. \A q \in requests' : q \in Requests /\ q.token \in InPlay
  <2>1. r.token \in Token \cup {NULL}
    BY InPlayTokens
  <2>2. QED
    BY <2>1, AnsweredType, InPlayTokens DEF Break, Bad
<1>4. QED
  BY <1>1, <1>2, <1>3, InPlayTokens, NothingIssued DEF Break

\* With a new secret every token that exists is dead.
LEMMA RestartAccess == AccessInv /\ Restart => AccessInv'
<1> SUFFICES ASSUME AccessInv, Restart PROVE AccessInv'
  OBVIOUS
<1>1. PICK allowed \in Whitelists :
        server' = [server EXCEPT !.allowed = allowed,
                                 !.secret = IF server.fixed THEN 0 ELSE faults']
  BY DEF Restart
<1>2. /\ faults \in 0..MaxFaults /\ faults' = faults + 1 /\ faults' \in 0..MaxFaults
      /\ server \in [secret: 0..MaxFaults, fixed: BOOLEAN, allowed: Whitelists]
  BY AccessAssumption DEF AccessInv, TypeOK, Restart, Fault
<1>3. /\ server' \in [secret: 0..MaxFaults, fixed: BOOLEAN, allowed: Whitelists]
      /\ server'.fixed = server.fixed
      /\ server'.secret = IF server.fixed THEN 0 ELSE faults'
  <2> DEFINE secret == IF server.fixed THEN 0 ELSE faults'
  <2>1. secret \in 0..MaxFaults
    BY <1>2, AccessAssumption
  <2> HIDE DEF secret
  <2>2. server' = [server EXCEPT !.allowed = allowed, !.secret = secret]
    BY <1>1 DEF secret
  <2>3. server' \in [secret: 0..MaxFaults, fixed: BOOLEAN, allowed: Whitelists]
        /\ server'.fixed = server.fixed /\ server'.secret = secret
    BY <1>2, <2>1, <2>2
  <2>4. QED
    BY <2>3 DEF secret
<1>4. \A q \in requests' : q \in Requests /\ q.token \in InPlay
  <2> SUFFICES ASSUME NEW q \in requests' PROVE q \in Requests /\ q.token \in InPlay
    OBVIOUS
  <2>1. PICK r \in requests : q = Broken(r)
    BY DEF Restart
  <2>2. QED
    BY <2>1, InPlayTokens DEF Broken, Requests, Bad
<1>5. \A tok \in InPlay' : Backed(tok)'
  <2> SUFFICES ASSUME NEW tok \in InPlay', tok # NULL PROVE Backed(tok)'
    BY DEF Backed
  <2>1. tok \in InPlay
    BY <1>4 DEF InPlay, Restart
  <2>2. tok \in Token /\ Backed(tok)
    BY <2>1, InPlayTokens DEF AccessInv
  <2>3. tok.secret \in Nat /\ tok.secret <= faults
    BY <2>2, AccessAssumption DEF Token, Backed
  <2>4. tok.secret = server'.secret => tok.secret = server.secret
    BY <1>2, <1>3, <2>3 DEF AccessInv, SecretsAreFresh
  <2>5. QED
    BY <1>2, <1>3, <2>2, <2>3, <2>4 DEF Backed, Restart, AccessInv, SecretsAreFresh
<1>6. TypeOK'
  <2>1. UNCHANGED <<now, stored, page, vouched>>
    BY DEF Restart
  <2>2. QED
    BY <1>2, <1>3, <1>4, <2>1 DEF AccessInv, TypeOK
<1>7. SecretsAreFresh'
  BY <1>2, <1>3, AccessAssumption DEF AccessInv, SecretsAreFresh
<1>8. QED
  BY <1>5, <1>6, <1>7 DEF AccessInv

\* A token is issued to an account that Google has just vouched for.
LEMMA IssueAccess ==
  ASSUME AccessInv, NEW r \in requests, r.path = "google", Serve(r)
  PROVE  AccessInv'
<1> DEFINE new == [email |-> r.who, secret |-> server.secret, exp |-> now + Ttl]
<1>1. /\ r \in Requests /\ r.who \in Emails \cup {NULL}
      /\ UNCHANGED <<now, server, stored, page, faults>>
      /\ ServeGoogle(r)
  BY InPlayTokens DEF Serve, Requests
<1>2. CASE SignedIn(r.who) # "ok"
  <2>1. SignedIn(r.who) \in Bad
    BY <1>2 DEF SignedIn, Bad
  <2>2. Answered(r, SignedIn(r.who), NULL) /\ UNCHANGED vouched
    BY <1>1, <1>2 DEF ServeGoogle
  <2>3. \A q \in requests' : q \in Requests /\ q.token \in InPlay \cup {NULL}
    BY <2>1, <2>2, AnsweredType, InPlayTokens
  <2>4. /\ now' \in 0..MaxTime /\ now <= now' /\ faults' \in 0..MaxFaults /\ faults <= faults'
        /\ page' \in [Tabs -> Pages] /\ stored' \in InPlay
    BY <1>1, InPlayTokens, AccessAssumption DEF AccessInv, TypeOK, Pages
  <2>5. QED
    BY <1>1, <2>2, <2>3, <2>4, NothingIssued
<1>3. CASE SignedIn(r.who) = "ok"
  <2>1. /\ r.who \in Emails
        /\ Answered(r, "ok", new)
        /\ vouched' = [vouched EXCEPT ![r.who] = [at |-> now, secret |-> server.secret]]
    BY <1>1, <1>3 DEF SignedIn, ServeGoogle
  <2>2. /\ now \in 0..MaxTime /\ faults \in 0..MaxFaults
        /\ server.secret \in 0..MaxFaults /\ server.secret <= faults
        /\ vouched \in [Emails -> [at: 0..MaxTime, secret: 0..MaxFaults] \cup {NULL}]
    BY DEF AccessInv, TypeOK, SecretsAreFresh
  <2>3. new \in Token /\ new.email = r.who /\ new.secret = server.secret /\ new.exp = now + Ttl
    BY <2>1, <2>2, AccessAssumption DEF Token
  <2> DEFINE v == [at |-> now, secret |-> server.secret]
  <2>4. /\ v \in [at: 0..MaxTime, secret: 0..MaxFaults]
        /\ v \in [at: Nat, secret: Nat] /\ v # NULL /\ v.at = now /\ v.secret = server.secret
    BY <2>2, AccessAssumption
  <2>5. /\ vouched' \in [Emails -> [at: 0..MaxTime, secret: 0..MaxFaults] \cup {NULL}]
        /\ \A e \in Emails : vouched'[e] = IF e = r.who THEN v ELSE vouched[e]
    BY <2>1, <2>2, <2>4
  <2> HIDE DEF new, v
  <2>6. \A q \in requests' : q \in Requests /\ q.token \in InPlay \cup {new}
    BY <2>1, <2>3, AnsweredType, InPlayTokens
  <2>7. TypeOK'
    BY <1>1, <2>5, <2>6 DEF AccessInv, TypeOK
  <2>8. InPlay' \subseteq InPlay \cup {new}
    BY <1>1, <2>6 DEF InPlay
  <2>9. ASSUME NEW tok \in InPlay', tok # NULL PROVE Backed(tok)'
    <3>1. CASE tok = new
      <4>1. vouched'[tok.email] = v /\ tok.secret = server'.secret /\ tok.exp = now' + Ttl
        BY <1>1, <2>1, <2>3, <2>5, <3>1
      <4>2. v.secret = server'.secret /\ v.at = now' /\ v # NULL
        BY <1>1, <2>4
      <4>3. now' \in Nat /\ server'.secret \in Nat /\ faults' \in Nat /\ server'.secret <= faults'
        BY <1>1, <2>2, AccessAssumption
      <4>4. /\ vouched'[tok.email] # NULL
            /\ vouched'[tok.email].secret = server'.secret
            /\ vouched'[tok.email].at = now'
        BY <4>1, <4>2
      <4>5. tok.secret <= faults'
        BY <4>1, <4>3
      <4>6. tok.exp \in Nat /\ now' + Ttl \in Nat
        BY <2>2, <2>3, <3>1, <1>1, AccessAssumption DEF Token
      <4>7. tok.exp <= now' + Ttl /\ tok.exp <= vouched'[tok.email].at + Ttl
        <5> DEFINE end == now' + Ttl
        <5>1. end \in Nat /\ tok.exp = end /\ vouched'[tok.email].at + Ttl = end
          BY <4>1, <4>4, <4>6
        <5> HIDE DEF end
        <5>2. tok.exp <= end /\ tok.exp <= vouched'[tok.email].at + Ttl
          BY <5>1
        <5>3. QED
          BY <5>2 DEF end
      <4>8. QED
        BY <4>4, <4>5, <4>7 DEF Backed
    <3>2. CASE tok # new
      <4>1. tok \in Token /\ Backed(tok)
        BY <2>8, <2>9, <3>2, InPlayTokens DEF AccessInv
      <4>2. tok.email \in Emails /\ tok.exp \in Nat
        BY <4>1, AccessAssumption DEF Token
      <4>3. /\ tok.secret <= faults /\ tok.exp <= now + Ttl
            /\ tok.secret = server.secret =>
                 /\ vouched[tok.email] # NULL
                 /\ vouched[tok.email].secret = server.secret
                 /\ tok.exp <= vouched[tok.email].at + Ttl
        BY <2>9, <4>1 DEF Backed
      <4>4. CASE tok.email # r.who
        BY <1>1, <2>5, <4>2, <4>3, <4>4 DEF Backed
      <4>5. CASE tok.email = r.who
        BY <1>1, <2>4, <2>5, <4>2, <4>3, <4>5 DEF Backed
      <4>6. QED
        BY <4>4, <4>5
    <3>3. QED
      BY <3>1, <3>2
  <2>10. SecretsAreFresh'
    BY <1>1 DEF AccessInv, SecretsAreFresh
  <2>11. QED
    BY <2>7, <2>9, <2>10 DEF AccessInv, Backed
<1>4. QED
  BY <1>2, <1>3

LEMMA ServeAccess ==
  ASSUME AccessInv, NEW r \in requests, Serve(r)
  PROVE  AccessInv'
<1>1. CASE r.path = "google"
  BY <1>1, IssueAccess
<1>2. CASE r.path # "google"
  <2>1. PICK s \in Bad \cup {"ok", "on", "off"} : Answered(r, s, r.token)
    BY <1>2 DEF Serve, Guarded, Bad
  <2>2. UNCHANGED <<now, server, stored, page, vouched, faults>>
    BY <1>2 DEF Serve
  <2>3. r.token \in Token \cup {NULL} /\ r.token \in InPlay
    BY InPlayTokens
  <2>4. \A q \in requests' : q \in Requests /\ q.token \in InPlay
    BY <2>1, <2>3, AnsweredType, InPlayTokens
  <2>5. /\ now' \in 0..MaxTime /\ now <= now' /\ faults' \in 0..MaxFaults /\ faults <= faults'
        /\ page' \in [Tabs -> Pages] /\ stored' \in InPlay
    BY <2>2, InPlayTokens, AccessAssumption DEF AccessInv, TypeOK, Pages
  <2>6. QED
    BY <2>2, <2>4, <2>5, NothingIssued
<1>3. QED
  BY <1>1, <1>2

\* The requests of a page: the ones that were there, possibly orphaned, and new
\* ones that carry the stored token or none.
LEMMA PageStep ==
  ASSUME AccessInv, UNCHANGED <<now, server, vouched>>,
         faults' \in 0..MaxFaults, faults <= faults',
         page' \in [Tabs -> Pages], stored' \in InPlay \cup {NULL},
         \A q \in requests' :
           \/ q \in requests
           \/ \E s \in requests : q = [s EXCEPT !.owner = "gone"]
           \/ \E t \in Tabs, owner \in {"mount", "click", "google"},
                 path \in Reads \cup {"config", "act", "monitor", "google"},
                 tok \in {stored, NULL}, who \in Emails \cup {NULL} :
                   q = Asks(t, owner, path, tok, who)
  PROVE  AccessInv'
<1>1. ASSUME NEW q \in requests' PROVE q \in Requests /\ q.token \in InPlay \cup {NULL}
  <2>1. CASE q \in requests
    BY <2>1, InPlayTokens
  <2>2. CASE \E s \in requests : q = [s EXCEPT !.owner = "gone"]
    <3>1. PICK s \in requests : q = [s EXCEPT !.owner = "gone"]
      BY <2>2
    <3>2. s \in Requests /\ s.token \in InPlay
      BY InPlayTokens
    <3>3. q \in Requests /\ q.token = s.token
      BY <3>1, <3>2 DEF Requests
    <3>4. QED
      BY <3>2, <3>3
  <2>3. CASE \E t \in Tabs, owner \in {"mount", "click", "google"},
               path \in Reads \cup {"config", "act", "monitor", "google"},
               tok \in {stored, NULL}, who \in Emails \cup {NULL} :
                 q = Asks(t, owner, path, tok, who)
    <3>1. stored \in Token \cup {NULL}
      BY InPlayTokens
    <3>2. PICK t \in Tabs, owner \in {"mount", "click", "google"},
               path \in Reads \cup {"config", "act", "monitor", "google"},
               tok \in {stored, NULL}, who \in Emails \cup {NULL} :
                 q = Asks(t, owner, path, tok, who)
      BY <2>3
    <3>3. q \in Requests /\ q.token = tok
      BY <3>1, <3>2 DEF Asks, Requests, Bad
    <3>4. QED
      BY <3>2, <3>3, InPlayTokens
  <2>4. QED
    BY <2>1, <2>2, <2>3
<1>2. now' \in 0..MaxTime /\ now <= now'
  BY DEF AccessInv, TypeOK
<1>3. QED
  BY <1>1, <1>2, NothingIssued

\* A new document asks for the config and waits for nothing else.
LEMMA ReloadStep ==
  ASSUME AccessInv, NEW t \in Tabs, Reload(t)
  PROVE  /\ page' \in [Tabs -> Pages]
         /\ \A q \in requests' : \/ q \in requests
                                 \/ q = Asks(t, "mount", "config", NULL, NULL)
<1>1. NewPage \in Pages
  BY DEF NewPage, Pages
<1>2. QED
  BY <1>1 DEF Reload, AccessInv, TypeOK, Pages

LEMMA TakeAccess ==
  ASSUME AccessInv, NEW r \in requests, Take(r)
  PROVE  AccessInv'
<1> DEFINE Fresh(q) ==
      \E t \in Tabs, owner \in {"mount", "click", "google"},
         path \in Reads \cup {"config", "act", "monitor", "google"},
         tok \in {stored, NULL}, who \in Emails \cup {NULL} :
           q = Asks(t, owner, path, tok, who)
<1> DEFINE Orphan(q) == \E s \in requests : q = [s EXCEPT !.owner = "gone"]
<1>1. /\ UNCHANGED <<now, server, vouched, faults>>
      /\ faults' \in 0..MaxFaults /\ faults <= faults'
  BY AccessAssumption DEF Take, AccessInv, TypeOK
<1>2. /\ r \in Requests /\ r.tab \in Tabs /\ r.token \in InPlay
      /\ page \in [Tabs -> Pages] /\ page[r.tab] \in Pages
      /\ Kept(r) \in InPlay \cup {NULL}
  BY InPlayTokens DEF Requests, AccessInv, TypeOK, Pages, Kept
<1>3. CASE r.owner = "gone" \/ (r.owner = "google" /\ r.status # "ok")
  <2>1. stored' = Kept(r) /\ requests' = requests \ {r} /\ page' = page
    BY <1>3 DEF Take
  <2>2. \A q \in requests' : q \in requests
    BY <2>1
  <2>3. QED
    BY <1>1, <1>2, <2>1, <2>2, PageStep
<1>4. CASE r.owner = "google" /\ r.status = "ok"
  <2>1. stored' = r.token /\ Leaves(r.tab) /\ requests' = requests \ {r}
    BY <1>4 DEF Take
  <2>2. page' \in [Tabs -> Pages] /\ \A q \in requests' : q \in requests
    BY <1>2, <2>1 DEF Leaves, Pages
  <2>3. QED
    BY <1>1, <1>2, <2>1, <2>2, PageStep
<1>5. CASE r.owner \in {"mount", "click"}
  <2>1. stored' = Kept(r) /\ (ConfigOk(r) \/ ReadOk(r) \/ LoadFails(r) \/ CallOk(r) \/ CallFails(r))
    BY <1>5 DEF Take
  <2>2. CASE ConfigOk(r)
    <3>1. page' \in [Tabs -> Pages]
      BY <1>2, <2>2 DEF ConfigOk, Pages
    <3>2. \A q \in requests' : q \in requests \/ Fresh(q)
      <4> SUFFICES ASSUME NEW q \in requests', q \notin requests PROVE Fresh(q)
        OBVIOUS
      <4>1. PICK p \in Reads : q = Asks(r.tab, r.owner, p, stored, NULL)
        BY <2>2 DEF ConfigOk
      <4>2. QED
        BY <1>2, <1>5, <4>1
    <3>3. QED
      BY <1>1, <1>2, <2>1, <3>1, <3>2, PageStep
  <2>3. CASE ReadOk(r) \/ CallFails(r)
    <3>1. \/ page' = page
          \/ page' = [page EXCEPT ![r.tab].login = FALSE]
          \/ page' = [page EXCEPT ![r.tab].login = TRUE]
      BY <2>3 DEF ReadOk, CallFails
    <3>2. [page[r.tab] EXCEPT !.login = FALSE] \in Pages
          /\ [page[r.tab] EXCEPT !.login = TRUE] \in Pages
      BY <1>2 DEF Pages
    <3>3. page' \in [Tabs -> Pages]
      BY <1>2, <3>1, <3>2
    <3>4. \A q \in requests' : q \in requests
      BY <2>3 DEF ReadOk, CallFails
    <3>5. QED
      BY <1>1, <1>2, <2>1, <3>3, <3>4, PageStep
  <2>4. CASE LoadFails(r)
    <3>1. page' \in [Tabs -> Pages]
      BY <1>2, <2>4 DEF LoadFails, Pages
    <3>2. \A q \in requests' : q \in requests \/ Orphan(q)
      BY <2>4 DEF LoadFails, Of
    <3>3. QED
      BY <1>1, <1>2, <2>1, <3>1, <3>2, PageStep
  <2>5. CASE CallOk(r)
    <3>1. page' \in [Tabs -> Pages]
      BY <1>2, <2>5 DEF CallOk, Pages
    <3>2. \A q \in requests' : q \in requests \/ Fresh(q)
      BY <1>2, <1>5, <2>5 DEF CallOk
    <3>3. QED
      BY <1>1, <1>2, <2>1, <3>1, <3>2, PageStep
  <2>6. QED
    BY <2>1, <2>2, <2>3, <2>4, <2>5
<1>6. r.owner \in {"mount", "click", "google", "gone"}
  BY <1>2 DEF Requests
<1>7. QED
  BY <1>3, <1>4, <1>5, <1>6

LEMMA AdministratorAccess ==
  ASSUME AccessInv, NEW t \in Tabs,
         \/ \E path \in {"act", "monitor"} : Click(t, path)
         \/ \E who \in Emails \cup {NULL} : SignIn(t, who)
         \/ SignOut(t) \/ Refresh(t) \/ Unload(t)
  PROVE  AccessInv'
<1>1. /\ page \in [Tabs -> Pages] /\ faults \in 0..MaxFaults
  BY DEF AccessInv, TypeOK, Pages
<1>2. ASSUME NEW path \in {"act", "monitor"}, Click(t, path) PROVE AccessInv'
  <2>1. \A q \in requests' : q \in requests \/ q = Asks(t, "click", path, stored, NULL)
    BY <1>2 DEF Click
  <2>2. /\ UNCHANGED <<now, server, vouched, faults, page, stored>> /\ faults <= faults'
    BY <1>1, <1>2, AccessAssumption DEF Click
  <2>3. QED
    BY <1>1, <2>1, <2>2, InPlayTokens, PageStep
<1>3. ASSUME NEW who \in Emails \cup {NULL}, SignIn(t, who) PROVE AccessInv'
  <2>1. \A q \in requests' : q \in requests \/ q = Asks(t, "google", "google", NULL, who)
    BY <1>3 DEF SignIn
  <2>2. /\ UNCHANGED <<now, server, vouched, faults, page, stored>> /\ faults <= faults'
    BY <1>1, <1>3, AccessAssumption DEF SignIn
  <2>3. QED
    BY <1>1, <2>1, <2>2, InPlayTokens, PageStep
<1>4. CASE Refresh(t) \/ Unload(t)
  <2>1. /\ Reload(t) /\ UNCHANGED <<now, server, vouched, stored>>
        /\ faults' \in 0..MaxFaults /\ faults <= faults'
    BY <1>1, <1>4, AccessAssumption DEF Unload, Refresh, Fault
  <2>2. /\ page' \in [Tabs -> Pages]
        /\ \A q \in requests' : \/ q \in requests
                                \/ q = Asks(t, "mount", "config", NULL, NULL)
    BY <2>1, ReloadStep
  <2>3. QED
    BY <2>1, <2>2, InPlayTokens, PageStep
<1>5. CASE SignOut(t)
  <2>1. page' \in [Tabs -> Pages] /\ \A q \in requests' : q \in requests
    BY <1>1, <1>5 DEF SignOut, Leaves, Pages
  <2>2. UNCHANGED <<now, server, vouched, faults>> /\ stored' = NULL /\ faults <= faults'
    BY <1>1, <1>5, AccessAssumption DEF SignOut
  <2>3. QED
    BY <1>1, <2>1, <2>2, PageStep
<1>6. QED
  BY <1>2, <1>3, <1>4, <1>5

LEMMA NextAccessInv == AccessInv /\ [Next]_vars => AccessInv'
<1> SUFFICES ASSUME AccessInv, [Next]_vars PROVE AccessInv'
  OBVIOUS
<1>1. CASE Tick \/ Restart
  BY <1>1, TickAccess, RestartAccess
<1>2. ASSUME NEW r \in requests, Serve(r) \/ Break(r) \/ Take(r) PROVE AccessInv'
  BY <1>2, ServeAccess, BreakAccess, TakeAccess
<1>3. ASSUME NEW t \in Tabs,
             \/ \E path \in {"act", "monitor"} : Click(t, path)
             \/ \E who \in Emails \cup {NULL} : SignIn(t, who)
             \/ SignOut(t) \/ Refresh(t) \/ Unload(t)
      PROVE AccessInv'
  BY <1>3, AdministratorAccess
<1>4. CASE UNCHANGED vars
  BY <1>4 DEF vars, AccessInv, TypeOK, SecretsAreFresh, InPlay, Backed
<1>5. QED
  BY <1>1, <1>2, <1>3, <1>4 DEF Next

\* Tokens, requests and what Google said stay consistent with each other
\* (api/auth.py, api/main.py, dashboard/lib/api.ts).
THEOREM AccessInvariant == Spec => []AccessInv
<1>1. QED
  BY InitAccessInv, NextAccessInv, PTL DEF Spec

\* The variables keep their types (api/auth.py, dashboard/app/page.tsx).
THEOREM AccessTypes == Spec => []TypeOK
<1>1. AccessInv => TypeOK
  BY DEF AccessInv
<1>2. QED
  BY <1>1, AccessInvariant, PTL

LEMMA NewAnswer ==
  ASSUME AccessInv, NEW s \in requests, NEW status, NEW tok, Answered(s, status, tok),
         NEW q \in requests', q \notin requests
  PROVE  q.status = status /\ q.token = tok /\ q.path = s.path
<1>1. q = [s EXCEPT !.status = status, !.token = tok]
  BY DEF Answered
<1>2. s \in Requests
  BY InPlayTokens
<1>3. QED
  BY <1>1, <1>2 DEF Requests

\* A page only sends, takes and orphans requests: it answers none.
LEMMA PageAnswersNothing ==
  ASSUME NEW q \in requests',
         \/ \E r \in requests : Take(r)
         \/ \E t \in Tabs :
              \/ \E path \in {"act", "monitor"} : Click(t, path)
              \/ \E who \in Emails \cup {NULL} : SignIn(t, who)
              \/ SignOut(t) \/ Refresh(t) \/ Unload(t)
  PROVE  \/ q \in requests
         \/ q.status = "sent" /\ (q.owner = "google" => q.path = "google")
         \/ \E s \in requests : q = [s EXCEPT !.owner = "gone"]
<1>1. ASSUME NEW r \in requests, Take(r)
      PROVE  \/ q \in requests
             \/ q.status = "sent" /\ (q.owner = "google" => q.path = "google")
             \/ \E s \in requests : q = [s EXCEPT !.owner = "gone"]
  <2>1. CASE requests' = requests \ {r}
    BY <2>1
  <2>2. CASE (ConfigOk(r) \/ CallOk(r)) /\ r.owner \in {"mount", "click"}
    BY <2>2 DEF ConfigOk, CallOk, Asks
  <2>3. CASE LoadFails(r)
    BY <2>3 DEF LoadFails, Of
  <2>4. QED
    BY <1>1, <2>1, <2>2, <2>3 DEF Take, ReadOk, CallFails
<1>2. ASSUME NEW t \in Tabs,
             \/ \E path \in {"act", "monitor"} : Click(t, path)
             \/ \E who \in Emails \cup {NULL} : SignIn(t, who)
             \/ SignOut(t) \/ Refresh(t) \/ Unload(t)
      PROVE  q \in requests \/ (q.status = "sent" /\ (q.owner = "google" => q.path = "google"))
  <2>1. ASSUME NEW path, Click(t, path)
        PROVE  q \in requests \/ (q.status = "sent" /\ q.owner = "click")
    BY <2>1 DEF Click, Asks
  <2>2. ASSUME NEW who, SignIn(t, who)
        PROVE  q \in requests \/ (q.status = "sent" /\ q.path = "google")
    BY <2>2 DEF SignIn, Asks
  <2>3. CASE SignOut(t)
    BY <2>3 DEF SignOut
  <2>4. CASE Refresh(t) \/ Unload(t)
    <3>1. q \in requests \/ (q.status = "sent" /\ q.owner = "mount")
      BY <2>4 DEF Refresh, Unload, Reload, Asks
    <3>2. QED
      BY <3>1
  <2>5. QED
    BY <1>2, <2>1, <2>2, <2>3, <2>4
<1>3. QED
  BY <1>1, <1>2

LEMMA PageForwards ==
  ASSUME AccessInv, NEW q \in requests',
         \/ \E r \in requests : Take(r)
         \/ \E t \in Tabs :
              \/ \E path \in {"act", "monitor"} : Click(t, path)
              \/ \E who \in Emails \cup {NULL} : SignIn(t, who)
              \/ SignOut(t) \/ Refresh(t) \/ Unload(t)
  PROVE  \/ q \in requests
         \/ q.status = "sent" /\ (q.owner = "google" => q.path = "google")
         \/ \E s \in requests : /\ q.owner = "gone" /\ q.status = s.status
                                /\ q.token = s.token /\ q.path = s.path
<1>1. ASSUME NEW s \in requests, q = [s EXCEPT !.owner = "gone"]
      PROVE  /\ q.owner = "gone" /\ q.status = s.status
             /\ q.token = s.token /\ q.path = s.path
  <2>1. s \in Requests
    BY InPlayTokens
  <2>2. QED
    BY <1>1, <2>1 DEF Requests
<1>2. QED
  BY <1>1, PageAnswersNothing

\* However often the server restarts with another secret or whitelist and however
\* late a request comes, a handler runs only for a listed account that Google has
\* vouched for within Ttl (api/auth.py:57-85, api/main.py:59-73).
THEOREM OnlyRecentAdminsServedAlways == Spec => OnlyRecentAdminsServed
<1>1. ASSUME AccessInv, [Next]_vars, NEW r \in requests,
             AuthOn, r.owner # "gone", r.path \notin {"config", "google"},
             r.status = "sent", [r EXCEPT !.status = "ok"] \in requests' \ requests
      PROVE  /\ r.token # NULL /\ r.token.email \in server.allowed
             /\ LET v == vouched[r.token.email] IN
                  v # NULL /\ v.secret = server.secret /\ now <= v.at + Ttl
  <2> DEFINE q == [r EXCEPT !.status = "ok"]
  <2>1. /\ r \in Requests /\ r.token \in Token \cup {NULL} /\ Backed(r.token)
        /\ q \in Requests /\ q.status = "ok" /\ q.owner = r.owner /\ q.path = r.path
        /\ q.token = r.token /\ q \in requests' /\ q \notin requests
    BY <1>1, InPlayTokens DEF AccessInv, Requests
  <2> HIDE DEF q
  <2>2. PICK s \in requests : Serve(s) \/ Break(s)
    <3>1. ~UNCHANGED requests
      BY <2>1
    <3>2. ASSUME Restart PROVE FALSE
      <4>1. PICK s \in requests : q = Broken(s)
        BY <2>1, <3>2 DEF Restart
      <4>2. s \in Requests
        BY <1>1, InPlayTokens
      <4>3. Broken(s) = s \/ Broken(s).status = "fail"
        BY <4>2 DEF Broken, Requests
      <4>4. QED
        BY <2>1, <4>1, <4>3
    <3>3. QED
      BY <1>1, <2>1, <3>1, <3>2, PageForwards DEF Next, vars, Tick
  <2>3. ASSUME NEW status, NEW tok, Answered(s, status, tok)
        PROVE  status = "ok" /\ tok = r.token /\ s.path = r.path
    BY <1>1, <2>1, <2>3, NewAnswer
  <2>4. ~Break(s)
    BY <2>3 DEF Break
  <2>5. s.path = r.path
    BY <2>2, <2>3, <2>4 DEF Serve, ServeGoogle
  <2>6. PICK status \in Guarded(s) : Answered(s, status, s.token)
    BY <1>1, <2>2, <2>4, <2>5 DEF Serve
  <2>7. "ok" \in Guarded(s) /\ s.token = r.token
    BY <2>3, <2>6
  <2>8. Genuine(r.token) /\ r.token.email \in server.allowed
    BY <1>1, <2>7 DEF Guarded
  <2> DEFINE v == vouched[r.token.email]
  <2>9. v # NULL /\ v.secret = server.secret /\ r.token.exp <= v.at + Ttl /\ now <= r.token.exp
        /\ r.token # NULL
    BY <2>1, <2>8 DEF Genuine, Backed
  <2>10. now \in Nat /\ r.token.exp \in Nat /\ v.at \in Nat
    <3>1. r.token \in Token
      BY <2>1, <2>9
    <3>2. v \in [at: 0..MaxTime, secret: 0..MaxFaults]
      BY <1>1, <2>9, <3>1 DEF AccessInv, TypeOK, Token
    <3>3. QED
      BY <1>1, <3>1, <3>2, AccessAssumption DEF AccessInv, TypeOK, Token
  <2>11. now <= v.at + Ttl
    BY <2>9, <2>10, AccessAssumption
  <2>12. QED
    BY <2>8, <2>9, <2>11
<1>2. AccessInv /\ [Next]_vars =>
        [\A r \in requests :
           /\ AuthOn /\ r.owner # "gone" /\ r.path \notin {"config", "google"}
           /\ r.status = "sent" /\ [r EXCEPT !.status = "ok"] \in requests' \ requests
           => /\ r.token # NULL /\ r.token.email \in server.allowed
              /\ LET v == vouched[r.token.email] IN
                   v # NULL /\ v.secret = server.secret /\ now <= v.at + Ttl]_vars
  BY <1>1
<1>3. QED
  BY <1>2, AccessInvariant, PTL DEF Spec, OnlyRecentAdminsServed

-----------------------------------------------------------------------------
\* A 401 answers a request whose token was dead, or that had none; who may sign in
\* gets a token.
Fits(r) ==
  /\ r.status = "401" => ~Genuine(r.token)
  /\ r.owner = "google" => r.path = "google"
  /\ r.path = "google" /\ r.status = "ok" => r.token # NULL

AnswersFit == \A r \in requests : Fits(r)

LEMMA InitFits == Init => AnswersFit
BY DEF Init, AnswersFit, Fits, Asks

\* Once dead, a token is never taken again.
LEMMA DeadStaysDead ==
  ASSUME AccessInv, [Next]_vars, NEW tok \in InPlay, ~Genuine(tok)
  PROVE  ~Genuine(tok)'
<1> SUFFICES ASSUME tok # NULL, Genuine(tok)' PROVE FALSE
  BY DEF Genuine
<1>1. tok \in Token /\ tok.secret \in Nat /\ tok.secret <= faults /\ tok.exp \in Nat
  BY InPlayTokens, AccessAssumption DEF AccessInv, Backed, Token
<1>2. now \in Nat /\ faults \in Nat /\ server.secret \in Nat
  BY AccessAssumption DEF AccessInv, TypeOK
<1>3. now' = now \/ now' = now + 1
  BY DEF Next, vars, Tick, Restart, Serve, Break, Take, Click, SignIn, SignOut, Refresh, Unload
<1>4. tok.exp < now => tok.exp < now'
  BY <1>1, <1>2, <1>3
<1>5. tok.secret # server.secret => tok.secret # server'.secret
  <2>1. CASE Restart
    <3>1. PICK allowed \in Whitelists :
            server' = [server EXCEPT !.allowed = allowed,
                                     !.secret = IF server.fixed THEN 0 ELSE faults']
      BY <2>1 DEF Restart
    <3>2. /\ server \in [secret: 0..MaxFaults, fixed: BOOLEAN, allowed: Whitelists]
          /\ faults' = faults + 1
      BY <2>1 DEF AccessInv, TypeOK, Restart, Fault
    <3>3. server'.secret = IF server.fixed THEN 0 ELSE faults + 1
      BY <3>1, <3>2
    <3>4. QED
      BY <1>1, <1>2, <3>3 DEF AccessInv, SecretsAreFresh
  <2>2. CASE ~Restart
    BY <2>2 DEF Next, vars, Tick, Serve, Break, Take, Click, SignIn, SignOut, Refresh, Unload
  <2>3. QED
    BY <2>1, <2>2
<1>6. QED
  BY <1>1, <1>2, <1>3, <1>4, <1>5 DEF Genuine

LEMMA FitsStays ==
  ASSUME AccessInv, [Next]_vars, AnswersFit, NEW r \in requests
  PROVE  Fits(r)'
<1>1. r.token \in InPlay /\ Fits(r)
  BY InPlayTokens DEF AnswersFit
<1>2. ~Genuine(r.token) => ~Genuine(r.token)'
  BY <1>1, DeadStaysDead
<1>3. QED
  BY <1>1, <1>2 DEF Fits

LEMMA ServeFits ==
  ASSUME AccessInv, [Next]_vars, AnswersFit, NEW s \in requests, Serve(s) \/ Break(s)
  PROVE  AnswersFit'
<1>1. ASSUME NEW q \in requests', q \notin requests PROVE Fits(q)'
  <2>1. s \in Requests /\ s.token \in InPlay /\ Fits(s)
    BY InPlayTokens DEF AnswersFit
  <2>2. PICK status, tok :
          /\ Answered(s, status, tok)
          /\ status = "401" => tok = NULL \/ (tok = s.token /\ ~Genuine(s.token))
          /\ s.path = "google" /\ status = "ok" => tok # NULL
    <3>1. CASE Break(s)
      BY <3>1 DEF Break
    <3>2. CASE Serve(s) /\ s.path = "google"
      <4> DEFINE new == [email |-> s.who, secret |-> server.secret, exp |-> now + Ttl]
      <4>1. SignedIn(s.who) = "ok" => new # NULL
        <5>1. SignedIn(s.who) = "ok" => s.who \in Emails
          BY <2>1 DEF SignedIn, Requests
        <5>2. server.secret \in Nat /\ now + Ttl \in Nat
          BY AccessAssumption DEF AccessInv, TypeOK
        <5>3. QED
          BY <5>1, <5>2, AccessAssumption
      <4> HIDE DEF new
      <4>2. \/ SignedIn(s.who) = "ok" /\ Answered(s, "ok", new)
            \/ Answered(s, SignedIn(s.who), NULL) /\ SignedIn(s.who) # "ok"
        BY <3>2 DEF Serve, ServeGoogle, new
      <4>3. QED
        BY <4>1, <4>2
    <3>3. CASE Serve(s) /\ s.path # "google"
      BY <3>3 DEF Serve, Guarded
    <3>4. QED
      BY <3>1, <3>2, <3>3
  <2>3. /\ q.status = status /\ q.token = tok /\ q.path = s.path /\ q.owner = s.owner
    BY <1>1, <2>1, <2>2 DEF Answered, Requests
  <2>4. ~Genuine(NULL)'
    BY DEF Genuine
  <2>5. ~Genuine(s.token) => ~Genuine(s.token)'
    BY <2>1, DeadStaysDead
  <2>6. status = "401" => ~Genuine(tok)'
    BY <2>2, <2>4, <2>5
  <2>7. QED
    BY <2>1, <2>2, <2>3, <2>6 DEF Fits
<1>2. QED
  BY <1>1, FitsStays DEF AnswersFit

LEMMA RestartFits == AccessInv /\ AnswersFit /\ [Next]_vars /\ Restart => AnswersFit'
<1> SUFFICES ASSUME AccessInv, AnswersFit, [Next]_vars, Restart, NEW q \in requests'
             PROVE  Fits(q)'
  BY DEF AnswersFit
<1>1. PICK r \in requests : q = Broken(r)
  BY DEF Restart
<1>2. r \in Requests /\ Fits(r)'
  BY InPlayTokens, FitsStays
<1>3. \/ q = r
      \/ q.status = "fail" /\ q.path = r.path /\ q.owner = r.owner
  BY <1>1, <1>2 DEF Broken, Requests
<1>4. QED
  BY <1>2, <1>3 DEF Fits

\* The page answers nothing: what is refused had been refused before.
LEMMA PageFits ==
  ASSUME AccessInv, [Next]_vars, AnswersFit,
         \/ \E r \in requests : Take(r)
         \/ \E t \in Tabs :
              \/ \E path \in {"act", "monitor"} : Click(t, path)
              \/ \E who \in Emails \cup {NULL} : SignIn(t, who)
              \/ SignOut(t) \/ Refresh(t) \/ Unload(t)
  PROVE  AnswersFit'
<1> SUFFICES ASSUME NEW q \in requests' PROVE Fits(q)'
  BY DEF AnswersFit
<1>1. CASE q \in requests
  BY <1>1, FitsStays
<1>2. CASE q.status = "sent" /\ (q.owner = "google" => q.path = "google")
  BY <1>2 DEF Fits
<1>3. CASE \E s \in requests : /\ q.owner = "gone" /\ q.status = s.status
                               /\ q.token = s.token /\ q.path = s.path
  <2>1. PICK s \in requests : /\ q.owner = "gone" /\ q.status = s.status
                              /\ q.token = s.token /\ q.path = s.path
    BY <1>3
  <2>2. Fits(s)'
    BY FitsStays
  <2>3. QED
    BY <2>1, <2>2 DEF Fits
<1>4. QED
  BY <1>1, <1>2, <1>3, PageForwards

LEMMA NextFits ==
  ASSUME AccessInv, AnswersFit, [Next]_vars
  PROVE  AnswersFit'
<1>1. CASE Tick \/ UNCHANGED vars
  <2>1. requests' = requests
    BY <1>1 DEF Tick, vars
  <2>2. QED
    BY <2>1, FitsStays DEF AnswersFit
<1>2. CASE Restart
  BY <1>2, RestartFits
<1>3. ASSUME NEW r \in requests, Serve(r) \/ Break(r) PROVE AnswersFit'
  BY <1>3, ServeFits
<1>4. QED
  BY <1>1, <1>2, <1>3, PageFits DEF Next

\* handle() forgets the token after a 401 and at no other time, and hears every
\* answer once.
LEMMA OneAnswerForgets ==
  ASSUME AccessInv, AnswersFit, NEW r \in requests, Take(r), stored # NULL, stored' = NULL
  PROVE  r.status = "401" /\ r \notin requests'
<1>1. r.owner = "google" => ~(r.status = "ok" /\ r.token = NULL)
  BY DEF AnswersFit, Fits
<1>2. stored' = Kept(r) /\ r.status = "401"
  BY <1>1 DEF Take, Kept
<1>3. CASE LoadFails(r) /\ r.owner # "gone"
  <2>1. r \in Of(r.tab, r.owner)
    BY DEF Of
  <2>2. ASSUME NEW s \in Of(r.tab, r.owner), r = [s EXCEPT !.owner = "gone"] PROVE FALSE
    <3>1. s \in Requests
      BY InPlayTokens DEF Of
    <3>2. r.owner = "gone"
      BY <2>2, <3>1 DEF Requests
    <3>3. QED
      BY <1>3, <3>2
  <2>3. QED
    BY <1>2, <1>3, <2>1, <2>2 DEF LoadFails
<1>4. CASE requests' = requests \ {r}
  BY <1>2, <1>4
<1>5. QED
  BY <1>2, <1>3, <1>4 DEF Take, ConfigOk, ReadOk, CallOk, CallFails

\* Whichever requests of whichever tabs fail and in whatever order their answers
\* come, a token that is still good goes only at the administrator's wish or with
\* a 401 meant for another one (dashboard/lib/api.ts: handle).
THEOREM KeepsGoodTokenAlways == Spec => KeepsGoodToken
<1>1. AccessInv /\ AnswersFit /\ [Next]_vars => AnswersFit'
  BY NextFits
<1>2. AccessInv /\ AnswersFit /\ [Next]_vars =>
        [stored # NULL /\ stored' = NULL
         => \/ ~Genuine(stored)
            \/ \E t \in Tabs : SignOut(t)
            \/ \E r \in requests \ requests' : r.status = "401" /\ r.token # stored]_vars
  <2> SUFFICES ASSUME AccessInv, AnswersFit, [Next]_vars, stored # NULL, stored' = NULL,
                      \A t \in Tabs : ~SignOut(t), Genuine(stored)
               PROVE  \E r \in requests \ requests' : r.status = "401" /\ r.token # stored
    OBVIOUS
  <2>1. PICK r \in requests : Take(r)
    BY DEF Next, vars, Tick, Restart, Serve, Break, Click, SignIn, Refresh, Unload
  <2>2. r.status = "401" /\ r \notin requests'
    BY <2>1, OneAnswerForgets
  <2>3. r.token # stored
    BY <2>2 DEF AnswersFit, Fits
  <2>4. QED
    BY <2>2, <2>3
<1>3. QED
  BY <1>1, <1>2, InitFits, AccessInvariant, PTL DEF Spec, KeepsGoodToken
=============================================================================
