---------------------------- MODULE ClientSession ----------------------------
(***************************************************************************)
(* The session as the tabs of one browser see it: authStorage.ts, the      *)
(* calls of api.ts that read or change it, the profile of usePermissions   *)
(* and the catalogues that catalogCache keeps.                             *)
(*                                                                         *)
(* The tabs share the access token in the cookies, which the HRM portal    *)
(* writes too, and what localStorage says of its owner; the server keeps   *)
(* the session of the browser (BrowserSessions).  A tab looks at all that  *)
(* only now and then, and notes by a new revision that it has changed.     *)
(* Whatever it awaits may be answered when the session is another          *)
(* person's.                                                               *)
(*                                                                         *)
(* A step of a tab is what it does from one answer of the network, or one  *)
(* event, to the next request, the microtasks included: no other tab       *)
(* touches the storage in the meantime.                                    *)
(***************************************************************************)
EXTENDS Integers, Sequences

CONSTANTS
  Tabs,      \* the tabs that are open
  People,    \* who signs in with this browser
  MaxTokens, \* how many access tokens are issued
  MaxActs,   \* how often users do something
  None       \* nobody, and no token

VARIABLES
  issued,    \* issued[k]: the owner of access token k
  expired,   \* the tokens that are no longer accepted
  cookies,   \* the tokens under the names of the shared cookies
  handoff,   \* the token that came with a refresh cookie of the portal
  binding,   \* localStorage: the token, its owner, whether just verified
  marked,    \* localStorage: whose session the server can refresh
  server,    \* whose session the server keeps for this browser
  tab,       \* what each tab keeps in memory
  calls,     \* what the tabs are waiting for
  made

vars == <<issued, expired, cookies, handoff, binding, marked, server, tab,
          calls, made>>

Tokens == 1..Len(issued)
Owner(k) == issued[k]
NoBinding == [token |-> None, hrm |-> None, verified |-> FALSE]
Unread == [token |-> None, conflict |-> None]

\* A page that was just loaded.
NewTab == [seen |-> Unread, revision |-> 0, error |-> FALSE, pending |-> None,
           csrf |-> None, user |-> None, phase |-> "loading", shownAt |-> 0,
           catalog |-> {}]

Issue(p) == Len(issued) < MaxTokens /\ issued' = Append(issued, p)
New == Len(issued) + 1
Begin == made < MaxActs /\ made' = made + 1
-----------------------------------------------------------------------------
(* Reading the session.                                                    *)

\* Several tokens establish nobody.
Alone(cs) == {k \in cs : cs = {k}}

Snapshot(cs, error) ==
  [token |-> IF Alone(cs) = {} THEN None ELSE CHOOSE k \in Alone(cs) : TRUE,
   conflict |-> error \/ (cs # {} /\ Alone(cs) = {})]

UpToDate(t) == tab[t].seen = Snapshot(cookies, tab[t].error)

\* getAccessToken, getVerifiedHrmId, isSessionVerified, hasRefreshSession.
Valid(e) == e.seen.token # None /\ e.seen.token \notin expired
VerifiedHrm(e, b) == IF b.token = e.seen.token THEN b.hrm ELSE None
Verified(e, b) == Valid(e) /\ b.token = e.seen.token /\ b.verified
Refreshable(e, b, m) == VerifiedHrm(e, b) # None /\ m = b.hrm

NewCall(t, e, kind, step, who, token) ==
  [tab |-> t, version |-> e.revision, kind |-> kind, step |-> step,
   who |-> who, token |-> token, current |-> TRUE, waiting |-> {}]

\* The first request of a call for which a cookie session is needed.
FirstStep(e, who, next) == IF e.csrf = who THEN next ELSE "session"

\* refreshAccessToken: the calls of a tab in one session wait for the same
\* refresh.
Waits(t, e, b, cl, why) ==
  LET running == {c \in cl : c.tab = t /\ c.kind = "refresh"
                             /\ c.version = e.revision} IN
  IF running # {}
  THEN (cl \ running) \cup {[c EXCEPT !.waiting = @ \cup why] : c \in running}
  ELSE cl \cup {[NewCall(t, e, "refresh", FirstStep(e, b.hrm, "renew"), b.hrm, None)
                   EXCEPT !.waiting = why]}

\* load: the profile is asked for, if need be after a refresh.
Load(t, e, b, m, cl) ==
  IF Valid(e)
  THEN [entry |-> e,
        calls |-> cl \cup {NewCall(t, e, "profile", "me", None, e.seen.token)}]
  ELSE IF Refreshable(e, b, m)
  THEN [entry |-> e, calls |-> Waits(t, e, b, cl, {"profile"})]
  ELSE [entry |-> [e EXCEPT !.user = None, !.phase = "signed out",
                            !.shownAt = e.revision],
        calls |-> cl]

\* invalidatePermissionsCache: answers to earlier requests for the profile
\* are not shown.
Superseded(t, cl) ==
  {IF c.tab = t /\ c.kind = "profile" THEN [c EXCEPT !.current = FALSE] ELSE c
     : c \in cl}

\* Fault: the token is compared with the one that the tabs share.
FaultDiffers(e, now) == e.seen = Unread \/ binding.token # now.token

\* readSession: does the tab find another token, or another conflict, than at
\* its last look?  What the tabs share is of no help, another one may have
\* noticed before.
Differs(e, now) == e.seen # now

\* The binding holds for the token in the cookies only.
Rebound(b, now) == [token |-> now.token,
                    hrm |-> IF b.token = now.token THEN b.hrm ELSE None,
                    verified |-> FALSE]

\* A step of tab t leaves this storage, this entry of the tab and these calls;
\* then the tab looks at the session, and what it notices starts a new
\* revision: listeners drop what belongs to the old one and load the profile.
Settles(t, cs, h, b, m, e, cl) ==
  LET now == Snapshot(cs, e.error)
      news == Differs(e, now)
      pending == IF h # None /\ now.token # None THEN now.token
                 ELSE IF e.pending = now.token THEN e.pending ELSE None
      read == [e EXCEPT !.seen = now, !.pending = pending]
      renewed == [read EXCEPT !.revision = IF e.seen = Unread THEN @ ELSE @ + 1,
                              !.phase = "loading", !.csrf = None, !.catalog = {}]
      bound == Rebound(b, now)
      loaded == Load(t, [renewed EXCEPT !.shownAt = renewed.revision], bound, m,
                     Superseded(t, cl))
  IN /\ cookies' = cs
     /\ handoff' = None
     /\ marked' = m
     /\ binding' = IF news THEN bound ELSE b
     /\ tab' = [tab EXCEPT ![t] = IF news THEN loaded.entry ELSE read]
     /\ calls' = IF news THEN loaded.calls ELSE cl

\* The storage is left as it is.
Goes(t, e, cl) == Settles(t, cookies, handoff, binding, marked, e, cl)

\* saveAuthTokens.
Saves(t, k, hrm, m, e, refresh, cl) ==
  Settles(t, {k}, None, [token |-> k, hrm |-> hrm, verified |-> hrm # None], m,
          [e EXCEPT !.pending = IF refresh THEN k ELSE None, !.error = FALSE], cl)

\* clearAuthTokens.
Clears(t, e, cl) ==
  Settles(t, {}, None, NoBinding, None, [e EXCEPT !.pending = None], cl)

Init ==
  /\ issued = << >> /\ expired = {}
  /\ cookies = {} /\ handoff = None
  /\ binding = NoBinding /\ marked = None
  /\ server = None
  /\ tab = [t \in Tabs |-> [NewTab EXCEPT !.seen = Snapshot({}, FALSE),
                                          !.phase = "signed out"]]
  /\ calls = {}
  /\ made = 0
-----------------------------------------------------------------------------
(* What happens outside.                                                   *)

\* Somebody signs in at the portal, which writes its cookies, with a refresh
\* token or without; it may leave an old token under another name.
Portal(p) ==
  /\ Issue(p)
  /\ \/ cookies' = {New}
     \/ Alone(cookies) # {} /\ cookies' = cookies \cup {New}
  /\ handoff' \in {None, New}
  /\ UNCHANGED <<expired, binding, marked, server, tab, calls, made>>

\* Signing out there removes them.
PortalLeaves ==
  /\ Begin
  /\ cookies # {}
  /\ cookies' = {} /\ handoff' = None
  /\ UNCHANGED <<issued, expired, binding, marked, server, tab, calls>>

Expire ==
  /\ \E k \in cookies \ expired : expired' = expired \cup {k}
  /\ UNCHANGED <<issued, cookies, handoff, binding, marked, server, tab, calls,
                 made>>
-----------------------------------------------------------------------------
(* What a tab does of its own accord.                                      *)

\* startSessionMonitor: every second, and at events of the window.
Notice(t) ==
  /\ ~UpToDate(t)
  /\ Goes(t, tab[t], calls)
  /\ UNCHANGED <<issued, expired, server, made>>

\* The tab gets the focus: the profile is checked in the background.
Focus(t) ==
  LET e == [tab[t] EXCEPT !.phase = IF tab[t].user # None THEN "checking"
                                    ELSE "loading",
                          !.shownAt = tab[t].revision]
      b == [binding EXCEPT !.verified = FALSE]
      l == Load(t, e, b, marked, Superseded(t, calls))
  IN /\ Begin
     /\ UpToDate(t)
     /\ Settles(t, cookies, handoff, b, marked, l.entry, l.calls)
     /\ UNCHANGED <<issued, expired, server>>

\* A page is loaded: its calls are forgotten.
Others(t) == {c \in calls : c.tab # t}

Reload(t) ==
  /\ Begin
  /\ Goes(t, NewTab, Others(t))
  /\ UNCHANGED <<issued, expired, server>>

\* extractAndSaveTokensFromUrl: by a link that carries a token, with a refresh
\* token or without ...
OpenLink(t, p) ==
  /\ Issue(p)
  /\ \E refresh \in BOOLEAN :
       Saves(t, New, None, marked, NewTab, refresh, Others(t))
  /\ UNCHANGED <<expired, server, made>>

\* ... or several, or one that has expired.
OpenBadLink(t) ==
  /\ Begin
  /\ Clears(t, [NewTab EXCEPT !.error = TRUE], Others(t))
  /\ UNCHANGED <<issued, expired, server>>

\* The button of a page whose user could not be verified.
SignOut(t) ==
  /\ Begin
  /\ Clears(t, tab[t], calls)
  /\ UNCHANGED <<issued, expired, server>>

\* LoginPage: name and password are sent.
Login(t, p) ==
  /\ Begin
  /\ calls' = calls \cup {NewCall(t, tab[t], "login", "login", p, None)}
  /\ UNCHANGED <<issued, expired, cookies, handoff, binding, marked, server, tab>>

Ask(t, call) ==
  /\ Begin
  /\ UpToDate(t)
  /\ Goes(t, tab[t], calls \cup {call})
  /\ UNCHANGED <<issued, expired, server>>

\* restoreBrowserSession, which LoginPage calls without a valid token.
Restore(t) ==
  /\ ~Valid(tab[t]) /\ ~tab[t].seen.conflict
  /\ tab[t].seen.token # None => VerifiedHrm(tab[t], binding) # None
  /\ Ask(t, NewCall(t, tab[t], "restore", "session", None, None))

\* setupSilentRefresh: the timer.
Refresh(t) ==
  /\ Refreshable(tab[t], binding, marked)
  /\ \A c \in calls : c.tab = t /\ c.kind = "refresh" => c.version # tab[t].revision
  /\ Ask(t, NewCall(t, tab[t], "refresh", FirstStep(tab[t], binding.hrm, "renew"),
                    binding.hrm, None))

\* fetchWithCache, of a catalogue that is not there yet.
Catalog(t) ==
  /\ Verified(tab[t], binding)
  /\ Ask(t, NewCall(t, tab[t], "catalog", "send", None, tab[t].seen.token))

\* logoutSession, by somebody who was verified.
Logout(t) ==
  /\ VerifiedHrm(tab[t], binding) # None
  /\ Ask(t, NewCall(t, tab[t], "logout", FirstStep(tab[t], binding.hrm, "post"),
                    binding.hrm, None))
-----------------------------------------------------------------------------
(* What the server does.                                                   *)

Step(c, step) == calls' = (calls \ {c}) \cup {[c EXCEPT !.step = step]}

\* The session is refreshed, if it is that of the person who is expected and
\* HRM does not refuse.
ServerRenews(c) ==
  /\ c.step = "renew"
  /\ server = c.who
  /\ Issue(c.who)
  /\ calls' = (calls \ {c}) \cup {[c EXCEPT !.step = "renewed", !.token = New]}
  /\ UNCHANGED <<expired, cookies, handoff, binding, marked, server, tab, made>>

ServerEnds(c) ==
  /\ c.step = "post"
  /\ server' = IF server = c.who THEN None ELSE server
  /\ Step(c, "posted")
  /\ UNCHANGED <<issued, expired, cookies, handoff, binding, marked, tab, made>>
-----------------------------------------------------------------------------
(* What a tab does when an answer arrives.                                 *)

\* Fault: only the token that the tab sees is looked at.
FaultSame(c) == UpToDate(c.tab)

\* The session is the one in which the call was made.
Same(c) == c.version = tab[c.tab].revision /\ UpToDate(c.tab)

Rest(c) == calls \ {c}
Drops(c) == Goes(c.tab, tab[c.tab], Rest(c))

Failed(e) == [e EXCEPT !.phase = "failed", !.shownAt = e.revision]

\* A call comes to nothing: no answer, an error, or a session of another
\* person.  e is the entry of its tab by then.
GivesUp(c, e) ==
  CASE c.kind = "logout" /\ Same(c) -> Clears(c.tab, [e EXCEPT !.csrf = None], Rest(c))
    [] c.kind = "refresh" /\ Same(c) /\ "unauthorized" \in c.waiting
         -> Clears(c.tab, e, Rest(c))
    [] c.kind = "refresh" /\ Same(c) /\ c.waiting = {"profile"}
         -> Goes(c.tab, Failed(e), Rest(c))
    [] c.kind = "profile" /\ c.current -> Goes(c.tab, Failed(e), Rest(c))
    [] OTHER -> Goes(c.tab, e, Rest(c))

Lost(c) ==
  /\ GivesUp(c, tab[c.tab])
  /\ UNCHANGED <<issued, expired, server, made>>

\* getCookieSession: the tab keeps the answer before it compares it.
SessionArrives(c) ==
  LET e == [tab[c.tab] EXCEPT !.csrf = server]
      next == [c EXCEPT !.step = IF c.kind = "logout" THEN "post" ELSE "renew",
                        !.who = server]
  IN /\ c.step = "session"
     /\ server # None
     /\ IF c.kind = "restore" \/ (c.who = server /\ Same(c))
        THEN Goes(c.tab, e, Rest(c) \cup {next})
        ELSE GivesUp(c, e)
     /\ UNCHANGED <<issued, expired, server, made>>

\* refreshAccessToken, restoreBrowserSession: the new token.
TokenArrives(c) ==
  /\ c.step = "renewed"
  /\ IF Same(c) THEN Saves(c.tab, c.token, c.who, c.who, tab[c.tab], FALSE, Rest(c))
     ELSE Drops(c)
  /\ UNCHANGED <<issued, expired, server, made>>

\* LoginPage: its token is saved, whoever has signed in since it was asked for.
LoginArrives(c) ==
  /\ c.step = "login"
  /\ Issue(c.who)
  /\ server' = c.who
  /\ Saves(c.tab, New, c.who, c.who, tab[c.tab], FALSE, Rest(c))
  /\ UNCHANGED <<expired, made>>

RefusalArrives(c) ==
  /\ c.step = "renew"
  /\ IF c.kind = "refresh" /\ Same(c) THEN Clears(c.tab, tab[c.tab], Rest(c))
     ELSE Drops(c)
  /\ UNCHANGED <<issued, expired, server, made>>

\* logoutSession: whatever the server did.
LogoutArrives(c) ==
  /\ c.step = "posted"
  /\ GivesUp(c, tab[c.tab])
  /\ UNCHANGED <<issued, expired, server, made>>

\* fetchPermissionsProfile: the profile is shown, unless it was asked for again.
Shows(c, e, m) ==
  LET p == Owner(c.token) IN
  IF c.current
  THEN Settles(c.tab, cookies, handoff, [binding EXCEPT !.hrm = p, !.verified = TRUE], m,
               [e EXCEPT !.user = p, !.phase = "ready", !.shownAt = c.version], Rest(c))
  ELSE Settles(c.tab, cookies, handoff, binding, m, e, Rest(c))

\* getMe: a refresh token that came with the access token is handed over once.
ProfileArrives(c) ==
  LET e == tab[c.tab] IN
  /\ c.step = "me" /\ c.token \notin expired
  /\ IF ~Same(c) THEN Drops(c)
     ELSE IF e.pending = c.token
     THEN Goes(c.tab, [e EXCEPT !.pending = None],
               Rest(c) \cup {[c EXCEPT !.step = "adopt"]})
     ELSE Shows(c, e, marked)
  /\ UNCHANGED <<issued, expired, server, made>>

\* The cookie of the new session comes with the answer, wanted or not.
AdoptionArrives(c) ==
  LET p == Owner(c.token) IN
  /\ c.step = "adopt" /\ c.token \notin expired
  /\ server' = p
  /\ IF Same(c) THEN Shows(c, [tab[c.tab] EXCEPT !.csrf = p], p) ELSE Drops(c)
  /\ UNCHANGED <<issued, expired, made>>

CatalogArrives(c) ==
  /\ c.step = "send" /\ c.token \notin expired
  /\ IF Same(c)
     THEN Goes(c.tab, [tab[c.tab] EXCEPT !.catalog =
                         @ \cup {[version |-> c.version, of |-> Owner(c.token)]}],
               Rest(c))
     ELSE Drops(c)
  /\ UNCHANGED <<issued, expired, server, made>>

\* fetchWithAuth: a token that is not accepted is refreshed.  The request is
\* sent again in a new revision, where nobody waits for it any more.
Rejected(c) ==
  LET e == tab[c.tab]
      why == {"unauthorized"} \cup (IF c.kind = "profile" /\ c.current
                                    THEN {"profile"} ELSE {})
  IN /\ c.step \in {"me", "send"} /\ c.token \in expired
     /\ IF ~Same(c) THEN Drops(c)
        ELSE IF Refreshable(e, binding, marked)
        THEN Goes(c.tab, e, Waits(c.tab, e, binding, Rest(c), why))
        ELSE Clears(c.tab, e, Rest(c))
     /\ UNCHANGED <<issued, expired, server, made>>

Arrives(c) ==
  \/ Lost(c) \/ SessionArrives(c) \/ TokenArrives(c) \/ RefusalArrives(c)
  \/ LogoutArrives(c) \/ LoginArrives(c) \/ ProfileArrives(c)
  \/ AdoptionArrives(c) \/ CatalogArrives(c) \/ Rejected(c)

Next ==
  \/ \E p \in People : Portal(p)
  \/ PortalLeaves \/ Expire
  \/ \E t \in Tabs :
       \/ Notice(t) \/ Focus(t) \/ Reload(t) \/ OpenBadLink(t) \/ SignOut(t)
       \/ Restore(t) \/ Refresh(t) \/ Catalog(t) \/ Logout(t)
       \/ \E p \in People : OpenLink(t, p) \/ Login(t, p)
  \/ \E c \in calls : ServerRenews(c) \/ ServerEnds(c) \/ Arrives(c)

Spec == Init /\ [][Next]_vars
-----------------------------------------------------------------------------
(* Properties.                                                             *)

PersonOrNone == People \cup {None}
TokenOrNone == Tokens \cup {None}
Kinds == {"profile", "refresh", "restore", "catalog", "logout", "login"}
Stages == {"me", "adopt", "session", "renew", "renewed", "send", "post",
           "posted", "login"}
Phases == {"loading", "checking", "ready", "failed", "signed out"}

Look == [token : TokenOrNone, conflict : BOOLEAN]

Entry ==
  [seen : Look, revision : Nat, error : BOOLEAN, pending : TokenOrNone,
   csrf : PersonOrNone, user : PersonOrNone, phase : Phases, shownAt : Nat,
   catalog : SUBSET [version : Nat, of : People]]

Call ==
  [tab : Tabs, version : Nat, kind : Kinds, step : Stages, who : PersonOrNone,
   token : TokenOrNone, current : BOOLEAN,
   waiting : SUBSET {"profile", "unauthorized"}]

Binding == [token : TokenOrNone, hrm : PersonOrNone, verified : BOOLEAN]

\* Every variable keeps its type.
TypeOK ==
  /\ issued \in Seq(People)
  /\ expired \subseteq Tokens /\ cookies \subseteq Tokens
  /\ handoff \in TokenOrNone
  /\ binding \in Binding
  /\ marked \in PersonOrNone /\ server \in PersonOrNone
  /\ tab \in [Tabs -> Entry]
  /\ calls \subseteq Call
  /\ made \in Nat

\* Whom the binding names owns the token it binds.
BindingIsTrue ==
  binding.hrm # None => binding.token # None /\ Owner(binding.token) = binding.hrm

\* A tab that knows of the latest change lets nobody act but the owner of the
\* token with which it makes its calls, and offers only the catalogues that it
\* got with a token of that person.
ShownIsTrue ==
  \A t \in Tabs : UpToDate(t) /\ tab[t].seen.token # None =>
    /\ tab[t].phase = "ready" => tab[t].user = Owner(tab[t].seen.token)
    /\ \A entry \in tab[t].catalog :
         entry.version = tab[t].revision
           => entry.of = Owner(tab[t].seen.token)

\* However late answers arrive and whoever has signed in meanwhile, nobody is
\* mistaken for the person whose token the browser sends.
IdentityIsTrue == BindingIsTrue /\ ShownIsTrue

Whose(c) == IF c.token # None THEN Owner(c.token) ELSE c.who

\* An answer that a call of one person has been waiting for never replaces or
\* ends the session of another.  Excepted are the calls that belong to no
\* session: a name and a password that were sent, which are meant to replace
\* whatever there is, and restore, which names nobody.
LeavesOthersAlone ==
  \A c \in calls : Arrives(c) /\ c.kind \notin {"restore", "login"} =>
    \A k \in cookies : Owner(k) = Whose(c)

NobodyTakesOver == [][LeavesOthersAlone]_cookies

\* docs/http-only-browser-sessions.md: who comes from the portal without a
\* session at the server has to sign in again when the token expires, and is
\* not renewed by the session of somebody else.
RenewedByOneself ==
  [][cookies' # cookies =>
       \A c \in calls : c.kind = "restore" /\ TokenArrives(c) =>
         \A k \in cookies : Owner(k) = c.who]_vars
=============================================================================
