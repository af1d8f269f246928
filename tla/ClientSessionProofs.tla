------------------------ MODULE ClientSessionProofs -------------------------
(***************************************************************************)
(* For any number of tabs, people, tokens and acts: nobody is mistaken for *)
(* the person whose token the browser sends, and no late answer of one     *)
(* person replaces or ends the session of another.                         *)
(*                                                                         *)
(* What the steps change in the tokens that exist, 'issued', they only add *)
(* to.  The facts below are therefore stated of a sequence 'iss', and hold *)
(* of a longer one as well (Growing).                                      *)
(***************************************************************************)
EXTENDS ClientSession, TLAPS

NoneIsApart == None \notin Nat \cup People \cup BOOLEAN

TokensOf(iss) == 1..Len(iss) \cup {None}

LooksOf(iss) == [token : TokensOf(iss), conflict : BOOLEAN]

\* The entries of tabs, those included that have not read the session yet.
EntriesOf(iss) ==
  [seen : LooksOf(iss) \cup {Unread}, revision : Nat, error : BOOLEAN,
   pending : TokensOf(iss), csrf : PersonOrNone, user : PersonOrNone,
   phase : Phases, shownAt : Nat, catalog : SUBSET [version : Nat, of : People]]

CallsOf(iss) ==
  [tab : Tabs, version : Nat, kind : Kinds, step : Stages, who : PersonOrNone,
   token : TokensOf(iss), current : BOOLEAN,
   waiting : SUBSET {"profile", "unauthorized"}]

BindingsOf(iss) == [token : TokensOf(iss), hrm : PersonOrNone, verified : BOOLEAN]

\* The binding names the owner of its token.
BindingRight(b, iss) == b.hrm # None => b.token # None /\ iss[b.token] = b.hrm

\* What a tab shows belongs to the owner of the token it has seen.
EntryRight(e, iss) ==
  /\ e.phase = "ready" => e.seen.token # None /\ e.user = iss[e.seen.token]
  /\ \A n \in e.catalog : e.seen.token # None /\ n.of = iss[e.seen.token]

\* A tab that has seen the token in the cookies finds it bound.
Bound(e, cs, b) ==
  e.seen.token # None /\ cs = {e.seen.token} => b.token = e.seen.token

WithToken == {"me", "adopt", "send"}

\* What a call of a tab may rely on: in the revision in which it was made, the
\* token it carries, or that of the person for whom it asks, is the one that
\* the tab has seen.
CallRight(c, e, iss) ==
  /\ c.version <= e.revision
  /\ c.token # None <=> c.step \in WithToken \cup {"renewed"}
  /\ c.step \in WithToken <=> c.kind \in {"profile", "catalog"}
  /\ c.step = "renew" => c.who # None
  /\ c.step = "renewed" => iss[c.token] = c.who
  /\ c.step = "login" => c.kind = "login" /\ c.who # None
  /\ c.version = e.revision /\ c.step \in WithToken => c.token = e.seen.token
  /\ c.version = e.revision /\ c.kind \in {"refresh", "logout"}
       => e.seen.token # None /\ iss[e.seen.token] = c.who

\* All this of the tabs and what they share.
Right(iss, cs, b, tabs, cl) ==
  /\ iss \in Seq(People)
  /\ cs \subseteq 1..Len(iss)
  /\ b \in BindingsOf(iss) /\ BindingRight(b, iss)
  /\ tabs \in [Tabs -> EntriesOf(iss)]
  /\ \A t \in Tabs : /\ tabs[t].seen \in LooksOf(iss)
                     /\ EntryRight(tabs[t], iss)
                     /\ Bound(tabs[t], cs, b)
  /\ cl \subseteq CallsOf(iss)
  /\ \A c \in cl : CallRight(c, tabs[c.tab], iss)

RestTyped ==
  /\ expired \subseteq 1..Len(issued)
  /\ handoff \in TokensOf(issued)
  /\ marked \in PersonOrNone /\ server \in PersonOrNone
  /\ made \in Nat

Inv == Right(issued, cookies, binding, tab, calls) /\ RestTyped
-----------------------------------------------------------------------------
\* One token establishes a session, several establish none.
LEMMA Reading ==
  ASSUME NoneIsApart, NEW iss \in Seq(People), NEW cs \in SUBSET (1..Len(iss)),
         NEW error \in BOOLEAN
  PROVE  /\ Snapshot(cs, error) \in LooksOf(iss)
         /\ Snapshot(cs, error).token # None => cs = {Snapshot(cs, error).token}
         /\ \A k \in cs : cs = {k} => Snapshot(cs, error).token = k
<1> DEFINE k == CHOOSE k \in Alone(cs) : TRUE
<1>1. CASE Alone(cs) = {}
  BY <1>1 DEF Snapshot, Alone, LooksOf, TokensOf
<1>2. CASE Alone(cs) # {}
  <2>1. k \in cs /\ cs = {k}
    BY <1>2 DEF Alone
  <2>2. Snapshot(cs, error).token = k /\ Snapshot(cs, error).conflict \in BOOLEAN
    BY <1>2 DEF Snapshot
  <2>3. Snapshot(cs, error) = [token |-> k, conflict |-> error \/ FALSE]
    BY <1>2 DEF Snapshot
  <2> QED
    BY <2>1, <2>2, <2>3 DEF LooksOf, TokensOf, NoneIsApart
<1> QED
  BY <1>1, <1>2

\* A longer sequence of tokens changes nothing of the calls, tabs and bindings
\* there are.
LEMMA Growing ==
  ASSUME NoneIsApart, NEW iss \in Seq(People), NEW p \in People
  PROVE  LET longer == Append(iss, p) IN
         /\ longer \in Seq(People)
         /\ Len(longer) = Len(iss) + 1 /\ longer[Len(iss) + 1] = p
         /\ TokensOf(iss) \subseteq TokensOf(longer)
         /\ EntriesOf(iss) \subseteq EntriesOf(longer)
         /\ LooksOf(iss) \subseteq LooksOf(longer)
         /\ CallsOf(iss) \subseteq CallsOf(longer)
         /\ BindingsOf(iss) \subseteq BindingsOf(longer)
         /\ \A k \in TokensOf(iss) : k # None => longer[k] = iss[k]
<1> DEFINE longer == Append(iss, p)
<1>1. longer \in Seq(People) /\ Len(longer) = Len(iss) + 1 /\ Len(iss) \in Nat
      /\ longer[Len(iss) + 1] = p
  OBVIOUS
<1>2. \A k \in 1..Len(iss) : longer[k] = iss[k]
  OBVIOUS
<1>3. TokensOf(iss) \subseteq TokensOf(longer)
  BY <1>1 DEF TokensOf
<1>4. LooksOf(iss) \subseteq LooksOf(longer)
  BY <1>3 DEF LooksOf
<1>5. EntriesOf(iss) \subseteq EntriesOf(longer)
  BY <1>3, <1>4 DEF EntriesOf
<1>6. CallsOf(iss) \subseteq CallsOf(longer)
  BY <1>3 DEF CallsOf
<1>7. BindingsOf(iss) \subseteq BindingsOf(longer)
  BY <1>3 DEF BindingsOf
<1> QED
  BY <1>1, <1>2, <1>3, <1>4, <1>5, <1>6, <1>7 DEF TokensOf

\* Of the calls 'cl' the steps of tab t leave those of other tabs alone, and
\* what they make of its own may rely on entry e.
Kept(t, e, cl, left, iss) ==
  /\ left \subseteq CallsOf(iss)
  /\ \A c \in left : c.tab # t => c \in cl
  /\ \A c \in left : c.tab = t => CallRight(c, e, iss)

\* A call that waits for a refresh finds one under way, or begins it for the
\* owner of the token.
LEMMA Waiting ==
  ASSUME NoneIsApart, NEW iss, NEW t \in Tabs, NEW e \in EntriesOf(iss),
         NEW b \in BindingsOf(iss), BindingRight(b, iss),
         b.hrm # None, b.token = e.seen.token,
         NEW why \in SUBSET {"profile", "unauthorized"},
         NEW cl, Kept(t, e, cl, cl, iss)
  PROVE  Kept(t, e, cl, Waits(t, e, b, cl, why), iss)
<1> DEFINE running == {c \in cl : c.tab = t /\ c.kind = "refresh"
                                  /\ c.version = e.revision}
           W(c) == [c EXCEPT !.waiting = @ \cup why]
           step == FirstStep(e, b.hrm, "renew")
           n == [NewCall(t, e, "refresh", step, b.hrm, None) EXCEPT !.waiting = why]
<1>1. CASE running # {}
  <2>1. Waits(t, e, b, cl, why) = (cl \ running) \cup {W(c) : c \in running}
    BY <1>1 DEF Waits
  <2>2. ASSUME NEW c \in running
        PROVE  W(c) \in CallsOf(iss) /\ W(c).tab = t /\ CallRight(W(c), e, iss)
    <3>1. c \in CallsOf(iss) /\ CallRight(c, e, iss)
      BY <2>2 DEF Kept
    <3> QED
      BY <2>2, <3>1 DEF CallsOf, CallRight
  <2> HIDE DEF W
  <2> QED
    BY <2>1, <2>2 DEF Kept
<1>2. CASE running = {}
  <2>1. Waits(t, e, b, cl, why) = cl \cup {n}
    BY <1>2 DEF Waits
  <2>2. e.seen.token # None /\ iss[e.seen.token] = b.hrm
    BY DEF BindingRight
  <2>3. step \in {"session", "renew"}
    BY DEF FirstStep
  <2> HIDE DEF step
  <2>4. /\ n.tab = t /\ n.version = e.revision /\ n.kind = "refresh"
        /\ n.step = step /\ n.who = b.hrm /\ n.token = None
    BY DEF NewCall
  <2>5. e.revision \in Nat /\ b.hrm \in PersonOrNone
    BY DEF EntriesOf, BindingsOf
  <2>6. n \in CallsOf(iss)
    <3>1. step \in Stages /\ "refresh" \in Kinds /\ None \in TokensOf(iss)
      BY <2>3 DEF TokensOf, Kinds, Stages
    <3> QED
      BY <3>1, <2>5 DEF CallsOf, NewCall
  <2> HIDE DEF n
  <2>7. CallRight(n, e, iss)
    BY <2>2, <2>3, <2>4, <2>5 DEF CallRight, WithToken
  <2> QED
    BY <2>1, <2>4, <2>6, <2>7 DEF Kept
<1> QED
  BY <1>1, <1>2

\* What a superseded request may rely on does not change.
LEMMA Superseding ==
  ASSUME NEW iss, NEW t \in Tabs, NEW e, NEW cl, Kept(t, e, cl, cl, iss)
  PROVE  Kept(t, e, cl, Superseded(t, cl), iss)
<1> SUFFICES ASSUME NEW c \in Superseded(t, cl)
             PROVE  /\ c \in CallsOf(iss)
                    /\ c.tab # t => c \in cl
                    /\ c.tab = t => CallRight(c, e, iss)
  BY DEF Kept
<1>1. PICK d \in cl :
        c = IF d.tab = t /\ d.kind = "profile" THEN [d EXCEPT !.current = FALSE]
            ELSE d
  BY DEF Superseded
<1>2. d \in CallsOf(iss) /\ (d.tab = t => CallRight(d, e, iss))
  BY DEF Kept
<1>3. /\ c \in CallsOf(iss) /\ c.tab = d.tab
      /\ c.tab # t => c = d
      /\ c.version = d.version /\ c.token = d.token /\ c.step = d.step
      /\ c.kind = d.kind /\ c.who = d.who
  BY <1>1, <1>2 DEF CallsOf
<1> QED
  BY <1>2, <1>3 DEF CallRight

\* What Load leaves: the calls there were, perhaps with one more to wait for
\* them, and a new one that may rely on the entry.
LEMMA Loading ==
  ASSUME NoneIsApart, NEW iss, NEW t \in Tabs, NEW e \in EntriesOf(iss),
         e.seen \in LooksOf(iss), NEW b \in BindingsOf(iss), NEW m, NEW cl,
         BindingRight(b, iss), e.phase # "ready", EntryRight(e, iss),
         Kept(t, e, cl, cl, iss)
  PROVE  LET l == Load(t, e, b, m, cl) IN
         /\ l.entry \in EntriesOf(iss) /\ EntryRight(l.entry, iss)
         /\ l.entry.seen = e.seen /\ l.entry.revision = e.revision
         /\ l.entry.error = e.error
         /\ Kept(t, e, cl, l.calls, iss)
<1> DEFINE after == Load(t, e, b, m, cl)
<1>1. CASE Valid(e)
  <2> DEFINE n == NewCall(t, e, "profile", "me", None, e.seen.token)
  <2>1. after.entry = e /\ after.calls = cl \cup {n}
    BY <1>1 DEF Load
  <2>2. e.seen.token # None /\ e.seen.token \in TokensOf(iss)
    BY <1>1 DEF Valid, LooksOf
  <2>3. n \in CallsOf(iss) /\ CallRight(n, e, iss) /\ n.tab = t
    BY <2>2 DEF NewCall, CallsOf, CallRight, WithToken, EntriesOf, Kinds, Stages,
                PersonOrNone
  <2> HIDE DEF n
  <2> QED
    BY <2>1, <2>3 DEF Kept
<1>2. CASE ~Valid(e) /\ Refreshable(e, b, m)
  <2>1. after.entry = e /\ after.calls = Waits(t, e, b, cl, {"profile"})
    BY <1>2 DEF Load
  <2>2. b.hrm # None /\ b.token = e.seen.token
    BY <1>2 DEF Refreshable, VerifiedHrm
  <2>3. {"profile"} \in SUBSET {"profile", "unauthorized"}
    OBVIOUS
  <2> QED
    BY <2>1, <2>2, <2>3, Waiting
<1>3. CASE ~Valid(e) /\ ~Refreshable(e, b, m)
  <2> DEFINE out == [e EXCEPT !.user = None, !.phase = "signed out",
                              !.shownAt = e.revision]
  <2>1. after.entry = out /\ after.calls = cl
    BY <1>3 DEF Load
  <2>2. out \in EntriesOf(iss) /\ out.seen = e.seen /\ out.revision = e.revision
        /\ out.error = e.error /\ out.catalog = e.catalog /\ out.phase # "ready"
    BY DEF EntriesOf, Phases, PersonOrNone
  <2>3. EntryRight(out, iss)
    BY <2>2 DEF EntryRight
  <2> HIDE DEF out
  <2> QED
    BY <2>1, <2>2, <2>3
<1> QED
  BY <1>1, <1>2, <1>3

\* The facts hold of a longer sequence of tokens.
LEMMA Grown ==
  ASSUME NoneIsApart, NEW iss, NEW p \in People, NEW cs, NEW b, NEW tabs, NEW cl,
         Right(iss, cs, b, tabs, cl)
  PROVE  Right(Append(iss, p), cs, b, tabs, cl)
<1> DEFINE longer == Append(iss, p)
<1>0. iss \in Seq(People) /\ Len(iss) \in Nat
  BY DEF Right
<1>1. /\ longer \in Seq(People)
      /\ Len(longer) = Len(iss) + 1
      /\ TokensOf(iss) \subseteq TokensOf(longer)
      /\ EntriesOf(iss) \subseteq EntriesOf(longer)
      /\ LooksOf(iss) \subseteq LooksOf(longer)
      /\ CallsOf(iss) \subseteq CallsOf(longer)
      /\ BindingsOf(iss) \subseteq BindingsOf(longer)
      /\ \A k \in TokensOf(iss) : k # None => longer[k] = iss[k]
  BY <1>0, Growing
<1> HIDE DEF longer
<1>2. cs \subseteq 1..Len(longer)
  BY <1>0, <1>1 DEF Right
<1>3. BindingRight(b, longer)
  BY <1>1 DEF Right, BindingRight, BindingsOf
<1>4. ASSUME NEW t \in Tabs PROVE EntryRight(tabs[t], longer)
  BY <1>1 DEF Right, EntryRight, LooksOf
<1>5. ASSUME NEW c \in cl PROVE CallRight(c, tabs[c.tab], longer)
  <2>1. c.tab \in Tabs /\ c.token \in TokensOf(iss)
    BY DEF Right, CallsOf
  <2>2. tabs[c.tab].seen.token \in TokensOf(iss)
    BY <2>1 DEF Right, LooksOf
  <2>3. CallRight(c, tabs[c.tab], iss)
    BY DEF Right
  <2> QED
    BY <1>1, <2>1, <2>2, <2>3 DEF CallRight, WithToken
<1>6. /\ b \in BindingsOf(longer) /\ tabs \in [Tabs -> EntriesOf(longer)]
      /\ cl \subseteq CallsOf(longer)
      /\ \A t \in Tabs : tabs[t].seen \in LooksOf(longer) /\ Bound(tabs[t], cs, b)
  BY <1>1 DEF Right
<1>7. Right(longer, cs, b, tabs, cl)
  BY <1>1, <1>2, <1>3, <1>4, <1>5, <1>6 DEF Right
<1> QED
  BY <1>7 DEF longer

\* A step of a tab that hands over facts leaves facts, whether it notices a
\* change or not.
LEMMA Settling ==
  ASSUME NoneIsApart, NEW iss, NEW t \in Tabs, NEW cs \in SUBSET (1..Len(iss)),
         NEW h \in TokensOf(iss), NEW b \in BindingsOf(iss), NEW m,
         NEW e \in EntriesOf(iss), NEW cl \in SUBSET CallsOf(iss),
         Right(iss, cookies, binding, tab, calls),
         BindingRight(b, iss), EntryRight(e, iss), Bound(e, cs, b),
         e.seen = Unread => \A c \in cl : c.tab # t,
         \A c \in cl : IF c.tab = t THEN CallRight(c, e, iss) ELSE c \in calls,
         \A u \in Tabs : u # t => Bound(tab[u], cs, b),
         Settles(t, cs, h, b, m, e, cl)
  PROVE  /\ Right(iss, cookies', binding', tab', calls')
         /\ handoff' = None /\ marked' = m
<1> DEFINE now == Snapshot(cs, e.error)
           pending == IF h # None /\ now.token # None THEN now.token
                      ELSE IF e.pending = now.token THEN e.pending ELSE None
           read == [e EXCEPT !.seen = now, !.pending = pending]
           revision == IF e.seen = Unread THEN e.revision ELSE e.revision + 1
           renewed == [read EXCEPT !.revision = revision,
                                   !.phase = "loading", !.csrf = None, !.catalog = {}]
           entry == [renewed EXCEPT !.shownAt = renewed.revision]
           bound == Rebound(b, now)
           asked == Superseded(t, cl)
           loaded == Load(t, entry, bound, m, asked)
<1>0. iss \in Seq(People)
  BY DEF Right
<1>1. /\ now \in LooksOf(iss)
      /\ now.token # None => cs = {now.token}
      /\ \A k \in cs : cs = {k} => now.token = k
  <2>1. e.error \in BOOLEAN
    BY DEF EntriesOf
  <2> QED
    BY <1>0, <2>1, Reading
<1>2. now.token \in TokensOf(iss) /\ now # Unread
  BY <1>1 DEF LooksOf, Unread, NoneIsApart
<1>3. pending \in TokensOf(iss)
  BY <1>2 DEF TokensOf
<1>4. /\ cookies' = cs /\ handoff' = None /\ marked' = m
      /\ binding' = IF e.seen # now THEN bound ELSE b
      /\ tab' = [tab EXCEPT ![t] = IF e.seen # now THEN loaded.entry ELSE read]
      /\ calls' = IF e.seen # now THEN loaded.calls ELSE cl
  BY DEF Settles, Differs
<1> HIDE DEF now, pending
<1>5. CASE e.seen = now
  <2>1. read \in EntriesOf(iss) /\ read.seen = now /\ read.revision = e.revision
        /\ read.phase = e.phase /\ read.user = e.user /\ read.catalog = e.catalog
    BY <1>1, <1>3, <1>5 DEF EntriesOf
  <2> HIDE DEF read
  <2>2. EntryRight(read, iss) /\ Bound(read, cs, b)
    BY <1>5, <2>1 DEF EntryRight, Bound
  <2>3. binding' = b /\ tab' = [tab EXCEPT ![t] = read] /\ calls' = cl
    BY <1>4, <1>5
  <2>4. ASSUME NEW c \in cl PROVE CallRight(c, tab'[c.tab], iss)
    <3>1. c.tab \in Tabs
      BY DEF CallsOf
    <3>2. CASE c.tab = t
      <4>1. tab'[c.tab] = read
        BY <2>3, <3>2 DEF Right
      <4> QED
        BY <1>5, <2>1, <3>2, <4>1 DEF CallRight
    <3>3. CASE c.tab # t
      BY <2>3, <3>1, <3>3 DEF Right
    <3> QED
      BY <3>2, <3>3
  <2>5. ASSUME NEW u \in Tabs
        PROVE  /\ tab'[u] \in EntriesOf(iss) /\ tab'[u].seen \in LooksOf(iss)
               /\ EntryRight(tab'[u], iss) /\ Bound(tab'[u], cs, b)
    BY <1>1, <2>1, <2>2, <2>3 DEF Right
  <2>6. tab' \in [Tabs -> EntriesOf(iss)]
    BY <2>3, <2>5 DEF Right
  <2> QED
    BY <1>0, <1>4, <2>3, <2>4, <2>5, <2>6 DEF Right
<1>6. CASE e.seen # now
  <2>1. /\ entry \in EntriesOf(iss) /\ entry.seen = now
        /\ entry.revision = revision /\ entry.phase = "loading" /\ entry.catalog = {}
        /\ e.revision \in Nat /\ revision \in Nat
    <3>1. e.revision \in Nat /\ revision \in Nat
      BY DEF EntriesOf
    <3> HIDE DEF revision
    <3>2. read \in EntriesOf(iss) /\ read.seen = now
      BY <1>1, <1>3 DEF EntriesOf
    <3> HIDE DEF read
    <3>3. /\ renewed \in EntriesOf(iss) /\ renewed.seen = now
          /\ renewed.revision = revision /\ renewed.phase = "loading"
          /\ renewed.catalog = {}
      BY <3>1, <3>2 DEF EntriesOf, Phases, PersonOrNone
    <3> HIDE DEF renewed
    <3> QED
      BY <3>1, <3>3 DEF EntriesOf
  <2>2. EntryRight(entry, iss)
    BY <2>1 DEF EntryRight
  <2>3. /\ bound \in BindingsOf(iss) /\ bound.token = now.token
        /\ BindingRight(bound, iss)
    BY <1>2 DEF Rebound, BindingsOf, BindingRight, PersonOrNone
  <2>4. Kept(t, entry, cl, cl, iss)
    <3> SUFFICES ASSUME NEW c \in cl, c.tab = t PROVE CallRight(c, entry, iss)
      BY DEF Kept
    <3>1. CallRight(c, e, iss) /\ e.seen # Unread
      OBVIOUS
    <3>2. c.version \in Nat /\ revision = e.revision + 1
      BY <3>1 DEF CallsOf
    <3> HIDE DEF entry, revision
    <3> QED
      BY <2>1, <3>1, <3>2 DEF CallRight
  <2> HIDE DEF entry, bound
  <2>5. Kept(t, entry, cl, asked, iss)
    BY <2>4, Superseding
  <2> HIDE DEF asked
  <2>6. Kept(t, entry, asked, asked, iss)
    BY <2>5 DEF Kept
  <2>7. /\ loaded.entry \in EntriesOf(iss) /\ EntryRight(loaded.entry, iss)
        /\ loaded.entry.seen = now /\ loaded.entry.revision = entry.revision
        /\ Kept(t, entry, asked, loaded.calls, iss)
    BY <1>1, <2>1, <2>2, <2>3, <2>6, Loading
  <2> HIDE DEF loaded
  <2>8. binding' = bound /\ tab' = [tab EXCEPT ![t] = loaded.entry]
        /\ calls' = loaded.calls
    BY <1>4, <1>6
  <2>9. ASSUME NEW c \in calls' PROVE CallRight(c, tab'[c.tab], iss)
    <3>1. c.tab \in Tabs
      BY <2>7, <2>8 DEF CallsOf, Kept
    <3>2. CASE c.tab = t
      <4>1. tab'[c.tab] = loaded.entry /\ CallRight(c, entry, iss)
        BY <2>7, <2>8, <3>2 DEF Right, Kept
      <4> QED
        BY <2>1, <2>7, <4>1 DEF CallRight
    <3>3. CASE c.tab # t
      <4>1. c \in calls /\ tab'[c.tab] = tab[c.tab]
        BY <2>5, <2>7, <2>8, <3>1, <3>3 DEF Right, Kept
      <4> QED
        BY <4>1 DEF Right
    <3> QED
      BY <3>2, <3>3
  <2>10. ASSUME NEW u \in Tabs
         PROVE  /\ tab'[u] \in EntriesOf(iss) /\ tab'[u].seen \in LooksOf(iss)
                /\ EntryRight(tab'[u], iss) /\ Bound(tab'[u], cs, bound)
    <3>1. /\ tab'[u] \in EntriesOf(iss) /\ tab'[u].seen \in LooksOf(iss)
          /\ EntryRight(tab'[u], iss)
      BY <1>1, <2>7, <2>8 DEF Right
    <3>2. Bound(tab'[u], cs, bound)
      BY <1>1, <2>3 DEF Bound
    <3> QED
      BY <3>1, <3>2
  <2>11. tab' \in [Tabs -> EntriesOf(iss)] /\ calls' \subseteq CallsOf(iss)
    BY <2>7, <2>8, <2>10 DEF Right, Kept
  <2> QED
    BY <1>0, <1>4, <2>3, <2>8, <2>9, <2>10, <2>11 DEF Right
<1> QED
  BY <1>4, <1>5, <1>6
-----------------------------------------------------------------------------
Grows == issued' = issued \/ \E p \in People : issued' = Append(issued, p)

\* The tab goes on with its entry, or starts anew without its calls.
GoesOn(t, e, cl) ==
  \/ e.seen = tab[t].seen /\ e.revision = tab[t].revision
  \/ e.seen = Unread /\ \A c \in cl : c.tab # t

OthersTyped ==
  /\ expired' \subseteq 1..Len(issued')
  /\ server' \in PersonOrNone
  /\ made' \in Nat

\* What the tabs rely on survives the issue of a token.
LEMMA Growth ==
  ASSUME NoneIsApart, Inv, Grows
  PROVE  Right(issued', cookies, binding, tab, calls)
  BY Grown DEF Inv, Grows

\* A step of a tab that hands over facts keeps the invariant ...
LEMMA Stepping ==
  ASSUME NoneIsApart, Inv, Grows, OthersTyped, NEW t \in Tabs,
         NEW cs \in SUBSET (1..Len(issued')), NEW h \in TokensOf(issued'),
         NEW b \in BindingsOf(issued'), NEW m \in PersonOrNone,
         NEW e \in EntriesOf(issued'), NEW cl \in SUBSET CallsOf(issued'),
         BindingRight(b, issued'), EntryRight(e, issued'), GoesOn(t, e, cl),
         \A c \in cl : c \in calls \/ (c.tab = t /\ CallRight(c, tab[t], issued')),
         \/ cs = cookies /\ b.token = binding.token
         \/ \A k \in cs : b.token = k,
         Settles(t, cs, h, b, m, e, cl)
  PROVE  Inv'
<1>1. Right(issued', cookies, binding, tab, calls)
  BY Growth
<1>2. Bound(e, cs, b)
  BY <1>1 DEF Right, Bound, GoesOn, Unread
<1>3. \A u \in Tabs : u # t => Bound(tab[u], cs, b)
  BY <1>1 DEF Right, Bound
<1>4. \A c \in cl : IF c.tab = t THEN CallRight(c, e, issued') ELSE c \in calls
  <2> SUFFICES ASSUME NEW c \in cl, c.tab = t PROVE CallRight(c, e, issued')
    OBVIOUS
  <2>1. CallRight(c, tab[t], issued')
    BY <1>1 DEF Right
  <2>2. e.seen = tab[t].seen /\ e.revision = tab[t].revision
    BY DEF GoesOn
  <2> QED
    BY <2>1, <2>2 DEF CallRight
<1>5. e.seen = Unread => \A c \in cl : c.tab # t
  <2>1. tab[t].seen # Unread
    BY <1>1 DEF Right, LooksOf, Unread, NoneIsApart
  <2> QED
    BY <2>1 DEF GoesOn
<1>6. /\ Right(issued', cookies', binding', tab', calls')
      /\ handoff' = None /\ marked' = m
  BY <1>1, <1>2, <1>3, <1>4, <1>5, Settling
<1> QED
  BY <1>6 DEF Inv, RestTyped, OthersTyped, TokensOf

\* ... so does one that leaves the storage as it is ...
LEMMA Going ==
  ASSUME NoneIsApart, Inv, issued' = issued, OthersTyped, NEW t \in Tabs,
         NEW e \in EntriesOf(issued), NEW cl \in SUBSET CallsOf(issued),
         EntryRight(e, issued), GoesOn(t, e, cl),
         \A c \in cl : c \in calls \/ (c.tab = t /\ CallRight(c, tab[t], issued)),
         Goes(t, e, cl)
  PROVE  Inv'
<1>1. /\ cookies \in SUBSET (1..Len(issued')) /\ handoff \in TokensOf(issued')
      /\ binding \in BindingsOf(issued') /\ marked \in PersonOrNone
      /\ BindingRight(binding, issued')
  BY DEF Inv, Right, RestTyped
<1> QED
  BY <1>1, Stepping DEF Goes, Grows

\* ... that saves a token, new or not ...
LEMMA Saving ==
  ASSUME NoneIsApart, Inv, Grows, OthersTyped, NEW t \in Tabs,
         NEW k \in 1..Len(issued'), NEW hrm \in PersonOrNone,
         hrm # None => issued'[k] = hrm, NEW m \in PersonOrNone,
         NEW e \in EntriesOf(issued), EntryRight(e, issued),
         NEW cl \in SUBSET calls, GoesOn(t, e, cl), NEW refresh,
         Saves(t, k, hrm, m, e, refresh, cl)
  PROVE  Inv'
<1> DEFINE f == [e EXCEPT !.pending = IF refresh THEN k ELSE None, !.error = FALSE]
           b == [token |-> k, hrm |-> hrm, verified |-> hrm # None]
<1>1. Right(issued', cookies, binding, tab, calls) /\ Len(issued') \in Nat
  BY Growth DEF Right
<1>2. k # None /\ None \in TokensOf(issued') /\ k \in TokensOf(issued')
  BY <1>1 DEF NoneIsApart, TokensOf
<1>3. b \in BindingsOf(issued') /\ BindingRight(b, issued')
  BY <1>2 DEF BindingsOf, BindingRight
<1>4. e \in EntriesOf(issued') /\ EntryRight(e, issued')
  <2>1. CASE issued' = issued
    BY <2>1
  <2>2. CASE \E p \in People : issued' = Append(issued, p)
    <3>1. PICK p \in People : issued' = Append(issued, p)
      BY <2>2
    <3>2. issued \in Seq(People)
      BY DEF Inv, Right
    <3>3. e.seen.token \in TokensOf(issued)
      BY DEF EntriesOf, LooksOf, Unread, TokensOf
    <3> QED
      BY <3>1, <3>2, <3>3, Growing DEF EntryRight
  <2> QED
    BY <2>1, <2>2 DEF Grows
<1>5. /\ f \in EntriesOf(issued') /\ EntryRight(f, issued') /\ GoesOn(t, f, cl)
  BY <1>2, <1>4 DEF EntriesOf, EntryRight, GoesOn
<1>6. cl \in SUBSET CallsOf(issued') /\ {k} \in SUBSET (1..Len(issued'))
  BY <1>1 DEF Right
<1>7. Settles(t, {k}, None, b, m, f, cl)
  BY DEF Saves
<1> HIDE DEF f, b
<1>8. \A j \in {k} : b.token = j
  BY DEF b
<1> QED
  BY <1>2, <1>3, <1>5, <1>6, <1>7, <1>8, Stepping

\* ... or that clears them all.
LEMMA Clearing ==
  ASSUME NoneIsApart, Inv, issued' = issued, OthersTyped, NEW t \in Tabs,
         NEW e \in EntriesOf(issued), EntryRight(e, issued),
         NEW cl \in SUBSET calls, GoesOn(t, e, cl), Clears(t, e, cl)
  PROVE  Inv'
<1> DEFINE f == [e EXCEPT !.pending = None]
<1>1. None \in TokensOf(issued) /\ None \in PersonOrNone /\ {} \in SUBSET (1..Len(issued))
  BY DEF TokensOf, PersonOrNone
<1>2. NoBinding \in BindingsOf(issued) /\ BindingRight(NoBinding, issued)
  BY <1>1 DEF NoBinding, BindingsOf, BindingRight
<1>3. f \in EntriesOf(issued) /\ EntryRight(f, issued) /\ GoesOn(t, f, cl)
  BY <1>1 DEF EntriesOf, EntryRight, GoesOn
<1>4. cl \in SUBSET CallsOf(issued)
  BY DEF Inv, Right
<1>5. Settles(t, {}, None, NoBinding, None, f, cl)
  BY DEF Clears
<1> HIDE DEF f
<1> QED
  BY <1>1, <1>2, <1>3, <1>4, <1>5, Stepping DEF Grows
-----------------------------------------------------------------------------
\* What the invariant says of one tab, and of a page that was just loaded.
LEMMA OfTab ==
  ASSUME NoneIsApart, Inv, NEW t \in Tabs
  PROVE  /\ tab[t] \in EntriesOf(issued) /\ EntryRight(tab[t], issued)
         /\ tab[t].seen \in LooksOf(issued) /\ tab[t].revision \in Nat
         /\ NewTab \in EntriesOf(issued) /\ EntryRight(NewTab, issued)
         /\ NewTab.seen = Unread
<1>1. tab[t] \in EntriesOf(issued) /\ EntryRight(tab[t], issued)
      /\ tab[t].seen \in LooksOf(issued)
  BY DEF Inv, Right
<1>2. tab[t].revision \in Nat
  BY <1>1 DEF EntriesOf
<1>3. NewTab \in EntriesOf(issued) /\ EntryRight(NewTab, issued) /\ NewTab.seen = Unread
  BY DEF NewTab, EntriesOf, EntryRight, TokensOf, PersonOrNone, Phases
<1> QED
  BY <1>1, <1>2, <1>3

\* What the invariant says of one call.
LEMMA OfCall ==
  ASSUME Inv, NEW c \in calls
  PROVE  /\ c \in CallsOf(issued) /\ c.tab \in Tabs
         /\ CallRight(c, tab[c.tab], issued)
         /\ Rest(c) \subseteq calls /\ calls \subseteq CallsOf(issued)
  BY DEF Inv, Right, CallsOf, Rest

\* Nothing but the storage and what the tabs keep changes.
LEMMA Untouched ==
  ASSUME Inv, issued' = issued, expired' = expired, server' \in PersonOrNone,
         made' \in {made, made + 1}
  PROVE  OthersTyped
  BY DEF Inv, RestTyped, OthersTyped

\* A tab that is up to date with one token finds that token in the cookies,
\* and bound.
LEMMA Sameness ==
  ASSUME NoneIsApart, Inv, NEW t \in Tabs, UpToDate(t), tab[t].seen.token # None
  PROVE  /\ cookies = {tab[t].seen.token} /\ binding.token = tab[t].seen.token
         /\ tab[t].seen.token \in 1..Len(issued)
<1>1. tab[t].error \in BOOLEAN /\ issued \in Seq(People) /\ cookies \in SUBSET (1..Len(issued))
  BY OfTab DEF Inv, Right, EntriesOf
<1>2. cookies = {tab[t].seen.token}
  BY <1>1, Reading DEF UpToDate
<1> QED
  BY <1>1, <1>2 DEF Inv, Right, Bound

\* The session in which a call was made is that of the person whose call it is.
LEMMA OwnSession ==
  ASSUME NoneIsApart, Inv, NEW c \in calls, Same(c), c.kind \notin {"restore", "login"}
  PROVE  /\ tab[c.tab].seen.token # None
         /\ cookies = {tab[c.tab].seen.token}
         /\ binding.token = tab[c.tab].seen.token
         /\ tab[c.tab].seen.token \in 1..Len(issued)
         /\ c.step \in WithToken => c.token = tab[c.tab].seen.token
         /\ Owner(tab[c.tab].seen.token) = Whose(c)
<1>1. c \in CallsOf(issued) /\ CallRight(c, tab[c.tab], issued) /\ c.tab \in Tabs
  BY OfCall
<1>2. c.version = tab[c.tab].revision /\ UpToDate(c.tab)
  BY DEF Same
<1>3. CASE c.kind \in {"profile", "catalog"}
  <2>1. c.step \in WithToken /\ c.token = tab[c.tab].seen.token /\ c.token # None
    BY <1>1, <1>2, <1>3 DEF CallRight
  <2> QED
    BY <1>1, <1>2, <2>1, Sameness DEF Whose
<1>4. CASE c.kind \in {"refresh", "logout"}
  <2>1. /\ c.step \notin WithToken /\ tab[c.tab].seen.token # None
        /\ issued[tab[c.tab].seen.token] = c.who
        /\ c.token # None => issued[c.token] = c.who
    BY <1>1, <1>2, <1>4 DEF CallRight
  <2> QED
    BY <1>1, <1>2, <2>1, Sameness DEF Whose, Owner
<1> QED
  BY <1>1, <1>3, <1>4 DEF CallsOf, Kinds
-----------------------------------------------------------------------------
\* At first nobody has signed in.
LEMMA Initially == NoneIsApart /\ Init => Inv
<1> SUFFICES ASSUME NoneIsApart, Init PROVE Inv
  OBVIOUS
<1>0. issued = << >> /\ issued \in Seq(People) /\ Len(issued) = 0
  BY DEF Init
<1> DEFINE now == Snapshot({}, FALSE)
           first == [NewTab EXCEPT !.seen = now, !.phase = "signed out"]
<1>1. now = [token |-> None, conflict |-> FALSE]
  BY DEF Snapshot, Alone
<1> HIDE DEF now
<1>2. now \in LooksOf(issued) /\ now.token = None
  BY <1>1 DEF LooksOf, TokensOf
<1>3. /\ first \in EntriesOf(issued) /\ first.seen = now /\ first.phase = "signed out"
      /\ first.catalog = {}
  BY <1>2 DEF NewTab, EntriesOf, TokensOf, PersonOrNone, Phases
<1>4. EntryRight(first, issued) /\ Bound(first, cookies, binding)
  BY <1>2, <1>3 DEF EntryRight, Bound
<1>5. tab = [t \in Tabs |-> first]
  BY DEF Init, now
<1> HIDE DEF first
<1>6. binding \in BindingsOf(issued) /\ BindingRight(binding, issued)
  BY DEF Init, NoBinding, BindingsOf, BindingRight, TokensOf, PersonOrNone
<1>7. Right(issued, cookies, binding, tab, calls)
  BY <1>0, <1>2, <1>3, <1>4, <1>5, <1>6 DEF Right, Init
<1>8. RestTyped
  BY <1>0 DEF Init, RestTyped, TokensOf, PersonOrNone
<1> QED
  BY <1>7, <1>8 DEF Inv

\* The portal changes the cookies: a token that is new to every tab, one more
\* beside others, or none.
LEMMA OutsideSteps ==
  ASSUME NoneIsApart, Inv,
         (\E p \in People : Portal(p)) \/ PortalLeaves \/ Expire
  PROVE  Inv'
<1>0. issued \in Seq(People) /\ Len(issued) \in Nat /\ cookies \subseteq 1..Len(issued)
  BY DEF Inv, Right
<1>1. ASSUME NEW p \in People, Portal(p) PROVE Inv'
  <2>1. issued' = Append(issued, p) /\ Len(issued') = Len(issued) + 1
        /\ New = Len(issued) + 1
    BY <1>0, <1>1 DEF Portal, Issue, New
  <2>2. Right(issued', cookies, binding, tab, calls)
    BY <2>1, Growth DEF Grows
  <2>3. cookies' \subseteq 1..Len(issued')
    <3>1. cookies' = {New} \/ cookies' = cookies \cup {New}
      BY <1>1 DEF Portal
    <3>2. New \in 1..Len(issued') /\ cookies \subseteq 1..Len(issued')
      BY <1>0, <2>1
    <3> QED
      BY <3>1, <3>2
  <2>4. ASSUME NEW t \in Tabs PROVE Bound(tab[t], cookies', binding)
    <3>1. tab[t].seen.token # None => tab[t].seen.token \in 1..Len(issued)
      BY OfTab DEF LooksOf, TokensOf
    <3>2. New \in cookies'
      BY <1>1 DEF Portal
    <3> QED
      BY <1>0, <2>1, <3>1, <3>2 DEF Bound
  <2>5. /\ expired' = expired /\ binding' = binding /\ marked' = marked
        /\ server' = server /\ tab' = tab /\ calls' = calls /\ made' = made
        /\ handoff' \in {None, New}
    BY <1>1 DEF Portal
  <2>6. RestTyped'
    BY <1>0, <2>1, <2>5 DEF Inv, RestTyped, TokensOf
  <2> QED
    BY <2>2, <2>3, <2>4, <2>5, <2>6 DEF Inv, Right
<1>2. CASE PortalLeaves
  <2>1. /\ cookies' = {} /\ handoff' = None /\ made' = made + 1
        /\ UNCHANGED <<issued, expired, binding, marked, server, tab, calls>>
    BY <1>2 DEF PortalLeaves, Begin
  <2>2. Right(issued, {}, binding, tab, calls)
    BY DEF Inv, Right, Bound
  <2>3. RestTyped'
    BY <2>1 DEF Inv, RestTyped, TokensOf
  <2> QED
    BY <2>1, <2>2, <2>3 DEF Inv
<1>3. CASE Expire
  BY <1>0, <1>3 DEF Expire, Inv, Right, RestTyped
<1> QED
  BY <1>1, <1>2, <1>3

\* What the server does changes the call that it answers.
LEMMA ServerSteps ==
  ASSUME NoneIsApart, Inv, NEW c \in calls, ServerRenews(c) \/ ServerEnds(c)
  PROVE  Inv'
<1>0. /\ c \in CallsOf(issued) /\ c.tab \in Tabs /\ CallRight(c, tab[c.tab], issued)
      /\ issued \in Seq(People) /\ Len(issued) \in Nat
  BY OfCall DEF Inv, Right
<1>1. CASE ServerRenews(c)
  <2> DEFINE d == [c EXCEPT !.step = "renewed", !.token = New]
  <2>1. /\ issued' = Append(issued, c.who) /\ calls' = (calls \ {c}) \cup {d}
        /\ UNCHANGED <<expired, cookies, handoff, binding, marked, server, tab, made>>
        /\ c.step = "renew" /\ New = Len(issued) + 1
    BY <1>1 DEF ServerRenews, Issue, New
  <2>2. c.who \in People
    BY <1>0, <2>1 DEF CallRight, CallsOf, PersonOrNone
  <2>3. /\ Len(issued') = Len(issued) + 1 /\ issued'[New] = c.who
        /\ issued' \in Seq(People)
    BY <1>0, <2>1, <2>2
  <2>4. Right(issued', cookies, binding, tab, calls)
    BY <2>1, <2>2, Growth DEF Grows
  <2>5. c \in CallsOf(issued') /\ CallRight(c, tab[c.tab], issued')
    BY <2>4 DEF Right
  <2>6. New \in TokensOf(issued') /\ New # None
    BY <1>0, <2>1, <2>3 DEF TokensOf, NoneIsApart
  <2>7. /\ d \in CallsOf(issued') /\ d.tab = c.tab /\ d.version = c.version
        /\ d.kind = c.kind /\ d.who = c.who /\ d.step = "renewed" /\ d.token = New
    BY <2>5, <2>6 DEF CallsOf, Stages
  <2> HIDE DEF d
  <2>8. CallRight(d, tab[d.tab], issued')
    BY <2>1, <2>3, <2>5, <2>6, <2>7 DEF CallRight, WithToken
  <2>9. Right(issued', cookies, binding, tab, calls')
    BY <2>1, <2>4, <2>7, <2>8 DEF Right
  <2>10. RestTyped'
    BY <1>0, <2>1, <2>3 DEF Inv, RestTyped, TokensOf
  <2> QED
    BY <2>1, <2>9, <2>10 DEF Inv
<1>2. CASE ServerEnds(c)
  <2> DEFINE d == [c EXCEPT !.step = "posted"]
  <2>1. /\ calls' = (calls \ {c}) \cup {d} /\ c.step = "post"
        /\ UNCHANGED <<issued, expired, cookies, handoff, binding, marked, tab, made>>
        /\ server' \in {server, None}
    BY <1>2 DEF ServerEnds, Step
  <2>2. /\ d \in CallsOf(issued) /\ d.tab = c.tab /\ d.version = c.version
        /\ d.kind = c.kind /\ d.who = c.who /\ d.step = "posted" /\ d.token = c.token
    BY <1>0 DEF CallsOf, Stages
  <2> HIDE DEF d
  <2>3. CallRight(d, tab[d.tab], issued)
    BY <1>0, <2>1, <2>2 DEF CallRight, WithToken
  <2>4. Right(issued, cookies, binding, tab, calls')
    BY <2>1, <2>2, <2>3 DEF Inv, Right
  <2>5. RestTyped'
    BY <2>1 DEF Inv, RestTyped, PersonOrNone
  <2> QED
    BY <2>1, <2>4, <2>5 DEF Inv
<1> QED
  BY <1>1, <1>2
-----------------------------------------------------------------------------
\* A tab that looks at the session, is loaded anew or signs its user out.
LEMMA PageSteps ==
  ASSUME NoneIsApart, Inv, NEW t \in Tabs,
         Notice(t) \/ Focus(t) \/ Reload(t) \/ OpenBadLink(t) \/ SignOut(t)
  PROVE  Inv'
<1>0. /\ tab[t] \in EntriesOf(issued) /\ EntryRight(tab[t], issued)
      /\ tab[t].seen \in LooksOf(issued) /\ tab[t].revision \in Nat
      /\ NewTab \in EntriesOf(issued) /\ EntryRight(NewTab, issued)
      /\ NewTab.seen = Unread
  BY OfTab
<1>1. /\ calls \in SUBSET CallsOf(issued) /\ Others(t) \in SUBSET calls
      /\ \A c \in Others(t) : c.tab # t
      /\ server \in PersonOrNone
  BY DEF Inv, Right, RestTyped, Others
<1>2. CASE Notice(t)
  <2>1. Goes(t, tab[t], calls) /\ issued' = issued /\ OthersTyped
    BY <1>1, <1>2, Untouched DEF Notice
  <2> QED
    BY <1>0, <1>1, <2>1, Going DEF GoesOn
<1>3. CASE Focus(t)
  <2> DEFINE e == [tab[t] EXCEPT !.phase = IF tab[t].user # None THEN "checking"
                                           ELSE "loading",
                                 !.shownAt = tab[t].revision]
             b == [binding EXCEPT !.verified = FALSE]
             asked == Superseded(t, calls)
             l == Load(t, e, b, marked, asked)
  <2>1. /\ issued' = issued /\ OthersTyped
        /\ Settles(t, cookies, handoff, b, marked, l.entry, l.calls)
    BY <1>1, <1>3, Untouched DEF Focus, Begin
  <2>2. /\ e \in EntriesOf(issued) /\ e.seen = tab[t].seen
        /\ e.revision = tab[t].revision /\ e.phase # "ready"
        /\ e.catalog = tab[t].catalog
    BY <1>0 DEF EntriesOf, Phases
  <2> HIDE DEF e
  <2>3. EntryRight(e, issued)
    BY <1>0, <2>2 DEF EntryRight
  <2>4. /\ b \in BindingsOf(issued) /\ b.token = binding.token
        /\ BindingRight(b, issued)
    BY DEF Inv, Right, BindingsOf, BindingRight
  <2> HIDE DEF b
  <2>5. Kept(t, e, calls, calls, issued)
    <3> SUFFICES ASSUME NEW c \in calls, c.tab = t PROVE CallRight(c, e, issued)
      BY <1>1 DEF Kept
    <3>1. CallRight(c, tab[t], issued)
      BY DEF Inv, Right
    <3> QED
      BY <2>2, <3>1 DEF CallRight
  <2>6. Kept(t, e, calls, asked, issued)
    BY <2>5, Superseding
  <2> HIDE DEF asked
  <2>7. Kept(t, e, asked, asked, issued)
    BY <2>6 DEF Kept
  <2>8. /\ l.entry \in EntriesOf(issued) /\ EntryRight(l.entry, issued)
        /\ l.entry.seen = e.seen /\ l.entry.revision = e.revision
        /\ Kept(t, e, asked, l.calls, issued)
    BY <1>0, <2>2, <2>3, <2>4, <2>7, Loading
  <2> HIDE DEF l
  <2>9. \A c \in l.calls : c \in calls \/ (c.tab = t /\ CallRight(c, tab[t], issued))
    <3> SUFFICES ASSUME NEW c \in l.calls, c.tab = t
                 PROVE  CallRight(c, tab[t], issued)
      BY <2>6, <2>8 DEF Kept
    <3>1. CallRight(c, e, issued)
      BY <2>8 DEF Kept
    <3> QED
      BY <2>2, <3>1 DEF CallRight
  <2>10. /\ l.calls \in SUBSET CallsOf(issued') /\ cookies \in SUBSET (1..Len(issued'))
         /\ handoff \in TokensOf(issued') /\ marked \in PersonOrNone
    BY <2>1, <2>8 DEF Inv, Right, RestTyped, Kept
  <2>11. GoesOn(t, l.entry, l.calls) /\ Grows
    BY <2>1, <2>2, <2>8 DEF GoesOn, Grows
  <2> QED
    BY <2>1, <2>4, <2>8, <2>9, <2>10, <2>11, Stepping
<1>4. CASE Reload(t)
  <2>1. Goes(t, NewTab, Others(t)) /\ issued' = issued /\ OthersTyped
    BY <1>1, <1>4, Untouched DEF Reload, Begin
  <2> QED
    BY <1>0, <1>1, <2>1, Going DEF GoesOn
<1>5. CASE OpenBadLink(t)
  <2> DEFINE e == [NewTab EXCEPT !.error = TRUE]
  <2>1. Clears(t, e, Others(t)) /\ issued' = issued /\ OthersTyped
    BY <1>1, <1>5, Untouched DEF OpenBadLink, Begin
  <2>2. e \in EntriesOf(issued) /\ e.seen = Unread /\ EntryRight(e, issued)
    BY <1>0 DEF EntriesOf, EntryRight
  <2> HIDE DEF e
  <2> QED
    BY <1>1, <2>1, <2>2, Clearing DEF GoesOn
<1>6. CASE SignOut(t)
  <2>1. Clears(t, tab[t], calls) /\ issued' = issued /\ OthersTyped
    BY <1>1, <1>6, Untouched DEF SignOut, Begin
  <2> QED
    BY <1>0, <2>1, Clearing DEF GoesOn
<1> QED
  BY <1>2, <1>3, <1>4, <1>5, <1>6
-----------------------------------------------------------------------------
\* Somebody signs in by a link, or the answer to a password arrives.
LEMMA SigningIn ==
  ASSUME NoneIsApart, Inv, NEW t \in Tabs, NEW p \in People,
         \/ OpenLink(t, p)
         \/ \E c \in calls : LoginArrives(c) /\ c.tab = t /\ c.who = p
  PROVE  Inv'
<1>0. /\ tab[t] \in EntriesOf(issued) /\ EntryRight(tab[t], issued)
      /\ NewTab \in EntriesOf(issued) /\ EntryRight(NewTab, issued)
      /\ NewTab.seen = Unread
  BY OfTab
<1>1. /\ Others(t) \in SUBSET calls /\ \A c \in Others(t) : c.tab # t
      /\ server \in PersonOrNone /\ marked \in PersonOrNone /\ made \in Nat
      /\ None \in PersonOrNone /\ p \in PersonOrNone
      /\ issued \in Seq(People) /\ Len(issued) \in Nat
      /\ expired \subseteq 1..Len(issued)
  BY DEF Inv, Right, RestTyped, Others, PersonOrNone
<1>2. /\ issued' = Append(issued, p) /\ expired' = expired
      /\ New = Len(issued) + 1 /\ server' \in PersonOrNone /\ made' \in Nat
  <2>1. issued' = Append(issued, p) /\ expired' = expired
    BY DEF OpenLink, LoginArrives, Issue
  <2>2. server' \in {server, p} /\ made' = made
    BY DEF OpenLink, LoginArrives
  <2> QED
    BY <1>1, <2>1, <2>2 DEF New
<1>3. /\ New \in 1..Len(issued') /\ issued'[New] = p
      /\ expired' \subseteq 1..Len(issued')
  BY <1>1, <1>2
<1>4. Grows /\ OthersTyped
  BY <1>2, <1>3 DEF Grows, OthersTyped
<1>5. CASE OpenLink(t, p)
  <2>1. PICK refresh \in BOOLEAN :
          Saves(t, New, None, marked, NewTab, refresh, Others(t))
    BY <1>5 DEF OpenLink
  <2>2. GoesOn(t, NewTab, Others(t))
    BY <1>0, <1>1 DEF GoesOn
  <2> QED
    BY <1>0, <1>1, <1>3, <1>4, <2>1, <2>2, Saving
<1>6. ASSUME NEW c \in calls, LoginArrives(c), c.tab = t, c.who = p
      PROVE  Inv'
  <2>1. Saves(t, New, p, p, tab[t], FALSE, Rest(c)) /\ Rest(c) \in SUBSET calls
    BY <1>6, OfCall DEF LoginArrives
  <2>2. GoesOn(t, tab[t], Rest(c))
    BY DEF GoesOn
  <2> QED
    BY <1>0, <1>1, <1>3, <1>4, <2>1, <2>2, Saving
<1> QED
  BY <1>5, <1>6

\* A name and a password are sent.
LEMMA Submitting ==
  ASSUME NoneIsApart, Inv, NEW t \in Tabs, NEW p \in People, Login(t, p)
  PROVE  Inv'
<1> DEFINE n == NewCall(t, tab[t], "login", "login", p, None)
<1>1. tab[t].revision \in Nat /\ made \in Nat
  BY OfTab DEF Inv, RestTyped
<1>2. /\ n \in CallsOf(issued) /\ n.tab = t /\ n.version = tab[t].revision
      /\ n.kind = "login" /\ n.step = "login" /\ n.who = p /\ n.token = None
  BY <1>1 DEF NewCall, CallsOf, TokensOf, PersonOrNone, Kinds, Stages
<1>3. /\ calls' = calls \cup {n} /\ made' = made + 1
      /\ UNCHANGED <<issued, expired, cookies, handoff, binding, marked, server, tab>>
  BY DEF Login, Begin
<1> HIDE DEF n
<1>4. CallRight(n, tab[t], issued)
  BY <1>1, <1>2 DEF CallRight, WithToken, NoneIsApart
<1>5. Right(issued, cookies, binding, tab, calls \cup {n})
  BY <1>2, <1>4 DEF Inv, Right
<1> QED
  BY <1>1, <1>3, <1>5 DEF Inv, RestTyped

\* A call begins in the session that the tab has seen.
LEMMA Asking ==
  ASSUME NoneIsApart, Inv, NEW t \in Tabs,
         Restore(t) \/ Refresh(t) \/ Catalog(t) \/ Logout(t)
  PROVE  Inv'
<1>0. /\ tab[t] \in EntriesOf(issued) /\ EntryRight(tab[t], issued)
      /\ tab[t].seen \in LooksOf(issued) /\ tab[t].revision \in Nat
      /\ binding \in BindingsOf(issued) /\ BindingRight(binding, issued)
      /\ calls \subseteq CallsOf(issued) /\ server \in PersonOrNone
  BY OfTab DEF Inv, Right, RestTyped
<1>1. ASSUME NEW call, Ask(t, call), call \in CallsOf(issued), call.tab = t,
             CallRight(call, tab[t], issued)
      PROVE  Inv'
  <2>1. /\ Goes(t, tab[t], calls \cup {call}) /\ issued' = issued /\ OthersTyped
    BY <1>0, <1>1, Untouched DEF Ask, Begin
  <2>2. GoesOn(t, tab[t], calls \cup {call})
    BY DEF GoesOn
  <2> QED
    BY <1>0, <1>1, <2>1, <2>2, Going
<1>2. /\ None \in TokensOf(issued) /\ None \in PersonOrNone
      /\ binding.hrm \in PersonOrNone
      /\ {"session", "renew", "post", "send"} \subseteq Stages
      /\ {"restore", "refresh", "catalog", "logout"} \subseteq Kinds
      /\ tab[t].seen.token \in TokensOf(issued)
  BY <1>0 DEF TokensOf, PersonOrNone, BindingsOf, Stages, Kinds, LooksOf
<1>3. ASSUME NEW kind \in Kinds, NEW step \in Stages, NEW who \in PersonOrNone,
             NEW token \in TokensOf(issued)
      PROVE  LET n == NewCall(t, tab[t], kind, step, who, token) IN
             /\ n \in CallsOf(issued) /\ n.tab = t /\ n.version = tab[t].revision
             /\ n.kind = kind /\ n.step = step /\ n.who = who /\ n.token = token
  BY <1>0 DEF NewCall, CallsOf
<1>4. VerifiedHrm(tab[t], binding) # None =>
        /\ tab[t].seen.token # None /\ issued[tab[t].seen.token] = binding.hrm
        /\ binding.hrm # None
  BY <1>0 DEF VerifiedHrm, BindingRight
<1>5. CASE Restore(t)
  <2> DEFINE n == NewCall(t, tab[t], "restore", "session", None, None)
  <2>1. /\ n \in CallsOf(issued) /\ n.tab = t /\ n.version = tab[t].revision
        /\ n.kind = "restore" /\ n.step = "session" /\ n.token = None
    BY <1>2, <1>3
  <2>2. Ask(t, n)
    BY <1>5 DEF Restore
  <2> HIDE DEF n
  <2>3. CallRight(n, tab[t], issued)
    BY <1>0, <2>1 DEF CallRight, WithToken
  <2> QED
    BY <1>1, <2>1, <2>2, <2>3
<1>6. CASE Refresh(t)
  <2> DEFINE step == FirstStep(tab[t], binding.hrm, "renew")
             n == NewCall(t, tab[t], "refresh", step, binding.hrm, None)
  <2>0. step \in {"session", "renew"}
    BY DEF FirstStep
  <2> HIDE DEF step
  <2>1. /\ n \in CallsOf(issued) /\ n.tab = t /\ n.version = tab[t].revision
        /\ n.kind = "refresh" /\ n.step = step /\ n.token = None
        /\ n.who = binding.hrm
    BY <1>2, <1>3, <2>0
  <2>2. Ask(t, n) /\ VerifiedHrm(tab[t], binding) # None
    BY <1>6 DEF Refresh, Refreshable, step
  <2> HIDE DEF n
  <2>3. CallRight(n, tab[t], issued)
    BY <1>0, <1>4, <2>0, <2>1, <2>2 DEF CallRight, WithToken
  <2> QED
    BY <1>1, <2>1, <2>2, <2>3
<1>7. CASE Catalog(t)
  <2> DEFINE n == NewCall(t, tab[t], "catalog", "send", None, tab[t].seen.token)
  <2>1. /\ n \in CallsOf(issued) /\ n.tab = t /\ n.version = tab[t].revision
        /\ n.kind = "catalog" /\ n.step = "send" /\ n.token = tab[t].seen.token
    BY <1>2, <1>3
  <2>2. Ask(t, n) /\ tab[t].seen.token # None
    BY <1>7 DEF Catalog, Verified, Valid
  <2> HIDE DEF n
  <2>3. CallRight(n, tab[t], issued)
    BY <1>0, <2>1, <2>2 DEF CallRight, WithToken
  <2> QED
    BY <1>1, <2>1, <2>2, <2>3
<1>8. CASE Logout(t)
  <2> DEFINE step == FirstStep(tab[t], binding.hrm, "post")
             n == NewCall(t, tab[t], "logout", step, binding.hrm, None)
  <2>0. step \in {"session", "post"}
    BY DEF FirstStep
  <2> HIDE DEF step
  <2>1. /\ n \in CallsOf(issued) /\ n.tab = t /\ n.version = tab[t].revision
        /\ n.kind = "logout" /\ n.step = step /\ n.token = None
        /\ n.who = binding.hrm
    BY <1>2, <1>3, <2>0
  <2>2. Ask(t, n) /\ VerifiedHrm(tab[t], binding) # None
    BY <1>8 DEF Logout, step
  <2> HIDE DEF n
  <2>3. CallRight(n, tab[t], issued)
    BY <1>0, <1>4, <2>0, <2>1, <2>2 DEF CallRight, WithToken
  <2> QED
    BY <1>1, <2>1, <2>2, <2>3
<1> QED
  BY <1>5, <1>6, <1>7, <1>8
-----------------------------------------------------------------------------
\* A call that comes to nothing leaves its tab with what it shows, or with a
\* failure.
LEMMA GivingUp ==
  ASSUME NoneIsApart, Inv, issued' = issued, OthersTyped, NEW c \in calls,
         NEW e \in EntriesOf(issued), EntryRight(e, issued),
         e.seen = tab[c.tab].seen, e.revision = tab[c.tab].revision,
         GivesUp(c, e)
  PROVE  Inv'
<1>0. /\ c.tab \in Tabs /\ Rest(c) \in SUBSET calls /\ calls \subseteq CallsOf(issued)
      /\ Rest(c) \in SUBSET CallsOf(issued)
      /\ \A cl : GoesOn(c.tab, e, cl)
  BY OfCall DEF GoesOn
<1>1. ASSUME Goes(c.tab, e, Rest(c)) PROVE Inv'
  BY <1>0, <1>1, Going
<1>2. ASSUME Clears(c.tab, e, Rest(c)) PROVE Inv'
  BY <1>0, <1>2, Clearing
<1>3. ASSUME Goes(c.tab, Failed(e), Rest(c)) PROVE Inv'
  <2> DEFINE f == Failed(e)
  <2>1. /\ f \in EntriesOf(issued) /\ f.seen = e.seen /\ f.revision = e.revision
        /\ f.phase = "failed" /\ f.catalog = e.catalog
    BY DEF Failed, EntriesOf, Phases
  <2>2. Goes(c.tab, f, Rest(c))
    BY <1>3
  <2> HIDE DEF f
  <2>3. EntryRight(f, issued) /\ GoesOn(c.tab, f, Rest(c))
    BY <2>1 DEF EntryRight, GoesOn
  <2> QED
    BY <1>0, <2>1, <2>2, <2>3, Going
<1>4. ASSUME Clears(c.tab, [e EXCEPT !.csrf = None], Rest(c)) PROVE Inv'
  <2> DEFINE f == [e EXCEPT !.csrf = None]
  <2>1. /\ f \in EntriesOf(issued) /\ f.seen = e.seen /\ f.revision = e.revision
        /\ f.phase = e.phase /\ f.catalog = e.catalog /\ f.user = e.user
    BY DEF EntriesOf, PersonOrNone
  <2>2. Clears(c.tab, f, Rest(c))
    BY <1>4
  <2> HIDE DEF f
  <2>3. EntryRight(f, issued) /\ GoesOn(c.tab, f, Rest(c))
    BY <2>1 DEF EntryRight, GoesOn
  <2> QED
    BY <1>0, <2>1, <2>2, <2>3, Clearing
<1> QED
  BY <1>1, <1>2, <1>3, <1>4 DEF GivesUp

\* The profile that is shown is that of the owner of the token in the cookies.
LEMMA Showing ==
  ASSUME NoneIsApart, Inv, issued' = issued, OthersTyped, NEW c \in calls,
         Same(c), c.step \in WithToken, NEW e \in EntriesOf(issued),
         EntryRight(e, issued), e.seen = tab[c.tab].seen,
         e.revision = tab[c.tab].revision, NEW m \in PersonOrNone, Shows(c, e, m)
  PROVE  Inv'
<1> DEFINE p == Owner(c.token)
           f == [e EXCEPT !.user = p, !.phase = "ready", !.shownAt = c.version]
           b == [binding EXCEPT !.hrm = p, !.verified = TRUE]
<1>0. /\ c \in CallsOf(issued) /\ c.tab \in Tabs
      /\ Rest(c) \in SUBSET CallsOf(issued') /\ Rest(c) \subseteq calls
      /\ cookies \in SUBSET (1..Len(issued')) /\ handoff \in TokensOf(issued')
      /\ binding \in BindingsOf(issued') /\ BindingRight(binding, issued')
      /\ issued \in Seq(People)
      /\ \A cl : GoesOn(c.tab, e, cl)
  BY OfCall DEF Inv, Right, RestTyped, GoesOn
<1>1. /\ c.token = tab[c.tab].seen.token /\ c.token # None
      /\ binding.token = c.token /\ c.token \in 1..Len(issued)
  <2>1. CallRight(c, tab[c.tab], issued)
    BY OfCall
  <2>2. c.kind \notin {"restore", "login"}
    BY <2>1 DEF CallRight
  <2> QED
    BY <2>2, OwnSession
<1>2. CASE c.current
  <2>1. p \in People /\ c.version \in Nat
    BY <1>0, <1>1 DEF Owner, CallsOf
  <2>2. p = issued[c.token]
    BY DEF Owner
  <2> HIDE DEF p
  <2>3. /\ f \in EntriesOf(issued) /\ f.seen = e.seen /\ f.revision = e.revision
        /\ f.user = p /\ f.catalog = e.catalog
    BY <2>1 DEF EntriesOf, Phases, PersonOrNone
  <2>4. b \in BindingsOf(issued) /\ b.token = binding.token /\ b.hrm = p
    BY <1>0, <2>1 DEF BindingsOf, PersonOrNone
  <2>5. Settles(c.tab, cookies, handoff, b, m, f, Rest(c))
    BY <1>2 DEF Shows, p
  <2> HIDE DEF f, b
  <2>6. EntryRight(f, issued) /\ GoesOn(c.tab, f, Rest(c))
    BY <1>1, <2>2, <2>3 DEF EntryRight, GoesOn
  <2>7. BindingRight(b, issued)
    BY <1>1, <2>2, <2>4 DEF BindingRight
  <2> QED
    BY <1>0, <2>3, <2>4, <2>5, <2>6, <2>7, Stepping DEF Grows
<1>3. CASE ~c.current
  <2>1. Settles(c.tab, cookies, handoff, binding, m, e, Rest(c))
    BY <1>3 DEF Shows
  <2> QED
    BY <1>0, <2>1, Stepping DEF Grows
<1>4. c.current \in BOOLEAN
  BY <1>0 DEF CallsOf
<1> QED
  BY <1>2, <1>3
-----------------------------------------------------------------------------
\* Answers about the session itself.
LEMMA SessionAnswers ==
  ASSUME NoneIsApart, Inv, NEW c \in calls,
         \/ Lost(c) \/ SessionArrives(c) \/ TokenArrives(c) \/ RefusalArrives(c)
         \/ LogoutArrives(c)
  PROVE  Inv'
<1> DEFINE t == c.tab
<1>0. /\ t \in Tabs /\ tab[t] \in EntriesOf(issued) /\ EntryRight(tab[t], issued)
      /\ c \in CallsOf(issued) /\ CallRight(c, tab[t], issued)
      /\ Rest(c) \in SUBSET calls /\ Rest(c) \in SUBSET CallsOf(issued)
      /\ calls \subseteq CallsOf(issued)
      /\ \A cl : GoesOn(t, tab[t], cl)
  BY OfCall, OfTab DEF GoesOn
<1> HIDE DEF t
<1>1. issued' = issued /\ OthersTyped
  <2>1. UNCHANGED <<issued, expired, server, made>>
    BY DEF Lost, SessionArrives, TokenArrives, RefusalArrives, LogoutArrives
  <2> QED
    BY <2>1, Untouched DEF Inv, RestTyped
<1>2. ASSUME Drops(c) PROVE Inv'
  BY <1>0, <1>1, <1>2, Going DEF Drops, t
<1>3. ASSUME GivesUp(c, tab[t]) PROVE Inv'
  BY <1>0, <1>1, <1>3, GivingUp DEF t
<1>4. CASE Lost(c) \/ LogoutArrives(c)
  BY <1>3, <1>4 DEF Lost, LogoutArrives, t
<1>5. CASE SessionArrives(c)
  <2> DEFINE e == [tab[t] EXCEPT !.csrf = server]
             step == IF c.kind = "logout" THEN "post" ELSE "renew"
             next == [c EXCEPT !.step = step, !.who = server]
  <2>1. /\ c.step = "session" /\ server # None
        /\ IF c.kind = "restore" \/ (c.who = server /\ Same(c))
           THEN Goes(t, e, Rest(c) \cup {next})
           ELSE GivesUp(c, e)
    BY <1>5 DEF SessionArrives, t
  <2>2. step \in {"post", "renew"} /\ server \in PersonOrNone
    BY DEF Inv, RestTyped
  <2> HIDE DEF step
  <2>3. /\ e \in EntriesOf(issued) /\ e.seen = tab[t].seen
        /\ e.revision = tab[t].revision /\ e.phase = tab[t].phase
        /\ e.user = tab[t].user /\ e.catalog = tab[t].catalog
    BY <1>0, <2>2 DEF EntriesOf
  <2>4. /\ next \in CallsOf(issued) /\ next.tab = t /\ next.version = c.version
        /\ next.kind = c.kind /\ next.step = step /\ next.who = server
        /\ next.token = c.token
    BY <1>0, <2>2 DEF CallsOf, Stages, t
  <2> HIDE DEF e, next
  <2>5. EntryRight(e, issued) /\ \A cl : GoesOn(t, e, cl)
    BY <1>0, <2>3 DEF EntryRight, GoesOn
  <2>6. CASE c.kind = "restore" \/ (c.who = server /\ Same(c))
    <3>1. CallRight(next, tab[t], issued)
      BY <1>0, <2>1, <2>2, <2>4, <2>6 DEF CallRight, WithToken
    <3>2. Goes(t, e, Rest(c) \cup {next})
      BY <2>1, <2>6
    <3> QED
      BY <1>0, <1>1, <2>3, <2>4, <2>5, <3>1, <3>2, Going
  <2>7. CASE ~(c.kind = "restore" \/ (c.who = server /\ Same(c)))
    BY <1>1, <2>1, <2>3, <2>5, <2>7, GivingUp DEF t
  <2> QED
    BY <2>6, <2>7
<1>6. CASE TokenArrives(c)
  <2>1. CASE Same(c)
    <3>1. /\ Saves(t, c.token, c.who, c.who, tab[t], FALSE, Rest(c))
          /\ c.step = "renewed"
      BY <1>6, <2>1 DEF TokenArrives, t
    <3>2. /\ c.token \in 1..Len(issued) /\ c.who \in PersonOrNone
          /\ issued[c.token] = c.who
      BY <1>0, <3>1 DEF CallRight, CallsOf, TokensOf
    <3> QED
      BY <1>0, <1>1, <3>1, <3>2, Saving DEF Grows
  <2>2. CASE ~Same(c)
    BY <1>2, <1>6, <2>2 DEF TokenArrives
  <2> QED
    BY <2>1, <2>2
<1>7. CASE RefusalArrives(c)
  <2>1. CASE Clears(t, tab[t], Rest(c))
    BY <1>0, <1>1, <2>1, Clearing
  <2> QED
    BY <1>2, <1>7, <2>1 DEF RefusalArrives, t
<1> QED
  BY <1>4, <1>5, <1>6, <1>7

\* Answers to requests that were made with the access token.
LEMMA TokenAnswers ==
  ASSUME NoneIsApart, Inv, NEW c \in calls,
         \/ ProfileArrives(c) \/ AdoptionArrives(c) \/ CatalogArrives(c)
         \/ Rejected(c)
  PROVE  Inv'
<1> DEFINE t == c.tab
<1>0. /\ t \in Tabs /\ tab[t] \in EntriesOf(issued) /\ EntryRight(tab[t], issued)
      /\ c \in CallsOf(issued) /\ CallRight(c, tab[t], issued)
      /\ Rest(c) \in SUBSET calls /\ Rest(c) \in SUBSET CallsOf(issued)
      /\ calls \subseteq CallsOf(issued)
      /\ \A cl : GoesOn(t, tab[t], cl)
  BY OfCall, OfTab DEF GoesOn
<1> HIDE DEF t
<1>1. /\ c.step \in WithToken /\ c.kind \notin {"restore", "login"}
      /\ c.token \in 1..Len(issued)
  BY <1>0 DEF ProfileArrives, AdoptionArrives, CatalogArrives, Rejected, WithToken,
              CallRight, CallsOf, TokensOf
<1>2. issued' = issued /\ OthersTyped
  <2>1. Owner(c.token) \in People
    BY <1>1 DEF Inv, Right, Owner
  <2>2. UNCHANGED <<issued, expired, made>> /\ server' \in {server, Owner(c.token)}
    BY DEF ProfileArrives, AdoptionArrives, CatalogArrives, Rejected
  <2> QED
    BY <2>1, <2>2, Untouched DEF Inv, RestTyped, PersonOrNone
<1>3. ASSUME Drops(c) PROVE Inv'
  BY <1>0, <1>2, <1>3, Going DEF Drops, t
<1>4. CASE ~Same(c)
  BY <1>3, <1>4 DEF ProfileArrives, AdoptionArrives, CatalogArrives, Rejected
<1>5. CASE Same(c) /\ ProfileArrives(c)
  <2>1. CASE tab[t].pending = c.token
    <3> DEFINE e == [tab[t] EXCEPT !.pending = None]
               d == [c EXCEPT !.step = "adopt"]
    <3>1. Goes(t, e, Rest(c) \cup {d}) /\ c.step = "me"
      BY <1>5, <2>1 DEF ProfileArrives, t
    <3>2. /\ e \in EntriesOf(issued) /\ e.seen = tab[t].seen
          /\ e.revision = tab[t].revision /\ e.phase = tab[t].phase
          /\ e.user = tab[t].user /\ e.catalog = tab[t].catalog
      BY <1>0 DEF EntriesOf, TokensOf
    <3>3. /\ d \in CallsOf(issued) /\ d.tab = t /\ d.version = c.version
          /\ d.kind = c.kind /\ d.step = "adopt" /\ d.who = c.who /\ d.token = c.token
      BY <1>0 DEF CallsOf, Stages, t
    <3> HIDE DEF e, d
    <3>4. CallRight(d, tab[t], issued)
      BY <1>0, <3>1, <3>3 DEF CallRight, WithToken
    <3>5. EntryRight(e, issued) /\ GoesOn(t, e, Rest(c) \cup {d})
      BY <1>0, <3>2 DEF EntryRight, GoesOn
    <3> QED
      BY <1>0, <1>2, <3>1, <3>2, <3>3, <3>4, <3>5, Going
  <2>2. CASE tab[t].pending # c.token
    <3>1. Shows(c, tab[t], marked) /\ marked \in PersonOrNone
      BY <1>5, <2>2 DEF ProfileArrives, Inv, RestTyped, t
    <3> QED
      BY <1>0, <1>1, <1>2, <1>5, <3>1, Showing DEF t
  <2> QED
    BY <2>1, <2>2
<1>6. CASE Same(c) /\ AdoptionArrives(c)
  <2> DEFINE p == Owner(c.token)
             e == [tab[t] EXCEPT !.csrf = p]
  <2>1. Shows(c, e, p)
    BY <1>6 DEF AdoptionArrives, t
  <2>2. p \in PersonOrNone
    BY <1>1 DEF Inv, Right, Owner, PersonOrNone
  <2> HIDE DEF p
  <2>3. /\ e \in EntriesOf(issued) /\ e.seen = tab[t].seen
        /\ e.revision = tab[t].revision /\ e.phase = tab[t].phase
        /\ e.user = tab[t].user /\ e.catalog = tab[t].catalog
    BY <1>0, <2>2 DEF EntriesOf
  <2> HIDE DEF e
  <2>4. EntryRight(e, issued)
    BY <1>0, <2>3 DEF EntryRight
  <2> QED
    BY <1>1, <1>2, <1>6, <2>1, <2>2, <2>3, <2>4, Showing DEF t
<1>7. CASE Same(c) /\ CatalogArrives(c)
  <2> DEFINE n == [version |-> c.version, of |-> Owner(c.token)]
             e == [tab[t] EXCEPT !.catalog = @ \cup {n}]
  <2>1. Goes(t, e, Rest(c))
    BY <1>7 DEF CatalogArrives, t
  <2>2. n \in [version : Nat, of : People] /\ n.of = issued[c.token]
    BY <1>0, <1>1 DEF Inv, Right, Owner, CallsOf
  <2> HIDE DEF n
  <2>3. /\ e \in EntriesOf(issued) /\ e.seen = tab[t].seen
        /\ e.revision = tab[t].revision /\ e.phase = tab[t].phase
        /\ e.user = tab[t].user /\ e.catalog = tab[t].catalog \cup {n}
    BY <1>0, <2>2 DEF EntriesOf
  <2> HIDE DEF e
  <2>4. tab[t].seen.token = c.token /\ c.token # None
    BY <1>1, <1>7, OwnSession DEF t
  <2>5. EntryRight(e, issued) /\ GoesOn(t, e, Rest(c))
    BY <1>0, <2>2, <2>3, <2>4 DEF EntryRight, GoesOn
  <2> QED
    BY <1>0, <1>2, <2>1, <2>3, <2>5, Going
<1>8. CASE Same(c) /\ Rejected(c)
  <2> DEFINE e == tab[t]
             why == {"unauthorized"} \cup (IF c.kind = "profile" /\ c.current
                                           THEN {"profile"} ELSE {})
             left == Waits(t, e, binding, Rest(c), why)
  <2>1. CASE Refreshable(e, binding, marked)
    <3>1. Goes(t, e, left)
      BY <1>8, <2>1 DEF Rejected, t
    <3>2. why \in SUBSET {"profile", "unauthorized"}
      OBVIOUS
    <3> HIDE DEF why
    <3>3. /\ binding.hrm # None /\ binding.token = e.seen.token
          /\ binding \in BindingsOf(issued) /\ BindingRight(binding, issued)
      BY <2>1 DEF Refreshable, VerifiedHrm, Inv, Right
    <3>4. Kept(t, e, Rest(c), Rest(c), issued)
      BY <1>0 DEF Kept, Inv, Right
    <3>5. Kept(t, e, Rest(c), left, issued)
      BY <1>0, <3>2, <3>3, <3>4, Waiting
    <3> HIDE DEF left
    <3>6. /\ left \in SUBSET CallsOf(issued)
          /\ \A d \in left : d \in calls \/ (d.tab = t /\ CallRight(d, tab[t], issued))
      BY <1>0, <3>5 DEF Kept
    <3> QED
      BY <1>0, <1>2, <3>1, <3>6, Going
  <2>2. CASE ~Refreshable(e, binding, marked)
    <3>1. Clears(t, e, Rest(c))
      BY <1>8, <2>2 DEF Rejected, t
    <3> QED
      BY <1>0, <1>2, <3>1, Clearing
  <2> QED
    BY <2>1, <2>2
<1> QED
  BY <1>4, <1>5, <1>6, <1>7, <1>8
-----------------------------------------------------------------------------
\* Every step keeps it.
LEMMA Steps == NoneIsApart /\ Inv /\ [Next]_vars => Inv'
<1> SUFFICES ASSUME NoneIsApart, Inv, [Next]_vars PROVE Inv'
  OBVIOUS
<1>1. CASE UNCHANGED vars
  BY <1>1 DEF vars, Inv, Right, RestTyped
<1>2. ASSUME NEW c \in calls, LoginArrives(c) PROVE Inv'
  <2>1. c.step = "login" /\ c.tab \in Tabs /\ c \in CallsOf(issued)
        /\ CallRight(c, tab[c.tab], issued)
    BY <1>2, OfCall DEF LoginArrives
  <2>2. c.who \in People
    BY <2>1 DEF CallRight, CallsOf, PersonOrNone
  <2> QED
    BY <1>2, <2>1, <2>2, SigningIn
<1>3. CASE Next
  BY <1>2, <1>3, OutsideSteps, ServerSteps, PageSteps, SigningIn, Submitting, Asking,
     SessionAnswers, TokenAnswers DEF Next, Arrives
<1> QED
  BY <1>1, <1>3

\* The invariant holds of every state that is reached.
LEMMA Invariance == ASSUME NoneIsApart PROVE Spec => []Inv
<1>1. Init => Inv
  BY Initially
<1>2. Inv /\ [Next]_vars => Inv'
  BY Steps
<1> QED
  BY <1>1, <1>2, PTL DEF Spec

\* The invariant tells the types.
LEMMA Types == NoneIsApart /\ Inv => TypeOK
<1> SUFFICES ASSUME NoneIsApart, Inv PROVE TypeOK
  OBVIOUS
<1>1. /\ TokenOrNone = TokensOf(issued) /\ Tokens = 1..Len(issued)
      /\ Look = LooksOf(issued) /\ Call = CallsOf(issued)
      /\ Binding = BindingsOf(issued)
  BY DEF TokenOrNone, TokensOf, Tokens, Look, LooksOf, Call, CallsOf, Binding,
         BindingsOf
<1>2. ASSUME NEW t \in Tabs PROVE tab[t] \in Entry
  BY <1>1, OfTab DEF Entry, EntriesOf
<1>3. tab \in [Tabs -> Entry]
  BY <1>2 DEF Inv, Right
<1> QED
  BY <1>1, <1>3 DEF TypeOK, Inv, Right, RestTyped

\* Every variable keeps its type, whatever the number of tabs and people: the
\* token that a tab has seen is one that was issued, and a call is of a tab.
THEOREM TypesAreKept == ASSUME NoneIsApart PROVE Spec => []TypeOK
<1>1. Inv => TypeOK
  BY Types
<1> QED
  BY <1>1, Invariance, PTL

\* What tabs show, and whom localStorage names, is right.
LEMMA Identity == Inv => IdentityIsTrue
<1> SUFFICES ASSUME Inv PROVE IdentityIsTrue
  OBVIOUS
<1>1. BindingIsTrue
  BY DEF Inv, Right, BindingRight, BindingIsTrue, Owner
<1>2. ShownIsTrue
  BY DEF Inv, Right, EntryRight, ShownIsTrue, Owner
<1> QED
  BY <1>1, <1>2 DEF IdentityIsTrue

\* However late answers arrive and whoever has signed in meanwhile, a tab that
\* knows of the latest change shows only what belongs to the owner of the token
\* that it sends, and whom localStorage names owns the token it binds.
THEOREM NobodyIsMistaken == ASSUME NoneIsApart PROVE Spec => []IdentityIsTrue
  BY Identity, Invariance, PTL

\* Only in the session in which it was made does the answer to a call change
\* the tokens, but for a password that was sent.
LEMMA OnlyInItsSession ==
  ASSUME NEW c, Arrives(c), c.step # "login", cookies' # cookies PROVE Same(c)
<1> SUFFICES ASSUME ~Same(c) PROVE cookies' = cookies
  OBVIOUS
<1>1. ASSUME NEW e, GivesUp(c, e) PROVE cookies' = cookies
  BY <1>1 DEF GivesUp, Goes, Settles
<1>2. ASSUME Drops(c) PROVE cookies' = cookies
  BY <1>2 DEF Drops, Goes, Settles
<1>3. CASE SessionArrives(c)
  BY <1>1, <1>3 DEF SessionArrives, Goes, Settles
<1> QED
  BY <1>1, <1>2, <1>3 DEF Arrives, Lost, TokenArrives, RefusalArrives, LogoutArrives,
     LoginArrives, ProfileArrives, AdoptionArrives, CatalogArrives, Rejected

\* An answer changes the tokens only in the session of whom it was waited for.
LEMMA OthersLeft == NoneIsApart /\ Inv => [LeavesOthersAlone]_cookies
<1> SUFFICES ASSUME NoneIsApart, Inv, cookies' # cookies, NEW c \in calls, Arrives(c),
                    c.kind \notin {"restore", "login"}, NEW k \in cookies
             PROVE  Owner(k) = Whose(c)
  BY DEF LeavesOthersAlone
<1>1. Same(c)
  <2>1. c.step # "login"
    BY OfCall DEF CallRight
  <2> QED
    BY <2>1, OnlyInItsSession
<1> QED
  BY <1>1, OwnSession

\* No answer that a call of one person has been waiting for replaces or ends
\* the session of another: refreshes, rejections and sign-outs that arrive late
\* leave the new session alone.
THEOREM NoLateTakeover == ASSUME NoneIsApart PROVE Spec => NobodyTakesOver
<1>1. Inv => [LeavesOthersAlone]_cookies
  BY OthersLeft
<1> QED
  BY <1>1, Invariance, PTL DEF NobodyTakesOver
=============================================================================
