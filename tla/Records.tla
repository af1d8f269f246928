------------------------------ MODULE Records -------------------------------
(***************************************************************************)
(* What people write down and who they are: merged accounts, meter         *)
(* readings, sessions of a browser, at the server and in its tabs, and the *)
(* dates of monthly schedules.  They share no table, so each is let run by *)
(* itself while the others are at rest: 'focus' tells which.  The tabs run *)
(* twice: one tab whose user does something, and several in which people   *)
(* only come and go.                                                       *)
(***************************************************************************)
EXTENDS UserMerge, Sequences, FiniteSets

CONSTANTS
  Clients,
  ReadingIds, ReadingValues, LastTime, Window, MaxBatch, MaxMeterCalls,
                                                                  \* Meters
  SessionIds, MaxBrowserCalls, MaxFaults,                         \* BrowserSessions
  Tabs, MaxTokens, MaxActs,                                       \* ClientSession
  Anchors, MonthSteps, LastMonth, DayTimes                        \* MonthlyDates

VARIABLES
  focus,                                        \* what runs
  readings, last, now, going, mended, made,     \* Meters
  sessions, cookie, hrm, held, doing, lost, faults,
                                                \* BrowserSessions
  issued, expired, cookies, handoff, binding, marked, server, tab, awaited,
                                                \* ClientSession
  first, anchor, step, due, past                \* MonthlyDates

meter == <<readings, last, now, going, mended>>
browser == <<sessions, cookie, hrm, held, doing, lost, faults>>
client == <<issued, expired, cookies, handoff, binding, marked, server, tab, awaited>>
months == <<first, anchor, step, due, past>>

M == INSTANCE Meters WITH
       open <- going, calls <- made,
       Ids <- ReadingIds, Values <- ReadingValues, MaxCalls <- MaxMeterCalls,
       Handlers <- {"syncEvnReadings", "voidReading", "updateReading",
                    "recordReading", "setBaselineReading",
                    "setPeriodBaseline", "recalculateReadings"}

B == INSTANCE BrowserSessions WITH
       holder <- held, call <- doing, calls <- made,
       Tabs <- Clients, Ids <- SessionIds, MaxCalls <- MaxBrowserCalls

Lone == INSTANCE ClientSessionProofs WITH
          calls <- awaited, Tabs <- {"tab"}, People <- Clients

Pair == INSTANCE ClientSessionProofs WITH
          calls <- awaited, People <- Clients, MaxActs <- 0

D == INSTANCE MonthlyDates

\* What the theorems assume of the constants.
ASSUME RecordConstants ==
  /\ Lone!NoneIsApart
  /\ IsFiniteSet(ReadingIds) /\ ReadingIds \subseteq Nat /\ ReadingValues \subseteq Nat
  /\ MaxMeterCalls \in Nat
  /\ LastTime \in Nat \ {0} /\ Window \in Nat /\ MaxBatch \in Nat
  /\ SessionIds \subseteq Nat
  /\ Anchors \subseteq 1..31 /\ MonthSteps \subseteq Nat \ {0} /\ LastMonth \in Nat

NoMeter == readings = << >> /\ last = 0 /\ now = 0 /\ going = {} /\ mended = 0
NoBrowser == /\ sessions = << >> /\ cookie = None /\ hrm = << >> /\ held = << >>
             /\ doing = << >> /\ lost = {} /\ faults = 0
NoClient == /\ issued = << >> /\ expired = {} /\ cookies = {} /\ handoff = None
            /\ binding = None /\ marked = None /\ server = None /\ tab = None
            /\ awaited = {}
NoMonths == first = None /\ anchor = 0 /\ step = 0 /\ due = None /\ past = 0

RecordInit ==
  /\ Init
  /\ \/ /\ focus = "accounts" /\ NoMeter /\ NoBrowser /\ NoClient /\ NoMonths
        /\ made = 0
        /\ Kinds \subseteq {users[u].kind : u \in Users}
     \/ /\ \A u \in Users : users[u].kind = "LOCAL"
        /\ \/ /\ NoClient
              /\ \/ focus = "meter" /\ M!Init /\ NoBrowser /\ NoMonths
                 \/ focus = "browser" /\ B!Init /\ NoMeter /\ NoMonths
                 \/ focus = "months" /\ D!Init /\ NoMeter /\ NoBrowser /\ made = 0
           \/ /\ NoMeter /\ NoBrowser /\ NoMonths
              /\ \/ focus = "tab" /\ Lone!Init
                 \/ focus = "tabs" /\ Pair!Init

RecordNext ==
  /\ UNCHANGED focus
  /\ \/ /\ focus = "accounts" /\ Next
        /\ UNCHANGED <<made, meter, browser, client, months>>
     \/ /\ focus = "meter" /\ M!Next
        /\ UNCHANGED <<vars, browser, client, months>>
     \/ /\ focus = "browser" /\ B!Next
        /\ UNCHANGED <<vars, meter, client, months>>
     \/ /\ focus = "tab" /\ Lone!Next
        /\ UNCHANGED <<vars, meter, browser, months>>
     \/ /\ focus = "tabs" /\ Pair!Next
        /\ UNCHANGED <<vars, meter, browser, months>>
     \/ /\ focus = "months" /\ D!Next
        /\ UNCHANGED <<vars, made, meter, browser, client>>

RecordSpec ==
  RecordInit
  /\ [][RecordNext]_<<focus, vars, made, meter, browser, client, months>>

-----------------------------------------------------------------------------
\* Every component keeps the types of its tables.
RecordTypes ==
  /\ TypeOK
  /\ focus = "meter" => M!TypeOK
  /\ focus = "browser" => B!TypeOK
  /\ focus = "tab" => Lone!TypeOK
  /\ focus = "tabs" => Pair!TypeOK

\* However the calls overlap, the chain of readings stays whole, but for the
\* calls that never mend it; a synchronisation leaves it whole from its first
\* value on.  A locked call keeps what the meter shows up to date, unless it
\* voids the latest reading or only gives readings of before its first value
\* another one.
ReadingsKept ==
  [][focus = "meter" => M!KeepsChain /\ M!KeepsShown]_<<readings, last>>

\* Nobody shows HRM a token that was exchanged before, unless its answer got
\* lost.
TokensAreCurrent == focus = "browser" => B!TokensAreCurrent

\* However late answers arrive and whoever has signed in meanwhile, nobody is
\* mistaken for the person whose token the browser sends.
IdentityIsTrue == /\ focus = "tab" => Lone!IdentityIsTrue
                  /\ focus = "tabs" => Pair!IdentityIsTrue

\* An answer that a call of one person has been waiting for never replaces or
\* ends the session of another.
NobodyTakesOver ==
  [][/\ focus = "tab" => Lone!LeavesOthersAlone
     /\ focus = "tabs" => Pair!LeavesOthersAlone]_cookies

\* Monthly dates keep to the day of the start, and a pause skips none that
\* has not gone by.
MonthsAreRegular == focus = "months" => D!MonthsAreRegular
=============================================================================
