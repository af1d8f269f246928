-------------------------- MODULE FabricationProofs --------------------------
(***************************************************************************)
(* Theorems about Fabrication, for all sets of orders, items, technicians  *)
(* and workloads.  A call is a list of statements that other calls may     *)
(* overtake, so most of the invariant says what a list still to be done    *)
(* promises, and for which orders the promise holds: those on which no     *)
(* rewriting call has overlapped another.                                  *)
(***************************************************************************)
EXTENDS Fabrication, FiniteSetTheorems, SequenceTheorems, TLAPS

-----------------------------------------------------------------------------
(***************************************************************************)
(* Sums over finite sets: what totals do when a summand comes, goes or     *)
(* changes.  The sum is a recursive function on subsets.  Instead of       *)
(* induction, each proof takes a smallest subset that is bad (LeastSubset) *)
(* and shows that there is none: then the predicate is a set, and nothing  *)
(* but first-order logic is needed.                                        *)
(***************************************************************************)

SumOf(f, S) == MapThenSumSet(LAMBDA x : f[x], S)

-----------------------------------------------------------------------------
(* The sum is well defined.                                                *)

\* Among some subsets of a finite set there is one that has none of the
\* others within it.
LEMMA LeastSubset ==
  ASSUME NEW S, IsFiniteSet(S), NEW Bad \in SUBSET SUBSET S, Bad # {}
  PROVE  \E T \in Bad : \A U \in Bad : U \subseteq T => U = T
<1>1. IsWellFoundedOn(StrictSubsetOrdering(S), FiniteSubsetsOf(S))
  BY FS_StrictSubsetOrderingWellFounded
<1>2. Bad \subseteq FiniteSubsetsOf(S)
  BY FS_FiniteSubsetsOfFinite
<1>3. PICK T \in Bad : \A U \in Bad : <<U, T>> \notin StrictSubsetOrdering(S)
  BY <1>1, <1>2, WFMin
<1>4. QED BY <1>3 DEF StrictSubsetOrdering

\* The element that is summed last, and the equation of the sum.
Pick(s) == CHOOSE x \in s : TRUE
NextSum(f, g, s) == IF s = {} THEN 0 ELSE f[Pick(s)] + g[s \ {Pick(s)}]
Defines(f, g, S) == g = [s \in SUBSET S |-> NextSum(f, g, s)]

LEMMA PickOne == \A s : s # {} => Pick(s) \in s
  BY DEF Pick

\* Functions that obey the equation of the sum agree wherever both do.
LEMMA SumUnique ==
  ASSUME NEW f, NEW S, IsFiniteSet(S), NEW T, NEW g, NEW h,
         Defines(f, g, S), Defines(f, h, T), S \subseteq T
  PROVE  \A s \in SUBSET S : g[s] = h[s]
<1> DEFINE Bad == {s \in SUBSET S : g[s] # h[s]}
<1> SUFFICES ASSUME Bad # {} PROVE FALSE
  OBVIOUS
<1>1. PICK s \in Bad : \A u \in Bad : u \subseteq s => u = s
  <2> HIDE DEF Bad
  <2>1. Bad \in SUBSET SUBSET S
    BY DEF Bad
  <2>2. QED BY <2>1, LeastSubset
<1>2. g[s] = NextSum(f, g, s) /\ h[s] = NextSum(f, h, s)
  BY DEF Defines
<1>3. s # {}
  BY <1>2 DEF NextSum
<1>4. Pick(s) \in s
  BY <1>3, PickOne
<1>5. s \ {Pick(s)} \notin Bad /\ s \ {Pick(s)} \in SUBSET S
  BY <1>1, <1>4
<1>6. QED BY <1>2, <1>5 DEF NextSum

\* There is a function that obeys the equation.
LEMMA SumExists ==
  ASSUME NEW f, NEW S, IsFiniteSet(S)
  PROVE  \E g : Defines(f, g, S)
<1> DEFINE Bad == {T \in SUBSET S : ~ \E g : Defines(f, g, T)}
<1> SUFFICES ASSUME Bad # {} PROVE FALSE
  OBVIOUS
<1>1. PICK T \in Bad : \A U \in Bad : U \subseteq T => U = T
  <2> HIDE DEF Bad
  <2>1. Bad \in SUBSET SUBSET S
    BY DEF Bad
  <2>2. QED BY <2>1, LeastSubset
<1> DEFINE G(U) == CHOOSE g : Defines(f, g, U)
<1>2. ASSUME NEW U \in SUBSET T, U # T PROVE Defines(f, G(U), U)
  <2>1. U \notin Bad /\ U \in SUBSET S
    BY <1>1, <1>2
  <2>2. QED BY <2>1
<1>3. ASSUME NEW U \in SUBSET T, U # T, NEW V \in SUBSET U
      PROVE  G(V)[V] = G(U)[V]
  <2>1. V \in SUBSET T /\ V # T /\ IsFiniteSet(V)
    BY <1>1, <1>3, FS_Subset
  <2>2. Defines(f, G(U), U) /\ Defines(f, G(V), V)
    BY <1>2, <1>3, <2>1
  <2> HIDE DEF G
  <2>3. QED BY <2>1, <2>2, SumUnique
<1>4. ASSUME NEW U \in SUBSET T, U # T
      PROVE  G(U)[U] = NextSum(f, G(U), U)
  <2>1. Defines(f, G(U), U)
    BY <1>2, <1>4
  <2> HIDE DEF G
  <2>2. QED BY <2>1 DEF Defines
<1> HIDE DEF G
<1> DEFINE h == [U \in SUBSET T |->
                   IF U = T THEN IF T = {} THEN 0
                                 ELSE f[Pick(T)] + G(T \ {Pick(T)})[T \ {Pick(T)}]
                   ELSE G(U)[U]]
<1>5. ASSUME NEW U \in SUBSET T PROVE h[U] = NextSum(f, h, U)
  <2>1. CASE U = {}
    BY <1>4, <2>1 DEF NextSum
  <2>2. CASE U # {} /\ U = T
    <3>1. T \ {Pick(T)} \in SUBSET T /\ T \ {Pick(T)} # T
      BY <2>2, PickOne
    <3>2. QED BY <2>2, <3>1 DEF NextSum
  <2>3. CASE U # {} /\ U # T
    <3> DEFINE V == U \ {Pick(U)}
    <3>1. V \in SUBSET U /\ V # U /\ V \in SUBSET T /\ V # T
      BY <2>3, PickOne
    <3>2. h[U] = f[Pick(U)] + G(U)[V]
      BY <1>4, <2>3 DEF NextSum
    <3>3. G(U)[V] = h[V]
      BY <1>3, <2>3, <3>1
    <3>4. QED BY <2>3, <3>2, <3>3 DEF NextSum
  <2>4. QED BY <2>1, <2>2, <2>3
<1>6. Defines(f, h, T)
  <2>1. h = [U \in SUBSET T |-> h[U]]
    OBVIOUS
  <2> HIDE DEF h
  <2>2. QED BY <1>5, <2>1 DEF Defines
<1>7. QED BY <1>1, <1>6

\* The sum is its value.
LEMMA SumDefined ==
  ASSUME NEW f, NEW S, IsFiniteSet(S)
  PROVE  \E g : Defines(f, g, S) /\ SumOf(f, S) = g[S]
<1> DEFINE g == CHOOSE g : Defines(f, g, S)
<1>1. Defines(f, g, S)
  BY SumExists
<1>2. SumOf(f, S) = g[S]
  BY DEF SumOf, MapThenSumSet, MapThenFoldSet, Defines, NextSum, Pick
<1>3. QED BY <1>1, <1>2

-----------------------------------------------------------------------------
(* What the sum is.                                                        *)

\* The sum without the operators of the library.
TheSum(f, S) == LET sum == CHOOSE g : Defines(f, g, S) IN sum[S]

LEMMA SumIsTheSum == \A f, S : SumOf(f, S) = TheSum(f, S)
  BY DEF SumOf, MapThenSumSet, MapThenFoldSet, TheSum, Defines, NextSum, Pick

LEMMA SumEmpty == \A f : SumOf(f, {}) = 0
  BY DEF SumOf, MapThenSumSet, MapThenFoldSet

LEMMA SumPick ==
  ASSUME NEW f, NEW S, IsFiniteSet(S), S # {}
  PROVE  SumOf(f, S) = f[Pick(S)] + SumOf(f, S \ {Pick(S)})
<1> DEFINE R == S \ {Pick(S)}
<1>1. IsFiniteSet(R) /\ R \subseteq S
  BY FS_Subset
<1>2. PICK g : Defines(f, g, S) /\ SumOf(f, S) = g[S]
  BY SumDefined
<1>3. PICK h : Defines(f, h, R) /\ SumOf(f, R) = h[R]
  BY <1>1, SumDefined
<1>4. h[R] = g[R]
  BY <1>1, <1>2, <1>3, SumUnique
<1>5. g[S] = NextSum(f, g, S)
  BY <1>2 DEF Defines
<1>6. QED BY <1>2, <1>3, <1>4, <1>5 DEF NextSum

LEMMA SumType ==
  ASSUME NEW f, NEW S, IsFiniteSet(S), \A x \in S : f[x] \in Nat
  PROVE  SumOf(f, S) \in Nat
<1> DEFINE Bad == {T \in SUBSET S : SumOf(f, T) \notin Nat}
<1> SUFFICES ASSUME Bad # {} PROVE FALSE
  OBVIOUS
<1>1. PICK T \in Bad : \A U \in Bad : U \subseteq T => U = T
  <2> HIDE DEF Bad
  <2>1. Bad \in SUBSET SUBSET S
    BY DEF Bad
  <2>2. QED BY <2>1, LeastSubset
<1>2. T # {}
  BY SumEmpty
<1>3. Pick(T) \in T
  BY <1>2, PickOne
<1>4. SumOf(f, T \ {Pick(T)}) \in Nat
  BY <1>1, <1>3
<1>5. IsFiniteSet(T)
  BY FS_Subset
<1>6. QED BY <1>2, <1>3, <1>4, <1>5, SumPick

\* Any element may be summed last.
LEMMA SumRemove ==
  ASSUME NEW f, NEW S, IsFiniteSet(S), \A x \in S : f[x] \in Nat, NEW y \in S
  PROVE  SumOf(f, S) = f[y] + SumOf(f, S \ {y})
<1> DEFINE Bad == {T \in SUBSET S :
                     \E x \in T : SumOf(f, T) # f[x] + SumOf(f, T \ {x})}
<1> SUFFICES ASSUME Bad # {} PROVE FALSE
  OBVIOUS
<1>1. PICK T \in Bad : \A U \in Bad : U \subseteq T => U = T
  <2> HIDE DEF Bad
  <2>1. Bad \in SUBSET SUBSET S
    BY DEF Bad
  <2>2. QED BY <2>1, LeastSubset
<1>2. PICK x \in T : SumOf(f, T) # f[x] + SumOf(f, T \ {x})
  OBVIOUS
<1> DEFINE p == Pick(T)
<1>3. p \in T /\ IsFiniteSet(T)
  BY PickOne, FS_Subset
<1>4. SumOf(f, T) = f[p] + SumOf(f, T \ {p})
  BY <1>3, SumPick
<1>5. x # p
  BY <1>2, <1>4
<1> HIDE DEF p
<1>6. T \ {x} \in SUBSET S /\ T \ {p} \in SUBSET S /\ T \ {x, p} \in SUBSET S
  OBVIOUS
<1>7. SumOf(f, T \ {x}) = f[p] + SumOf(f, T \ {x, p})
  <2>1. T \ {x} \notin Bad
    BY <1>1, <1>6
  <2>2. p \in T \ {x} /\ (T \ {x}) \ {p} = T \ {x, p}
    BY <1>3, <1>5
  <2>3. QED BY <1>6, <2>1, <2>2
<1>8. SumOf(f, T \ {p}) = f[x] + SumOf(f, T \ {x, p})
  <2>1. T \ {p} \notin Bad
    BY <1>1, <1>3, <1>6
  <2>2. x \in T \ {p} /\ (T \ {p}) \ {x} = T \ {x, p}
    BY <1>3, <1>5
  <2>3. QED BY <1>6, <2>1, <2>2
<1>9. SumOf(f, T \ {x, p}) \in Nat /\ f[x] \in Nat /\ f[p] \in Nat
  <2>1. IsFiniteSet(T \ {x, p})
    BY <1>6, FS_Subset
  <2>2. QED BY <1>3, <2>1, SumType
<1>10. QED BY <1>2, <1>4, <1>7, <1>8, <1>9

\* More summands, and greater ones, make no smaller sum.
LEMMA SumMonotone ==
  ASSUME NEW f, NEW g, NEW S, NEW T, IsFiniteSet(T), S \subseteq T,
         \A x \in T : f[x] \in Nat /\ g[x] \in Nat,
         \A x \in S : f[x] <= g[x]
  PROVE  SumOf(f, S) <= SumOf(g, T)
<1> DEFINE Bad == {V \in SUBSET T : ~(SumOf(f, V \cap S) <= SumOf(g, V))}
<1>1. T \cap S = S
  OBVIOUS
<1> SUFFICES ASSUME Bad # {} PROVE FALSE
  BY <1>1
<1>2. PICK V \in Bad : \A U \in Bad : U \subseteq V => U = V
  <2> HIDE DEF Bad
  <2>1. Bad \in SUBSET SUBSET T
    BY DEF Bad
  <2>2. QED BY <2>1, LeastSubset
<1>3. V # {}
  <2>1. CASE V = {}
    <3>1. V \cap S = {}
      BY <2>1
    <3>2. QED BY <2>1, <3>1, SumEmpty
  <2>2. QED BY <2>1
<1>4. PICK x \in V : TRUE
  BY <1>3
<1> DEFINE W == V \ {x}
<1>5. SumOf(f, W \cap S) <= SumOf(g, W)
  <2>1. W \notin Bad /\ W \in SUBSET T
    BY <1>2, <1>4
  <2>2. QED BY <2>1
<1>6. IsFiniteSet(V) /\ IsFiniteSet(V \cap S) /\ IsFiniteSet(W) /\ IsFiniteSet(W \cap S)
  BY FS_Subset
<1>7. SumOf(g, V) = g[x] + SumOf(g, W) /\ SumOf(g, W) \in Nat
      /\ SumOf(f, W \cap S) \in Nat
  BY <1>6, SumRemove, SumType
<1>8. CASE x \in S
  <2>1. (V \cap S) \ {x} = W \cap S
    OBVIOUS
  <2>2. SumOf(f, V \cap S) = f[x] + SumOf(f, W \cap S)
    BY <1>6, <1>8, <2>1, SumRemove
  <2>3. QED BY <1>5, <1>7, <1>8, <2>2
<1>9. CASE x \notin S
  <2>1. V \cap S = W \cap S
    BY <1>9
  <2>2. QED BY <1>5, <1>7, <2>1
<1>10. QED BY <1>8, <1>9

LEMMA SumSame ==
  ASSUME NEW f, NEW g, NEW S, IsFiniteSet(S),
         \A x \in S : f[x] \in Nat /\ f[x] = g[x]
  PROVE  SumOf(f, S) = SumOf(g, S)
<1>1. SumOf(f, S) <= SumOf(g, S) /\ SumOf(g, S) <= SumOf(f, S)
  BY SumMonotone
<1>2. SumOf(f, S) \in Nat /\ SumOf(g, S) \in Nat
  BY SumType
<1>3. QED BY <1>1, <1>2

LEMMA SumAdd ==
  ASSUME NEW f, NEW S, IsFiniteSet(S), NEW y, y \notin S,
         \A x \in S \cup {y} : f[x] \in Nat
  PROVE  SumOf(f, S \cup {y}) = f[y] + SumOf(f, S)
<1>1. IsFiniteSet(S \cup {y}) /\ (S \cup {y}) \ {y} = S
  BY FS_AddElement
<1>2. QED BY <1>1, SumRemove

\* One summand changes.
LEMMA SumReplace ==
  ASSUME NEW f, NEW g, NEW S, IsFiniteSet(S), NEW y \in S,
         \A x \in S : f[x] \in Nat /\ g[x] \in Nat,
         \A x \in S \ {y} : f[x] = g[x]
  PROVE  SumOf(g, S) + f[y] = SumOf(f, S) + g[y]
<1>1. IsFiniteSet(S \ {y})
  BY FS_Subset
<1>2. SumOf(f, S \ {y}) = SumOf(g, S \ {y}) /\ SumOf(f, S \ {y}) \in Nat
  BY <1>1, SumSame, SumType
<1>3. QED BY <1>2, SumRemove

LEMMA SumZero ==
  ASSUME NEW f, NEW S, IsFiniteSet(S), \A x \in S : f[x] = 0
  PROVE  SumOf(f, S) = 0
<1> DEFINE Bad == {T \in SUBSET S : SumOf(f, T) # 0}
<1> SUFFICES ASSUME Bad # {} PROVE FALSE
  OBVIOUS
<1>1. PICK T \in Bad : \A U \in Bad : U \subseteq T => U = T
  <2> HIDE DEF Bad
  <2>1. Bad \in SUBSET SUBSET S
    BY DEF Bad
  <2>2. QED BY <2>1, LeastSubset
<1>2. T # {} /\ IsFiniteSet(T)
  BY SumEmpty, FS_Subset
<1>3. Pick(T) \in T
  BY <1>2, PickOne
<1>4. SumOf(f, T \ {Pick(T)}) = 0
  BY <1>1, <1>3
<1>5. QED BY <1>2, <1>3, <1>4, SumPick

-----------------------------------------------------------------------------
(* What the theorems assume, and what the calls are made of.               *)


Line == [item : Items, quantity : Nat]

\* What the theorems assume of the constants: None is no value of any other
\* kind, and workloads name statuses, lists and quantities.
Sane ==
  /\ IsFiniteSet(Orders) /\ IsFiniteSet(Clients)
  /\ None \notin Orders /\ None \notin Int /\ None \notin Statuses
  /\ OfficeHours \subseteq Int
  /\ \A w \in Workloads :
       /\ w.targets \subseteq Statuses /\ w.lists \subseteq Seq(Line)
       /\ None \notin w.lists
       /\ w.stock \in [Items -> Nat] /\ w.last \in Nat
-----------------------------------------------------------------------------
(* The statements of a call.                                               *)

UpdateRow == [status : Statuses \cup {None}, started : Times \cup {None},
              ended : Times \cup {None}, hours : Nat \cup {None},
              by : SUBSET {"hand", "clock"}]

\* Statements by what they name: an order, an issue of material, a session
\* or a log.
OfOrder ==
  [do : {"insert"}, order : Orders, code : Nat, lines : Seq(Line)]
  \cup [do : {"log"}, order : Orders, user : Clients, hours : Nat]
  \cup [do : {"count"}, order : Orders, hours : Nat]
  \cup [do : {"setHours"}, order : Orders, hours : Nat]
  \cup [do : {"resume"}, order : Orders, waited : BOOLEAN, starts : BOOLEAN]
  \cup [do : {"addLines"}, order : Orders, lines : Seq(Line)]
  \cup [do : {"check"}, order : Orders, line : Line]
  \cup [do : {"write"}, order : Orders, row : UpdateRow]
  \cup [do : {"open", "dropLines", "stopAll", "issueAll", "delete"},
        order : Orders]

OfIssue ==
  [do : {"lower", "enter"}, issue : {issue \in Issue : issue.order \in Orders}]

OfSession ==
  [do : {"find"}, id : 1..last.session]
  \cup [do : {"end"}, id : 1..last.session, status : {"COMPLETED", "AUTO_CLOSED"}]

OfLog == [do : {"dropLog"}, id : 1..last.log]

Statement == OfOrder \cup OfIssue \cup OfSession \cup OfLog

Call == [todo : Seq(Statement), orders : SUBSET Orders, rewrites : BOOLEAN]

Todo(c) == {call[c].todo[n] : n \in DOMAIN call[c].todo}

Busy(c) == call[c].todo # << >>

\* What a statement is about.
Concerns(x) ==
  {o \in Orders :
     \/ x.do \in {"lower", "enter"} /\ x.issue.order = o
     \/ /\ x.do \in {"find", "end"}
        /\ x.id \in DOMAIN sessions /\ sessions[x.id].order = o
     \/ x.do = "dropLog" /\ x.id \in DOMAIN logs /\ logs[x.id].order = o
     \/ /\ x.do \notin {"lower", "enter", "find", "end", "dropLog"}
        /\ x.order = o}

\* Statements come in a fixed order, whichever call they belong to, and some
\* end the call.
Rank ==
  [insert |-> 0, setHours |-> 1, dropLog |-> 2, dropLines |-> 3, addLines |-> 4,
   end |-> 5, log |-> 6, count |-> 7, stopAll |-> 8, find |-> 8, lower |-> 9,
   enter |-> 10, issueAll |-> 11, check |-> 11, resume |-> 12,
   open |-> 13, write |-> 13, delete |-> 13]

Final == {"insert", "open", "write", "delete"}

Before(x, y) ==
  /\ x.do \notin Final
  /\ Rank[x.do] < Rank[y.do] \/ (x.do = y.do /\ x.do \in {"find", "check"})

Sorted(todo) == \A m, n \in DOMAIN todo : m < n => Before(todo[m], todo[n])

\* Hours are counted right after they are logged, and a log goes right after
\* its hours were taken off.
PairedAt(todo, n) ==
  LET x == todo[n] IN
  /\ x.do = "log" /\ x.hours > 0 =>
       /\ n + 1 \in DOMAIN todo
       /\ todo[n + 1] = [do |-> "count", order |-> x.order, hours |-> x.hours]
  /\ x.do = "count" /\ n > 1 =>
       /\ todo[n - 1].do = "log" /\ todo[n - 1].order = x.order
       /\ todo[n - 1].hours = x.hours /\ x.hours > 0
  /\ x.do = "dropLog" /\ n > 1 => todo[n - 1].do = "setHours"
  /\ x.do = "setHours" => n + 1 \in DOMAIN todo /\ todo[n + 1].do = "dropLog"

Paired(todo) == \A n \in DOMAIN todo : PairedAt(todo, n)

\* Statements that put values in place of others.
Rewriting == {"setHours", "dropLog", "dropLines", "addLines", "stopAll", "lower",
              "enter", "issueAll", "check", "write", "delete"}
-----------------------------------------------------------------------------
(* The inductive invariant.                                                *)

Types ==
  /\ TypeOK /\ load \in Workloads
  /\ last \in [session : Nat, log : Nat]
  /\ call \in [Clients -> Call]
  /\ clashed \subseteq Orders
  /\ written \in [Orders -> SUBSET {"hand", "clock"}]
  /\ restarts \in Nat

\* Sessions and logs are those of orders that exist.
RowsExist ==
  /\ \A i \in DOMAIN sessions : Exists(sessions[i].order)
  /\ \A l \in DOMAIN logs : Exists(logs[l].order)

\* How a call is made up.
CallsAreOrderly ==
  \A c \in Clients :
    /\ Sorted(call[c].todo) /\ Paired(call[c].todo)
    /\ call[c].rewrites => \A o, p \in call[c].orders : o = p
    /\ \A x \in Todo(c) :
         /\ Concerns(x) \subseteq call[c].orders
         /\ x.do \in Rewriting => call[c].rewrites
         /\ x.do = "write" => (x.row.by = {} => x.row.hours = None)

\* A rewriting call that overlaps another is noticed.
ClashesShow ==
  \A c, d \in Clients :
    c # d /\ Busy(c) /\ Busy(d) /\ (call[c].rewrites \/ call[d].rewrites)
      => call[c].orders \cap call[d].orders \subseteq clashed

\* Undisturbed calls work on orders that exist, but for the one they create.
OrdersExist ==
  \A c \in Clients : \A o \in call[c].orders \ clashed :
    Busy(c) => Exists(o) \/ \E x \in Todo(c) : x.do = "insert"

\* Material that is about to be entered has not been.
IssuesAreNew ==
  \A c \in Clients : \A x \in Todo(c) :
    x.do = "enter" /\ x.issue.order \notin clashed
      => IssuedTo(x.issue.order, x.issue.item) = {}

\* The call is going to stop session i.
Stops(c, i) == \E x \in Todo(c) : x.do \in {"find", "end"} /\ x.id = i

\* Whoever is about to clock in will not be clocked in elsewhere by then ...
OpensAreSafe ==
  \A c \in Clients :
    (\E x \in Todo(c) : x.do = "open") => \A i \in Running(c) : Stops(c, i)

\* ... and the order will be open.
OpensAreTimely ==
  \A c \in Clients : \A x \in Todo(c) :
    x.do = "open" /\ x.order \notin clashed /\ orders[x.order].status \in Closing
      => \E y \in Todo(c) : y.do = "resume" /\ y.waited /\ y.order = x.order

\* Whoever is about to close an order stops its sessions before, or has failed.
WritesAreSafe ==
  \A c \in Clients : \A x \in Todo(c) :
    x.do = "write" /\ x.order \notin clashed /\ x.row.status \in Closing
      => \/ \E y \in Todo(c) : y.do = "stopAll" /\ y.order = x.order
         \/ \A i \in RunningOn(x.order) \ missed : Stops(c, i)

\* Whoever is about to take a log back has read the hours as they are.
HoursAreFresh ==
  \A c \in Clients :
    Busy(c) /\ Head(call[c].todo).do = "setHours" =>
      LET x == Head(call[c].todo)
          l == call[c].todo[2].id
      IN  x.order \notin clashed =>
            /\ l \in DOMAIN logs /\ logs[l].order = x.order
            /\ x.hours = Max({0, orders[x.order].hours - logs[l].hours})

\* The hours by which the logs of an order are ahead of a call.
Debt(c, o) ==
  LET x == Head(call[c].todo) IN
  IF ~Busy(c) THEN 0
  ELSE IF x.do = "count" /\ x.order = o THEN x.hours
  ELSE IF x.do = "dropLog" /\ x.id \in DOMAIN logs /\ logs[x.id].order = o
       THEN logs[x.id].hours
  ELSE 0

Debts(o) == SumOf([c \in Clients |-> Debt(c, o)], Clients)

Balanced ==
  \A o \in Orders \ clashed :
    written[o] = {} =>
      /\ orders[o].hours + Debts(o) <= Logged(o)
      /\ restarts = 0 => orders[o].hours + Debts(o) = Logged(o)

IInv ==
  /\ Types /\ RowsExist /\ CallsAreOrderly /\ ClashesShow /\ OrdersExist
  /\ IssuesAreNew /\ IssuedOnce
  /\ OpensAreSafe /\ OneRunningSession
  /\ OpensAreTimely /\ WritesAreSafe /\ ClosedOrdersAreQuiet
  /\ HoursAreFresh /\ Balanced
-----------------------------------------------------------------------------
(* Statements.                                                             *)

Elems(todo) == {todo[n] : n \in DOMAIN todo}

\* What c has to do after the next statement.
Rest(c) == Elems(Tail(call[c].todo))

\* What a statement names, by what it does.
LEMMA StatementFields ==
  ASSUME NEW x \in Statement
  PROVE  /\ x.do \in DOMAIN Rank /\ Rank[x.do] \in 0..13
         /\ x.do \notin {"find", "end", "dropLog", "lower", "enter"}
              => x.order \in Orders
         /\ x.do \in {"lower", "enter"} => x.issue \in Issue /\ x.issue.order \in Orders
         /\ x.do \in {"find", "end"} => x.id \in 1..last.session
         /\ x.do = "dropLog" => x.id \in 1..last.log
         /\ x.do = "end" => x.status \in {"COMPLETED", "AUTO_CLOSED"}
         /\ x.do = "insert" => x.code \in Nat /\ x.lines \in Seq(Line)
         /\ x.do = "log" => x.user \in Clients
         /\ x.do \in {"log", "count", "setHours"} => x.hours \in Nat
         /\ x.do = "resume" => x.waited \in BOOLEAN /\ x.starts \in BOOLEAN
         /\ x.do = "addLines" => x.lines \in Seq(Line)
         /\ x.do = "check" => x.line \in Line
         /\ x.do = "write" => x.row \in UpdateRow
  BY DEF Statement, OfOrder, OfIssue, OfSession, OfLog, Rank

LEMMA MakeOfSession ==
  ASSUME NEW i \in 1..last.session
  PROVE  /\ [do |-> "find", id |-> i] \in Statement
         /\ \A status \in {"COMPLETED", "AUTO_CLOSED"} :
              [do |-> "end", id |-> i, status |-> status] \in Statement
  BY DEF Statement, OfSession

LEMMA MakeOfLog ==
  ASSUME NEW l \in 1..last.log
  PROVE  [do |-> "dropLog", id |-> l] \in Statement
  BY DEF Statement, OfLog

LEMMA MakeOfIssue ==
  ASSUME NEW issue \in Issue, issue.order \in Orders, NEW do \in {"lower", "enter"}
  PROVE  [do |-> do, issue |-> issue] \in Statement
  BY DEF Statement, OfIssue

LEMMA MakeOfOrder ==
  ASSUME NEW o \in Orders
  PROVE  /\ \A code \in Nat, lines \in Seq(Line) :
              [do |-> "insert", order |-> o, code |-> code, lines |-> lines]
                \in Statement
         /\ \A user \in Clients, hours \in Nat :
              [do |-> "log", order |-> o, user |-> user, hours |-> hours]
                \in Statement
         /\ \A hours \in Nat :
              [do |-> "count", order |-> o, hours |-> hours] \in Statement
         /\ \A hours \in Nat :
              [do |-> "setHours", order |-> o, hours |-> hours] \in Statement
         /\ \A waited, starts \in BOOLEAN :
              [do |-> "resume", order |-> o, waited |-> waited, starts |-> starts]
                \in Statement
         /\ \A lines \in Seq(Line) :
              [do |-> "addLines", order |-> o, lines |-> lines] \in Statement
         /\ \A line \in Line :
              [do |-> "check", order |-> o, line |-> line] \in Statement
         /\ \A row \in UpdateRow :
              [do |-> "write", order |-> o, row |-> row] \in Statement
         /\ \A do \in {"open", "dropLines", "stopAll", "issueAll", "delete"} :
              [do |-> do, order |-> o] \in Statement
  BY DEF Statement, OfOrder

\* The next statement and the rest.
LEMMA NextStatement ==
  ASSUME Types, CallsAreOrderly, NEW c \in Clients, NEW what, Doing(c, what)
  PROVE  LET s == Head(call[c].todo) IN
         /\ Busy(c) /\ s.do = what /\ s \in Statement /\ s \in Todo(c)
         /\ Todo(c) = {s} \cup Rest(c) /\ Rest(c) \subseteq Statement
         /\ \A x \in Rest(c) : Before(s, x)
         /\ what \in Final => Tail(call[c].todo) = << >> /\ Rest(c) = {}
         /\ Concerns(s) \subseteq call[c].orders
         /\ what \in Rewriting => call[c].rewrites
<1> DEFINE todo == call[c].todo
<1>1. todo \in Seq(Statement) /\ Busy(c) /\ Head(todo).do = what
  BY DEF Types, Call, Doing, Busy
<1>2. todo # << >>
  BY <1>1 DEF Busy
<1>3. Sorted(todo)
  BY DEF CallsAreOrderly
<1> HIDE DEF todo
<1>4. /\ Len(todo) \in Nat /\ 1 \in DOMAIN todo /\ Head(todo) = todo[1]
      /\ DOMAIN todo = 1..Len(todo) /\ todo[1] \in Statement
  BY <1>1, <1>2
<1>5. /\ Tail(todo) \in Seq(Statement) /\ DOMAIN Tail(todo) = 1..(Len(todo) - 1)
      /\ \A n \in DOMAIN Tail(todo) : Tail(todo)[n] = todo[n + 1]
  BY <1>1, <1>2
<1>6. Elems(todo) = {todo[1]} \cup Elems(Tail(todo))
  <2>1. \A n \in DOMAIN todo : n = 1 \/ (n - 1 \in DOMAIN Tail(todo) /\ todo[n] = Tail(todo)[n - 1])
    BY <1>4, <1>5
  <2>2. \A n \in DOMAIN Tail(todo) : n + 1 \in DOMAIN todo
    BY <1>4, <1>5
  <2> DEFINE rest == Tail(todo)
  <2>3. /\ \A n \in DOMAIN todo : n = 1 \/ (n - 1 \in DOMAIN rest /\ todo[n] = rest[n - 1])
        /\ \A n \in DOMAIN rest : n + 1 \in DOMAIN todo /\ rest[n] = todo[n + 1]
        /\ 1 \in DOMAIN todo
    BY <1>4, <1>5, <2>1, <2>2
  <2> HIDE DEF rest
  <2>4. Elems(todo) \subseteq {todo[1]} \cup Elems(rest)
    BY <2>3 DEF Elems
  <2>5. {todo[1]} \cup Elems(rest) \subseteq Elems(todo)
    BY <2>3 DEF Elems
  <2>6. QED BY <2>4, <2>5 DEF rest
<1>7. \A n \in DOMAIN Tail(todo) : Before(todo[1], Tail(todo)[n])
  <2>1. \A n \in DOMAIN Tail(todo) : n + 1 \in DOMAIN todo /\ 1 < n + 1
    BY <1>4, <1>5
  <2>2. QED BY <1>3, <1>4, <1>5, <2>1 DEF Sorted
<1>8. Todo(c) = Elems(todo) /\ Rest(c) = Elems(Tail(todo))
  BY DEF Todo, Elems, Rest, todo
<1>9. Elems(Tail(todo)) \subseteq Statement
  BY <1>5 DEF Elems
<1>10. todo[1] \in Todo(c)
  BY <1>4, <1>8 DEF Elems
<1>11. /\ Concerns(todo[1]) \subseteq call[c].orders
       /\ todo[1].do \in Rewriting => call[c].rewrites
  BY <1>10 DEF CallsAreOrderly
<1>12. \A x \in Rest(c) : Before(todo[1], x)
  BY <1>7, <1>8 DEF Elems
<1>13. Head(todo).do \in Final => Tail(todo) = << >> /\ Elems(Tail(todo)) = {}
  <2> SUFFICES ASSUME Head(todo).do \in Final
               PROVE  Tail(todo) = << >> /\ Elems(Tail(todo)) = {}
    OBVIOUS
  <2>1. DOMAIN Tail(todo) = {}
    BY <1>4, <1>7 DEF Before
  <2>2. Tail(todo) = << >>
    BY <1>5, <2>1
  <2>3. QED BY <2>1, <2>2 DEF Elems
<1>14. QED
  BY <1>1, <1>4, <1>6, <1>8, <1>9, <1>10, <1>11, <1>12, <1>13 DEF todo

\* What the call has to do after it goes on, with more statements or without.
LEMMA Proceeded ==
  ASSUME Types, NEW c \in Clients, Busy(c), NEW more \in Seq(Statement),
         Proceed(c, more)
  PROVE  /\ call' \in [Clients -> Call]
         /\ call'[c].todo = more \o Tail(call[c].todo)
         /\ Todo(c)' = Elems(more) \cup Rest(c)
         /\ call'[c].orders = call[c].orders /\ call'[c].rewrites = call[c].rewrites
         /\ \A d \in Clients \ {c} : call'[d] = call[d] /\ Todo(d)' = Todo(d)
         /\ \A d \in Clients : Busy(d)' => Busy(d)
<1> DEFINE rest == Tail(call[c].todo)
           new == more \o rest
<1>1. /\ call \in [Clients -> Call] /\ call[c] \in Call
      /\ call[c].todo \in Seq(Statement) /\ call[c].todo # << >>
  BY DEF Types, Call, Busy
<1>2. rest \in Seq(Statement) /\ new \in Seq(Statement)
  BY <1>1
<1>3. call' = [call EXCEPT ![c].todo = new]
  BY DEF Proceed
<1>4. Elems(new) = Elems(more) \cup Elems(rest)
  <2> HIDE DEF rest
  <2>1. /\ Len(more) \in Nat /\ Len(rest) \in Nat
        /\ DOMAIN more = 1..Len(more) /\ DOMAIN rest = 1..Len(rest)
        /\ DOMAIN new = 1..(Len(more) + Len(rest))
        /\ \A n \in DOMAIN more : new[n] = more[n]
        /\ \A n \in DOMAIN rest : new[Len(more) + n] = rest[n]
    BY <1>2
  <2> HIDE DEF new
  <2>2. \A n \in DOMAIN new :
          n \in DOMAIN more \/ (n - Len(more) \in DOMAIN rest
                                /\ new[n] = rest[n - Len(more)])
    BY <2>1
  <2>3. /\ \A n \in DOMAIN more : n \in DOMAIN new
        /\ \A n \in DOMAIN rest : Len(more) + n \in DOMAIN new
    BY <2>1
  <2>4. QED BY <2>1, <2>2, <2>3 DEF Elems
<1> HIDE DEF rest, new
<1>5. /\ call' \in [Clients -> Call] /\ call'[c].todo = new
      /\ call'[c].orders = call[c].orders /\ call'[c].rewrites = call[c].rewrites
      /\ \A d \in Clients \ {c} : call'[d] = call[d]
  BY <1>1, <1>2, <1>3 DEF Call
<1>6. QED
  BY <1>4, <1>5 DEF Todo, Elems, Rest, Busy, new, rest

LEMMA Aborted ==
  ASSUME Types, NEW c \in Clients, Busy(c), Abort(c)
  PROVE  /\ call' \in [Clients -> Call]
         /\ call'[c].todo = << >> /\ Todo(c)' = {} /\ ~Busy(c)'
         /\ call'[c].orders = call[c].orders /\ call'[c].rewrites = call[c].rewrites
         /\ \A d \in Clients \ {c} : call'[d] = call[d] /\ Todo(d)' = Todo(d)
         /\ \A d \in Clients : Busy(d)' => Busy(d)
<1>1. /\ call \in [Clients -> Call] /\ call[c] \in Call
      /\ << >> \in Seq(Statement)
  BY DEF Types
<1>2. /\ call' \in [Clients -> Call] /\ call'[c].todo = << >>
      /\ call'[c].orders = call[c].orders /\ call'[c].rewrites = call[c].rewrites
      /\ \A d \in Clients \ {c} : call'[d] = call[d]
  BY <1>1 DEF Call, Abort
<1>3. QED BY <1>2 DEF Todo, Busy
-----------------------------------------------------------------------------
(* What a step of a call changes.                                          *)

\* The action is the one that the next statement names.
LEMMA WhichStep ==
  ASSUME NEW c \in Clients, Step(c)
  PROVE  LET do == Head(call[c].todo).do IN
         /\ Busy(c) /\ Doing(c, do)
         /\ do = "insert" => Insert(c)
         /\ do = "find" => Find(c)
         /\ do = "end" => EndSession(c)
         /\ do = "resume" => Resume(c)
         /\ do = "open" => OpenSession(c)
         /\ do = "log" => Log(c)
         /\ do = "count" => Count(c)
         /\ do = "setHours" => SetHours(c)
         /\ do = "dropLog" => DropLog(c)
         /\ do = "dropLines" => DropLines(c)
         /\ do = "addLines" => AddLines(c)
         /\ do = "stopAll" => StopAll(c)
         /\ do = "issueAll" => IssueAll(c)
         /\ do = "check" => Check(c)
         /\ do = "lower" => Lower(c)
         /\ do = "enter" => Enter(c)
         /\ do = "write" => Write(c)
         /\ do = "delete" => Delete(c)
         /\ do \in {"insert", "find", "end", "resume", "open", "log", "count", "setHours", "dropLog",
                   "dropLines", "addLines", "stopAll", "issueAll", "check", "lower", "enter", "write", "delete"}
<1>1. /\ Insert(c) => Doing(c, "insert")
      /\ Find(c) => Doing(c, "find")
      /\ EndSession(c) => Doing(c, "end")
      /\ Resume(c) => Doing(c, "resume")
      /\ OpenSession(c) => Doing(c, "open")
      /\ Log(c) => Doing(c, "log")
      /\ Count(c) => Doing(c, "count")
      /\ SetHours(c) => Doing(c, "setHours")
      /\ DropLog(c) => Doing(c, "dropLog")
      /\ DropLines(c) => Doing(c, "dropLines")
      /\ AddLines(c) => Doing(c, "addLines")
      /\ StopAll(c) => Doing(c, "stopAll")
      /\ IssueAll(c) => Doing(c, "issueAll")
      /\ Check(c) => Doing(c, "check")
      /\ Lower(c) => Doing(c, "lower")
      /\ Enter(c) => Doing(c, "enter")
      /\ Write(c) => Doing(c, "write")
      /\ Delete(c) => Doing(c, "delete")
  BY DEF Insert, Find, EndSession, Resume, OpenSession, Log, Count, SetHours, DropLog, DropLines, AddLines, StopAll, IssueAll, Check, Lower, Enter, Write, Delete
<1>2. QED
  BY <1>1 DEF Step, Doing, Busy

\* Which tables the step leaves alone.
Frame(c) ==
  LET do == Head(call[c].todo).do IN
  /\ load' = load /\ now' = now /\ clashed' = clashed /\ calls' = calls
  /\ missed' = missed /\ restarts' = restarts
  /\ do \notin {"insert", "resume", "count", "setHours", "write", "delete"}
       => orders' = orders
  /\ do \notin {"insert", "dropLines", "addLines", "delete"}
       => materials' = materials
  /\ do \notin {"end", "open", "delete"} => sessions' = sessions
  /\ do \notin {"log", "dropLog", "delete"} => logs' = logs
  /\ do \notin {"open", "log"} => last' = last
  /\ do # "lower" => stock' = stock
  /\ do \notin {"enter", "delete"} => ledger' = ledger
  /\ do # "write" => written' = written
  /\ do \notin {"find", "stopAll", "issueAll", "check"}
       => Proceed(c, << >>) \/ Abort(c)

LEMMA StepFrame ==
  ASSUME NEW c \in Clients, Step(c)
  PROVE  Frame(c)
<1>1. CASE Insert(c)
  BY <1>1 DEF Insert, Frame, Doing, tables, world
<1>2. CASE Find(c)
  BY <1>2 DEF Find, Frame, Doing, tables, world
<1>3. CASE EndSession(c)
  BY <1>3 DEF EndSession, Frame, Doing, tables, world
<1>4. CASE Resume(c)
  BY <1>4 DEF Resume, Frame, Doing, tables, world
<1>5. CASE OpenSession(c)
  BY <1>5 DEF OpenSession, Frame, Doing, tables, world
<1>6. CASE Log(c)
  BY <1>6 DEF Log, Frame, Doing, tables, world
<1>7. CASE Count(c)
  BY <1>7 DEF Count, Frame, Doing, tables, world
<1>8. CASE SetHours(c)
  BY <1>8 DEF SetHours, Frame, Doing, tables, world
<1>9. CASE DropLog(c)
  BY <1>9 DEF DropLog, Frame, Doing, tables, world
<1>10. CASE DropLines(c)
  BY <1>10 DEF DropLines, Frame, Doing, tables, world
<1>11. CASE AddLines(c)
  BY <1>11 DEF AddLines, Frame, Doing, tables, world
<1>12. CASE StopAll(c)
  BY <1>12 DEF StopAll, Frame, Doing, tables, world
<1>13. CASE IssueAll(c)
  BY <1>13 DEF IssueAll, Frame, Doing, tables, world
<1>14. CASE Check(c)
  BY <1>14 DEF Check, Frame, Doing, tables, world
<1>15. CASE Lower(c)
  BY <1>15 DEF Lower, Frame, Doing, tables, world
<1>16. CASE Enter(c)
  BY <1>16 DEF Enter, Frame, Doing, tables, world
<1>17. CASE Write(c)
  BY <1>17 DEF Write, Frame, Doing, tables, world
<1>18. CASE Delete(c)
  BY <1>18 DEF Delete, Frame, Doing, tables, world
<1>19. QED
  BY <1>1, <1>2, <1>3, <1>4, <1>5, <1>6, <1>7, <1>8, <1>9, <1>10, <1>11, <1>12, <1>13, <1>14, <1>15, <1>16, <1>17, <1>18 DEF Step
-----------------------------------------------------------------------------
(* Order and types of what is to be done.                                  *)

\* A sequence of a set has its elements.
LEMMA SetToSeqElems ==
  ASSUME NEW S, IsFiniteSet(S)
  PROVE  /\ Cardinality(S) \in Nat
         /\ SetToSeq(S) \in [1..Cardinality(S) -> S]
         /\ \A x \in S : \E n \in 1..Cardinality(S) : SetToSeq(S)[n] = x
<1> DEFINE n == Cardinality(S)
           IsSeq(f) == f \in [1..n -> S] /\ IsInjective(f)
<1>1. n \in Nat /\ ExistsBijection(1..n, S)
  BY FS_CardinalityType
<1>2. \E f \in [1..n -> S] : IsInjective(f)
  BY <1>1 DEF ExistsBijection, Bijection, Injection
<1>3. SetToSeq(S) \in [1..n -> S] /\ IsInjective(SetToSeq(S))
  BY <1>2 DEF SetToSeq
<1>4. SetToSeq(S) \in Injection(1..n, S)
  BY <1>3 DEF Injection
<1>5. IsFiniteSet(1..n) /\ Cardinality(1..n) = n
  BY <1>1, FS_Interval
<1>6. SetToSeq(S) \in Surjection(1..n, S)
  BY <1>4, <1>5, FS_Injection
<1>7. QED
  BY <1>1, <1>3, <1>6 DEF Surjection

\* A list of statements may follow another.
LEMMA Concatenated ==
  ASSUME NEW S, NEW a \in Seq(S), NEW b \in Seq(S),
         Sorted(a), Paired(a), Sorted(b), Paired(b),
         \A x \in Elems(a), y \in Elems(b) : Before(x, y),
         a = << >> \/ b = << >> \/ Head(b).do \notin {"count", "dropLog"}
  PROVE  /\ a \o b \in Seq(S) /\ Sorted(a \o b) /\ Paired(a \o b)
         /\ Elems(a \o b) = Elems(a) \cup Elems(b)
         /\ a # << >> => Head(a \o b) = Head(a) /\ a \o b # << >>
         /\ a = << >> => a \o b = b
<1> DEFINE new == a \o b
           k == Len(a)
           l == Len(b)
<1>1. /\ k \in Nat /\ l \in Nat /\ DOMAIN a = 1..k /\ DOMAIN b = 1..l
      /\ DOMAIN new = 1..(k + l)
  OBVIOUS
<1>2. /\ \A n \in 1..k : new[n] = a[n]
      /\ \A j \in 1..l : new[k + j] = b[j]
  OBVIOUS
<1>3. /\ new \in Seq(S)
      /\ a # << >> => Head(new) = Head(a) /\ new # << >>
      /\ a = << >> => new = b
      /\ a = << >> => k = 0
      /\ b # << >> => Head(b) = b[1]
      /\ b = << >> => l = 0
  OBVIOUS
<1> HIDE DEF new, k, l
<1>4. \A n \in DOMAIN new \ DOMAIN a : \E j \in 1..l : n = k + j
  <2> TAKE n \in DOMAIN new \ DOMAIN a
  <2>1. n \in 1..(k + l) /\ n \notin 1..k
    BY <1>1
  <2>2. n - k \in 1..l /\ n = k + (n - k)
    BY <1>1, <2>1
  <2>3. QED BY <2>2
<1>5. \A n \in 1..k : new[n] = a[n] /\ n \in DOMAIN new /\ n \in DOMAIN a
  BY <1>1, <1>2
<1>6. \A j \in 1..l : new[k + j] = b[j] /\ k + j \in DOMAIN new /\ j \in DOMAIN b
  BY <1>1, <1>2
<1>7. Elems(new) = Elems(a) \cup Elems(b)
  <2>1. Elems(new) \subseteq Elems(a) \cup Elems(b)
    <3> SUFFICES ASSUME NEW n \in DOMAIN new
                 PROVE  new[n] \in Elems(a) \cup Elems(b)
      BY DEF Elems
    <3>1. CASE n \in DOMAIN a
      BY <1>1, <1>5, <3>1 DEF Elems
    <3>2. CASE n \notin DOMAIN a
      BY <1>4, <1>6, <3>2 DEF Elems
    <3>3. QED BY <3>1, <3>2
  <2>2. Elems(a) \cup Elems(b) \subseteq Elems(new)
    BY <1>1, <1>5, <1>6 DEF Elems
  <2>3. QED BY <2>1, <2>2
<1>8. Sorted(new)
  <2> SUFFICES ASSUME NEW m \in DOMAIN new, NEW n \in DOMAIN new, m < n
               PROVE  Before(new[m], new[n])
    BY DEF Sorted
  <2>1. CASE n \in DOMAIN a
    <3>1. m \in DOMAIN a
      BY <1>1, <2>1
    <3>2. QED BY <1>1, <1>5, <2>1, <3>1 DEF Sorted
  <2>2. CASE n \notin DOMAIN a /\ m \in DOMAIN a
    <3>1. PICK j \in 1..l : n = k + j
      BY <1>4, <2>2
    <3>2. new[n] \in Elems(b) /\ new[m] \in Elems(a)
      BY <1>1, <1>5, <1>6, <2>2, <3>1 DEF Elems
    <3>3. QED BY <3>2
  <2>3. CASE n \notin DOMAIN a /\ m \notin DOMAIN a
    <3>1. PICK i \in 1..l : m = k + i
      BY <1>4, <2>3
    <3>2. PICK j \in 1..l : n = k + j
      BY <1>4, <2>3
    <3>3. i < j
      BY <1>1, <3>1, <3>2
    <3>4. QED BY <1>6, <3>1, <3>2, <3>3 DEF Sorted
  <2>4. QED BY <2>1, <2>2, <2>3
<1>9. Paired(new)
  <2> SUFFICES ASSUME NEW n \in DOMAIN new
               PROVE  PairedAt(new, n)
    BY DEF Paired
  <2>1. CASE n \in DOMAIN a
    <3>1. /\ n + 1 \in DOMAIN a => n + 1 \in DOMAIN new /\ new[n + 1] = a[n + 1]
          /\ n > 1 => n - 1 \in DOMAIN a /\ new[n - 1] = a[n - 1]
          /\ new[n] = a[n]
      BY <1>1, <1>5, <2>1
    <3>2. QED BY <2>1, <3>1 DEF Paired, PairedAt
  <2>2. CASE n \notin DOMAIN a
    <3>1. PICK j \in 1..l : n = k + j
      BY <1>4, <2>2
    <3>2. n > 1 => k > 0 \/ j > 1
      BY <1>1, <3>1
    <3>3. new[n] = b[j] /\ PairedAt(b, j)
      BY <1>6, <3>1 DEF Paired
    <3>4. j + 1 \in DOMAIN b => n + 1 \in DOMAIN new /\ new[n + 1] = b[j + 1]
      <4> SUFFICES ASSUME j + 1 \in 1..l
                   PROVE  n + 1 \in DOMAIN new /\ new[n + 1] = b[j + 1]
        BY <1>1
      <4>1. n + 1 = k + (j + 1)
        BY <1>1, <3>1
      <4>2. QED BY <1>6, <4>1
    <3>5. j > 1 => new[n - 1] = b[j - 1] /\ n > 1
      <4> SUFFICES ASSUME j > 1 PROVE new[n - 1] = b[j - 1] /\ n > 1
        OBVIOUS
      <4>1. j - 1 \in 1..l /\ n - 1 = k + (j - 1) /\ n > 1
        BY <1>1, <3>1
      <4>2. QED BY <1>6, <4>1
    <3>6. CASE j > 1
      BY <3>3, <3>4, <3>5, <3>6 DEF PairedAt
    <3>7. CASE ~(j > 1)
      <4>1. j = 1
        BY <3>1, <3>7
      <4>2. n > 1 => b[1].do \notin {"count", "dropLog"}
        BY <1>1, <1>3, <3>1, <3>2, <4>1
      <4>3. QED BY <3>3, <3>4, <4>1, <4>2 DEF PairedAt
    <3>8. QED BY <3>6, <3>7
  <2>3. QED BY <2>1, <2>2
<1>10. QED BY <1>3, <1>7, <1>8, <1>9 DEF new

\* What is left after the first statement is in order, too.
LEMMA TailOrderly ==
  ASSUME NEW S, NEW todo \in Seq(S), todo # << >>, Sorted(todo), Paired(todo)
  PROVE  /\ Tail(todo) \in Seq(S) /\ Sorted(Tail(todo)) /\ Paired(Tail(todo))
         /\ Tail(todo) # << >> =>
              LET x == Head(todo)
                  y == Head(Tail(todo))
              IN  /\ x.do = "log" /\ x.hours > 0 =>
                       y = [do |-> "count", order |-> x.order, hours |-> x.hours]
                  /\ y.do = "count" => /\ x.do = "log" /\ x.order = y.order
                                        /\ x.hours = y.hours /\ x.hours > 0
                  /\ y.do = "dropLog" <=> x.do = "setHours"
                  /\ y = todo[2]
         /\ Tail(todo) = << >> =>
              LET x == Head(todo) IN
              x.do # "setHours" /\ ~(x.do = "log" /\ x.hours > 0)
<1> DEFINE rest == Tail(todo)
           l == Len(todo)
<1>1. /\ l \in Nat \ {0} /\ DOMAIN todo = 1..l /\ DOMAIN rest = 1..(l - 1)
      /\ rest \in Seq(S) /\ Head(todo) = todo[1]
      /\ rest # << >> => Head(rest) = rest[1] /\ 2 \in DOMAIN todo /\ 1 \in DOMAIN rest
      /\ rest = << >> => l = 1
  <2>1. /\ l \in Nat \ {0} /\ DOMAIN todo = 1..l /\ DOMAIN rest = 1..(l - 1)
        /\ rest \in Seq(S) /\ Head(todo) = todo[1] /\ Len(rest) = l - 1
    OBVIOUS
  <2> HIDE DEF rest, l
  <2>2. rest # << >> => Len(rest) > 0 /\ Head(rest) = rest[1]
    BY <2>1
  <2>3. rest = << >> => Len(rest) = 0
    OBVIOUS
  <2>4. QED BY <2>1, <2>2, <2>3
<1>2. \A n \in DOMAIN rest : rest[n] = todo[n + 1] /\ n + 1 \in DOMAIN todo
  OBVIOUS
<1> HIDE DEF rest, l
<1>3. Sorted(rest)
  <2> SUFFICES ASSUME NEW m \in DOMAIN rest, NEW n \in DOMAIN rest, m < n
               PROVE  Before(rest[m], rest[n])
    BY DEF Sorted
  <2>1. m + 1 < n + 1
    BY <1>1
  <2>2. QED BY <1>2, <2>1 DEF Sorted
<1>4. Paired(rest)
  <2> SUFFICES ASSUME NEW n \in DOMAIN rest PROVE PairedAt(rest, n)
    BY DEF Paired
  <2>1. rest[n] = todo[n + 1] /\ PairedAt(todo, n + 1)
    BY <1>2 DEF Paired
  <2>2. (n + 1) + 1 \in DOMAIN todo => n + 1 \in DOMAIN rest /\ rest[n + 1] = todo[(n + 1) + 1]
    BY <1>1, <1>2
  <2>3. n > 1 => rest[n - 1] = todo[(n + 1) - 1] /\ n + 1 > 1
    <3> SUFFICES ASSUME n > 1 PROVE rest[n - 1] = todo[(n + 1) - 1] /\ n + 1 > 1
      OBVIOUS
    <3>1. n - 1 \in DOMAIN rest /\ (n - 1) + 1 = (n + 1) - 1 /\ n + 1 > 1
      BY <1>1
    <3>2. rest[n - 1] = todo[(n - 1) + 1]
      BY <1>2, <3>1
    <3>3. QED BY <3>1, <3>2
  <2>4. QED BY <2>1, <2>2, <2>3 DEF PairedAt
<1>5. PairedAt(todo, 1) /\ (2 \in DOMAIN todo => PairedAt(todo, 2))
  BY <1>1 DEF Paired
<1>6. rest # << >> => rest[1] = todo[2]
  BY <1>1, <1>2
<1>7. rest = << >> => 2 \notin DOMAIN todo
  BY <1>1
<1>8. QED
  BY <1>1, <1>3, <1>4, <1>5, <1>6, <1>7 DEF rest, PairedAt
-----------------------------------------------------------------------------
(* The lists of statements that calls are made of.                         *)

LEMMA WorkedType ==
  ASSUME NEW from \in Int, NEW to \in Int
  PROVE  Worked(from, to) \in Nat
<1>1. IsFiniteSet(from .. to - 1)
  BY FS_Interval
<1>2. IsFiniteSet(OfficeHours \cap (from .. to - 1))
  BY <1>1, FS_Intersection
<1>3. QED BY <1>2, FS_CardinalityType DEF Worked

LEMMA EmptyList ==
  /\ Elems(<< >>) = {} /\ Sorted(<< >>) /\ Paired(<< >>)
  /\ \A S : << >> \in Seq(S)
<1>1. DOMAIN << >> = {}
  OBVIOUS
<1>2. QED BY <1>1 DEF Elems, Sorted, Paired

LEMMA ShortLists ==
  ASSUME NEW a, NEW b, NEW d
  PROVE  /\ Elems(<< >>) = {} /\ Elems(<<a>>) = {a} /\ Elems(<<a, b>>) = {a, b}
         /\ Elems(<<a, b, d>>) = {a, b, d}
         /\ Sorted(<< >>) /\ Sorted(<<a>>)
         /\ Before(a, b) => Sorted(<<a, b>>)
         /\ Before(a, b) /\ Before(b, d) /\ Before(a, d) => Sorted(<<a, b, d>>)
<1>1. DOMAIN << >> = {} /\ DOMAIN <<a>> = {1} /\ DOMAIN <<a, b>> = {1, 2}
      /\ DOMAIN <<a, b, d>> = {1, 2, 3}
  OBVIOUS
<1>2. /\ <<a>>[1] = a /\ <<a, b>>[1] = a /\ <<a, b>>[2] = b
      /\ <<a, b, d>>[1] = a /\ <<a, b, d>>[2] = b /\ <<a, b, d>>[3] = d
  OBVIOUS
<1>3. /\ Elems(<< >>) = {} /\ Elems(<<a>>) = {a} /\ Elems(<<a, b>>) = {a, b}
      /\ Elems(<<a, b, d>>) = {a, b, d}
  BY <1>1, <1>2 DEF Elems
<1>4. QED BY <1>1, <1>2, <1>3 DEF Sorted

LEMMA JoinTwo ==
  ASSUME NEW a, NEW b
  PROVE  <<a>> \o <<b>> = <<a, b>>
<1> DEFINE t == <<a>> \o <<b>>
<1>1. /\ <<a>> \in Seq({a, b}) /\ <<b>> \in Seq({a, b}) /\ <<a, b>> \in Seq({a, b})
  OBVIOUS
<1>2. t \in Seq({a, b}) /\ Len(t) = 2 /\ t[1] = a /\ t[2] = b
  BY <1>1
<1>3. Len(<<a, b>>) = 2 /\ <<a, b>>[1] = a /\ <<a, b>>[2] = b
  OBVIOUS
<1> HIDE DEF t
<1>4. \A i \in 1..2 : t[i] = <<a, b>>[i]
  BY <1>2, <1>3
<1>5. t = <<a, b>>
  BY <1>1, <1>2, <1>3, <1>4, SeqEqual
<1>6. QED BY <1>5 DEF t

\* Hours are logged, and counted when there are any.
LEMMA LoggingFits ==
  ASSUME NEW o \in Orders, NEW user \in Clients, NEW hours \in Nat,
         NEW always \in BOOLEAN
  PROVE  LET more == Logging(o, user, hours, always) IN
         /\ more \in Seq(Statement) /\ Sorted(more) /\ Paired(more)
         /\ \A x \in Elems(more) : x.do \in {"log", "count"} /\ x.order = o
         /\ more # << >> => Head(more).do = "log"
<1> DEFINE l == [do |-> "log", order |-> o, user |-> user, hours |-> hours]
           n == [do |-> "count", order |-> o, hours |-> hours]
           more == Logging(o, user, hours, always)
<1>1. l \in Statement /\ n \in Statement
  BY MakeOfOrder
<1>2. Before(l, n)
  BY DEF Before, Rank, Final
<1>3. CASE hours > 0
  <2>1. more = <<l, n>>
    <3>1. more = <<l>> \o <<n>>
      BY <1>3 DEF Logging
    <3>2. QED BY <3>1, JoinTwo
  <2>2. Elems(<<l, n>>) = {l, n} /\ Sorted(<<l, n>>)
    <3> HIDE DEF l, n
    <3>1. QED BY <1>2, ShortLists
  <2>3. Paired(<<l, n>>)
    <3>1. DOMAIN <<l, n>> = {1, 2} /\ <<l, n>>[1] = l /\ <<l, n>>[2] = n
      OBVIOUS
    <3>2. PairedAt(<<l, n>>, 1) /\ PairedAt(<<l, n>>, 2)
      BY <1>3, <3>1 DEF PairedAt
    <3>3. QED BY <3>1, <3>2 DEF Paired
  <2>4. QED BY <1>1, <2>1, <2>2, <2>3
<1>4. CASE hours = 0 /\ always
  <2>1. more = <<l>>
    BY <1>4 DEF Logging
  <2>2. Elems(<<l>>) = {l} /\ Sorted(<<l>>)
    <3> HIDE DEF l
    <3>1. QED BY ShortLists
  <2>3. Paired(<<l>>)
    BY <1>4 DEF Paired, PairedAt
  <2>4. QED BY <1>1, <2>1, <2>2, <2>3
<1>5. CASE hours = 0 /\ ~always
  <2>1. more = << >>
    BY <1>5 DEF Logging
  <2>2. Elems(<< >>) = {} /\ Sorted(<< >>) /\ Paired(<< >>)
    BY EmptyList
  <2>3. QED BY <2>1, <2>2
<1>6. QED BY <1>3, <1>4, <1>5

\* A session is ended before its hours are logged.
LEMMA StoppingFits ==
  ASSUME Types, NEW i \in DOMAIN sessions, NEW content \in BOOLEAN,
         NEW status \in {"COMPLETED", "AUTO_CLOSED"}
  PROVE  LET more == Stopping(i, status, content) IN
         /\ more \in Seq(Statement) /\ Sorted(more) /\ Paired(more)
         /\ more # << >> /\ Head(more) = [do |-> "end", id |-> i, status |-> status]
         /\ [do |-> "end", id |-> i, status |-> status] \in Elems(more)
         /\ \A x \in Elems(more) :
              \/ x = [do |-> "end", id |-> i, status |-> status]
              \/ x.do \in {"log", "count"} /\ x.order = sessions[i].order
<1> DEFINE e == [do |-> "end", id |-> i, status |-> status]
           row == sessions[i]
           hours == Worked(row.start, now)
           logging == Logging(row.order, row.user, hours, content)
           one == <<e>>
<1>1. /\ row \in Session /\ i \in 1..last.session /\ now \in Int /\ row.start \in Int
      /\ row.order \in Orders /\ row.user \in Clients
  BY DEF Types, TypeOK, Session, Times
<1>2. e \in Statement
  BY <1>1, MakeOfSession
<1>3. hours \in Nat
  BY <1>1, WorkedType
<1> HIDE DEF hours, row
<1>4. /\ logging \in Seq(Statement) /\ Sorted(logging) /\ Paired(logging)
      /\ \A x \in Elems(logging) : x.do \in {"log", "count"} /\ x.order = row.order
      /\ logging # << >> => Head(logging).do = "log"
  BY <1>1, <1>3, LoggingFits
<1>5. Stopping(i, status, content) = one \o logging
  BY DEF Stopping, hours, row
<1> HIDE DEF logging
<1>6. Paired(one)
  BY DEF Paired, PairedAt
<1>7. \A x \in Elems(logging) : Before(e, x)
  BY <1>4 DEF Before, Rank, Final
<1> HIDE DEF e
<1>8. Sorted(one) /\ Elems(one) = {e}
  BY ShortLists
<1>12. one \in Seq(Statement) /\ Head(one) = e /\ one # << >>
  BY <1>2
<1> HIDE DEF one
<1>13. \A x \in Elems(one), y \in Elems(logging) : Before(x, y)
  BY <1>7, <1>8
<1>14. logging = << >> \/ Head(logging).do \notin {"count", "dropLog"}
  BY <1>4
<1>15. /\ one \o logging \in Seq(Statement) /\ Sorted(one \o logging)
      /\ Paired(one \o logging)
      /\ Elems(one \o logging) = {e} \cup Elems(logging)
      /\ Head(one \o logging) = e /\ one \o logging # << >>
  BY <1>4, <1>6, <1>8, <1>12, <1>13, <1>14, Concatenated
<1>16. QED
  BY <1>4, <1>5, <1>15 DEF row, e, one

LEMMA MaxOfTwo ==
  ASSUME NEW a \in Int, NEW b \in Int
  PROVE  Max({a, b}) = IF a >= b THEN a ELSE b
<1>1. \E x \in {a, b} : \A y \in {a, b} : x >= y
  OBVIOUS
<1>2. Max({a, b}) \in {a, b} /\ \A y \in {a, b} : Max({a, b}) >= y
  BY <1>1 DEF Max
<1>3. QED BY <1>2

\* A list of statements of one kind is in order when they may come together.
LEMMA AlikeFit ==
  ASSUME NEW k \in Nat, NEW f \in [1..k -> Statement], NEW do \in {"find", "check"},
         \A n \in 1..k : f[n].do = do
  PROVE  f \in Seq(Statement) /\ Sorted(f) /\ Paired(f)
<1>1. f \in Seq(Statement) /\ DOMAIN f = 1..k
  OBVIOUS
<1>2. Sorted(f)
  BY <1>1 DEF Sorted, Before, Final
<1>3. Paired(f)
  BY <1>1 DEF Paired, PairedAt
<1>4. QED BY <1>1, <1>2, <1>3

LEMMA RunningFinite ==
  ASSUME Types, NEW o
  PROVE  IsFiniteSet(RunningOn(o)) /\ RunningOn(o) \subseteq 1..last.session
<1>1. last.session \in Nat /\ RunningOn(o) \subseteq 1..last.session
  BY DEF Types, TypeOK, RunningOn
<1>2. IsFiniteSet(1..last.session)
  BY <1>1, FS_Interval
<1>3. QED BY <1>1, <1>2, FS_Subset

\* All the sessions that run on an order are looked at.
LEMMA StopAllFits ==
  ASSUME Types, NEW o
  PROVE  LET more == [n \in 1..Cardinality(RunningOn(o)) |->
                        AutoStop(SetToSeq(RunningOn(o))[n])]
         IN  /\ more \in Seq(Statement) /\ Sorted(more) /\ Paired(more)
             /\ Elems(more) = {[do |-> "find", id |-> i] : i \in RunningOn(o)}
<1> DEFINE k == Cardinality(RunningOn(o))
           q == SetToSeq(RunningOn(o))
           more == [n \in 1..k |-> AutoStop(q[n])]
<1>1. /\ k \in Nat /\ q \in [1..k -> RunningOn(o)]
      /\ \A i \in RunningOn(o) : \E n \in 1..k : q[n] = i
  BY RunningFinite, SetToSeqElems
<1> HIDE DEF k, q
<1>2. \A i \in RunningOn(o) : AutoStop(i) \in Statement /\ AutoStop(i).do = "find"
  BY RunningFinite, MakeOfSession DEF AutoStop
<1>3. more \in [1..k -> Statement] /\ \A n \in 1..k : more[n].do = "find"
  BY <1>1, <1>2
<1>4. more \in Seq(Statement) /\ Sorted(more) /\ Paired(more)
  <2> HIDE DEF more
  <2>1. QED BY <1>1, <1>3, AlikeFit
<1>5. Elems(more) = {AutoStop(i) : i \in RunningOn(o)}
  <2>1. DOMAIN more = 1..k
    OBVIOUS
  <2>2. Elems(more) \subseteq {AutoStop(i) : i \in RunningOn(o)}
    BY <1>1, <2>1 DEF Elems
  <2>3. {AutoStop(i) : i \in RunningOn(o)} \subseteq Elems(more)
    <3> SUFFICES ASSUME NEW i \in RunningOn(o) PROVE AutoStop(i) \in Elems(more)
      OBVIOUS
    <3>1. PICK n \in 1..k : q[n] = i
      BY <1>1
    <3>2. n \in DOMAIN more /\ more[n] = AutoStop(i)
      BY <2>1, <3>1
    <3> HIDE DEF more
    <3>3. QED BY <3>2 DEF Elems
  <2>4. QED BY <2>2, <2>3
<1>6. QED BY <1>4, <1>5 DEF AutoStop, k, q

LEMMA IssueAllFits ==
  ASSUME Types, NEW o \in Orders
  PROVE  LET more == [n \in DOMAIN materials[o] |->
                        [do |-> "check", order |-> o, line |-> materials[o][n]]]
         IN  /\ more \in Seq(Statement) /\ Sorted(more) /\ Paired(more)
             /\ \A x \in Elems(more) : x.do = "check" /\ x.order = o
<1> DEFINE lines == materials[o]
           k == Len(lines)
           more == [n \in 1..k |-> [do |-> "check", order |-> o, line |-> lines[n]]]
<1>1. lines \in Seq(Line)
  BY DEF Types, TypeOK, Line
<1> HIDE DEF lines
<1>2. k \in Nat /\ DOMAIN lines = 1..k /\ \A n \in 1..k : lines[n] \in Line
  BY <1>1
<1> HIDE DEF k
<1>3. \A line \in Line : [do |-> "check", order |-> o, line |-> line] \in Statement
  BY MakeOfOrder
<1>4. more \in [1..k -> Statement] /\ \A n \in 1..k : more[n].do = "check"
  BY <1>2, <1>3
<1>5. more \in Seq(Statement) /\ Sorted(more) /\ Paired(more)
  <2> HIDE DEF more
  <2>1. QED BY <1>2, <1>4, AlikeFit
<1>6. \A x \in Elems(more) : x.do = "check" /\ x.order = o
  BY DEF Elems
<1>7. QED BY <1>2, <1>5, <1>6 DEF lines

\* The statements that issue a line of material.
Issuing(o, line) ==
  LET issue == [order |-> o, item |-> line.item, quantity |-> line.quantity,
                before |-> stock[line.item],
                after |-> Remaining(line.item, line.quantity)]
  IN  <<[do |-> "lower", issue |-> issue], [do |-> "enter", issue |-> issue]>>

LEMMA IssuingFits ==
  ASSUME Types, NEW o \in Orders, NEW line \in Line
  PROVE  LET more == Issuing(o, line) IN
         /\ more \in Seq(Statement) /\ Sorted(more) /\ Paired(more)
         /\ \A x \in Elems(more) :
              /\ x.do \in {"lower", "enter"}
              /\ x.issue.order = o /\ x.issue.item = line.item
         /\ more # << >> /\ Head(more).do = "lower"
<1> DEFINE issue == [order |-> o, item |-> line.item, quantity |-> line.quantity,
                     before |-> stock[line.item],
                     after |-> Remaining(line.item, line.quantity)]
           a == [do |-> "lower", issue |-> issue]
           b == [do |-> "enter", issue |-> issue]
<1>1. line.item \in Items /\ line.quantity \in Nat /\ stock[line.item] \in Nat
  BY DEF Line, Types, TypeOK
<1>2. Remaining(line.item, line.quantity) \in Nat
  <2>1. stock[line.item] - line.quantity \in Int
    BY <1>1
  <2>2. QED BY <2>1, MaxOfTwo DEF Remaining
<1>3. issue \in Issue /\ issue.order \in Orders
  BY <1>1, <1>2 DEF Issue
<1>10. issue.order = o /\ issue.item = line.item
  OBVIOUS
<1> HIDE DEF issue
<1>4. a \in Statement /\ b \in Statement
  BY <1>3, MakeOfIssue
<1>5. /\ Before(a, b) /\ a.do = "lower" /\ b.do = "enter"
      /\ a.issue = issue /\ b.issue = issue
  BY DEF Before, Rank, Final
<1> HIDE DEF a, b
<1>6. Sorted(<<a, b>>) /\ Elems(<<a, b>>) = {a, b}
  BY <1>5, ShortLists
<1>7. Paired(<<a, b>>)
  <2>1. DOMAIN <<a, b>> = {1, 2} /\ <<a, b>>[1] = a /\ <<a, b>>[2] = b
    OBVIOUS
  <2>2. QED BY <1>5, <2>1 DEF Paired, PairedAt
<1>8. <<a, b>> \in Seq(Statement) /\ <<a, b>> # << >> /\ Head(<<a, b>>).do = "lower"
  BY <1>4, <1>5
<1>9. \A x \in Elems(<<a, b>>) :
        /\ x.do \in {"lower", "enter"}
        /\ x.issue.order = o /\ x.issue.item = line.item
  BY <1>5, <1>6, <1>10
<1>11. QED BY <1>3, <1>6, <1>7, <1>8, <1>9 DEF Issuing, issue, a, b
-----------------------------------------------------------------------------
(* How a step changes the calls.                                           *)

\* What may come new when the next statement of c is carried out.
New(c, x) ==
  LET s == Head(call[c].todo) IN
  \/ /\ s.do = "find" /\ s.id \in DOMAIN sessions /\ sessions[s.id].status = "ACTIVE"
     /\ \/ x = [do |-> "end", id |-> s.id, status |-> "AUTO_CLOSED"]
        \/ x.do \in {"log", "count"} /\ x.order = sessions[s.id].order
  \/ /\ s.do = "stopAll"
     /\ \E i \in RunningOn(s.order) : x = [do |-> "find", id |-> i]
  \/ s.do = "issueAll" /\ x.do = "check" /\ x.order = s.order
  \/ /\ s.do = "check" /\ ~Had(s.order, s.line.item)
     /\ x.do \in {"lower", "enter"}
     /\ x.issue.order = s.order /\ x.issue.item = s.line.item

\* What must come when it is carried out.
Due(c, todo) ==
  LET s == Head(call[c].todo) IN
  /\ s.do = "find" /\ s.id \in DOMAIN sessions /\ sessions[s.id].status = "ACTIVE"
       => \E x \in todo : x.do = "end" /\ x.id = s.id
  /\ s.do = "stopAll"
       => \A i \in RunningOn(s.order) : \E x \in todo : x.do = "find" /\ x.id = i

Fits(c, more) ==
  /\ Sorted(more) /\ Paired(more)
  /\ \A x \in Elems(more) : New(c, x)
  /\ Due(c, Elems(more))
  /\ more # << >> => Head(more).do \in {"end", "find", "check", "lower"}

LEMMA StepProceeds ==
  ASSUME Types, CallsAreOrderly, NEW c \in Clients, Step(c)
  PROVE  Abort(c) \/ \E more \in Seq(Statement) : Proceed(c, more) /\ Fits(c, more)
<1> DEFINE s == Head(call[c].todo)
<1>1. Busy(c) /\ Doing(c, s.do) /\ s \in Statement
  BY WhichStep, NextStatement
<1>2. CASE s.do = "find"
  <2>1. Find(c)
    BY <1>2, WhichStep
  <2>2. CASE s.id \notin DOMAIN sessions
    BY <2>1, <2>2 DEF Find
  <2>3. CASE s.id \in DOMAIN sessions /\ sessions[s.id].status # "ACTIVE"
    <3>1. Proceed(c, << >>)
      BY <2>1, <2>3 DEF Find
    <3>2. Fits(c, << >>) /\ << >> \in Seq(Statement)
      BY <1>2, <2>3, EmptyList DEF Fits, Due
    <3>3. QED BY <3>1, <3>2
  <2>4. CASE s.id \in DOMAIN sessions /\ sessions[s.id].status = "ACTIVE"
    <3> DEFINE more == Stopping(s.id, "AUTO_CLOSED", FALSE)
    <3>1. Proceed(c, more)
      BY <2>1, <2>4 DEF Find
    <3>2. /\ more \in Seq(Statement) /\ Sorted(more) /\ Paired(more)
          /\ more # << >>
          /\ Head(more) = [do |-> "end", id |-> s.id, status |-> "AUTO_CLOSED"]
          /\ [do |-> "end", id |-> s.id, status |-> "AUTO_CLOSED"] \in Elems(more)
          /\ \A x \in Elems(more) :
               \/ x = [do |-> "end", id |-> s.id, status |-> "AUTO_CLOSED"]
               \/ x.do \in {"log", "count"} /\ x.order = sessions[s.id].order
      BY <2>4, StoppingFits
    <3> HIDE DEF more
    <3>3. \A x \in Elems(more) : New(c, x)
      BY <1>2, <2>4, <3>2 DEF New
    <3>4. Due(c, Elems(more))
      BY <1>2, <3>2 DEF Due
    <3>5. QED BY <3>1, <3>2, <3>3, <3>4 DEF Fits
  <2>5. QED BY <2>2, <2>3, <2>4
<1>3. CASE s.do = "stopAll"
  <2> DEFINE more == [n \in 1..Cardinality(RunningOn(s.order)) |->
                        AutoStop(SetToSeq(RunningOn(s.order))[n])]
  <2>1. Proceed(c, more)
    BY <1>3, WhichStep DEF StopAll
  <2>2. /\ more \in Seq(Statement) /\ Sorted(more) /\ Paired(more)
        /\ Elems(more) = {[do |-> "find", id |-> i] : i \in RunningOn(s.order)}
    BY StopAllFits
  <2> HIDE DEF more
  <2>3. \A x \in Elems(more) : New(c, x)
    BY <1>3, <2>2 DEF New
  <2>4. Due(c, Elems(more))
    <3>1. \A i \in RunningOn(s.order) : \E x \in Elems(more) : x.do = "find" /\ x.id = i
      <4> TAKE i \in RunningOn(s.order)
      <4> DEFINE x == [do |-> "find", id |-> i]
      <4>1. x \in Elems(more)
        BY <2>2
      <4>2. x.do = "find" /\ x.id = i
        OBVIOUS
      <4> HIDE DEF x
      <4>3. QED BY <4>1, <4>2
    <3>2. QED BY <1>3, <3>1 DEF Due
  <2>5. more # << >> => Head(more).do = "find"
    <3> SUFFICES ASSUME more # << >> PROVE Head(more).do = "find"
      OBVIOUS
    <3>1. Head(more) \in Elems(more)
      BY <2>2 DEF Elems
    <3>2. \A x \in Elems(more) : x.do = "find"
      BY <2>2
    <3>3. QED BY <3>1, <3>2
  <2>6. QED BY <2>1, <2>2, <2>3, <2>4, <2>5 DEF Fits
<1>4. CASE s.do = "issueAll"
  <2> DEFINE more == [n \in DOMAIN materials[s.order] |->
                        [do |-> "check", order |-> s.order,
                         line |-> materials[s.order][n]]]
  <2>1. Proceed(c, more)
    BY <1>4, WhichStep DEF IssueAll
  <2>2. s.order \in Orders
    BY <1>1, <1>4, StatementFields
  <2>3. /\ more \in Seq(Statement) /\ Sorted(more) /\ Paired(more)
        /\ \A x \in Elems(more) : x.do = "check" /\ x.order = s.order
    BY <2>2, IssueAllFits
  <2> HIDE DEF more
  <2>4. \A x \in Elems(more) : New(c, x)
    BY <1>4, <2>3 DEF New
  <2>5. Due(c, Elems(more))
    BY <1>4 DEF Due
  <2>6. more # << >> => Head(more).do = "check"
    <3> SUFFICES ASSUME more # << >> PROVE Head(more).do = "check"
      OBVIOUS
    <3>1. Head(more) \in Elems(more)
      BY <2>3 DEF Elems
    <3>2. QED BY <2>3, <3>1
  <2>7. QED BY <2>1, <2>3, <2>4, <2>5, <2>6 DEF Fits
<1>5. CASE s.do = "check"
  <2> DEFINE i == s.line.item
             more == Issuing(s.order, s.line)
  <2>1. Check(c)
    BY <1>5, WhichStep
  <2>2. s.order \in Orders /\ s.line \in Line
    BY <1>1, <1>5, StatementFields
  <2>3. CASE Had(s.order, i)
    <3>1. Proceed(c, << >>)
      BY <2>1, <2>3 DEF Check
    <3>2. Fits(c, << >>) /\ << >> \in Seq(Statement)
      BY <1>5, EmptyList DEF Fits, Due
    <3>3. QED BY <3>1, <3>2
  <2>4. CASE ~Had(s.order, i)
    <3>1. Proceed(c, more)
      BY <2>1, <2>4 DEF Check, Issuing
    <3>2. /\ more \in Seq(Statement) /\ Sorted(more) /\ Paired(more)
          /\ \A x \in Elems(more) :
               /\ x.do \in {"lower", "enter"}
               /\ x.issue.order = s.order /\ x.issue.item = i
          /\ more # << >> /\ Head(more).do = "lower"
      BY <2>2, IssuingFits
    <3> HIDE DEF more
    <3>3. \A x \in Elems(more) : New(c, x)
      BY <1>5, <2>4, <3>2 DEF New
    <3>4. Due(c, Elems(more))
      BY <1>5 DEF Due
    <3>5. QED BY <3>1, <3>2, <3>3, <3>4 DEF Fits
  <2>5. QED BY <2>3, <2>4
<1>6. CASE s.do \notin {"find", "stopAll", "issueAll", "check"}
  <2>1. Proceed(c, << >>) \/ Abort(c)
    BY <1>6, StepFrame DEF Frame
  <2>2. Fits(c, << >>) /\ << >> \in Seq(Statement)
    BY <1>6, EmptyList DEF Fits, Due
  <2>3. QED BY <2>1, <2>2
<1>7. QED BY <1>2, <1>3, <1>4, <1>5, <1>6

\* What a step makes of the calls: those of others are left alone, and c goes
\* on with the rest or gives up.
Moves(c) ==
  LET s == Head(call[c].todo)
      next == Head(call'[c].todo)
  IN  /\ call' \in [Clients -> Call]
      /\ \A d \in Clients : /\ call'[d].orders = call[d].orders
                            /\ call'[d].rewrites = call[d].rewrites
                            /\ Busy(d)' => Busy(d)
      /\ \A d \in Clients \ {c} : call'[d] = call[d] /\ Todo(d)' = Todo(d)
      /\ Sorted(call'[c].todo) /\ Paired(call'[c].todo)
      /\ \A x \in Todo(c)' : x \in Statement /\ (x \in Rest(c) \/ New(c, x))
      /\ \/ Todo(c)' = {} /\ ~Busy(c)'
         \/ Rest(c) \subseteq Todo(c)' /\ Due(c, Todo(c)')
      /\ Busy(c)' =>
           /\ s.do \notin Final
           /\ next.do # "setHours"
           /\ next.do = "count" => /\ s.do = "log" /\ s.order = next.order
                                   /\ s.hours = next.hours
           /\ next.do = "dropLog" => s.do = "setHours" /\ next = call[c].todo[2]

LEMMA StepMoves ==
  ASSUME Types, CallsAreOrderly, NEW c \in Clients, Step(c)
  PROVE  Moves(c)
<1> DEFINE s == Head(call[c].todo)
           todo == call[c].todo
           rest == Tail(todo)
<1>1. /\ Busy(c) /\ Doing(c, s.do) /\ s \in Statement
      /\ Rest(c) \subseteq Statement /\ \A x \in Rest(c) : Before(s, x)
      /\ s.do \in Final => rest = << >>
  BY WhichStep, NextStatement
<1>2. /\ todo \in Seq(Statement) /\ todo # << >> /\ Sorted(todo) /\ Paired(todo)
  BY <1>1 DEF Types, Call, Busy, CallsAreOrderly
<1>3. CASE Abort(c)
  <2>1. /\ call' \in [Clients -> Call]
        /\ call'[c].todo = << >> /\ Todo(c)' = {} /\ ~Busy(c)'
        /\ call'[c].orders = call[c].orders /\ call'[c].rewrites = call[c].rewrites
        /\ \A d \in Clients \ {c} : call'[d] = call[d] /\ Todo(d)' = Todo(d)
        /\ \A d \in Clients : Busy(d)' => Busy(d)
    BY <1>1, <1>3, Aborted
  <2>2. Sorted(call'[c].todo) /\ Paired(call'[c].todo)
    BY <2>1, EmptyList
  <2>3. QED BY <2>1, <2>2 DEF Moves
<1>4. ASSUME NEW more \in Seq(Statement), Proceed(c, more), Fits(c, more)
      PROVE  Moves(c)
  <2>1. /\ call' \in [Clients -> Call]
        /\ call'[c].todo = more \o rest
        /\ Todo(c)' = Elems(more) \cup Rest(c)
        /\ call'[c].orders = call[c].orders /\ call'[c].rewrites = call[c].rewrites
        /\ \A d \in Clients \ {c} : call'[d] = call[d] /\ Todo(d)' = Todo(d)
        /\ \A d \in Clients : Busy(d)' => Busy(d)
    BY <1>1, <1>4, Proceeded
  <2>2. \A x \in Elems(more) : x \in Statement
    BY DEF Elems
  <2>3. /\ rest \in Seq(Statement) /\ Sorted(rest) /\ Paired(rest)
        /\ rest # << >> =>
             LET y == Head(rest) IN
             /\ y.do = "count" => /\ s.do = "log" /\ s.order = y.order
                                  /\ s.hours = y.hours
             /\ y.do = "dropLog" <=> s.do = "setHours"
             /\ y = todo[2]
    BY <1>2, TailOrderly
  <2> HIDE DEF rest
  <2>4. Rest(c) = Elems(rest)
    BY DEF Rest, rest
  <2>5. rest # << >> => Head(rest) \in Rest(c)
    BY <2>3, <2>4 DEF Elems
  <2>6. \A x \in Elems(more), y \in Elems(rest) : Before(x, y)
    <3> SUFFICES ASSUME NEW x \in Elems(more), NEW y \in Rest(c)
                 PROVE  Before(x, y)
      BY <2>4
    <3>1. New(c, x) /\ Before(s, y)
      BY <1>1, <1>4 DEF Fits
    <3>2. y.do \in DOMAIN Rank /\ Rank[y.do] \in 0..13
      BY <1>1, StatementFields
    <3>3. \/ s.do = "find" /\ x.do \in {"end", "log", "count"}
          \/ s.do = "stopAll" /\ x.do = "find"
          \/ s.do = "issueAll" /\ x.do = "check"
          \/ s.do = "check" /\ x.do \in {"lower", "enter"}
      BY <3>1 DEF New
    <3>4. CASE s.do = "find"
      <4>1. Rank[y.do] >= 8
        BY <3>1, <3>2, <3>4 DEF Before, Rank
      <4>2. x.do \notin Final /\ Rank[x.do] < 8 /\ Rank[x.do] \in Nat
        BY <3>3, <3>4 DEF Rank, Final
      <4>3. QED BY <3>2, <4>1, <4>2 DEF Before
    <3>5. CASE s.do = "stopAll"
      <4>1. Rank[y.do] > 8
        BY <3>1, <3>2, <3>5 DEF Before, Rank
      <4>2. x.do \notin Final /\ Rank[x.do] = 8
        BY <3>3, <3>5 DEF Rank, Final
      <4>3. QED BY <3>2, <4>1, <4>2 DEF Before
    <3>6. CASE s.do = "issueAll"
      <4>1. Rank[y.do] > 11
        BY <3>1, <3>2, <3>6 DEF Before, Rank
      <4>2. x.do \notin Final /\ Rank[x.do] = 11
        BY <3>3, <3>6 DEF Rank, Final
      <4>3. QED BY <3>2, <4>1, <4>2 DEF Before
    <3>7. CASE s.do = "check"
      <4>1. Rank[y.do] >= 11
        BY <3>1, <3>2, <3>7 DEF Before, Rank
      <4>2. x.do \notin Final /\ Rank[x.do] < 11 /\ Rank[x.do] \in Nat
        BY <3>3, <3>7 DEF Rank, Final
      <4>3. QED BY <3>2, <4>1, <4>2 DEF Before
    <3>8. QED BY <3>3, <3>4, <3>5, <3>6, <3>7
  <2>7. more # << >> =>
          /\ s.do \in {"find", "stopAll", "issueAll", "check"}
          /\ Head(more).do \in {"end", "find", "check", "lower"}
    <3> SUFFICES ASSUME more # << >>
                 PROVE  /\ s.do \in {"find", "stopAll", "issueAll", "check"}
                        /\ Head(more).do \in {"end", "find", "check", "lower"}
      OBVIOUS
    <3>1. Head(more) \in Elems(more)
      BY DEF Elems
    <3>2. New(c, Head(more)) /\ Head(more).do \in {"end", "find", "check", "lower"}
      BY <1>4, <3>1 DEF Fits
    <3>3. QED BY <3>2 DEF New
  <2>8. more = << >> \/ rest = << >> \/ Head(rest).do \notin {"count", "dropLog"}
    BY <2>3, <2>7
  <2>9. /\ Sorted(more \o rest) /\ Paired(more \o rest)
        /\ more # << >> => Head(more \o rest) = Head(more)
        /\ more = << >> => more \o rest = rest
    BY <1>4, <2>3, <2>6, <2>8, Concatenated DEF Fits
  <2>10. rest # << >> => Head(rest).do # "setHours" /\ s.do \notin Final
    <3> SUFFICES ASSUME rest # << >> PROVE Head(rest).do # "setHours" /\ s.do \notin Final
      OBVIOUS
    <3>1. Before(s, Head(rest)) /\ s.do \in DOMAIN Rank
      BY <1>1, <2>5, StatementFields
    <3>2. QED BY <3>1 DEF Before, Rank, Final
  <2>11. ASSUME Busy(c)'
         PROVE  LET next == Head(call'[c].todo) IN
                /\ s.do \notin Final
                /\ next.do # "setHours"
                /\ next.do = "count" => /\ s.do = "log" /\ s.order = next.order
                                        /\ s.hours = next.hours
                /\ next.do = "dropLog" => s.do = "setHours" /\ next = todo[2]
    <3>1. CASE more # << >>
      BY <2>1, <2>7, <2>9, <3>1 DEF Final
    <3>2. CASE more = << >>
      <4>1. call'[c].todo = rest /\ rest # << >>
        BY <2>1, <2>9, <2>11, <3>2 DEF Busy
      <4>2. QED BY <2>3, <2>10, <4>1
    <3>3. QED BY <3>1, <3>2
  <2>12. Due(c, Todo(c)')
    BY <1>4, <2>1 DEF Fits, Due
  <2>13. \A x \in Todo(c)' : x \in Statement /\ (x \in Rest(c) \/ New(c, x))
    BY <1>1, <1>4, <2>1, <2>2 DEF Fits
  <2>14. QED
    BY <2>1, <2>9, <2>11, <2>12, <2>13 DEF Moves
<1>5. QED BY <1>3, <1>4, StepProceeds
-----------------------------------------------------------------------------
(* How a step changes the tables.                                          *)

LEMMA SessionsAfter ==
  ASSUME Types, CallsAreOrderly, NEW c \in Clients, Step(c)
  PROVE  LET s == Head(call[c].todo)
             new == last.session + 1
         IN  \/ sessions' = sessions /\ last'.session = last.session
             \/ /\ s.do = "open" /\ s.order \in Orders /\ Exists(s.order)
                /\ last'.session = new /\ DOMAIN sessions' = DOMAIN sessions \cup {new}
                /\ \A i \in DOMAIN sessions : sessions'[i] = sessions[i]
                /\ sessions'[new] = [order |-> s.order, user |-> c, start |-> now,
                                     status |-> "ACTIVE"]
             \/ /\ s.do = "end" /\ s.id \in DOMAIN sessions
                /\ s.status \in {"COMPLETED", "AUTO_CLOSED"}
                /\ last'.session = last.session /\ DOMAIN sessions' = DOMAIN sessions
                /\ \A i \in DOMAIN sessions : i # s.id => sessions'[i] = sessions[i]
                /\ sessions'[s.id] = [sessions[s.id] EXCEPT !.status = s.status]
             \/ /\ s.do = "delete" /\ last'.session = last.session
                /\ DOMAIN sessions' = {i \in DOMAIN sessions : sessions[i].order # s.order}
                /\ \A i \in DOMAIN sessions' : sessions'[i] = sessions[i]
<1> DEFINE s == Head(call[c].todo)
<1>1. Busy(c) /\ Doing(c, s.do) /\ s \in Statement
  BY WhichStep, NextStatement
<1>2. /\ last \in [session : Nat, log : Nat] /\ DOMAIN sessions \subseteq 1..last.session
      /\ last.session \in Nat
  BY DEF Types, TypeOK
<1>3. CASE s.do \notin {"open", "end", "delete", "log"}
  BY <1>3, StepFrame DEF Frame
<1>4. CASE s.do = "open"
  <2>1. OpenSession(c)
    BY <1>4, WhichStep
  <2>2. s.order \in Orders
    BY <1>1, <1>4, StatementFields
  <2> DEFINE row == [order |-> s.order, user |-> c, start |-> now, status |-> "ACTIVE"]
             new == last.session + 1
  <2>3. CASE ~Exists(s.order)
    BY <2>1, <2>3 DEF OpenSession
  <2>4. CASE Exists(s.order)
    <3>1. last' = [last EXCEPT !.session = @ + 1] /\ sessions' = Put(sessions, last'.session, row)
      BY <2>1, <2>4 DEF OpenSession
    <3>2. last'.session = new
      BY <1>2, <3>1
    <3>3. sessions' = Put(sessions, new, row) /\ new \notin DOMAIN sessions
      BY <1>2, <3>1, <3>2
    <3> HIDE DEF row, new
    <3>4. /\ DOMAIN sessions' = DOMAIN sessions \cup {new} /\ sessions'[new] = row
          /\ \A i \in DOMAIN sessions : sessions'[i] = sessions[i]
      BY <3>3 DEF Put
    <3>5. QED BY <1>4, <2>2, <2>4, <3>2, <3>4 DEF row, new
  <2>5. QED BY <2>3, <2>4
<1>5. CASE s.do = "end"
  <2>1. EndSession(c)
    BY <1>5, WhichStep
  <2>2. s.status \in {"COMPLETED", "AUTO_CLOSED"}
    BY <1>1, <1>5, StatementFields
  <2>3. last' = last
    BY <2>1 DEF EndSession
  <2>4. CASE s.id \notin DOMAIN sessions
    BY <2>1, <2>3, <2>4 DEF EndSession
  <2>5. CASE s.id \in DOMAIN sessions
    <3>1. sessions' = [sessions EXCEPT ![s.id].status = s.status]
      BY <2>1, <2>5 DEF EndSession
    <3>2. QED BY <1>5, <2>2, <2>3, <2>5, <3>1
  <2>6. QED BY <2>4, <2>5
<1>6. CASE s.do = "delete"
  <2>1. sessions' = Without(sessions, s.order) /\ last' = last
    BY <1>6, WhichStep DEF Delete
  <2>2. /\ DOMAIN sessions' = {i \in DOMAIN sessions : sessions[i].order # s.order}
        /\ \A i \in DOMAIN sessions' : sessions'[i] = sessions[i]
    BY <2>1 DEF Without
  <2>3. QED BY <1>6, <2>1, <2>2
<1>7. CASE s.do = "log"
  <2>1. Log(c)
    BY <1>7, WhichStep
  <2>2. sessions' = sessions /\ (last' = last \/ last' = [last EXCEPT !.log = @ + 1])
    BY <2>1 DEF Log
  <2>3. QED BY <1>2, <2>2
<1>8. QED BY <1>3, <1>4, <1>5, <1>6, <1>7

LEMMA LogsAfter ==
  ASSUME Types, CallsAreOrderly, NEW c \in Clients, Step(c)
  PROVE  LET s == Head(call[c].todo)
             new == last.log + 1
         IN  \/ logs' = logs /\ last'.log = last.log
             \/ /\ s.do = "log" /\ s.order \in Orders /\ Exists(s.order)
                /\ s.user \in Clients /\ s.hours \in Nat
                /\ last'.log = new /\ DOMAIN logs' = DOMAIN logs \cup {new}
                /\ \A l \in DOMAIN logs : logs'[l] = logs[l]
                /\ logs'[new] = [order |-> s.order, user |-> s.user, hours |-> s.hours]
                /\ Proceed(c, << >>)
             \/ /\ s.do = "dropLog" /\ last'.log = last.log
                /\ DOMAIN logs' = DOMAIN logs \ {s.id}
                /\ \A l \in DOMAIN logs' : logs'[l] = logs[l]
             \/ /\ s.do = "delete" /\ last'.log = last.log
                /\ DOMAIN logs' = {l \in DOMAIN logs : logs[l].order # s.order}
                /\ \A l \in DOMAIN logs' : logs'[l] = logs[l]
<1> DEFINE s == Head(call[c].todo)
<1>1. Busy(c) /\ Doing(c, s.do) /\ s \in Statement
  BY WhichStep, NextStatement
<1>2. /\ last \in [session : Nat, log : Nat] /\ DOMAIN logs \subseteq 1..last.log
      /\ last.log \in Nat
  BY DEF Types, TypeOK
<1>3. CASE s.do \notin {"log", "dropLog", "delete", "open"}
  BY <1>3, StepFrame DEF Frame
<1>4. CASE s.do = "log"
  <2>1. Log(c)
    BY <1>4, WhichStep
  <2>2. s.order \in Orders /\ s.user \in Clients /\ s.hours \in Nat
    BY <1>1, <1>4, StatementFields
  <2> DEFINE row == [order |-> s.order, user |-> s.user, hours |-> s.hours]
             new == last.log + 1
  <2>3. CASE ~Exists(s.order)
    BY <2>1, <2>3 DEF Log
  <2>4. CASE Exists(s.order)
    <3>1. /\ last' = [last EXCEPT !.log = @ + 1] /\ logs' = Put(logs, last'.log, row)
          /\ Proceed(c, << >>)
      BY <2>1, <2>4 DEF Log
    <3>2. last'.log = new
      BY <1>2, <3>1
    <3>3. logs' = Put(logs, new, row) /\ new \notin DOMAIN logs
      BY <1>2, <3>1, <3>2
    <3> HIDE DEF row, new
    <3>4. /\ DOMAIN logs' = DOMAIN logs \cup {new} /\ logs'[new] = row
          /\ \A l \in DOMAIN logs : logs'[l] = logs[l]
      BY <3>3 DEF Put
    <3>5. QED BY <1>4, <2>2, <2>4, <3>1, <3>2, <3>4 DEF row, new
  <2>5. QED BY <2>3, <2>4
<1>5. CASE s.do = "dropLog"
  <2>1. logs' = [l \in DOMAIN logs \ {s.id} |-> logs[l]] /\ last' = last
    BY <1>5, WhichStep DEF DropLog
  <2>2. QED BY <1>5, <2>1
<1>6. CASE s.do = "delete"
  <2>1. logs' = Without(logs, s.order) /\ last' = last
    BY <1>6, WhichStep DEF Delete
  <2>2. /\ DOMAIN logs' = {l \in DOMAIN logs : logs[l].order # s.order}
        /\ \A l \in DOMAIN logs' : logs'[l] = logs[l]
    BY <2>1 DEF Without
  <2>3. QED BY <1>6, <2>1, <2>2
<1>7. CASE s.do = "open"
  <2>1. OpenSession(c)
    BY <1>7, WhichStep
  <2>2. logs' = logs /\ (last' = last \/ last' = [last EXCEPT !.session = @ + 1])
    BY <2>1 DEF OpenSession
  <2>3. QED BY <1>2, <2>2
<1>8. QED BY <1>3, <1>4, <1>5, <1>6, <1>7

\* An order's row is changed by the statement that names it.
OrderChanges(c) ==
  LET s == Head(call[c].todo)
      old == orders[s.order]
      new == orders'[s.order]
  IN  /\ s.do \in {"insert", "resume", "count", "setHours", "write", "delete"}
      /\ s.order \in Orders /\ orders' \in [Orders -> OrderRow]
      /\ \A o \in Orders : o # s.order => orders'[o] = orders[o]
      /\ s.do = "insert" => old.status = "NEW" /\ new.status = "ASSIGNED"
      /\ s.do = "delete" => new.status = "GONE" /\ new.hours = 0
      /\ s.do \notin {"insert", "delete"} => Exists(s.order)
      /\ s.do \in {"count", "setHours"} => new.status = old.status
      /\ s.do \in {"insert", "resume"} => new.hours = old.hours
      /\ s.do = "resume" =>
           new.status = IF s.waited THEN "IN_PROGRESS" ELSE old.status
      /\ s.do = "count" => new.hours = old.hours + s.hours
      /\ s.do = "setHours" => new.hours = s.hours /\ Proceed(c, << >>)
      /\ s.do = "write" => /\ new.status = Or(s.row.status, old.status)
                           /\ new.hours = Or(s.row.hours, old.hours)

LEMMA OrdersAfter ==
  ASSUME Types, CallsAreOrderly, NEW c \in Clients, Step(c)
  PROVE  orders' = orders \/ OrderChanges(c)
<1> DEFINE s == Head(call[c].todo)
           o == s.order
           old == orders[o]
<1>1. Busy(c) /\ Doing(c, s.do) /\ s \in Statement
  BY WhichStep, NextStatement
<1>2. orders \in [Orders -> OrderRow] /\ now \in Times
  BY DEF Types, TypeOK
<1>3. CASE s.do \notin {"insert", "resume", "count", "setHours", "write", "delete"}
  BY <1>3, StepFrame DEF Frame
<1>4. ASSUME s.do \in {"insert", "resume", "count", "setHours", "write", "delete"}
      PROVE  o \in Orders /\ old \in OrderRow
  BY <1>1, <1>2, <1>4, StatementFields
<1>5. ASSUME s.do \in {"insert", "resume", "count", "setHours", "write", "delete"},
             NEW row \in OrderRow, orders' = [orders EXCEPT ![o] = row]
      PROVE  /\ orders' \in [Orders -> OrderRow] /\ orders'[o] = row
             /\ \A p \in Orders : p # o => orders'[p] = orders[p]
  BY <1>2, <1>4, <1>5
<1>6. CASE s.do = "insert"
  <2>1. Insert(c) /\ s.code \in Nat
    BY <1>1, <1>6, WhichStep, StatementFields
  <2> DEFINE row == [old EXCEPT !.status = "ASSIGNED", !.code = s.code]
  <2>2. orders' = orders \/ (old.status = "NEW" /\ orders' = [orders EXCEPT ![o] = row])
    BY <2>1 DEF Insert
  <2>3. row \in OrderRow /\ row.status = "ASSIGNED" /\ row.hours = old.hours
    BY <1>4, <1>6, <2>1 DEF OrderRow, Statuses
  <2> HIDE DEF row
  <2>4. QED BY <1>4, <1>5, <1>6, <2>2, <2>3 DEF OrderChanges
<1>7. CASE s.do = "resume"
  <2>1. Resume(c)
    BY <1>7, WhichStep
  <2> DEFINE status == IF s.waited THEN "IN_PROGRESS" ELSE old.status
             started == IF s.starts THEN now ELSE old.started
             row == [old EXCEPT !.status = status, !.started = started]
  <2>2. orders' = orders \/ (Exists(o) /\ orders' = [orders EXCEPT ![o] = row])
    BY <2>1 DEF Resume
  <2>3. /\ status \in Statuses \cup {"NEW", "GONE"}
        /\ started \in Times \cup {None}
    BY <1>2, <1>4, <1>7 DEF OrderRow, Statuses
  <2> HIDE DEF status, started
  <2>4. row \in OrderRow /\ row.status = status /\ row.hours = old.hours
    BY <1>4, <1>7, <2>3 DEF OrderRow
  <2> HIDE DEF row
  <2>5. QED BY <1>4, <1>5, <1>7, <2>2, <2>4 DEF OrderChanges, status
<1>8. CASE s.do = "count"
  <2>1. Count(c) /\ s.hours \in Nat
    BY <1>1, <1>8, WhichStep, StatementFields
  <2> DEFINE row == [old EXCEPT !.hours = @ + s.hours]
  <2>2. orders' = orders \/ (Exists(o) /\ orders' = [orders EXCEPT ![o] = row])
    BY <2>1 DEF Count
  <2>3. row \in OrderRow /\ row.status = old.status /\ row.hours = old.hours + s.hours
    BY <1>4, <1>8, <2>1 DEF OrderRow
  <2> HIDE DEF row
  <2>4. QED BY <1>4, <1>5, <1>8, <2>2, <2>3 DEF OrderChanges
<1>9. CASE s.do = "setHours"
  <2>1. SetHours(c) /\ s.hours \in Nat
    BY <1>1, <1>9, WhichStep, StatementFields
  <2> DEFINE row == [old EXCEPT !.hours = s.hours]
  <2>2. \/ orders' = orders
        \/ /\ Exists(o) /\ orders' = [orders EXCEPT ![o] = row]
           /\ Proceed(c, << >>)
    BY <2>1 DEF SetHours
  <2>3. row \in OrderRow /\ row.status = old.status /\ row.hours = s.hours
    BY <1>4, <1>9, <2>1 DEF OrderRow
  <2> HIDE DEF row
  <2>4. QED BY <1>4, <1>5, <1>9, <2>2, <2>3 DEF OrderChanges
<1>10. CASE s.do = "write"
  <2>1. Write(c) /\ s.row \in UpdateRow
    BY <1>1, <1>10, WhichStep, StatementFields
  <2> DEFINE row == [code |-> old.code,
                     status |-> Or(s.row.status, old.status),
                     hours |-> Or(s.row.hours, old.hours),
                     started |-> Or(s.row.started, old.started),
                     ended |-> Or(s.row.ended, old.ended)]
  <2>2. orders' = orders \/ (Exists(o) /\ orders' = [orders EXCEPT ![o] = row])
    BY <2>1 DEF Write
  <2>3. row \in OrderRow
    BY <1>4, <1>10, <2>1 DEF OrderRow, UpdateRow, Or
  <2>4. /\ row.status = Or(s.row.status, old.status)
        /\ row.hours = Or(s.row.hours, old.hours)
    OBVIOUS
  <2> HIDE DEF row
  <2>5. QED BY <1>4, <1>5, <1>10, <2>2, <2>3, <2>4 DEF OrderChanges
<1>11. CASE s.do = "delete"
  <2> DEFINE row == [Absent EXCEPT !.status = "GONE"]
  <2>1. orders' = [orders EXCEPT ![o] = row]
    BY <1>11, WhichStep DEF Delete
  <2>2. row \in OrderRow /\ row.status = "GONE" /\ row.hours = 0
    BY DEF Absent, OrderRow
  <2> HIDE DEF row
  <2>3. QED BY <1>4, <1>5, <1>11, <2>1, <2>2 DEF OrderChanges
<1>12. QED BY <1>3, <1>6, <1>7, <1>8, <1>9, <1>10, <1>11

LEMMA StatementGrows ==
  ASSUME load' = load, last \in [session : Nat, log : Nat],
         last' \in [session : Nat, log : Nat],
         last'.session >= last.session, last'.log >= last.log
  PROVE  Statement \subseteq Statement' /\ Call \subseteq Call'
<1>1. Times' = Times
  BY DEF Times
<1>2. UpdateRow' = UpdateRow
  BY <1>1 DEF UpdateRow
<1>3. OfOrder' = OfOrder /\ OfIssue' = OfIssue
  BY <1>2 DEF OfOrder, OfIssue
<1>4. 1..last.session \subseteq 1..last'.session /\ 1..last.log \subseteq 1..last'.log
  OBVIOUS
<1>5. OfSession \subseteq OfSession' /\ OfLog \subseteq OfLog'
  BY <1>4 DEF OfSession, OfLog
<1>6. Statement \subseteq Statement'
  BY <1>3, <1>5 DEF Statement
<1>7. ASSUME NEW x \in Call PROVE x \in Call'
  <2>1. /\ x = [todo |-> x.todo, orders |-> x.orders, rewrites |-> x.rewrites]
        /\ x.todo \in Seq(Statement) /\ x.orders \in SUBSET Orders
        /\ x.rewrites \in BOOLEAN
    BY DEF Call
  <2>2. x.todo \in Seq(Statement')
    BY <1>6, <2>1, SeqMonotonic
  <2>3. QED BY <2>1, <2>2 DEF Call
<1>8. QED BY <1>6, <1>7

LEMMA LastStep ==
  ASSUME Types, CallsAreOrderly, NEW c \in Clients, Step(c)
  PROVE  /\ last \in [session : Nat, log : Nat] /\ last' \in [session : Nat, log : Nat]
         /\ last'.session >= last.session /\ last'.log >= last.log
<1> DEFINE s == Head(call[c].todo)
<1>1. last \in [session : Nat, log : Nat]
  BY DEF Types
<1>2. CASE s.do \notin {"open", "log"}
  BY <1>1, <1>2, StepFrame DEF Frame
<1>3. CASE s.do = "open"
  <2>1. last' = last \/ last' = [last EXCEPT !.session = @ + 1]
    BY <1>3, WhichStep DEF OpenSession
  <2>2. QED BY <1>1, <2>1
<1>4. CASE s.do = "log"
  <2>1. last' = last \/ last' = [last EXCEPT !.log = @ + 1]
    BY <1>4, WhichStep DEF Log
  <2>2. QED BY <1>1, <2>1
<1>5. QED BY <1>2, <1>3, <1>4

LEMMA TypesStep ==
  ASSUME Types, CallsAreOrderly, NEW c \in Clients, Step(c)
  PROVE  Types'
<1> DEFINE s == Head(call[c].todo)
<1>1. Busy(c) /\ Doing(c, s.do) /\ s \in Statement
  BY WhichStep, NextStatement
<1>2. Frame(c) /\ Moves(c)
  BY StepFrame, StepMoves
<1>3. load' = load /\ now' = now /\ clashed' = clashed /\ restarts' = restarts
  BY <1>2 DEF Frame
<1>4. /\ last \in [session : Nat, log : Nat] /\ last' \in [session : Nat, log : Nat]
      /\ last'.session >= last.session /\ last'.log >= last.log
  BY LastStep
<1>5. Times' = Times /\ OrderRow' = OrderRow /\ Session' = Session
  BY <1>3 DEF Times, OrderRow, Session
<1>6. orders' \in [Orders -> OrderRow]
  BY OrdersAfter DEF Types, TypeOK, OrderChanges
<1>7. materials' \in [Orders -> Seq(Line)]
  <2>1. materials \in [Orders -> Seq(Line)]
    BY DEF Types, TypeOK, Line
  <2>2. CASE s.do = "insert"
    BY <1>1, <2>1, <2>2, WhichStep, StatementFields DEF Insert
  <2>3. CASE s.do = "dropLines"
    <3>1. materials' = [materials EXCEPT ![s.order] = << >>]
      BY <2>3, WhichStep DEF DropLines
    <3>2. QED BY <2>1, <3>1, EmptyList
  <2>4. CASE s.do = "addLines"
    <3>1. s.order \in Orders /\ s.lines \in Seq(Line)
      BY <1>1, <2>4, StatementFields
    <3>2. materials[s.order] \o s.lines \in Seq(Line)
      BY <2>1, <3>1
    <3>3. \/ materials' = materials
          \/ materials' = [materials EXCEPT ![s.order] = @ \o s.lines]
      BY <2>4, WhichStep DEF AddLines
    <3>4. QED BY <2>1, <3>1, <3>2, <3>3
  <2>5. CASE s.do = "delete"
    <3>1. materials' = [materials EXCEPT ![s.order] = << >>]
      BY <2>5, WhichStep DEF Delete
    <3>2. QED BY <2>1, <3>1, EmptyList
  <2>6. CASE s.do \notin {"insert", "dropLines", "addLines", "delete"}
    BY <1>2, <2>1, <2>6 DEF Frame
  <2>7. QED BY <2>2, <2>3, <2>4, <2>5, <2>6
<1>8. DOMAIN sessions' \subseteq 1..last'.session /\ sessions' \in [DOMAIN sessions' -> Session]
  <2> DEFINE new == last.session + 1
  <2>1. /\ DOMAIN sessions \subseteq 1..last.session /\ sessions \in [DOMAIN sessions -> Session]
        /\ last.session \in Nat /\ now \in Times
    BY <1>4 DEF Types, TypeOK
  <2>2. CASE sessions' = sessions /\ last'.session = last.session
    BY <2>1, <2>2
  <2>3. CASE /\ s.do = "open" /\ s.order \in Orders /\ Exists(s.order)
             /\ last'.session = new /\ DOMAIN sessions' = DOMAIN sessions \cup {new}
             /\ \A i \in DOMAIN sessions : sessions'[i] = sessions[i]
             /\ sessions'[new] = [order |-> s.order, user |-> c, start |-> now,
                                  status |-> "ACTIVE"]
    <3>1. DOMAIN sessions' \subseteq 1..last'.session
      BY <2>1, <2>3
    <3>2. sessions'[new] \in Session
      BY <2>1, <2>3 DEF Session
    <3>3. \A i \in DOMAIN sessions' : sessions'[i] \in Session
      BY <2>1, <2>3, <3>2
    <3>4. sessions' = [i \in DOMAIN sessions' |-> sessions'[i]]
      <4>1. OpenSession(c)
        BY <2>3, WhichStep
      <4>2. QED BY <4>1, <2>3, <1>4 DEF OpenSession, Put
    <3>5. QED BY <3>1, <3>3, <3>4
  <2>4. CASE /\ s.do = "end" /\ s.id \in DOMAIN sessions
             /\ s.status \in {"COMPLETED", "AUTO_CLOSED"}
             /\ last'.session = last.session /\ DOMAIN sessions' = DOMAIN sessions
             /\ \A i \in DOMAIN sessions : i # s.id => sessions'[i] = sessions[i]
             /\ sessions'[s.id] = [sessions[s.id] EXCEPT !.status = s.status]
    <3>1. sessions'[s.id] \in Session
      BY <2>1, <2>4 DEF Session
    <3>2. \A i \in DOMAIN sessions' : sessions'[i] \in Session
      BY <2>1, <2>4, <3>1
    <3>3. sessions' = sessions \/ sessions' = [sessions EXCEPT ![s.id].status = s.status]
      BY <2>4, WhichStep DEF EndSession
    <3>4. sessions' = [i \in DOMAIN sessions' |-> sessions'[i]]
      BY <2>1, <3>3
    <3>5. QED BY <2>1, <2>4, <3>2, <3>4
  <2>5. CASE /\ s.do = "delete" /\ last'.session = last.session
             /\ DOMAIN sessions' = {i \in DOMAIN sessions : sessions[i].order # s.order}
             /\ \A i \in DOMAIN sessions' : sessions'[i] = sessions[i]
    <3>1. sessions' = Without(sessions, s.order)
      BY <2>5, WhichStep DEF Delete
    <3>2. QED BY <2>1, <2>5, <3>1 DEF Without
  <2>6. QED BY <2>2, <2>3, <2>4, <2>5, SessionsAfter
<1>9. DOMAIN logs' \subseteq 1..last'.log /\ logs' \in [DOMAIN logs' -> LogRow]
  <2> DEFINE new == last.log + 1
  <2>1. /\ DOMAIN logs \subseteq 1..last.log /\ logs \in [DOMAIN logs -> LogRow]
        /\ last.log \in Nat
    BY <1>4 DEF Types, TypeOK
  <2>2. CASE logs' = logs /\ last'.log = last.log
    BY <2>1, <2>2
  <2>3. CASE /\ s.do = "log" /\ s.order \in Orders /\ Exists(s.order)
             /\ s.user \in Clients /\ s.hours \in Nat
             /\ last'.log = new /\ DOMAIN logs' = DOMAIN logs \cup {new}
             /\ \A l \in DOMAIN logs : logs'[l] = logs[l]
             /\ logs'[new] = [order |-> s.order, user |-> s.user, hours |-> s.hours]
    <3>1. DOMAIN logs' \subseteq 1..last'.log
      BY <2>1, <2>3
    <3>2. logs'[new] \in LogRow
      BY <2>1, <2>3 DEF LogRow
    <3>3. \A l \in DOMAIN logs' : logs'[l] \in LogRow
      BY <2>1, <2>3, <3>2
    <3>4. logs' = [l \in DOMAIN logs' |-> logs'[l]]
      <4>1. Log(c)
        BY <2>3, WhichStep
      <4>2. QED BY <4>1, <2>3, <1>4 DEF Log, Put
    <3>5. QED BY <3>1, <3>3, <3>4
  <2>4. CASE s.do = "dropLog"
    <3>1. logs' = [l \in DOMAIN logs \ {s.id} |-> logs[l]] /\ last' = last
      BY <2>4, WhichStep DEF DropLog
    <3>2. QED BY <2>1, <3>1
  <2>5. CASE s.do = "delete"
    <3>1. logs' = Without(logs, s.order) /\ last' = last
      BY <2>5, WhichStep DEF Delete
    <3>2. QED BY <2>1, <3>1 DEF Without
  <2>6. QED BY <2>2, <2>3, <2>4, <2>5, LogsAfter
<1>10. stock' \in [Items -> Nat]
  <2>1. stock \in [Items -> Nat]
    BY DEF Types, TypeOK
  <2>2. CASE s.do # "lower"
    BY <1>2, <2>1, <2>2 DEF Frame
  <2>3. CASE s.do = "lower"
    BY <1>1, <2>1, <2>3, WhichStep, StatementFields DEF Lower, Issue
  <2>4. QED BY <2>2, <2>3
<1>11. ledger' \in Seq(Issue)
  <2>1. ledger \in Seq(Issue)
    BY DEF Types, TypeOK
  <2>2. CASE s.do \notin {"enter", "delete"}
    BY <1>2, <2>1, <2>2 DEF Frame
  <2>3. CASE s.do = "enter"
    BY <1>1, <2>1, <2>3, WhichStep, StatementFields DEF Enter
  <2>4. CASE s.do = "delete"
    <3> DEFINE gone(n) == IF ledger[n].order = s.order
                          THEN [ledger[n] EXCEPT !.order = None] ELSE ledger[n]
    <3>1. ledger' = [n \in DOMAIN ledger |-> gone(n)]
      BY <2>4, WhichStep DEF Delete
    <3>2. \A issue \in Issue : [issue EXCEPT !.order = None] \in Issue
      BY DEF Issue
    <3>3. /\ DOMAIN ledger = 1..Len(ledger) /\ Len(ledger) \in Nat
          /\ \A n \in DOMAIN ledger : ledger[n] \in Issue
      BY <2>1
    <3>5. \A n \in DOMAIN ledger : gone(n) \in Issue
      BY <3>2, <3>3
    <3> HIDE DEF gone
    <3>6. QED BY <3>1, <3>3, <3>5
  <2>5. QED BY <2>2, <2>3, <2>4
<1>12. written' \in [Orders -> SUBSET {"hand", "clock"}]
  <2>1. written \in [Orders -> SUBSET {"hand", "clock"}]
    BY DEF Types
  <2>2. CASE s.do # "write"
    BY <1>2, <2>1, <2>2 DEF Frame
  <2>3. CASE s.do = "write"
    <3>1. s.order \in Orders /\ s.row.by \in SUBSET {"hand", "clock"}
      BY <1>1, <2>3, StatementFields DEF UpdateRow
    <3>2. written' = written \/ written' = [written EXCEPT ![s.order] = @ \cup s.row.by]
      BY <2>3, WhichStep DEF Write
    <3>3. QED BY <2>1, <3>1, <3>2
  <2>4. QED BY <2>2, <2>3
<1>13. call' \in [Clients -> Call']
  <2>1. call' \in [Clients -> Call]
    BY <1>2 DEF Moves
  <2>2. Call \subseteq Call'
    BY <1>3, <1>4, StatementGrows
  <2>3. QED BY <2>1, <2>2
<1>14. /\ load' \in Workloads /\ now' \in Times' /\ clashed' \subseteq Orders
       /\ restarts' \in Nat /\ missed' \subseteq Nat
  BY <1>2, <1>3, <1>5 DEF Types, TypeOK, Frame
<1>15. TypeOK'
  BY <1>5, <1>6, <1>7, <1>8, <1>9, <1>10, <1>11, <1>14 DEF TypeOK, LogRow, Issue, Line
<1>16. QED
  BY <1>4, <1>12, <1>13, <1>14, <1>15 DEF Types

\* Rows are changed, come and go, but a session or a log stays where it is.
LEMMA RowsKept ==
  ASSUME Types, CallsAreOrderly, NEW c \in Clients, Step(c)
  PROVE  LET s == Head(call[c].todo) IN
         /\ \A i \in 1..last.session : i \in DOMAIN sessions' =>
              /\ i \in DOMAIN sessions
              /\ sessions'[i].order = sessions[i].order
              /\ sessions'[i].user = sessions[i].user
              /\ sessions'[i].status = "ACTIVE" => sessions[i].status = "ACTIVE"
         /\ \A i \in DOMAIN sessions' :
              \/ i \in 1..last.session
              \/ /\ s.do = "open" /\ s.order \in Orders /\ Exists(s.order)
                 /\ i = last.session + 1
                 /\ sessions'[i].order = s.order /\ sessions'[i].user = c
         /\ \A l \in 1..last.log : l \in DOMAIN logs' =>
              l \in DOMAIN logs /\ logs'[l] = logs[l]
         /\ \A l \in DOMAIN logs' :
              \/ l \in 1..last.log
              \/ /\ s.do = "log" /\ s.order \in Orders /\ Exists(s.order)
                 /\ logs'[l].order = s.order
<1> DEFINE s == Head(call[c].todo)
<1>1. /\ last.session \in Nat /\ last.log \in Nat
      /\ DOMAIN sessions \subseteq 1..last.session /\ DOMAIN logs \subseteq 1..last.log
      /\ \A i \in DOMAIN sessions : sessions[i] \in Session
  BY DEF Types, TypeOK
<1>2. last.session + 1 \notin 1..last.session /\ last.log + 1 \notin 1..last.log
  BY <1>1
<1> HIDE DEF s
<1>3. /\ \A i \in 1..last.session : i \in DOMAIN sessions' =>
           /\ i \in DOMAIN sessions
           /\ sessions'[i].order = sessions[i].order
           /\ sessions'[i].user = sessions[i].user
           /\ sessions'[i].status = "ACTIVE" => sessions[i].status = "ACTIVE"
      /\ \A i \in DOMAIN sessions' :
           \/ i \in 1..last.session
           \/ /\ s.do = "open" /\ s.order \in Orders /\ Exists(s.order)
              /\ i = last.session + 1
              /\ sessions'[i].order = s.order /\ sessions'[i].user = c
  <2>1. CASE sessions' = sessions
    BY <1>1, <2>1
  <2>2. CASE /\ s.do = "open" /\ s.order \in Orders /\ Exists(s.order)
             /\ DOMAIN sessions' = DOMAIN sessions \cup {last.session + 1}
             /\ \A i \in DOMAIN sessions : sessions'[i] = sessions[i]
             /\ sessions'[last.session + 1] =
                  [order |-> s.order, user |-> c, start |-> now, status |-> "ACTIVE"]
    <3>1. \A i \in DOMAIN sessions' : i \in DOMAIN sessions \/ i = last.session + 1
      BY <2>2
    <3>2. /\ sessions'[last.session + 1].order = s.order
          /\ sessions'[last.session + 1].user = c
      BY <2>2
    <3>3. QED BY <1>1, <1>2, <2>2, <3>1, <3>2
  <2>3. CASE /\ s.do = "end" /\ s.id \in DOMAIN sessions
             /\ s.status \in {"COMPLETED", "AUTO_CLOSED"}
             /\ DOMAIN sessions' = DOMAIN sessions
             /\ \A i \in DOMAIN sessions : i # s.id => sessions'[i] = sessions[i]
             /\ sessions'[s.id] = [sessions[s.id] EXCEPT !.status = s.status]
    <3>1. /\ sessions'[s.id].order = sessions[s.id].order
          /\ sessions'[s.id].user = sessions[s.id].user
          /\ sessions'[s.id].status # "ACTIVE"
      BY <1>1, <2>3 DEF Session
    <3>2. QED BY <1>1, <2>3, <3>1
  <2>4. CASE /\ s.do = "delete"
             /\ DOMAIN sessions' = {i \in DOMAIN sessions : sessions[i].order # s.order}
             /\ \A i \in DOMAIN sessions' : sessions'[i] = sessions[i]
    BY <1>1, <2>4
  <2>5. QED BY <2>1, <2>2, <2>3, <2>4, SessionsAfter DEF s
<1>4. /\ \A l \in 1..last.log : l \in DOMAIN logs' =>
           l \in DOMAIN logs /\ logs'[l] = logs[l]
      /\ \A l \in DOMAIN logs' :
           \/ l \in 1..last.log
           \/ /\ s.do = "log" /\ s.order \in Orders /\ Exists(s.order)
              /\ logs'[l].order = s.order
  <2>1. CASE logs' = logs
    BY <1>1, <2>1
  <2>2. CASE /\ s.do = "log" /\ s.order \in Orders /\ Exists(s.order)
             /\ DOMAIN logs' = DOMAIN logs \cup {last.log + 1}
             /\ \A l \in DOMAIN logs : logs'[l] = logs[l]
             /\ logs'[last.log + 1] =
                  [order |-> s.order, user |-> s.user, hours |-> s.hours]
    <3>1. logs'[last.log + 1].order = s.order
      BY <2>2
    <3>2. QED BY <1>1, <1>2, <2>2, <3>1
  <2>3. CASE /\ DOMAIN logs' = DOMAIN logs \ {s.id}
             /\ \A l \in DOMAIN logs' : logs'[l] = logs[l]
    BY <1>1, <2>3
  <2>4. CASE /\ DOMAIN logs' = {l \in DOMAIN logs : logs[l].order # s.order}
             /\ \A l \in DOMAIN logs' : logs'[l] = logs[l]
    BY <1>1, <2>4
  <2>5. QED BY <2>1, <2>2, <2>3, <2>4, LogsAfter DEF s
<1>5. QED BY <1>3, <1>4 DEF s

LEMMA ConcernsShrink ==
  ASSUME Types, CallsAreOrderly, NEW c \in Clients, Step(c), NEW x \in Statement
  PROVE  Concerns(x)' \subseteq Concerns(x)
<1>1. /\ \A i \in 1..last.session : i \in DOMAIN sessions' =>
           i \in DOMAIN sessions /\ sessions'[i].order = sessions[i].order
      /\ \A l \in 1..last.log : l \in DOMAIN logs' =>
           l \in DOMAIN logs /\ logs'[l] = logs[l]
  BY RowsKept
<1>2. /\ x.do \in {"find", "end"} => x.id \in 1..last.session
      /\ x.do = "dropLog" => x.id \in 1..last.log
  BY StatementFields
<1>3. QED BY <1>1, <1>2 DEF Concerns

\* Which orders exist, and which are closed, changes only by the statements
\* that say so.
LEMMA StatusKept ==
  ASSUME Sane, Types, CallsAreOrderly, NEW c \in Clients, Step(c), NEW o \in Orders
  PROVE  LET s == Head(call[c].todo) IN
         /\ Exists(o) /\ ~(s.do = "delete" /\ o = s.order) => Exists(o)'
         /\ orders'[o].status \in Closing =>
              \/ orders[o].status \in Closing
              \/ s.do = "write" /\ o = s.order /\ s.row.status \in Closing
<1> DEFINE s == Head(call[c].todo)
<1>1. s \in Statement
  BY WhichStep, NextStatement
<1>2. s.do = "write" => s.row.status \in Statuses \cup {None}
  BY <1>1, StatementFields DEF UpdateRow
<1>3. None \notin Statuses /\ Closing \subseteq Statuses
  BY DEF Sane, Closing, Statuses
<1>4. s.do = "resume" => s.waited \in BOOLEAN
  BY <1>1, StatementFields
<1> HIDE DEF s
<1>5. CASE orders' = orders
  BY <1>5 DEF Exists
<1>6. CASE OrderChanges(c)
  <2>1. CASE o # s.order
    BY <1>6, <2>1 DEF OrderChanges, Exists, s
  <2>2. CASE o = s.order
    <3>1. CASE s.do = "insert"
      BY <1>6, <2>2, <3>1 DEF OrderChanges, Exists, s, Statuses, Closing
    <3>2. CASE s.do = "resume"
      BY <1>4, <1>6, <2>2, <3>2 DEF OrderChanges, Exists, s, Statuses, Closing
    <3>3. CASE s.do \in {"count", "setHours"}
      BY <1>6, <2>2, <3>3 DEF OrderChanges, Exists, s
    <3>4. CASE s.do = "write"
      BY <1>2, <1>3, <1>6, <2>2, <3>4 DEF OrderChanges, Exists, Or, s
    <3>5. CASE s.do = "delete"
      BY <1>6, <2>2, <3>5 DEF OrderChanges, Exists, s, Statuses, Closing
    <3>6. QED BY <1>6, <3>1, <3>2, <3>3, <3>4, <3>5 DEF OrderChanges, s
  <2>3. QED BY <2>1, <2>2
<1>7. QED BY <1>5, <1>6, OrdersAfter DEF s
-----------------------------------------------------------------------------
(* What a step does to the invariant.                                      *)

LEMMA CallsAreOrderlyStep ==
  ASSUME Types, CallsAreOrderly, NEW c \in Clients, Step(c)
  PROVE  CallsAreOrderly'
<1> DEFINE s == Head(call[c].todo)
           Good(x) == /\ Concerns(x) \subseteq call[c].orders
                      /\ x.do \in Rewriting => call[c].rewrites
                      /\ x.do = "write" => (x.row.by = {} => x.row.hours = None)
<1>1. /\ s \in Todo(c) /\ Todo(c) = {s} \cup Rest(c)
      /\ Concerns(s) \subseteq call[c].orders
      /\ s.do \in Rewriting => call[c].rewrites
      /\ s \in Statement
  BY WhichStep, NextStatement
<1>2. Moves(c)
  BY StepMoves
<1>3. \A x \in Statement : Concerns(x)' \subseteq Concerns(x)
  BY ConcernsShrink
<1>4. \A x \in Rest(c) : Good(x)
  BY <1>1 DEF CallsAreOrderly
<1>5. ASSUME NEW x \in Statement, New(c, x) PROVE Good(x)
  <2>1. CASE s.do = "find"
    <3>1. /\ s.id \in DOMAIN sessions
          /\ \/ x = [do |-> "end", id |-> s.id, status |-> "AUTO_CLOSED"]
             \/ x.do \in {"log", "count"} /\ x.order = sessions[s.id].order
      BY <1>5, <2>1 DEF New
    <3>2. Concerns(x) \subseteq Concerns(s)
      BY <2>1, <3>1 DEF Concerns
    <3>3. x.do \notin Rewriting /\ x.do # "write"
      BY <3>1 DEF Rewriting
    <3>4. QED BY <1>1, <3>2, <3>3
  <2>2. CASE s.do = "stopAll"
    <3>1. PICK i \in RunningOn(s.order) : x = [do |-> "find", id |-> i]
      BY <1>5, <2>2 DEF New
    <3>2. Concerns(x) \subseteq Concerns(s)
      BY <2>2, <3>1 DEF Concerns, RunningOn
    <3>3. x.do \notin Rewriting /\ x.do # "write"
      BY <3>1 DEF Rewriting
    <3>4. QED BY <1>1, <3>2, <3>3
  <2>3. CASE s.do = "issueAll"
    <3>1. x.do = "check" /\ x.order = s.order
      BY <1>5, <2>3 DEF New
    <3>2. Concerns(x) \subseteq Concerns(s)
      BY <2>3, <3>1 DEF Concerns
    <3>3. call[c].rewrites
      BY <1>1, <2>3 DEF Rewriting
    <3>4. QED BY <1>1, <3>1, <3>2, <3>3
  <2>4. CASE s.do = "check"
    <3>1. x.do \in {"lower", "enter"} /\ x.issue.order = s.order
      BY <1>5, <2>4 DEF New
    <3>2. Concerns(x) \subseteq Concerns(s)
      BY <2>4, <3>1 DEF Concerns
    <3>3. call[c].rewrites
      BY <1>1, <2>4 DEF Rewriting
    <3>4. QED BY <1>1, <3>1, <3>2, <3>3
  <2>5. QED BY <1>5, <2>1, <2>2, <2>3, <2>4 DEF New
<1>6. \A x \in Todo(c)' : x \in Statement /\ Good(x)
  BY <1>2, <1>4, <1>5 DEF Moves
<1>7. ASSUME NEW d \in Clients \ {c}, NEW x \in Todo(d)
      PROVE  x \in Statement
  BY DEF Todo, Types, Call
<1> SUFFICES ASSUME NEW d \in Clients
             PROVE  /\ Sorted(call'[d].todo) /\ Paired(call'[d].todo)
                    /\ call'[d].rewrites => \A o, p \in call'[d].orders : o = p
                    /\ \A x \in Todo(d)' :
                         /\ Concerns(x)' \subseteq call'[d].orders
                         /\ x.do \in Rewriting => call'[d].rewrites
                         /\ x.do = "write" => (x.row.by = {} => x.row.hours = None)
  BY DEF CallsAreOrderly, Sorted, Paired, PairedAt, Before, Rewriting, Rank, Final
<1>8. CASE d = c
  BY <1>2, <1>3, <1>6, <1>8 DEF Moves, CallsAreOrderly
<1>9. CASE d # c
  <2>1. call'[d] = call[d] /\ Todo(d)' = Todo(d)
    BY <1>2, <1>9 DEF Moves
  <2>2. QED BY <1>3, <1>7, <1>9, <2>1 DEF CallsAreOrderly
<1>10. QED BY <1>8, <1>9

LEMMA ClashesShowStep ==
  ASSUME Types, CallsAreOrderly, ClashesShow, NEW c \in Clients, Step(c)
  PROVE  ClashesShow'
<1>1. Moves(c) /\ clashed' = clashed
  BY StepMoves, StepFrame DEF Frame
<1>2. QED BY <1>1 DEF ClashesShow, Moves

\* Calls that are apart from c's work on other orders, or on the same in ways
\* that go together.
LEMMA OthersApart ==
  ASSUME ClashesShow, CallsAreOrderly, NEW c \in Clients, NEW d \in Clients, c # d,
         Busy(c), NEW x \in Todo(d), NEW o \in call[c].orders, o \in Concerns(x),
         call[c].rewrites \/ x.do \in Rewriting
  PROVE  o \in clashed
<1>1. Busy(d)
  BY DEF Todo, Busy
<1>2. o \in call[d].orders /\ (x.do \in Rewriting => call[d].rewrites)
  BY DEF CallsAreOrderly
<1>3. QED BY <1>1, <1>2 DEF ClashesShow

LEMMA RowsExistStep ==
  ASSUME Sane, Types, CallsAreOrderly, RowsExist, NEW c \in Clients, Step(c)
  PROVE  RowsExist'
<1> DEFINE s == Head(call[c].todo)
           Stays(o) == orders'[o].status \in Statuses
<1>1. /\ DOMAIN sessions \subseteq 1..last.session /\ DOMAIN logs \subseteq 1..last.log
      /\ \A i \in DOMAIN sessions : sessions[i].order \in Orders
      /\ \A l \in DOMAIN logs : logs[l].order \in Orders
  BY DEF Types, TypeOK, Session, LogRow
<1>2. ASSUME NEW o \in Orders, Exists(o), s.do # "delete" \/ o # s.order
      PROVE  Stays(o)
  BY <1>2, StatusKept DEF Exists
<1>3. ASSUME s.do = "delete"
      PROVE  /\ \A i \in DOMAIN sessions' : i \in DOMAIN sessions /\ sessions[i].order # s.order
             /\ \A l \in DOMAIN logs' : l \in DOMAIN logs /\ logs[l].order # s.order
  <2>1. sessions' = Without(sessions, s.order) /\ logs' = Without(logs, s.order)
    BY <1>3, WhichStep DEF Delete
  <2>2. QED BY <2>1 DEF Without
<1>4. ASSUME NEW i \in DOMAIN sessions' PROVE Stays(sessions'[i].order)
  <2>1. CASE i \in 1..last.session
    <3>1. i \in DOMAIN sessions /\ sessions'[i].order = sessions[i].order
      BY <1>4, <2>1, RowsKept
    <3>2. Exists(sessions[i].order) /\ sessions[i].order \in Orders
      BY <1>1, <3>1 DEF RowsExist
    <3>3. QED BY <1>2, <1>3, <3>1, <3>2
  <2>2. CASE i \notin 1..last.session
    <3>1. /\ s.do = "open" /\ s.order \in Orders /\ Exists(s.order)
          /\ sessions'[i].order = s.order
      BY <1>4, <2>2, RowsKept
    <3>2. QED BY <1>2, <3>1
  <2>3. QED BY <2>1, <2>2
<1>5. ASSUME NEW l \in DOMAIN logs' PROVE Stays(logs'[l].order)
  <2>1. CASE l \in 1..last.log
    <3>1. l \in DOMAIN logs /\ logs'[l] = logs[l]
      BY <1>5, <2>1, RowsKept
    <3>2. Exists(logs[l].order) /\ logs[l].order \in Orders
      BY <1>1, <3>1 DEF RowsExist
    <3>3. QED BY <1>2, <1>3, <3>1, <3>2
  <2>2. CASE l \notin 1..last.log
    <3>1. /\ s.do = "log" /\ s.order \in Orders /\ Exists(s.order)
          /\ logs'[l].order = s.order
      BY <1>5, <2>2, RowsKept
    <3>2. QED BY <1>2, <3>1
  <2>3. QED BY <2>1, <2>2
<1>6. QED BY <1>4, <1>5 DEF RowsExist, Exists

LEMMA OrdersExistStep ==
  ASSUME Sane, Types, CallsAreOrderly, ClashesShow, OrdersExist,
         NEW c \in Clients, Step(c)
  PROVE  OrdersExist'
<1> DEFINE s == Head(call[c].todo)
<1>1. /\ Busy(c) /\ s \in Todo(c) /\ Todo(c) = {s} \cup Rest(c)
      /\ s \in Statement /\ Rest(c) \subseteq Statement
      /\ \A x \in Rest(c) : Before(s, x)
      /\ Concerns(s) \subseteq call[c].orders
      /\ s.do \in Rewriting => call[c].rewrites
  BY WhichStep, NextStatement
<1>2. Moves(c) /\ clashed' = clashed
  BY StepMoves, StepFrame DEF Frame
<1> SUFFICES ASSUME NEW d \in Clients, NEW o \in call'[d].orders \ clashed, Busy(d)'
             PROVE  Exists(o)' \/ \E x \in Todo(d)' : x.do = "insert"
  BY <1>2 DEF OrdersExist
<1>3. o \in call[d].orders /\ o \in Orders /\ Busy(d)
  BY <1>2 DEF Moves, Types, Call
<1>4. Exists(o) \/ \E x \in Todo(d) : x.do = "insert"
  BY <1>3 DEF OrdersExist
<1>5. CASE d = c
  <2>1. s.do \notin Final
    BY <1>2, <1>5 DEF Moves
  <2>2. \A x \in Rest(c) : x.do # "insert"
    <3> SUFFICES ASSUME NEW x \in Rest(c), x.do = "insert" PROVE FALSE
      OBVIOUS
    <3>1. Before(s, x) /\ Rank[s.do] \in 0..13
      BY <1>1, StatementFields
    <3>2. QED BY <3>1 DEF Before, Rank
  <2>3. Exists(o)
    BY <1>1, <1>4, <1>5, <2>1, <2>2 DEF Final
  <2>4. QED BY <1>3, <2>1, <2>3, StatusKept DEF Final
<1>6. CASE d # c
  <2>1. Todo(d)' = Todo(d)
    BY <1>2, <1>6 DEF Moves
  <2>2. CASE ~(s.do = "delete" /\ o = s.order)
    BY <1>3, <1>4, <2>1, <2>2, StatusKept
  <2>3. CASE s.do = "delete" /\ o = s.order
    <3>1. o \in call[c].orders /\ call[c].rewrites
      BY <1>1, <1>3, <2>3 DEF Concerns, Rewriting
    <3>2. o \in clashed
      BY <1>1, <1>3, <1>6, <3>1 DEF ClashesShow
    <3>3. QED BY <3>2
  <2>4. QED BY <2>2, <2>3
<1>7. QED BY <1>5, <1>6

\* The entries for an order come only by entering, and go with the order.
LEMMA LedgerAfter ==
  ASSUME Sane, Types, CallsAreOrderly, NEW c \in Clients, Step(c),
         NEW o \in Orders, NEW i
  PROVE  LET s == Head(call[c].todo) IN
         \/ IssuedTo(o, i)' \subseteq IssuedTo(o, i)
         \/ /\ s.do = "enter" /\ s.issue.order = o /\ s.issue.item = i
            /\ IssuedTo(o, i)' = IssuedTo(o, i) \cup {Len(ledger) + 1}
<1> DEFINE s == Head(call[c].todo)
<1>1. ledger \in Seq(Issue) /\ None \notin Orders
  BY DEF Types, TypeOK, Sane
<1>2. CASE s.do \notin {"enter", "delete"}
  <2>1. ledger' = ledger
    BY <1>2, StepFrame DEF Frame
  <2>2. QED BY <2>1 DEF IssuedTo
<1>3. CASE s.do = "enter"
  <2>1. ledger' = ledger \/ ledger' = Append(ledger, s.issue)
    BY <1>3, WhichStep DEF Enter
  <2>2. CASE ledger' = ledger
    BY <2>2 DEF IssuedTo
  <2>3. CASE ledger' = Append(ledger, s.issue)
    <3> HIDE DEF s
    <3>1. /\ DOMAIN ledger' = 1..Len(ledger) + 1 /\ DOMAIN ledger = 1..Len(ledger)
          /\ Len(ledger) \in Nat
          /\ ledger'[Len(ledger) + 1] = s.issue
          /\ \A n \in 1..Len(ledger) : ledger'[n] = ledger[n]
      BY <1>1, <2>3, LenProperties, AppendProperties
    <3>2. DOMAIN ledger' = DOMAIN ledger \cup {Len(ledger) + 1}
      BY <3>1
    <3>3. CASE s.issue.order = o /\ s.issue.item = i
      BY <1>3, <3>1, <3>2, <3>3 DEF IssuedTo, s
    <3>4. CASE ~(s.issue.order = o /\ s.issue.item = i)
      BY <3>1, <3>2, <3>4 DEF IssuedTo
    <3>5. QED BY <3>3, <3>4
  <2>4. QED BY <2>1, <2>2, <2>3
<1>4. CASE s.do = "delete"
  <2>1. ledger' = [n \in DOMAIN ledger |->
                     IF ledger[n].order = s.order
                     THEN [ledger[n] EXCEPT !.order = None] ELSE ledger[n]]
    BY <1>4, WhichStep DEF Delete
  <2>2. \A n \in DOMAIN ledger : ledger[n] \in Issue
    BY <1>1
  <2> HIDE DEF s
  <2>3. ASSUME NEW n \in DOMAIN ledger
        PROVE  \/ ledger'[n] = ledger[n]
               \/ ledger'[n].order = None
    BY <2>1, <2>2, <2>3 DEF Issue
  <2>4. DOMAIN ledger' = DOMAIN ledger
    BY <2>1
  <2>5. QED BY <1>1, <2>3, <2>4 DEF IssuedTo
<1>5. QED BY <1>2, <1>3, <1>4

LEMMA IssuesAreNewStep ==
  ASSUME Sane, Types, CallsAreOrderly, ClashesShow, IssuesAreNew,
         NEW c \in Clients, Step(c)
  PROVE  IssuesAreNew'
<1> DEFINE s == Head(call[c].todo)
<1>1. /\ Busy(c) /\ s \in Todo(c) /\ Todo(c) = {s} \cup Rest(c)
      /\ s \in Statement /\ Rest(c) \subseteq Statement
      /\ \A x \in Rest(c) : Before(s, x)
      /\ Concerns(s) \subseteq call[c].orders
      /\ s.do \in Rewriting => call[c].rewrites
  BY WhichStep, NextStatement
<1>2. Moves(c) /\ clashed' = clashed
  BY StepMoves, StepFrame DEF Frame
<1> SUFFICES ASSUME NEW d \in Clients, NEW x \in Todo(d)', x.do = "enter",
                    x.issue.order \notin clashed
             PROVE  IssuedTo(x.issue.order, x.issue.item)' = {}
  BY <1>2 DEF IssuesAreNew
<1> DEFINE o == x.issue.order
           i == x.issue.item
<1>3. x \in Statement
  BY <1>2 DEF Moves, Todo, Types, Call
<1>4. o \in Orders
  BY <1>3, StatementFields
<1>5. IssuedTo(o, i) = {}
  <2>1. CASE x \in Todo(d)
    BY <2>1 DEF IssuesAreNew
  <2>2. CASE x \notin Todo(d)
    <3>1. d = c /\ New(c, x)
      BY <1>1, <1>2, <2>2 DEF Moves
    <3>2. s.do = "check" /\ ~Had(s.order, s.line.item) /\ o = s.order /\ i = s.line.item
      BY <3>1 DEF New
    <3>3. QED BY <3>2 DEF Had
  <2>3. QED BY <2>1, <2>2
<1>6. ~(s.do = "enter" /\ s.issue.order = o /\ s.issue.item = i)
  <2> SUFFICES ASSUME s.do = "enter", s.issue.order = o PROVE FALSE
    OBVIOUS
  <2>1. o \in Concerns(s) /\ o \in Concerns(x)
    BY <1>4 DEF Concerns
  <2>2. CASE d = c
    <3>1. x \in Rest(c)
      BY <1>2, <2>2 DEF Moves, New
    <3>2. QED BY <1>1, <3>1 DEF Before, Rank
  <2>3. CASE d # c
    <3>1. x \in Todo(d)
      BY <1>2, <2>3 DEF Moves
    <3>2. QED BY <1>1, <2>1, <2>3, <3>1, OthersApart DEF Rewriting
  <2>4. QED BY <2>2, <2>3
<1> HIDE DEF o, i, s
<1>7. IssuedTo(o, i)' \subseteq IssuedTo(o, i)
  BY <1>4, <1>6, LedgerAfter DEF s
<1>8. QED BY <1>5, <1>7 DEF o, i

LEMMA IssuedOnceStep ==
  ASSUME Sane, Types, CallsAreOrderly, IssuesAreNew, IssuedOnce,
         NEW c \in Clients, Step(c)
  PROVE  IssuedOnce'
<1> DEFINE s == Head(call[c].todo)
<1>1. s \in Todo(c) /\ clashed' = clashed
  BY WhichStep, NextStatement, StepFrame DEF Frame
<1> HIDE DEF s
<1> SUFFICES ASSUME NEW o \in Orders \ clashed, NEW i \in Items,
                    NEW m \in IssuedTo(o, i)', NEW n \in IssuedTo(o, i)'
             PROVE  m = n
  BY <1>1 DEF IssuedOnce
<1>2. CASE IssuedTo(o, i)' \subseteq IssuedTo(o, i)
  BY <1>2 DEF IssuedOnce
<1>3. CASE /\ s.do = "enter" /\ s.issue.order = o /\ s.issue.item = i
           /\ IssuedTo(o, i)' = IssuedTo(o, i) \cup {Len(ledger) + 1}
  <2>1. IssuedTo(o, i) = {}
    BY <1>1, <1>3 DEF IssuesAreNew
  <2>2. QED BY <1>3, <2>1
<1>4. QED BY <1>2, <1>3, LedgerAfter DEF s
-----------------------------------------------------------------------------
(* Sessions.                                                               *)

\* Nobody but c gets a session to run, and c only by opening it.
LEMMA RunningAfter ==
  ASSUME Types, CallsAreOrderly, NEW c \in Clients, Step(c), NEW i \in DOMAIN sessions',
         sessions'[i].status = "ACTIVE"
  PROVE  LET s == Head(call[c].todo) IN
         \/ /\ i \in 1..last.session /\ i \in DOMAIN sessions
            /\ sessions[i].status = "ACTIVE"
            /\ sessions'[i].order = sessions[i].order
            /\ sessions'[i].user = sessions[i].user
         \/ /\ s.do = "open" /\ s.order \in Orders /\ i = last.session + 1
            /\ sessions'[i].order = s.order /\ sessions'[i].user = c
BY RowsKept

\* A session that a call was going to stop is stopped or is still going to be,
\* unless the call gave up.
LEMMA StopsKept ==
  ASSUME Types, CallsAreOrderly, NEW c \in Clients, Step(c), NEW d \in Clients,
         NEW i \in DOMAIN sessions', sessions'[i].status = "ACTIVE",
         i \in DOMAIN sessions, sessions[i].status = "ACTIVE", Stops(d, i),
         Todo(d)' # {}
  PROVE  Stops(d, i)'
<1> DEFINE s == Head(call[c].todo)
<1>1. Moves(c) /\ Todo(c) = {s} \cup Rest(c)
  BY WhichStep, NextStatement, StepMoves
<1>2. PICK x \in Todo(d) : x.do \in {"find", "end"} /\ x.id = i
  BY DEF Stops
<1> SUFFICES \E y \in Todo(d)' : y.do \in {"find", "end"} /\ y.id = i
  BY DEF Stops
<1>3. CASE d # c
  BY <1>1, <1>2, <1>3 DEF Moves
<1>4. CASE d = c
  <2>1. Rest(c) \subseteq Todo(c)' /\ Due(c, Todo(c)')
    BY <1>1, <1>4 DEF Moves
  <2>2. CASE x \in Rest(c)
    BY <1>2, <1>4, <2>1, <2>2
  <2>3. CASE x = s /\ s.do = "find"
    BY <1>2, <1>4, <2>1, <2>3 DEF Due
  <2>4. CASE x = s /\ s.do = "end"
    <3>1. sessions' = [sessions EXCEPT ![i].status = s.status]
      BY <1>2, <2>4, WhichStep DEF EndSession
    <3>2. s.status # "ACTIVE"
      BY <2>4, WhichStep, NextStatement, StatementFields
    <3>3. sessions[i] \in Session
      BY DEF Types, TypeOK
    <3>4. sessions'[i].status = s.status
      BY <3>1, <3>3 DEF Session
    <3>5. QED BY <3>2, <3>4
  <2>5. QED BY <1>1, <1>2, <1>4, <2>2, <2>3, <2>4
<1>5. QED BY <1>3, <1>4

LEMMA OpensAreSafeStep ==
  ASSUME Types, CallsAreOrderly, OpensAreSafe, NEW c \in Clients, Step(c)
  PROVE  OpensAreSafe'
<1> DEFINE s == Head(call[c].todo)
<1>1. Moves(c) /\ Todo(c) = {s} \cup Rest(c)
  BY WhichStep, NextStatement, StepMoves
<1> SUFFICES ASSUME NEW d \in Clients, NEW x \in Todo(d)', x.do = "open",
                    NEW i \in Running(d)'
             PROVE  Stops(d, i)'
  BY DEF OpensAreSafe
<1>2. x \in Todo(d)
  BY <1>1 DEF Moves, New
<1>3. i \in DOMAIN sessions' /\ sessions'[i].status = "ACTIVE" /\ sessions'[i].user = d
  BY DEF Running
<1>4. ~(s.do = "open" /\ d = c)
  BY <1>1 DEF Moves, Final, Todo, Busy
<1>5. i \in Running(d)
  BY <1>3, <1>4, RunningAfter DEF Running
<1>6. Stops(d, i)
  BY <1>2, <1>5 DEF OpensAreSafe
<1>7. QED BY <1>3, <1>5, <1>6, StopsKept DEF Running

LEMMA OneRunningStep ==
  ASSUME Types, CallsAreOrderly, OpensAreSafe, OneRunningSession,
         NEW c \in Clients, Step(c)
  PROVE  OneRunningSession'
<1> DEFINE s == Head(call[c].todo)
<1>1. s \in Todo(c) /\ Todo(c) = {s} \cup Rest(c) /\ (s.do = "open" => Rest(c) = {})
  BY WhichStep, NextStatement DEF Final
<1> SUFFICES ASSUME NEW d \in Clients, NEW i \in Running(d)', NEW j \in Running(d)'
             PROVE  i = j
  BY DEF OneRunningSession
<1>2. ASSUME s.do = "open" PROVE Running(c) = {}
  BY <1>1, <1>2 DEF OpensAreSafe, Stops
<1> DEFINE Opened(k) == d = c /\ s.do = "open" /\ k = last.session + 1
<1>3. ASSUME NEW k \in Running(d)' PROVE k \in Running(d) \/ Opened(k)
  BY <1>3, RunningAfter DEF Running
<1>4. CASE Opened(i) \/ Opened(j)
  BY <1>2, <1>3, <1>4
<1>5. CASE ~Opened(i) /\ ~Opened(j)
  BY <1>3, <1>5 DEF OneRunningSession
<1>6. QED BY <1>4, <1>5

LEMMA OpensAreTimelyStep ==
  ASSUME Sane, Types, CallsAreOrderly, ClashesShow, OpensAreTimely,
         NEW c \in Clients, Step(c)
  PROVE  OpensAreTimely'
<1> DEFINE s == Head(call[c].todo)
<1>1. /\ Moves(c) /\ Todo(c) = {s} \cup Rest(c) /\ Busy(c) /\ s \in Statement
      /\ Concerns(s) \subseteq call[c].orders /\ clashed' = clashed
      /\ s.do \in Rewriting => call[c].rewrites
  BY WhichStep, NextStatement, StepMoves, StepFrame DEF Frame
<1> SUFFICES ASSUME NEW d \in Clients, NEW x \in Todo(d)', x.do = "open",
                    x.order \notin clashed, orders'[x.order].status \in Closing
             PROVE  \E y \in Todo(d)' : y.do = "resume" /\ y.waited /\ y.order = x.order
  BY <1>1 DEF OpensAreTimely
<1>2. x \in Todo(d)
  BY <1>1 DEF Moves, New
<1>3. x \in Statement /\ x.order \in Orders
  <2>1. x \in Statement
    BY <1>2 DEF Todo, Types, Call
  <2>2. QED BY <2>1, StatementFields
<1>4. x.order \in Concerns(x)
  BY <1>3 DEF Concerns
<1>5. d = c => s.do \notin Final
  BY <1>1 DEF Moves, Todo, Busy
<1>6. orders[x.order].status \in Closing
  <2> SUFFICES ASSUME s.do = "write", x.order = s.order PROVE FALSE
    BY <1>3, StatusKept
  <2>1. d # c
    BY <1>5 DEF Final
  <2>2. x.order \in call[c].orders
    BY <1>1, <1>3 DEF Concerns
  <2>3. QED BY <1>1, <1>2, <1>4, <2>1, <2>2, OthersApart DEF Rewriting
<1>7. PICK y \in Todo(d) : y.do = "resume" /\ y.waited /\ y.order = x.order
  BY <1>2, <1>6 DEF OpensAreTimely
<1>8. CASE d # c
  BY <1>1, <1>7, <1>8 DEF Moves
<1>9. CASE d = c /\ y \in Rest(c)
  BY <1>1, <1>7, <1>9 DEF Moves
<1>10. CASE d = c /\ y = s
  <2>1. ~Abort(c)
    <3> SUFFICES ASSUME Abort(c) PROVE FALSE
      OBVIOUS
    <3>1. Todo(c)' = {}
      BY <1>1, Aborted
    <3>2. QED BY <1>10, <3>1
  <2>2. orders' = [orders EXCEPT ![s.order].status = IF s.waited THEN "IN_PROGRESS" ELSE @,
                                 ![s.order].started = IF s.starts THEN now ELSE @]
    BY <1>7, <1>10, <2>1, WhichStep DEF Resume
  <2>3. orders \in [Orders -> OrderRow]
    BY DEF Types, TypeOK
  <2>4. s.waited /\ s.order = x.order
    BY <1>7, <1>10
  <2> HIDE DEF s
  <2>5. orders'[x.order].status = "IN_PROGRESS"
    BY <1>3, <2>2, <2>3, <2>4 DEF OrderRow
  <2>6. QED BY <2>5 DEF Closing
<1>11. QED BY <1>1, <1>7, <1>8, <1>9, <1>10

LEMMA WritesAreSafeStep ==
  ASSUME Types, CallsAreOrderly, ClashesShow, WritesAreSafe, NEW c \in Clients, Step(c)
  PROVE  WritesAreSafe'
<1> DEFINE s == Head(call[c].todo)
<1>1. /\ Moves(c) /\ Todo(c) = {s} \cup Rest(c) /\ Busy(c) /\ s \in Statement
      /\ Concerns(s) \subseteq call[c].orders /\ clashed' = clashed
      /\ missed' = missed
  BY WhichStep, NextStatement, StepMoves, StepFrame DEF Frame
<1> SUFFICES ASSUME NEW d \in Clients, NEW x \in Todo(d)', x.do = "write",
                    x.order \notin clashed, x.row.status \in Closing,
                    ~ \E y \in Todo(d)' : y.do = "stopAll" /\ y.order = x.order,
                    NEW i \in RunningOn(x.order)', i \notin missed
             PROVE  Stops(d, i)'
  BY <1>1 DEF WritesAreSafe
<1>2. x \in Todo(d)
  BY <1>1 DEF Moves, New
<1>3. x \in Statement /\ x.order \in Orders
  <2>1. x \in Statement
    BY <1>2 DEF Todo, Types, Call
  <2>2. QED BY <2>1, StatementFields
<1>4. d = c => s.do \notin Final
  BY <1>1 DEF Moves, Todo, Busy
<1>5. i \in DOMAIN sessions' /\ sessions'[i].status = "ACTIVE" /\ sessions'[i].order = x.order
  BY DEF RunningOn
<1>6. i \in RunningOn(x.order)
  <2> SUFFICES ASSUME s.do = "open", s.order = x.order PROVE FALSE
    BY <1>5, RunningAfter DEF RunningOn
  <2>1. d # c
    BY <1>4 DEF Final
  <2>2. x.order \in call[c].orders /\ x.order \in Concerns(x)
    BY <1>1, <1>3 DEF Concerns
  <2>3. QED BY <1>1, <1>2, <2>1, <2>2, OthersApart DEF Rewriting
<1>7. CASE \E y \in Todo(d) : y.do = "stopAll" /\ y.order = x.order
  <2>1. PICK y \in Todo(d) : y.do = "stopAll" /\ y.order = x.order
    BY <1>7
  <2>2. d = c /\ y = s
    BY <1>1, <2>1 DEF Moves
  <2>3. Due(c, Todo(c)')
    BY <1>1, <2>2 DEF Moves
  <2>4. \E y1 \in Todo(c)' : y1.do = "find" /\ y1.id = i
    BY <1>6, <2>1, <2>2, <2>3 DEF Due
  <2>5. QED BY <2>2, <2>4 DEF Stops
<1>8. CASE Stops(d, i)
  BY <1>5, <1>6, <1>8, StopsKept DEF RunningOn
<1>9. QED BY <1>2, <1>6, <1>7, <1>8 DEF WritesAreSafe

LEMMA ClosedQuietStep ==
  ASSUME Sane, Types, CallsAreOrderly, OpensAreTimely, WritesAreSafe,
         ClosedOrdersAreQuiet, NEW c \in Clients, Step(c)
  PROVE  ClosedOrdersAreQuiet'
<1> DEFINE s == Head(call[c].todo)
<1>1. /\ s \in Todo(c) /\ Todo(c) = {s} \cup Rest(c) /\ clashed' = clashed
      /\ missed' = missed
      /\ s.do \in Final => Rest(c) = {}
  BY WhichStep, NextStatement, StepFrame DEF Frame
<1> SUFFICES ASSUME NEW o \in Orders \ clashed, orders'[o].status \in Closing,
                    NEW i \in RunningOn(o)', i \notin missed
             PROVE  FALSE
  BY <1>1 DEF ClosedOrdersAreQuiet
<1>2. i \in DOMAIN sessions' /\ sessions'[i].status = "ACTIVE" /\ sessions'[i].order = o
  BY DEF RunningOn
<1>3. i \in RunningOn(o) \/ (s.do = "open" /\ s.order = o)
  BY <1>2, RunningAfter DEF RunningOn
<1>4. CASE orders[o].status \in Closing
  <2>1. s.do = "open" /\ s.order = o
    BY <1>3, <1>4 DEF ClosedOrdersAreQuiet
  <2>2. \E y \in Todo(c) : y.do = "resume"
    BY <1>1, <1>4, <2>1 DEF OpensAreTimely
  <2>3. QED BY <1>1, <2>1, <2>2 DEF Final
<1>5. CASE s.do = "write" /\ o = s.order /\ s.row.status \in Closing
  <2>1. Todo(c) = {s}
    BY <1>1, <1>5 DEF Final
  <2>2. i \in RunningOn(o)
    BY <1>3, <1>5
  <2>3. \A j \in RunningOn(o) \ missed : Stops(c, j)
    BY <1>1, <1>5, <2>1 DEF WritesAreSafe
  <2>4. QED BY <1>5, <2>1, <2>2, <2>3 DEF Stops
<1>6. QED BY <1>4, <1>5, StatusKept
-----------------------------------------------------------------------------
(* Hours and logs.                                                         *)

\* The rows of an order in a table of logs, and the hours they add up to.
RowsOf(rows, o) == {l \in DOMAIN rows : rows[l].order = o}
HoursIn(rows) == [l \in DOMAIN rows |-> rows[l].hours]
TotalOf(rows, o) == SumOf(HoursIn(rows), RowsOf(rows, o))

LogTable(rows) == IsFiniteSet(DOMAIN rows) /\ rows \in [DOMAIN rows -> LogRow]

LEMMA LoggedTotal ==
  ASSUME NEW o
  PROVE  Logged(o) = TotalOf(logs, o) /\ Logged(o)' = TotalOf(logs', o)
BY DEF Logged, Hours, TotalOf, HoursIn, RowsOf, SumOf, MapThenSumSet, MapThenFoldSet

LEMMA TableRows ==
  ASSUME NEW rows, LogTable(rows), NEW o
  PROVE  /\ IsFiniteSet(RowsOf(rows, o)) /\ RowsOf(rows, o) \subseteq DOMAIN rows
         /\ \A l \in DOMAIN rows :
              HoursIn(rows)[l] = rows[l].hours /\ HoursIn(rows)[l] \in Nat
         /\ TotalOf(rows, o) \in Nat
<1>1. IsFiniteSet(RowsOf(rows, o)) /\ RowsOf(rows, o) \subseteq DOMAIN rows
  BY FS_Subset DEF LogTable, RowsOf
<1>2. \A l \in DOMAIN rows :
        HoursIn(rows)[l] = rows[l].hours /\ HoursIn(rows)[l] \in Nat
  BY DEF LogTable, HoursIn, LogRow
<1>3. TotalOf(rows, o) \in Nat
  BY <1>1, <1>2, SumType DEF TotalOf
<1>4. QED BY <1>1, <1>2, <1>3

LEMMA TotalSame ==
  ASSUME NEW a, NEW b, LogTable(a), LogTable(b), NEW o,
         \A l \in RowsOf(a, o) : l \in DOMAIN b /\ b[l] = a[l],
         \A l \in RowsOf(b, o) : l \in DOMAIN a /\ a[l] = b[l]
  PROVE  TotalOf(b, o) = TotalOf(a, o)
<1>1. RowsOf(a, o) = RowsOf(b, o)
  BY DEF RowsOf
<1>2. \A l \in RowsOf(a, o) : HoursIn(a)[l] \in Nat /\ HoursIn(a)[l] = HoursIn(b)[l]
  BY <1>1, TableRows
<1>3. IsFiniteSet(RowsOf(a, o))
  BY TableRows
<1>4. QED BY <1>1, <1>2, <1>3, SumSame DEF TotalOf

\* One row is b's and not a's.
LEMMA TotalMore ==
  ASSUME NEW a, NEW b, LogTable(a), LogTable(b), NEW o, NEW new \in RowsOf(b, o),
         new \notin DOMAIN a,
         \A l \in RowsOf(a, o) : l \in DOMAIN b /\ b[l] = a[l],
         \A l \in RowsOf(b, o) \ {new} : l \in DOMAIN a /\ a[l] = b[l]
  PROVE  TotalOf(b, o) = TotalOf(a, o) + b[new].hours
<1>1. RowsOf(b, o) \ {new} = RowsOf(a, o)
  BY DEF RowsOf
<1>2. \A l \in RowsOf(a, o) : HoursIn(a)[l] \in Nat /\ HoursIn(a)[l] = HoursIn(b)[l]
  BY <1>1, TableRows
<1>3. IsFiniteSet(RowsOf(a, o)) /\ IsFiniteSet(RowsOf(b, o)) /\ TotalOf(a, o) \in Nat
  BY TableRows
<1>4. /\ \A l \in RowsOf(b, o) : HoursIn(b)[l] \in Nat
      /\ HoursIn(b)[new] = b[new].hours /\ b[new].hours \in Nat
  <2>1. RowsOf(b, o) \subseteq DOMAIN b
    BY DEF RowsOf
  <2>2. QED BY <2>1, TableRows
<1>5. SumOf(HoursIn(b), RowsOf(b, o) \ {new}) = TotalOf(a, o)
  BY <1>1, <1>2, <1>3, SumSame DEF TotalOf
<1>6. TotalOf(b, o) = HoursIn(b)[new] + SumOf(HoursIn(b), RowsOf(b, o) \ {new})
  BY <1>3, <1>4, SumRemove DEF TotalOf
<1>7. QED BY <1>3, <1>4, <1>5, <1>6

\* A log's hours are part of the total.
LEMMA TotalPart ==
  ASSUME NEW a, LogTable(a), NEW o, NEW l \in RowsOf(a, o)
  PROVE  a[l].hours <= TotalOf(a, o)
<1>1. /\ IsFiniteSet(RowsOf(a, o)) /\ \A m \in RowsOf(a, o) : HoursIn(a)[m] \in Nat
      /\ HoursIn(a)[l] = a[l].hours
  BY TableRows DEF RowsOf
<1>2. TotalOf(a, o) = HoursIn(a)[l] + SumOf(HoursIn(a), RowsOf(a, o) \ {l})
  BY <1>1, SumRemove DEF TotalOf
<1>3. SumOf(HoursIn(a), RowsOf(a, o) \ {l}) \in Nat
  <2>1. IsFiniteSet(RowsOf(a, o) \ {l})
    BY <1>1, FS_Subset
  <2>2. QED BY <1>1, <2>1, SumType
<1>4. QED BY <1>1, <1>2, <1>3

LEMMA TotalNone ==
  ASSUME NEW a, NEW o, RowsOf(a, o) = {}
  PROVE  TotalOf(a, o) = 0
BY SumEmpty DEF TotalOf

LEMMA LogsAreTable ==
  ASSUME Types
  PROVE  LogTable(logs) /\ last.log \in Nat /\ DOMAIN logs \subseteq 1..last.log
<1>1. last.log \in Nat /\ DOMAIN logs \subseteq 1..last.log /\ logs \in [DOMAIN logs -> LogRow]
  BY DEF Types, TypeOK
<1>2. IsFiniteSet(1..last.log)
  BY <1>1, FS_Interval
<1>3. QED BY <1>1, <1>2, FS_Subset DEF LogTable

LEMMA LogsStayTable ==
  ASSUME Types, CallsAreOrderly, NEW c \in Clients, Step(c)
  PROVE  LogTable(logs')
<1>1. /\ last'.log \in Nat /\ DOMAIN logs' \subseteq 1..last'.log
      /\ logs' \in [DOMAIN logs' -> LogRow]
  BY TypesStep DEF Types, TypeOK, LogRow
<1>2. IsFiniteSet(1..last'.log)
  BY <1>1, FS_Interval
<1>3. QED BY <1>1, <1>2, FS_Subset DEF LogTable

\* A statement leaves the hours and logs of the orders alone that it does not
\* concern.
LEMMA TablesApart ==
  ASSUME Types, CallsAreOrderly, NEW c \in Clients, Step(c), NEW o \in Orders,
         o \notin Concerns(Head(call[c].todo))
  PROVE  /\ orders'[o] = orders[o] /\ written'[o] = written[o]
         /\ \A l \in RowsOf(logs, o) : l \in DOMAIN logs' /\ logs'[l] = logs[l]
         /\ \A l \in RowsOf(logs', o) : l \in DOMAIN logs /\ logs'[l] = logs[l]
<1> DEFINE s == Head(call[c].todo)
<1>1. s \in Statement
  BY WhichStep, NextStatement
<1>2. s.do \notin {"lower", "enter", "find", "end", "dropLog"} => s.order # o
  BY DEF Concerns
<1>3. s.do = "dropLog" /\ s.id \in DOMAIN logs => logs[s.id].order # o
  BY DEF Concerns
<1>4. last.log + 1 \notin DOMAIN logs
  BY LogsAreTable
<1>5. orders'[o] = orders[o]
  BY <1>2, OrdersAfter DEF OrderChanges
<1>6. written'[o] = written[o]
  <2>1. CASE s.do # "write"
    BY <2>1, StepFrame DEF Frame
  <2>2. CASE s.do = "write"
    <3>1. \/ written' = written
          \/ written' = [written EXCEPT ![s.order] = @ \cup s.row.by]
      BY <2>2, WhichStep DEF Write
    <3>2. s.order # o
      BY <1>2, <2>2
    <3>3. written \in [Orders -> SUBSET {"hand", "clock"}]
      BY DEF Types
    <3>4. QED BY <3>1, <3>2, <3>3
  <2>3. QED BY <2>1, <2>2
<1> HIDE DEF s
<1>7. CASE logs' = logs
  BY <1>5, <1>6, <1>7 DEF RowsOf
<1>8. CASE /\ s.do = "log"
           /\ DOMAIN logs' = DOMAIN logs \cup {last.log + 1}
           /\ \A l \in DOMAIN logs : logs'[l] = logs[l]
           /\ logs'[last.log + 1] =
                [order |-> s.order, user |-> s.user, hours |-> s.hours]
  <2>1. logs'[last.log + 1].order # o
    BY <1>2, <1>8
  <2>2. QED BY <1>5, <1>6, <1>8, <2>1 DEF RowsOf
<1>9. CASE /\ s.do = "dropLog"
           /\ DOMAIN logs' = DOMAIN logs \ {s.id}
           /\ \A l \in DOMAIN logs' : logs'[l] = logs[l]
  BY <1>3, <1>5, <1>6, <1>9 DEF RowsOf
<1>10. CASE /\ s.do = "delete"
            /\ DOMAIN logs' = {l \in DOMAIN logs : logs[l].order # s.order}
            /\ \A l \in DOMAIN logs' : logs'[l] = logs[l]
  BY <1>2, <1>5, <1>6, <1>10 DEF RowsOf
<1>11. QED BY <1>7, <1>8, <1>9, <1>10, LogsAfter DEF s

LEMMA HoursAreFreshStep ==
  ASSUME Types, CallsAreOrderly, ClashesShow, HoursAreFresh, NEW c \in Clients, Step(c)
  PROVE  HoursAreFresh'
<1> DEFINE s == Head(call[c].todo)
<1>1. /\ Moves(c) /\ Busy(c) /\ clashed' = clashed
      /\ Concerns(s) \subseteq call[c].orders
  BY WhichStep, NextStatement, StepMoves, StepFrame DEF Frame
<1> SUFFICES ASSUME NEW d \in Clients, Busy(d)', Head(call'[d].todo).do = "setHours",
                    Head(call'[d].todo).order \notin clashed
             PROVE  LET x == Head(call'[d].todo)
                        l == call'[d].todo[2].id
                    IN  /\ l \in DOMAIN logs' /\ logs'[l].order = x.order
                        /\ x.hours = Max({0, orders'[x.order].hours - logs'[l].hours})
  BY <1>1 DEF HoursAreFresh
<1>2. d # c
  BY <1>1 DEF Moves
<1>3. call'[d] = call[d] /\ Busy(d)
  BY <1>1, <1>2 DEF Moves
<1> DEFINE x == Head(call[d].todo)
           l == call[d].todo[2].id
           o == x.order
<1>4. Doing(d, "setHours")
  BY <1>3 DEF Doing, Busy
<1>5. x \in Todo(d) /\ x \in Statement /\ x.do = "setHours" /\ o \in Orders
  BY <1>4, NextStatement, StatementFields
<1>6. /\ l \in DOMAIN logs /\ logs[l].order = o
      /\ x.hours = Max({0, orders[o].hours - logs[l].hours})
  BY <1>3, <1>5 DEF HoursAreFresh
<1>7. o \in Concerns(x)
  BY <1>5 DEF Concerns
<1>8. o \notin Concerns(s)
  BY <1>1, <1>2, <1>3, <1>5, <1>7, OthersApart DEF Rewriting
<1>9. orders'[o] = orders[o] /\ l \in DOMAIN logs' /\ logs'[l] = logs[l]
  BY <1>5, <1>6, <1>8, TablesApart DEF RowsOf
<1> HIDE DEF x, l, o
<1>10. QED BY <1>3, <1>6, <1>9 DEF x, l, o

\* The debt of a call is that of its next statement.
LEMMA DebtCases ==
  ASSUME Types, CallsAreOrderly, NEW c \in Clients, NEW o \in Orders
  PROVE  LET x == Head(call[c].todo) IN
         /\ Debt(c, o) \in Nat
         /\ Debt(c, o) # 0 =>
              /\ Busy(c) /\ x \in Todo(c) /\ o \in Concerns(x)
              /\ x.do \in {"count", "dropLog"}
<1> DEFINE x == Head(call[c].todo)
<1>1. CASE ~Busy(c)
  BY <1>1 DEF Debt
<1>2. CASE Busy(c)
  <2>1. Doing(c, x.do)
    BY <1>2 DEF Doing, Busy
  <2>2. x \in Statement /\ x \in Todo(c)
    BY <2>1, NextStatement
  <2>3. x.do = "count" => x.hours \in Nat
    BY <2>2, StatementFields
  <2>4. \A l \in DOMAIN logs : logs[l].hours \in Nat
    BY DEF Types, TypeOK, LogRow
  <2> HIDE DEF x
  <2>5. QED BY <1>2, <2>2, <2>3, <2>4 DEF Debt, Concerns, x
<1>3. QED BY <1>1, <1>2

\* Undisturbed, nobody else's debt changes, and there is none while c rewrites.
LEMMA OthersDebt ==
  ASSUME Types, CallsAreOrderly, ClashesShow, NEW c \in Clients, Step(c),
         NEW d \in Clients, d # c, NEW o \in Orders \ clashed
  PROVE  /\ Debt(d, o)' = Debt(d, o)
         /\ o \in call[c].orders /\ call[c].rewrites => Debt(d, o) = 0
<1> DEFINE s == Head(call[c].todo)
           x == Head(call[d].todo)
<1>1. /\ Moves(c) /\ Busy(c) /\ Concerns(s) \subseteq call[c].orders
  BY WhichStep, NextStatement, StepMoves
<1>2. call'[d] = call[d]
  BY <1>1 DEF Moves
<1>3. o \in call[c].orders /\ call[c].rewrites => Debt(d, o) = 0
  BY <1>1, DebtCases, OthersApart
<1>4. ASSUME Busy(d), x.do = "dropLog"
      PROVE  x.id \in DOMAIN logs' /\ logs'[x.id].order = o
               <=> x.id \in DOMAIN logs /\ logs[x.id].order = o
  <2>1. Doing(d, "dropLog")
    BY <1>4 DEF Doing, Busy
  <2>2. x \in Todo(d) /\ x \in Statement
    BY <2>1, NextStatement
  <2>3. x.id \in 1..last.log
    BY <1>4, <2>2, StatementFields
  <2>4. x.id \in DOMAIN logs' => x.id \in DOMAIN logs /\ logs'[x.id] = logs[x.id]
    BY <2>3, RowsKept
  <2>5. ASSUME x.id \in DOMAIN logs, logs[x.id].order = o
        PROVE  x.id \in DOMAIN logs'
    <3>1. o \in Concerns(x)
      BY <1>4, <2>5 DEF Concerns
    <3>2. o \notin Concerns(s)
      BY <1>1, <1>4, <2>2, <3>1, OthersApart DEF Rewriting
    <3>3. QED BY <2>5, <3>2, TablesApart DEF RowsOf
  <2>6. QED BY <2>4, <2>5
<1>5. ASSUME Busy(d), x.do = "dropLog", x.id \in DOMAIN logs', logs'[x.id].order = o
      PROVE  logs'[x.id] = logs[x.id]
  <2>1. x.id \in DOMAIN logs /\ logs[x.id].order = o
    BY <1>4, <1>5
  <2>2. Types /\ x.id \in 1..last.log
    BY <2>1, LogsAreTable
  <2>3. QED BY <1>5, <2>2, RowsKept
<1>6. Debt(d, o)' = Debt(d, o)
  <2> HIDE DEF x
  <2>1. Busy(d)' <=> Busy(d)
    BY <1>2 DEF Busy
  <2>2. Head(call'[d].todo) = x
    BY <1>2 DEF x
  <2>3. Debt(d, o) = IF ~Busy(d) THEN 0
                     ELSE IF x.do = "count" /\ x.order = o THEN x.hours
                     ELSE IF x.do = "dropLog" /\ x.id \in DOMAIN logs /\ logs[x.id].order = o
                          THEN logs[x.id].hours
                     ELSE 0
    BY DEF Debt, x
  <2>4. Debt(d, o)' = IF ~Busy(d)' THEN 0
                     ELSE IF x.do = "count" /\ x.order = o THEN x.hours
                     ELSE IF x.do = "dropLog" /\ x.id \in DOMAIN logs' /\ logs'[x.id].order = o
                          THEN logs'[x.id].hours
                     ELSE 0
    BY <2>2 DEF Debt
  <2>5. QED BY <1>4, <1>5, <2>1, <2>3, <2>4
<1>7. QED BY <1>3, <1>6

\* The debts of the others.
RestOfDebts(c, o) == SumOf([d \in Clients |-> Debt(d, o)], Clients \ {c})

LEMMA DebtsSplit ==
  ASSUME Sane, Types, CallsAreOrderly, ClashesShow, NEW c \in Clients, Step(c),
         NEW o \in Orders \ clashed
  PROVE  /\ RestOfDebts(c, o) \in Nat /\ Debt(c, o) \in Nat /\ Debt(c, o)' \in Nat
         /\ Debts(o) = Debt(c, o) + RestOfDebts(c, o)
         /\ Debts(o)' = Debt(c, o)' + RestOfDebts(c, o)
         /\ o \in call[c].orders /\ call[c].rewrites => RestOfDebts(c, o) = 0
<1> DEFINE f == [d \in Clients |-> Debt(d, o)]
           g == [d \in Clients |-> Debt(d, o)']
<1>1. IsFiniteSet(Clients) /\ IsFiniteSet(Clients \ {c})
  BY FS_Subset DEF Sane
<1>2. \A d \in Clients : Debt(d, o) \in Nat
  BY DebtCases
<1>3. \A d \in Clients \ {c} : Debt(d, o)' = Debt(d, o)
  BY OthersDebt
<1>4. Debt(c, o)' \in Nat
  <2>1. CallsAreOrderly' /\ Types'
    BY CallsAreOrderlyStep, TypesStep
  <2> DEFINE x == Head(call'[c].todo)
  <2>2. \A l \in DOMAIN logs' : logs'[l].hours \in Nat
    BY <2>1 DEF Types, TypeOK, LogRow
  <2>3. Busy(c)' /\ x.do = "count" => x.hours \in Nat
    <3> SUFFICES ASSUME Busy(c)', x.do = "count" PROVE x.hours \in Nat
      OBVIOUS
    <3>1. x \in Todo(c)'
      BY <2>1 DEF Todo, Busy, Types, Call
    <3>2. x \in Statement
      BY <3>1, StepMoves DEF Moves
    <3>3. QED BY <3>2, StatementFields
  <2>4. QED BY <2>2, <2>3 DEF Debt
<1>5. Debts(o) = SumOf(f, Clients) /\ Debts(o)' = SumOf(g, Clients)
      /\ RestOfDebts(c, o) = SumOf(f, Clients \ {c})
  BY DEF Debts, RestOfDebts, SumOf, MapThenSumSet, MapThenFoldSet
<1>6. /\ \A d \in Clients : f[d] \in Nat /\ g[d] \in Nat
      /\ \A d \in Clients \ {c} : f[d] = g[d]
      /\ f[c] = Debt(c, o) /\ g[c] = Debt(c, o)'
      /\ o \in call[c].orders /\ call[c].rewrites => \A d \in Clients \ {c} : f[d] = 0
  BY <1>2, <1>3, <1>4, OthersDebt
<1> HIDE DEF f, g
<1>7. SumOf(f, Clients) = f[c] + SumOf(f, Clients \ {c})
  BY <1>1, <1>6, SumRemove
<1>8. SumOf(g, Clients) = g[c] + SumOf(g, Clients \ {c})
  BY <1>1, <1>6, SumRemove
<1>9. SumOf(g, Clients \ {c}) = SumOf(f, Clients \ {c})
  BY <1>1, <1>6, SumSame
<1>10. SumOf(f, Clients \ {c}) \in Nat
  BY <1>1, <1>6, SumType
<1>11. o \in call[c].orders /\ call[c].rewrites => SumOf(f, Clients \ {c}) = 0
  BY <1>1, <1>6, SumZero
<1>12. QED BY <1>2, <1>4, <1>5, <1>6, <1>7, <1>8, <1>9, <1>10, <1>11

\* A call comes to have debts by logging hours that are to be counted, or by
\* taking hours off before their log.
LEMMA DebtAfter ==
  ASSUME Types, CallsAreOrderly, NEW c \in Clients, Step(c), NEW o \in Orders
  PROVE  LET s == Head(call[c].todo)
             l == call[c].todo[2].id
         IN  \/ Debt(c, o)' = 0
             \/ s.do = "log" /\ s.order = o /\ Debt(c, o)' = s.hours
             \/ /\ s.do = "setHours" /\ s.order = o /\ l \in DOMAIN logs
                /\ logs[l].order = o /\ Debt(c, o)' = logs[l].hours
<1> DEFINE s == Head(call[c].todo)
           next == Head(call'[c].todo)
<1>1. Moves(c) /\ Busy(c) /\ Doing(c, s.do)
  BY StepMoves, WhichStep
<1>2. Debt(c, o)' = IF ~Busy(c)' THEN 0
                    ELSE IF next.do = "count" /\ next.order = o THEN next.hours
                    ELSE IF next.do = "dropLog" /\ next.id \in DOMAIN logs'
                            /\ logs'[next.id].order = o
                         THEN logs'[next.id].hours
                    ELSE 0
  BY DEF Debt
<1>3. CASE Busy(c)' /\ next.do = "count" /\ next.order = o
  BY <1>1, <1>2, <1>3 DEF Moves
<1>4. CASE /\ Busy(c)' /\ next.do = "dropLog" /\ next.id \in DOMAIN logs'
           /\ logs'[next.id].order = o
  <2>1. s.do = "setHours" /\ next = call[c].todo[2]
    BY <1>1, <1>4 DEF Moves
  <2>2. logs' = logs
    BY <2>1, StepFrame DEF Frame
  <2>3. s \in Todo(c) /\ s \in Statement /\ call[c].rewrites
        /\ Concerns(s) \subseteq call[c].orders
    BY <1>1, <2>1, NextStatement DEF Rewriting
  <2>4. 2 \in DOMAIN call[c].todo
    <3>1. call[c].todo \in Seq(Statement) /\ call[c].todo # << >> /\ Paired(call[c].todo)
      BY <1>1 DEF Types, Call, Busy, CallsAreOrderly
    <3>2. 1 \in DOMAIN call[c].todo /\ call[c].todo[1] = s
      BY <3>1
    <3> HIDE DEF s
    <3>3. PairedAt(call[c].todo, 1)
      BY <3>1, <3>2 DEF Paired
    <3>4. 1 + 1 \in DOMAIN call[c].todo
      BY <2>1, <3>2, <3>3 DEF PairedAt
    <3>5. QED BY <3>4
  <2>5. next \in Todo(c)
    BY <2>1, <2>4 DEF Todo
  <2>6. o \in Concerns(next)
    BY <1>4, <2>2 DEF Concerns
  <2>7. s.order \in Concerns(s)
    BY <2>1, <2>3, StatementFields DEF Concerns
  <2>8. s.order = o
    BY <2>3, <2>5, <2>6, <2>7 DEF CallsAreOrderly
  <2> HIDE DEF s, next
  <2>9. Debt(c, o)' = logs[next.id].hours
    BY <1>2, <1>4, <2>2
  <2>10. QED BY <1>4, <2>1, <2>2, <2>8, <2>9 DEF s
<1>5. QED BY <1>2, <1>3, <1>4

\* Logged hours are owed until they are counted.
LEMMA LogThenCount ==
  ASSUME Types, CallsAreOrderly, NEW c \in Clients, Step(c), Doing(c, "log"),
         Proceed(c, << >>), NEW o, o = Head(call[c].todo).order
  PROVE  Debt(c, o)' = Head(call[c].todo).hours
<1> DEFINE s == Head(call[c].todo)
           rest == Tail(call[c].todo)
<1>1. s \in Statement /\ Busy(c) /\ s.do = "log"
  BY NextStatement
<1>2. s.hours \in Nat /\ s.order \in Orders
  BY <1>1, StatementFields
<1>3. call[c].todo \in Seq(Statement) /\ call[c].todo # << >>
      /\ Sorted(call[c].todo) /\ Paired(call[c].todo)
  BY <1>1 DEF Types, Call, CallsAreOrderly, Busy
<1>4. call'[c].todo = rest
  <2>1. call'[c].todo = << >> \o rest
    <3>1. << >> \in Seq(Statement)
      BY EmptyList
    <3>2. QED BY <1>1, <3>1, Proceeded
  <2>2. rest \in Seq(Statement)
    BY <1>3
  <2>3. QED BY <2>1, <2>2
<1> DEFINE todo == call[c].todo
<1>5. /\ rest # << >> => (s.do = "log" /\ s.hours > 0 =>
           Head(rest) = [do |-> "count", order |-> s.order, hours |-> s.hours])
      /\ rest = << >> => ~(s.do = "log" /\ s.hours > 0)
  <2>1. todo \in Seq(Statement) /\ todo # << >> /\ Sorted(todo) /\ Paired(todo)
    BY <1>3
  <2> HIDE DEF todo
  <2>2. /\ Tail(todo) # << >> =>
             (Head(todo).do = "log" /\ Head(todo).hours > 0 =>
                Head(Tail(todo)) = [do |-> "count", order |-> Head(todo).order,
                                    hours |-> Head(todo).hours])
        /\ Tail(todo) = << >> => ~(Head(todo).do = "log" /\ Head(todo).hours > 0)
    BY <2>1, TailOrderly
  <2>3. QED BY <2>2 DEF todo
<1> HIDE DEF rest, s
<1>6. CASE s.hours > 0
  <2>1. rest # << >> /\ Head(rest).do = "count" /\ Head(rest).order = o
        /\ Head(rest).hours = s.hours
    BY <1>1, <1>5, <1>6 DEF s
  <2>2. QED BY <1>4, <2>1 DEF Debt, Busy, s
<1>7. CASE s.hours = 0
  <2>1. Debt(c, o)' = 0 \/ Debt(c, o)' = s.hours
    BY <1>1, <1>2, DebtAfter DEF s
  <2>2. QED BY <1>7, <2>1 DEF s
<1>8. QED BY <1>2, <1>6, <1>7

\* The hours that a call owes are what its order's hours lack, whatever it
\* does next; hours taken off stop at zero.
LEMMA BalanceMoves ==
  ASSUME Sane, Types, CallsAreOrderly, ClashesShow, OrdersExist, HoursAreFresh,
         NEW c \in Clients, Step(c), NEW o \in Orders \ clashed, written'[o] = {}
  PROVE  /\ written[o] = {}
         /\ \/ orders'[o].hours + Debt(c, o)' + TotalOf(logs, o)
                 = orders[o].hours + Debt(c, o) + TotalOf(logs', o)
            \/ /\ Debt(c, o) = 0 /\ RestOfDebts(c, o) = 0
               /\ TotalOf(logs', o) = TotalOf(logs, o)
               /\ \E k \in Nat : /\ k <= TotalOf(logs, o)
                                 /\ orders'[o].hours + Debt(c, o)' =
                                      IF orders[o].hours >= k THEN orders[o].hours ELSE k
            \/ /\ RestOfDebts(c, o) = 0 /\ orders'[o].hours = 0 /\ Debt(c, o)' = 0
               /\ TotalOf(logs', o) = 0
<1> DEFINE s == Head(call[c].todo)
           h == orders[o].hours
           q == Debt(c, o)
           t == TotalOf(logs, o)
           hh == orders'[o].hours
           qq == Debt(c, o)'
           tt == TotalOf(logs', o)
           r == RestOfDebts(c, o)
<1>1. /\ Busy(c) /\ Doing(c, s.do) /\ s \in Statement /\ s \in Todo(c)
      /\ Todo(c) = {s} \cup Rest(c) /\ Rest(c) \subseteq Statement
      /\ \A x \in Rest(c) : Before(s, x)
      /\ Concerns(s) \subseteq call[c].orders
      /\ s.do \in Rewriting => call[c].rewrites
  BY WhichStep, NextStatement
<1>2. Moves(c) /\ Frame(c)
  BY StepMoves, StepFrame
<1>3. LogTable(logs) /\ LogTable(logs') /\ DOMAIN logs \subseteq 1..last.log /\ last.log \in Nat
  BY LogsAreTable, LogsStayTable
<1>4. h \in Nat /\ hh \in Nat /\ t \in Nat /\ tt \in Nat
  <2>1. orders[o].hours \in Nat /\ orders'[o].hours \in Nat
    BY TypesStep DEF Types, TypeOK, OrderRow
  <2>2. QED BY <1>3, <2>1, TableRows
<1>5. /\ q \in Nat /\ qq \in Nat /\ r \in Nat
      /\ o \in call[c].orders /\ call[c].rewrites => r = 0
  BY DebtsSplit
<1>6. written[o] = {}
  <2>1. CASE s.do # "write"
    BY <1>2, <2>1 DEF Frame
  <2>2. CASE s.do = "write"
    <3>1. \/ written' = written
          \/ written' = [written EXCEPT ![s.order] = @ \cup s.row.by]
      BY <2>2, WhichStep DEF Write
    <3>2. written \in [Orders -> SUBSET {"hand", "clock"}]
      BY DEF Types
    <3>3. QED BY <3>1, <3>2
  <2>3. QED BY <2>1, <2>2
<1>7. q # 0 => s.do \in {"count", "dropLog"} /\ o \in Concerns(s)
  BY DebtCases
<1>8. s.do \notin {"log", "setHours"} => qq = 0
  BY DebtAfter
<1>9. logs' = logs => tt = t
  BY DEF TotalOf
<1> DEFINE Goal == \/ hh + qq + t = h + q + tt
                   \/ /\ q = 0 /\ r = 0 /\ tt = t
                      /\ \E k \in Nat : k <= t /\ hh + qq = IF h >= k THEN h ELSE k
                   \/ r = 0 /\ hh = 0 /\ qq = 0 /\ tt = 0
<1> SUFFICES Goal
  BY <1>6
<1>10. CASE o \notin Concerns(s)
  <2>1. /\ orders'[o] = orders[o]
        /\ \A l \in RowsOf(logs, o) : l \in DOMAIN logs' /\ logs'[l] = logs[l]
        /\ \A l \in RowsOf(logs', o) : l \in DOMAIN logs /\ logs'[l] = logs[l]
    BY <1>10, TablesApart
  <2>2. tt = t
    BY <1>3, <2>1, TotalSame
  <2>3. qq = 0
    <3>1. s.do \in {"log", "setHours"} => s.order # o
      BY <1>10 DEF Concerns
    <3>2. QED BY <3>1, DebtAfter
  <2>4. q = 0
    BY <1>7, <1>10
  <2> HIDE DEF h, q, t, qq, tt, r
  <2>5. hh = h
    BY <2>1 DEF h
  <2> HIDE DEF hh
  <2>6. QED BY <1>4, <2>2, <2>3, <2>4, <2>5
<1>11. CASE o \in Concerns(s)
  <2>1. o \in call[c].orders /\ (s.do \in Rewriting => r = 0)
    BY <1>1, <1>5, <1>11
  <2>2. s.do \notin {"lower", "enter", "find", "end", "dropLog"} => s.order = o
    BY <1>11 DEF Concerns
  <2>3. Exists(o) \/ s.do = "insert"
    <3>1. Exists(o) \/ \E x \in Todo(c) : x.do = "insert"
      BY <1>1, <2>1 DEF OrdersExist
    <3>2. ASSUME NEW x \in Rest(c), x.do = "insert" PROVE FALSE
      <4>1. Before(s, x) /\ Rank[s.do] \in 0..13
        BY <1>1, StatementFields
      <4>2. QED BY <3>2, <4>1 DEF Before, Rank
    <3>3. QED BY <1>1, <3>1, <3>2
  <2>4. CASE s.do \notin {"log", "count", "setHours", "dropLog", "write", "delete"}
    <3>1. logs' = logs
      BY <1>2, <2>4 DEF Frame
    <3>2. hh = h
      BY <2>2, <2>4, OrdersAfter DEF OrderChanges
    <3>3. q = 0 /\ qq = 0 /\ tt = t
      BY <1>7, <1>8, <1>9, <2>4, <3>1
    <3> HIDE DEF h, q, t, hh, qq, tt, r
    <3>4. QED BY <1>4, <3>2, <3>3
  <2>5. CASE s.do = "log"
    <3>1. s.order = o /\ Exists(o)
      BY <2>2, <2>3, <2>5
    <3>2. ~Abort(c) \/ Proceed(c, << >>)
      BY <3>1, <2>5, WhichStep DEF Log
    <3>3. /\ Proceed(c, << >>)
          /\ logs' = Put(logs, last.log + 1,
                         [order |-> o, user |-> s.user, hours |-> s.hours])
      <4>1. Log(c)
        BY <2>5, WhichStep
      <4>2. last \in [session : Nat, log : Nat]
        BY DEF Types
      <4> HIDE DEF s
      <4>3. QED BY <3>1, <4>1, <4>2 DEF Log, s
    <3>4. qq = s.hours
      BY <1>1, <2>5, <3>1, <3>3, LogThenCount
    <3>5. tt = t + s.hours
      <4> DEFINE new == last.log + 1
      <4>1. new \notin DOMAIN logs
        BY <1>3
      <4> HIDE DEF new, s
      <4>2. /\ DOMAIN logs' = DOMAIN logs \cup {new}
            /\ \A l \in DOMAIN logs : logs'[l] = logs[l]
            /\ logs'[new].order = o /\ logs'[new].hours = s.hours
        BY <3>3, <4>1 DEF Put, new
      <4>3. new \in RowsOf(logs', o)
        BY <4>2 DEF RowsOf
      <4>4. QED BY <1>3, <4>1, <4>2, <4>3, TotalMore DEF RowsOf
    <3>6. hh = h /\ q = 0
      BY <1>2, <1>7, <2>5 DEF Frame
    <3>7. s.hours \in Nat
      BY <1>1, <2>5, StatementFields
    <3> HIDE DEF h, q, t, hh, qq, tt, r, s
    <3>8. QED BY <1>4, <3>4, <3>5, <3>6, <3>7
  <2>6. CASE s.do = "count"
    <3>1. s.order = o /\ Exists(o)
      BY <2>2, <2>3, <2>6
    <3>2. orders' = [orders EXCEPT ![o].hours = @ + s.hours]
      BY <2>6, <3>1, WhichStep DEF Count
    <3>3. hh = h + s.hours
      <4>1. orders \in [Orders -> OrderRow]
        BY DEF Types, TypeOK
      <4> HIDE DEF s
      <4>2. QED BY <3>2, <4>1 DEF OrderRow
    <3>4. logs' = logs
      BY <1>2, <2>6 DEF Frame
    <3>5. q = s.hours
      BY <1>1, <2>6, <3>1 DEF Debt
    <3>6. qq = 0 /\ tt = t
      BY <1>8, <1>9, <2>6, <3>4
    <3> HIDE DEF h, q, t, hh, qq, tt, r, s
    <3>7. QED BY <1>4, <1>5, <3>3, <3>5, <3>6
  <2>7. CASE s.do = "setHours"
    <3> DEFINE l == call[c].todo[2].id
    <3>1. s.order = o /\ Exists(o) /\ r = 0 /\ q = 0
      BY <1>7, <2>1, <2>2, <2>3, <2>7 DEF Rewriting
    <3>2. orders' = [orders EXCEPT ![o].hours = s.hours] /\ Proceed(c, << >>)
      BY <2>7, <3>1, WhichStep DEF SetHours
    <3>3. hh = s.hours
      <4>1. orders \in [Orders -> OrderRow]
        BY DEF Types, TypeOK
      <4> HIDE DEF s
      <4>2. QED BY <3>2, <4>1 DEF OrderRow
    <3>4. logs' = logs /\ tt = t
      BY <1>2, <1>9, <2>7 DEF Frame
    <3>5. /\ l \in DOMAIN logs /\ logs[l].order = o
          /\ s.hours = Max({0, h - logs[l].hours})
      BY <1>1, <2>7, <3>1 DEF HoursAreFresh
    <3>6. l \in RowsOf(logs, o) /\ logs[l].hours \in Nat
      BY <1>3, <3>5 DEF RowsOf, LogTable, LogRow
    <3>7. logs[l].hours <= t
      BY <1>3, <3>6, TotalPart
    <3>8. qq = logs[l].hours
      <4>1. call[c].todo \in Seq(Statement) /\ call[c].todo # << >>
            /\ Sorted(call[c].todo) /\ Paired(call[c].todo)
        BY <1>1 DEF Types, Call, CallsAreOrderly, Busy
      <4>2. /\ Tail(call[c].todo) # << >>
            /\ Head(Tail(call[c].todo)).do = "dropLog"
            /\ Head(Tail(call[c].todo)) = call[c].todo[2]
        <5> DEFINE todo == call[c].todo
        <5>1. todo \in Seq(Statement) /\ todo # << >> /\ Sorted(todo) /\ Paired(todo)
              /\ Head(todo).do = "setHours"
          BY <2>7, <4>1
        <5> HIDE DEF todo
        <5>2. /\ Tail(todo) # << >> =>
                   /\ Head(Tail(todo)).do = "dropLog" <=> Head(todo).do = "setHours"
                   /\ Head(Tail(todo)) = todo[2]
              /\ Tail(todo) = << >> => Head(todo).do # "setHours"
          BY <5>1, TailOrderly
        <5>3. QED BY <5>1, <5>2 DEF todo
      <4>3. call'[c].todo = Tail(call[c].todo)
        <5>1. << >> \in Seq(Statement)
          BY EmptyList
        <5>2. call'[c].todo = << >> \o Tail(call[c].todo)
          BY <1>1, <3>2, <5>1, Proceeded
        <5>3. Tail(call[c].todo) \in Seq(Statement)
          BY <4>1
        <5>4. QED BY <5>2, <5>3
      <4> HIDE DEF l
      <4>4. Head(call'[c].todo).do = "dropLog" /\ Head(call'[c].todo).id = l /\ Busy(c)'
        BY <4>2, <4>3 DEF Busy, l
      <4>5. QED BY <3>4, <3>5, <4>4 DEF Debt
    <3> DEFINE k == logs[l].hours
    <3>9. hh = IF h >= k THEN h - k ELSE 0
      <4>1. k \in Nat
        BY <3>6
      <4> HIDE DEF k, h
      <4>2. Max({0, h - k}) = IF 0 >= h - k THEN 0 ELSE h - k
        BY <1>4, <4>1, MaxOfTwo
      <4>3. s.hours = Max({0, h - k})
        BY <3>5 DEF k
      <4>4. QED BY <1>4, <3>3, <4>1, <4>2, <4>3
    <3>10. k \in Nat /\ k <= t /\ qq = k
      BY <3>6, <3>7, <3>8
    <3> HIDE DEF h, q, t, hh, qq, tt, r, s, k
    <3>11. hh + qq = IF h >= k THEN h ELSE k
      BY <1>4, <3>9, <3>10
    <3>12. QED BY <3>1, <3>4, <3>10, <3>11
  <2>8. CASE s.do = "dropLog"
    <3>1. s.id \in DOMAIN logs /\ logs[s.id].order = o
      BY <2>8, <1>11 DEF Concerns
    <3>2. logs' = [l \in DOMAIN logs \ {s.id} |-> logs[l]]
      BY <2>8, WhichStep DEF DropLog
    <3>3. q = logs[s.id].hours
      BY <1>1, <2>8, <3>1 DEF Debt
    <3>4. hh = h /\ qq = 0
      BY <1>2, <1>8, <2>8 DEF Frame
    <3>5. t = tt + logs[s.id].hours
      <4> DEFINE old == s.id
      <4>1. old \in RowsOf(logs, o) /\ old \notin DOMAIN logs'
            /\ DOMAIN logs' = DOMAIN logs \ {old}
            /\ \A l \in DOMAIN logs' : logs'[l] = logs[l]
        BY <3>1, <3>2 DEF RowsOf
      <4> HIDE DEF old
      <4>2. TotalOf(logs, o) = TotalOf(logs', o) + logs[old].hours
        BY <1>3, <4>1, TotalMore DEF RowsOf
      <4>3. QED BY <4>2 DEF old
    <3> HIDE DEF h, q, t, hh, qq, tt, r
    <3>6. QED BY <1>4, <1>5, <3>3, <3>4, <3>5
  <2>9. CASE s.do = "write"
    <3>1. s.order = o /\ Exists(o)
      BY <2>2, <2>3, <2>9
    <3>2. /\ orders'[o].hours = Or(s.row.hours, h)
          /\ written' = [written EXCEPT ![o] = @ \cup s.row.by]
      <4>1. orders \in [Orders -> OrderRow]
        BY DEF Types, TypeOK
      <4>2. Write(c)
        BY <2>9, WhichStep
      <4> HIDE DEF s
      <4>3. QED BY <3>1, <4>1, <4>2 DEF Write, s
    <3>3. s.row.by = {}
      BY <3>2 DEF Types
    <3>4. s.row.hours = None
      BY <1>1, <2>9, <3>3 DEF CallsAreOrderly
    <3>5. hh = h
      BY <3>2, <3>4 DEF Or
    <3>6. logs' = logs
      BY <1>2, <2>9 DEF Frame
    <3>7. q = 0 /\ qq = 0 /\ tt = t
      BY <1>7, <1>8, <1>9, <2>9, <3>6
    <3> HIDE DEF h, q, t, hh, qq, tt, r
    <3>8. QED BY <1>4, <3>5, <3>7
  <2>10. CASE s.do = "delete"
    <3>1. s.order = o /\ r = 0
      BY <2>1, <2>2, <2>10 DEF Rewriting
    <3>2. orders' = [orders EXCEPT ![o] = [Absent EXCEPT !.status = "GONE"]]
          /\ logs' = Without(logs, o)
      BY <2>10, <3>1, WhichStep DEF Delete
    <3>3. hh = 0
      <4>1. orders \in [Orders -> OrderRow]
        BY DEF Types, TypeOK
      <4>2. QED BY <3>2, <4>1 DEF Absent
    <3>4. RowsOf(logs', o) = {}
      BY <3>2 DEF Without, RowsOf
    <3>5. tt = 0
      BY <3>4, TotalNone
    <3>6. qq = 0
      BY <1>8, <2>10
    <3>7. QED BY <3>1, <3>3, <3>5, <3>6
  <2>11. QED BY <2>4, <2>5, <2>6, <2>7, <2>8, <2>9, <2>10
<1>12. QED BY <1>10, <1>11

LEMMA BalancedStep ==
  ASSUME Sane, Types, CallsAreOrderly, ClashesShow, OrdersExist, HoursAreFresh,
         Balanced, NEW c \in Clients, Step(c)
  PROVE  Balanced'
<1>1. clashed' = clashed /\ restarts' = restarts
  BY StepFrame DEF Frame
<1> SUFFICES ASSUME NEW o \in Orders \ clashed, written'[o] = {}
             PROVE  /\ orders'[o].hours + Debts(o)' <= Logged(o)'
                    /\ restarts = 0 => orders'[o].hours + Debts(o)' = Logged(o)'
  BY <1>1 DEF Balanced
<1> DEFINE h == orders[o].hours
           q == Debt(c, o)
           t == TotalOf(logs, o)
           hh == orders'[o].hours
           qq == Debt(c, o)'
           tt == TotalOf(logs', o)
           r == RestOfDebts(c, o)
<1>2. /\ written[o] = {}
      /\ \/ hh + qq + t = h + q + tt
         \/ /\ q = 0 /\ r = 0 /\ tt = t
            /\ \E k \in Nat : k <= t /\ hh + qq = IF h >= k THEN h ELSE k
         \/ r = 0 /\ hh = 0 /\ qq = 0 /\ tt = 0
  BY BalanceMoves
<1>3. /\ h \in Nat /\ hh \in Nat /\ t \in Nat /\ tt \in Nat
  <2>1. h \in Nat /\ hh \in Nat
    BY TypesStep DEF Types, TypeOK, OrderRow
  <2>2. QED BY <2>1, TableRows, LogsAreTable, LogsStayTable
<1>4. /\ q \in Nat /\ qq \in Nat /\ r \in Nat
      /\ Debts(o) = q + r /\ Debts(o)' = qq + r
  BY DebtsSplit
<1>5. Logged(o) = t /\ Logged(o)' = tt
  BY LoggedTotal
<1>6. h + Debts(o) <= Logged(o) /\ (restarts = 0 => h + Debts(o) = Logged(o))
  BY <1>2 DEF Balanced
<1>7. h + (q + r) <= t /\ (restarts = 0 => h + (q + r) = t)
  BY <1>4, <1>5, <1>6
<1>8. hh + (qq + r) <= tt /\ (restarts = 0 => hh + (qq + r) = tt)
  <2> HIDE DEF h, q, t, hh, qq, tt, r
  <2>1. CASE hh + qq + t = h + q + tt
    BY <1>3, <1>4, <1>7, <2>1
  <2>2. CASE /\ q = 0 /\ r = 0 /\ tt = t
             /\ \E k \in Nat : k <= t /\ hh + qq = IF h >= k THEN h ELSE k
    BY <1>3, <1>4, <1>7, <2>2
  <2>3. CASE r = 0 /\ hh = 0 /\ qq = 0 /\ tt = 0
    BY <2>3
  <2>4. QED BY <1>2, <2>1, <2>2, <2>3
<1>9. QED BY <1>4, <1>5, <1>8
-----------------------------------------------------------------------------
(* How a call begins.                                                      *)

\* What a list of statements needs for a call to begin with it.
WellBegun(c, os, rewrites, todo) ==
  /\ os \subseteq Orders /\ rewrites \in BOOLEAN
  /\ rewrites => \A o, p \in os : o = p
  /\ todo \in Seq(Statement) /\ Sorted(todo) /\ Paired(todo)
  /\ \A x \in Elems(todo) :
       /\ Concerns(x) \subseteq os
       /\ x.do \in Rewriting => rewrites
       /\ x.do = "write" => (x.row.by = {} => x.row.hours = None)
       /\ x.do # "enter"
       /\ x.do = "open" =>
            /\ \A i \in Running(c) :
                 \E y \in Elems(todo) : y.do \in {"find", "end"} /\ y.id = i
            /\ orders[x.order].status \in Closing =>
                 \E y \in Elems(todo) : y.do = "resume" /\ y.waited /\ y.order = x.order
       /\ x.do = "write" /\ x.row.status \in Closing =>
            \E y \in Elems(todo) : y.do = "stopAll" /\ y.order = x.order
  /\ \A o \in os : Exists(o) \/ \E x \in Elems(todo) : x.do = "insert"
  /\ todo # << >> =>
       LET x == Head(todo) IN
       /\ x.do # "count"
       /\ x.do = "setHours" =>
            LET l == todo[2].id IN
            /\ l \in DOMAIN logs /\ logs[l].order = x.order
            /\ x.hours = Max({0, orders[x.order].hours - logs[l].hours})
       /\ x.do = "dropLog" /\ x.id \in DOMAIN logs => logs[x.id].hours = 0

\* What beginning changes and what it leaves alone.
Begun(c, os, rewrites, todo) ==
  /\ ~Busy(c) /\ Todo(c) = {} /\ call' \in [Clients -> Call]
  /\ call'[c] = [todo |-> todo, orders |-> os, rewrites |-> rewrites]
  /\ Todo(c)' = Elems(todo)
  /\ \A d \in Clients \ {c} :
       call'[d] = call[d] /\ Todo(d)' = Todo(d) /\ (Busy(d)' <=> Busy(d))
  /\ clashed \subseteq clashed' /\ clashed' \subseteq Orders
  /\ \A d \in Clients \ {c} : Busy(d) /\ (rewrites \/ call[d].rewrites) =>
       os \cap call[d].orders \subseteq clashed'
  /\ load' = load /\ orders' = orders /\ materials' = materials
  /\ sessions' = sessions /\ logs' = logs /\ last' = last /\ stock' = stock
  /\ ledger' = ledger /\ written' = written /\ now' = now
  /\ missed' = missed /\ restarts' = restarts

LEMMA BeginChanges ==
  ASSUME Types, NEW c \in Clients, NEW handler, NEW os \in SUBSET Orders,
         NEW rewrites \in BOOLEAN, NEW todo \in Seq(Statement),
         Begin(c, handler, os, rewrites, todo)
  PROVE  Begun(c, os, rewrites, todo)
<1> DEFINE new == [todo |-> todo, orders |-> os, rewrites |-> rewrites]
<1>1. call \in [Clients -> Call] /\ clashed \subseteq Orders
  BY DEF Types
<1>2. /\ call[c].todo = << >> /\ call' = [call EXCEPT ![c] = new]
      /\ clashed' = clashed \cup
           {o \in os : \E d \in Clients \ {c} :
                         /\ call[d].todo # << >> /\ o \in call[d].orders
                         /\ rewrites \/ call[d].rewrites}
      /\ UNCHANGED <<load, tables, now, missed, restarts>>
  BY DEF Begin
<1>3. new \in Call
  BY DEF Call
<1> HIDE DEF new
<1>4. /\ call' \in [Clients -> Call] /\ call'[c] = new
      /\ \A d \in Clients \ {c} : call'[d] = call[d]
  BY <1>1, <1>2, <1>3
<1>5. \A d \in Clients \ {c} : Todo(d)' = Todo(d) /\ (Busy(d)' <=> Busy(d))
  BY <1>4 DEF Todo, Busy
<1>6. ~Busy(c) /\ Todo(c) = {}
  <2>1. DOMAIN << >> = {}
    OBVIOUS
  <2>2. QED BY <1>2, <2>1 DEF Busy, Todo
<1>7. Todo(c)' = Elems(todo)
  BY <1>4 DEF Todo, Elems, new
<1>8. /\ load' = load /\ orders' = orders /\ materials' = materials
      /\ sessions' = sessions /\ logs' = logs /\ last' = last /\ stock' = stock
      /\ ledger' = ledger /\ written' = written /\ now' = now
      /\ missed' = missed /\ restarts' = restarts
  BY <1>2 DEF tables
<1>9. /\ clashed \subseteq clashed' /\ clashed' \subseteq Orders
      /\ \A d \in Clients \ {c} : Busy(d) /\ (rewrites \/ call[d].rewrites) =>
           os \cap call[d].orders \subseteq clashed'
  BY <1>1, <1>2 DEF Busy
<1>10. QED BY <1>4, <1>5, <1>6, <1>7, <1>8, <1>9 DEF Begun, new

\* A call that is well begun keeps the invariant.
LEMMA BeginKeeps ==
  ASSUME Sane, IInv, NEW c \in Clients, NEW handler, NEW os, NEW rewrites, NEW todo,
         WellBegun(c, os, rewrites, todo), Begin(c, handler, os, rewrites, todo)
  PROVE  IInv'
<1>1. Begun(c, os, rewrites, todo)
  <2>1. /\ Types /\ os \in SUBSET Orders /\ rewrites \in BOOLEAN
        /\ todo \in Seq(Statement)
    BY DEF WellBegun, IInv
  <2>2. QED BY <2>1, BeginChanges
<1>2. /\ ~Busy(c) /\ Todo(c) = {} /\ call' \in [Clients -> Call]
      /\ call'[c] = [todo |-> todo, orders |-> os, rewrites |-> rewrites]
      /\ Todo(c)' = Elems(todo)
      /\ \A d \in Clients \ {c} :
           call'[d] = call[d] /\ Todo(d)' = Todo(d) /\ (Busy(d)' <=> Busy(d))
      /\ clashed \subseteq clashed' /\ clashed' \subseteq Orders
      /\ \A d \in Clients \ {c} : Busy(d) /\ (rewrites \/ call[d].rewrites) =>
           os \cap call[d].orders \subseteq clashed'
  BY <1>1 DEF Begun
<1>3. /\ load' = load /\ orders' = orders /\ materials' = materials
      /\ sessions' = sessions /\ logs' = logs /\ last' = last /\ stock' = stock
      /\ ledger' = ledger /\ written' = written /\ now' = now
      /\ missed' = missed /\ restarts' = restarts
  BY <1>1 DEF Begun
<1>4. \A x : Concerns(x)' = Concerns(x)
  BY <1>3 DEF Concerns
<1>5. /\ \A d : Running(d)' = Running(d) /\ RunningOn(d)' = RunningOn(d)
      /\ \A o, i : IssuedTo(o, i)' = IssuedTo(o, i)
      /\ \A o : Exists(o)' = Exists(o)
  BY <1>3 DEF Running, RunningOn, IssuedTo, Exists
<1>6. Types'
  <2>1. Call' = Call
    BY <1>3, StatementGrows DEF Call, Statement, OfOrder, OfIssue, OfSession, OfLog,
                                UpdateRow, Times
  <2>2. TypeOK'
    BY <1>3 DEF IInv, Types, TypeOK, OrderRow, Session, Times
  <2>3. QED BY <1>2, <1>3, <2>1, <2>2 DEF IInv, Types
<1>7. RowsExist'
  BY <1>3 DEF IInv, RowsExist, Exists
<1>8. CallsAreOrderly'
  <2> SUFFICES ASSUME NEW d \in Clients
               PROVE  /\ Sorted(call'[d].todo) /\ Paired(call'[d].todo)
                      /\ call'[d].rewrites => \A o, p \in call'[d].orders : o = p
                      /\ \A x \in Todo(d)' :
                           /\ Concerns(x) \subseteq call'[d].orders
                           /\ x.do \in Rewriting => call'[d].rewrites
                           /\ x.do = "write" => (x.row.by = {} => x.row.hours = None)
    BY <1>4 DEF CallsAreOrderly, Sorted, Paired, PairedAt, Before, Rewriting, Rank, Final
  <2>1. CASE d = c
    BY <1>2, <2>1 DEF WellBegun
  <2>2. CASE d # c
    BY <1>2, <2>2 DEF IInv, CallsAreOrderly
  <2>3. QED BY <2>1, <2>2
<1>9. ClashesShow'
  <2> SUFFICES ASSUME NEW d \in Clients, NEW e \in Clients, d # e, Busy(d)', Busy(e)',
                      call'[d].rewrites \/ call'[e].rewrites
               PROVE  call'[d].orders \cap call'[e].orders \subseteq clashed'
    BY DEF ClashesShow
  <2>1. CASE d # c /\ e # c
    BY <1>2, <2>1 DEF IInv, ClashesShow
  <2>2. CASE d = c
    BY <1>2, <2>2
  <2>3. CASE e = c
    BY <1>2, <2>3
  <2>4. QED BY <2>1, <2>2, <2>3
<1>10. OrdersExist'
  <2> SUFFICES ASSUME NEW d \in Clients, NEW o \in call'[d].orders \ clashed', Busy(d)'
               PROVE  Exists(o) \/ \E x \in Todo(d)' : x.do = "insert"
    BY <1>5 DEF OrdersExist
  <2>1. CASE d = c
    BY <1>2, <2>1 DEF WellBegun
  <2>2. CASE d # c
    BY <1>2, <2>2 DEF IInv, OrdersExist
  <2>3. QED BY <2>1, <2>2
<1>11. IssuesAreNew'
  <2> SUFFICES ASSUME NEW d \in Clients, NEW x \in Todo(d)', x.do = "enter",
                      x.issue.order \notin clashed'
               PROVE  IssuedTo(x.issue.order, x.issue.item) = {}
    BY <1>5 DEF IssuesAreNew
  <2>1. CASE d = c
    BY <1>2, <2>1 DEF WellBegun
  <2>2. CASE d # c
    BY <1>2, <2>2 DEF IInv, IssuesAreNew
  <2>3. QED BY <2>1, <2>2
<1>12. IssuedOnce'
  BY <1>2, <1>5 DEF IInv, IssuedOnce
<1>13. OpensAreSafe'
  <2> SUFFICES ASSUME NEW d \in Clients, NEW x \in Todo(d)', x.do = "open",
                      NEW i \in Running(d)
               PROVE  \E y \in Todo(d)' : y.do \in {"find", "end"} /\ y.id = i
    BY <1>5 DEF OpensAreSafe, Stops
  <2>1. CASE d = c
    BY <1>2, <2>1 DEF WellBegun
  <2>2. CASE d # c
    BY <1>2, <2>2 DEF IInv, OpensAreSafe, Stops
  <2>3. QED BY <2>1, <2>2
<1>14. OneRunningSession'
  BY <1>5 DEF IInv, OneRunningSession
<1>15. OpensAreTimely'
  <2> SUFFICES ASSUME NEW d \in Clients, NEW x \in Todo(d)', x.do = "open",
                      x.order \notin clashed', orders[x.order].status \in Closing
               PROVE  \E y \in Todo(d)' : y.do = "resume" /\ y.waited /\ y.order = x.order
    BY <1>3 DEF OpensAreTimely
  <2>1. CASE d = c
    BY <1>2, <2>1 DEF WellBegun
  <2>2. CASE d # c
    BY <1>2, <2>2 DEF IInv, OpensAreTimely
  <2>3. QED BY <2>1, <2>2
<1>16. WritesAreSafe'
  <2> SUFFICES ASSUME NEW d \in Clients, NEW x \in Todo(d)', x.do = "write",
                      x.order \notin clashed', x.row.status \in Closing
               PROVE  \/ \E y \in Todo(d)' : y.do = "stopAll" /\ y.order = x.order
                      \/ \A i \in RunningOn(x.order) \ missed :
                           \E y \in Todo(d)' : y.do \in {"find", "end"} /\ y.id = i
    BY <1>3, <1>5 DEF WritesAreSafe, Stops
  <2>1. CASE d = c
    BY <1>2, <2>1 DEF WellBegun
  <2>2. CASE d # c
    BY <1>2, <2>2 DEF IInv, WritesAreSafe, Stops
  <2>3. QED BY <2>1, <2>2
<1>17. ClosedOrdersAreQuiet'
  BY <1>2, <1>3, <1>5 DEF IInv, ClosedOrdersAreQuiet
<1>18. HoursAreFresh'
  <2> SUFFICES ASSUME NEW d \in Clients, Busy(d)', Head(call'[d].todo).do = "setHours",
                      Head(call'[d].todo).order \notin clashed'
               PROVE  LET x == Head(call'[d].todo)
                          l == call'[d].todo[2].id
                      IN  /\ l \in DOMAIN logs' /\ logs'[l].order = x.order
                          /\ x.hours = Max({0, orders'[x.order].hours - logs'[l].hours})
    BY DEF HoursAreFresh
  <2>1. CASE d = c
    <3>1. call'[d].todo = todo /\ todo # << >>
      BY <1>2, <2>1 DEF Busy
    <3>2. LET l == todo[2].id IN
          /\ l \in DOMAIN logs /\ logs[l].order = Head(todo).order
          /\ Head(todo).hours = Max({0, orders[Head(todo).order].hours - logs[l].hours})
      BY <3>1 DEF WellBegun
    <3>3. QED BY <1>3, <3>1, <3>2
  <2>2. CASE d # c
    BY <1>2, <1>3, <2>2 DEF IInv, HoursAreFresh
  <2>3. QED BY <2>1, <2>2
<1>19. Balanced'
  <2>1. ASSUME NEW o \in Orders, NEW d \in Clients PROVE Debt(d, o)' = Debt(d, o)
    <3>1. CASE d = c
      <4>1. Debt(c, o) = 0
        BY <1>2 DEF Debt
      <4>2. Debt(c, o)' = 0
        BY <1>2, <1>3 DEF Debt, Busy, WellBegun
      <4>3. QED BY <3>1, <4>1, <4>2
    <3>2. CASE d # c
      BY <1>2, <1>3, <3>2 DEF Debt
    <3>3. QED BY <3>1, <3>2
  <2>2. ASSUME NEW o \in Orders PROVE Debts(o)' = Debts(o)
    <3> DEFINE f == [d \in Clients |-> Debt(d, o)]
               g == [d \in Clients |-> Debt(d, o)']
    <3>1. f = g
      BY <2>1
    <3>2. Debts(o) = SumOf(f, Clients) /\ Debts(o)' = SumOf(g, Clients)
      BY DEF Debts, SumOf, MapThenSumSet, MapThenFoldSet
    <3> HIDE DEF f, g
    <3>3. QED BY <3>1, <3>2
  <2>3. \A o : Logged(o)' = Logged(o)
    BY <1>3, LoggedTotal
  <2>4. QED BY <1>2, <1>3, <2>2, <2>3 DEF IInv, Balanced
<1>20. QED BY <1>6, <1>7, <1>8, <1>9, <1>10, <1>11, <1>12, <1>13, <1>14, <1>15, <1>16,
              <1>17, <1>18, <1>19 DEF IInv

\* A list of one statement, or of none.
LEMMA WhenFits ==
  ASSUME NEW condition \in BOOLEAN, NEW x \in Statement,
         x.do \notin {"log", "setHours"}
  PROVE  LET more == When(condition, x) IN
         /\ more \in Seq(Statement) /\ Sorted(more) /\ Paired(more)
         /\ Elems(more) = IF condition THEN {x} ELSE {}
         /\ more # << >> => condition /\ Head(more) = x
<1>1. CASE condition
  <2>1. When(condition, x) = <<x>>
    BY <1>1 DEF When
  <2>2. <<x>> \in Seq(Statement) /\ Head(<<x>>) = x
    OBVIOUS
  <2>3. Sorted(<<x>>) /\ Elems(<<x>>) = {x}
    BY ShortLists
  <2>4. Paired(<<x>>)
    <3>1. DOMAIN <<x>> = {1} /\ <<x>>[1] = x
      OBVIOUS
    <3>2. PairedAt(<<x>>, 1)
      BY <3>1 DEF PairedAt
    <3>3. QED BY <3>1, <3>2 DEF Paired
  <2>5. QED BY <1>1, <2>1, <2>2, <2>3, <2>4
<1>2. CASE ~condition
  <2>1. When(condition, x) = << >>
    BY <1>2 DEF When
  <2>2. QED BY <1>2, <2>1, EmptyList
<1>3. QED BY <1>1, <1>2

LEMMA JustOne ==
  ASSUME NEW x \in Statement, x.do \notin {"log", "setHours"}
  PROVE  /\ <<x>> \in Seq(Statement) /\ Sorted(<<x>>) /\ Paired(<<x>>)
         /\ Elems(<<x>>) = {x} /\ <<x>> # << >> /\ Head(<<x>>) = x
<1>1. When(TRUE, x) = <<x>>
  BY DEF When
<1>2. <<x>> # << >> /\ Head(<<x>>) = x
  OBVIOUS
<1>3. QED BY <1>1, <1>2, WhenFits

LEMMA removeKeeps ==
  ASSUME Sane, IInv, NEW c \in Clients, NEW o \in Orders, remove(c, o)
  PROVE  IInv'
<1> DEFINE a == [do |-> "dropLines", order |-> o]
           b == [do |-> "delete", order |-> o]
           todo == <<a>> \o <<b>>
<1>1. Exists(o) /\ Begin(c, "remove", {o}, TRUE, todo)
  BY JoinTwo DEF remove
<1>2. a \in Statement /\ b \in Statement
  BY MakeOfOrder
<1>3. /\ a.do = "dropLines" /\ a.order = o /\ b.do = "delete" /\ b.order = o
  OBVIOUS
<1> HIDE DEF a, b
<1>4. Before(a, b)
  BY <1>3 DEF Before, Rank, Final
<1>5. /\ todo \in Seq(Statement) /\ Sorted(todo) /\ Paired(todo)
      /\ Elems(todo) = {a, b} /\ todo # << >> /\ Head(todo) = a
  <2>1. /\ <<a>> \in Seq(Statement) /\ Sorted(<<a>>) /\ Paired(<<a>>)
        /\ Elems(<<a>>) = {a} /\ <<a>> # << >> /\ Head(<<a>>) = a
    BY <1>2, <1>3, JustOne
  <2>2. /\ <<b>> \in Seq(Statement) /\ Sorted(<<b>>) /\ Paired(<<b>>)
        /\ Elems(<<b>>) = {b} /\ <<b>> # << >> /\ Head(<<b>>) = b
    BY <1>2, <1>3, JustOne
  <2>3. \A x \in Elems(<<a>>), y \in Elems(<<b>>) : Before(x, y)
    BY <1>4, <2>1, <2>2
  <2>4. Head(<<b>>).do \notin {"count", "dropLog"}
    BY <1>3, <2>2
  <2>5. /\ todo \in Seq(Statement) /\ Sorted(todo) /\ Paired(todo)
        /\ Elems(todo) = Elems(<<a>>) \cup Elems(<<b>>)
        /\ <<a>> # << >> => Head(todo) = Head(<<a>>) /\ todo # << >>
    BY <2>1, <2>2, <2>3, <2>4, Concatenated
  <2>6. QED BY <2>1, <2>2, <2>5
<1> HIDE DEF todo
<1>6. WellBegun(c, {o}, TRUE, todo)
  BY <1>1, <1>3, <1>5 DEF WellBegun, Concerns
<1>7. QED BY <1>1, <1>6, BeginKeeps

\* A set of numbers has a least one.
LEMMA LeastNatural ==
  ASSUME NEW S \in SUBSET Nat, S # {}
  PROVE  Min(S) \in S
<1> DEFINE Less == {p \in Nat \X Nat : p[1] < p[2]}
<1>1. IsWellFoundedOn(Less, Nat)
  BY NatLessThanWellFounded DEF OpToRel
<1> HIDE DEF Less
<1>2. PICK x \in S : \A y \in S : <<y, x>> \notin Less
  BY <1>1, WFMin
<1>3. \A y \in S : x <= y
  <2> SUFFICES ASSUME NEW y \in S PROVE x <= y
    OBVIOUS
  <2>1. x \in Nat /\ y \in Nat
    OBVIOUS
  <2>2. ~(y < x)
    BY <1>2, <2>1 DEF Less
  <2>3. QED BY <2>1, <2>2
<1>4. QED BY <1>3 DEF Min

LEMMA NextCodeType ==
  ASSUME Sane, Types
  PROVE  NextCode \in Nat
<1> DEFINE n == Cardinality(Orders)
           k == Cardinality(Codes)
           P == {p \in Orders : Exists(p)}
           free == (k + 1) .. (2 * n + 1)
<1>1. IsFiniteSet(Orders) /\ n \in Nat
  BY FS_CardinalityType DEF Sane
<1>2. IsFiniteSet(P) /\ Cardinality(P) <= n /\ Cardinality(P) \in Nat
  BY <1>1, FS_Subset, FS_CardinalityType
<1>3. IsFiniteSet(Codes) /\ k <= Cardinality(P) /\ k \in Nat
  <2> DEFINE f == [p \in P |-> orders[p].code]
  <2>1. Codes = {f[p] : p \in P}
    BY DEF Codes
  <2>2. f \in Surjection(P, Codes)
    BY <2>1 DEF Surjection
  <2>3. QED BY <1>2, <2>2, FS_Surjection, FS_CardinalityType
<1>4. ~(free \subseteq Codes)
  <2> SUFFICES ASSUME free \subseteq Codes PROVE FALSE
    OBVIOUS
  <2>1. Cardinality(free) <= k
    BY <1>3, FS_Subset
  <2>2. n \in Nat /\ k \in Nat /\ k <= n
    BY <1>1, <1>2, <1>3
  <2> HIDE DEF n, k
  <2>3. k + 1 \in Int /\ 2 * n + 1 \in Int /\ k + 1 <= 2 * n + 1
    BY <2>2
  <2>4. Cardinality((k + 1) .. (2 * n + 1)) = (2 * n + 1) - (k + 1) + 1
    BY <2>2, <2>3, FS_Interval
  <2>5. QED BY <2>1, <2>2, <2>4
<1>5. {m \in free : m \notin Codes} # {} /\ {m \in free : m \notin Codes} \subseteq Nat
  BY <1>1, <1>3, <1>4
<1>6. Min({m \in free : m \notin Codes}) \in {m \in free : m \notin Codes}
  BY <1>5, LeastNatural
<1>7. QED BY <1>5, <1>6 DEF NextCode

LEMMA createKeeps ==
  ASSUME Sane, IInv, NEW c \in Clients, NEW o \in Orders, NEW lines \in load.lists,
         create(c, o, lines)
  PROVE  IInv'
<1> DEFINE a == [do |-> "insert", order |-> o, code |-> NextCode, lines |-> lines]
<1>1. Begin(c, "create", {o}, FALSE, <<a>>)
  BY DEF create
<1>2. a \in Statement
  <2>1. NextCode \in Nat
    BY NextCodeType DEF IInv
  <2>2. lines \in Seq(Line)
    BY DEF IInv, Types, Sane
  <2>3. QED BY <2>1, <2>2, MakeOfOrder
<1>3. a.do = "insert" /\ a.order = o
  OBVIOUS
<1> HIDE DEF a
<1>4. /\ <<a>> \in Seq(Statement) /\ Sorted(<<a>>) /\ Paired(<<a>>)
      /\ Elems(<<a>>) = {a} /\ <<a>> # << >> /\ Head(<<a>>) = a
  BY <1>2, <1>3, JustOne
<1> DEFINE todo == <<a>>
<1> HIDE DEF todo
<1>5. WellBegun(c, {o}, FALSE, todo)
  BY <1>3, <1>4 DEF WellBegun, Concerns, Rewriting, todo
<1>6. QED BY <1>1, <1>5, BeginKeeps DEF todo

LEMMA stopWorkSessionKeeps ==
  ASSUME Sane, IInv, NEW c \in Clients, NEW i \in DOMAIN sessions,
         stopWorkSession(c, i)
  PROVE  IInv'
<1> DEFINE o == sessions[i].order
<1>1. PICK content \in BOOLEAN :
        Begin(c, "stopWorkSession", {o}, FALSE, Stopping(i, "COMPLETED", content))
  BY DEF stopWorkSession
<1> DEFINE todo == Stopping(i, "COMPLETED", content)
           a == [do |-> "end", id |-> i, status |-> "COMPLETED"]
<1>2. o \in Orders /\ Exists(o)
  BY DEF IInv, Types, TypeOK, Session, RowsExist
<1>3. /\ todo \in Seq(Statement) /\ Sorted(todo) /\ Paired(todo)
      /\ todo # << >> /\ Head(todo) = a
      /\ \A x \in Elems(todo) :
           x = a \/ (x.do \in {"log", "count"} /\ x.order = o)
  BY StoppingFits DEF IInv
<1>4. a.do = "end" /\ a.id = i
  OBVIOUS
<1>5. Concerns(a) \subseteq {o}
  BY <1>4 DEF Concerns
<1>6. ASSUME NEW x \in Elems(todo)
      PROVE  Concerns(x) \subseteq {o} /\ x.do \in {"end", "log", "count"}
  <2> HIDE DEF todo
  <2>1. CASE x = a
    BY <1>4, <1>5, <2>1
  <2>2. CASE x.do \in {"log", "count"} /\ x.order = o
    BY <2>2 DEF Concerns
  <2>3. QED BY <1>3, <2>1, <2>2
<1> HIDE DEF a, todo
<1>7. WellBegun(c, {o}, FALSE, todo)
  BY <1>2, <1>3, <1>4, <1>6 DEF WellBegun, Rewriting
<1>8. QED BY <1>1, <1>7, BeginKeeps DEF todo

LEMMA createProgressLogKeeps ==
  ASSUME Sane, IInv, NEW c \in Clients, NEW o \in Orders, NEW hours \in 0..1,
         createProgressLog(c, o, hours)
  PROVE  IInv'
<1> DEFINE todo == Logging(o, c, hours, TRUE)
<1>1. Exists(o) /\ Begin(c, "createProgressLog", {o}, FALSE, todo)
  BY DEF createProgressLog
<1>2. /\ todo \in Seq(Statement) /\ Sorted(todo) /\ Paired(todo)
      /\ \A x \in Elems(todo) : x.do \in {"log", "count"} /\ x.order = o
      /\ todo # << >> => Head(todo).do = "log"
  <2>1. hours \in Nat
    OBVIOUS
  <2>2. PICK always \in BOOLEAN : always
    OBVIOUS
  <2>3. Logging(o, c, hours, always) = todo
    BY <2>2 DEF Logging
  <2> HIDE DEF todo
  <2>4. QED BY <2>1, <2>3, LoggingFits
<1> HIDE DEF todo
<1>3. \A x \in Elems(todo) : Concerns(x) \subseteq {o}
  BY <1>2 DEF Concerns
<1>4. WellBegun(c, {o}, FALSE, todo)
  BY <1>1, <1>2, <1>3 DEF WellBegun, Rewriting
<1>5. QED BY <1>1, <1>4, BeginKeeps

LEMMA deleteProgressLogKeeps ==
  ASSUME Sane, IInv, NEW c \in Clients, NEW l \in DOMAIN logs,
         deleteProgressLog(c, l)
  PROVE  IInv'
<1> DEFINE o == logs[l].order
           k == logs[l].hours
           rest == Max({0, orders[o].hours - k})
           a == [do |-> "setHours", order |-> o, hours |-> rest]
           b == [do |-> "dropLog", id |-> l]
<1>1. Begin(c, "deleteProgressLog", {o}, TRUE,
            (IF k > 0 THEN <<a>> ELSE << >>) \o <<b>>)
  BY DEF deleteProgressLog
<1>2. /\ o \in Orders /\ Exists(o) /\ k \in Nat /\ orders[o].hours \in Nat
      /\ l \in 1..last.log
  BY DEF IInv, Types, TypeOK, LogRow, RowsExist, OrderRow
<1>3. rest \in Nat
  <2> DEFINE h == orders[o].hours
  <2>1. h \in Nat /\ k \in Nat
    BY <1>2
  <2> HIDE DEF h, k
  <2>2. Max({0, h - k}) = IF 0 >= h - k THEN 0 ELSE h - k
    BY <2>1, MaxOfTwo
  <2>3. QED BY <2>1, <2>2 DEF h
<1> HIDE DEF rest
<1>4. a \in Statement /\ b \in Statement
  BY <1>2, <1>3, MakeOfOrder, MakeOfLog
<1>5. /\ a.do = "setHours" /\ a.order = o /\ a.hours = rest
      /\ b.do = "dropLog" /\ b.id = l
  OBVIOUS
<1> HIDE DEF a, b
<1>6. Concerns(a) \subseteq {o} /\ Concerns(b) \subseteq {o}
  BY <1>5 DEF Concerns
<1>7. CASE k > 0
  <2> DEFINE todo == <<a, b>>
  <2>1. (IF k > 0 THEN <<a>> ELSE << >>) \o <<b>> = todo
    BY <1>7, JoinTwo
  <2>2. todo \in Seq(Statement) /\ todo # << >> /\ Head(todo) = a /\ todo[2] = b
    BY <1>4
  <2>3. Before(a, b)
    BY <1>5 DEF Before, Rank, Final
  <2>4. Sorted(todo) /\ Elems(todo) = {a, b}
    BY <2>3, ShortLists
  <2>5. Paired(todo)
    <3>1. DOMAIN todo = {1, 2} /\ todo[1] = a /\ todo[2] = b
      OBVIOUS
    <3> HIDE DEF todo
    <3>2. PairedAt(todo, 1)
      BY <1>5, <3>1 DEF PairedAt
    <3>3. PairedAt(todo, 2)
      BY <1>5, <3>1 DEF PairedAt
    <3>4. QED BY <3>1, <3>2, <3>3 DEF Paired
  <2> HIDE DEF todo
  <2>6. WellBegun(c, {o}, TRUE, todo)
    BY <1>2, <1>5, <1>6, <2>2, <2>4, <2>5 DEF WellBegun, rest
  <2>7. QED BY <1>1, <2>1, <2>6, BeginKeeps
<1>8. CASE ~(k > 0)
  <2> DEFINE todo == <<b>>
  <2>1. (IF k > 0 THEN <<a>> ELSE << >>) \o <<b>> = todo
    <3>1. <<b>> \in Seq(Statement)
      BY <1>4
    <3>2. << >> \o <<b>> = <<b>>
      BY <3>1
    <3>3. QED BY <1>8, <3>2
  <2>2. /\ todo \in Seq(Statement) /\ Sorted(todo) /\ Paired(todo)
        /\ Elems(todo) = {b} /\ todo # << >> /\ Head(todo) = b
    BY <1>4, <1>5, JustOne
  <2>3. k = 0
    BY <1>2, <1>8
  <2> HIDE DEF todo
  <2>4. WellBegun(c, {o}, TRUE, todo)
    BY <1>2, <1>5, <1>6, <2>2, <2>3 DEF WellBegun
  <2>5. QED BY <1>1, <2>1, <2>4, BeginKeeps
<1>9. QED BY <1>7, <1>8

LEMMA startWorkSessionKeeps ==
  ASSUME Sane, IInv, NEW c \in Clients, NEW o \in Orders, startWorkSession(c, o)
  PROVE  IInv'
<1> DEFINE row == orders[o]
           waiting == row.status \in {"ASSIGNED", "ON_HOLD"}
           fresh == row.started = None
           r == [do |-> "resume", order |-> o, waited |-> waiting, starts |-> fresh]
           p == [do |-> "open", order |-> o]
           resume == When(waiting \/ fresh, r)
           clockIn == resume \o <<p>>
<1>1. /\ row.status \in {"ASSIGNED", "IN_PROGRESS", "ON_HOLD"}
      /\ IF Running(c) = {}
         THEN Begin(c, "startWorkSession", {o}, FALSE, clockIn)
         ELSE \E i \in Running(c) :
                Begin(c, "startWorkSession", {o, sessions[i].order}, FALSE,
                      <<AutoStop(i)>> \o clockIn)
  BY DEF startWorkSession, When
<1>2. Exists(o)
  BY <1>1 DEF Exists, Statuses
<1>3. r \in Statement /\ p \in Statement
  <2>1. waiting \in BOOLEAN /\ fresh \in BOOLEAN
    OBVIOUS
  <2> HIDE DEF waiting, fresh
  <2>2. QED BY <2>1, MakeOfOrder
<1>4. /\ r.do = "resume" /\ r.order = o /\ r.waited = waiting
      /\ p.do = "open" /\ p.order = o
  OBVIOUS
<1>5. row.status \in Closing => waiting
  BY <1>1 DEF Closing
<1> HIDE DEF r, p
<1>6. /\ resume \in Seq(Statement) /\ Sorted(resume) /\ Paired(resume)
      /\ Elems(resume) = IF waiting \/ fresh THEN {r} ELSE {}
      /\ resume # << >> => Head(resume) = r
  BY <1>3, <1>4, WhenFits
<1>7. /\ <<p>> \in Seq(Statement) /\ Sorted(<<p>>) /\ Paired(<<p>>)
      /\ Elems(<<p>>) = {p} /\ <<p>> # << >> /\ Head(<<p>>) = p
  BY <1>3, <1>4, JustOne
<1> HIDE DEF resume
<1>8. /\ clockIn \in Seq(Statement) /\ Sorted(clockIn) /\ Paired(clockIn)
      /\ Elems(clockIn) = Elems(resume) \cup {p}
      /\ clockIn # << >> => Head(clockIn).do \in {"resume", "open"}
  <2>1. Before(r, p)
    BY <1>4 DEF Before, Rank, Final
  <2>2. \A x \in Elems(resume), y \in Elems(<<p>>) : Before(x, y)
    BY <1>6, <1>7, <2>1
  <2>3. Head(<<p>>).do \notin {"count", "dropLog"}
    BY <1>4, <1>7
  <2>4. /\ clockIn \in Seq(Statement) /\ Sorted(clockIn) /\ Paired(clockIn)
        /\ Elems(clockIn) = Elems(resume) \cup Elems(<<p>>)
        /\ resume # << >> => Head(clockIn) = Head(resume) /\ clockIn # << >>
        /\ resume = << >> => clockIn = <<p>>
    <3> DEFINE one == <<p>>
    <3>1. one \in Seq(Statement) /\ Sorted(one) /\ Paired(one)
      BY <1>7
    <3>2. one = << >> \/ Head(one).do \notin {"count", "dropLog"}
      BY <2>3
    <3>3. \A x \in Elems(resume), y \in Elems(one) : Before(x, y)
      BY <2>2
    <3> HIDE DEF one
    <3>4. /\ resume \o one \in Seq(Statement) /\ Sorted(resume \o one)
          /\ Paired(resume \o one)
          /\ Elems(resume \o one) = Elems(resume) \cup Elems(one)
          /\ resume # << >> => /\ Head(resume \o one) = Head(resume)
                               /\ resume \o one # << >>
          /\ resume = << >> => resume \o one = one
      BY <1>6, <3>1, <3>2, <3>3, Concatenated
    <3>5. QED BY <3>4 DEF one
  <2>5. QED BY <1>4, <1>6, <1>7, <2>4
<1> HIDE DEF clockIn
<1>9. \A x \in Elems(clockIn) :
        /\ x.do \in {"resume", "open"} /\ x.order = o /\ Concerns(x) \subseteq {o}
        /\ x.do = "open" /\ row.status \in Closing => r \in Elems(clockIn)
  BY <1>4, <1>5, <1>6, <1>8 DEF Concerns
<1>10. waiting => r.waited
  BY <1>4
<1> HIDE DEF waiting, fresh
<1>11. CASE Running(c) = {}
  <2>1. WellBegun(c, {o}, FALSE, clockIn)
    BY <1>2, <1>4, <1>5, <1>8, <1>9, <1>10, <1>11 DEF WellBegun, Rewriting
  <2>2. QED BY <1>1, <1>11, <2>1, BeginKeeps
<1>12. CASE Running(c) # {}
  <2>1. PICK i \in Running(c) :
          Begin(c, "startWorkSession", {o, sessions[i].order}, FALSE,
                <<AutoStop(i)>> \o clockIn)
    BY <1>1, <1>12
  <2> DEFINE f == AutoStop(i)
             os == {o, sessions[i].order}
             todo == <<f>> \o clockIn
  <2>2. /\ i \in DOMAIN sessions /\ i \in 1..last.session
        /\ sessions[i].order \in Orders /\ Exists(sessions[i].order)
    BY DEF Running, IInv, Types, TypeOK, Session, RowsExist
  <2>3. f \in Statement
    BY <2>2, MakeOfSession DEF AutoStop
  <2>4. f.do = "find" /\ f.id = i
    BY DEF AutoStop
  <2> HIDE DEF f
  <2>5. /\ <<f>> \in Seq(Statement) /\ Sorted(<<f>>) /\ Paired(<<f>>)
        /\ Elems(<<f>>) = {f} /\ <<f>> # << >> /\ Head(<<f>>) = f
    BY <2>3, <2>4, JustOne
  <2>6. ASSUME NEW y \in Elems(clockIn) PROVE Before(f, y)
    <3>1. y.do \in {"resume", "open"}
      BY <1>9
    <3>2. QED BY <2>4, <3>1 DEF Before, Rank, Final
  <2>7. \A x \in Elems(<<f>>), y \in Elems(clockIn) : Before(x, y)
    BY <2>5, <2>6
  <2>8. /\ todo \in Seq(Statement) /\ Sorted(todo) /\ Paired(todo)
        /\ Elems(todo) = Elems(<<f>>) \cup Elems(clockIn)
        /\ Head(todo) = Head(<<f>>) /\ todo # << >>
    <3> DEFINE one == <<f>>
    <3>1. clockIn = << >> \/ Head(clockIn).do \notin {"count", "dropLog"}
      BY <1>8
    <3>2. one \in Seq(Statement) /\ Sorted(one) /\ Paired(one) /\ one # << >>
      BY <2>5
    <3>3. \A x \in Elems(one), y \in Elems(clockIn) : Before(x, y)
      BY <2>7
    <3> HIDE DEF one
    <3>4. /\ one \o clockIn \in Seq(Statement) /\ Sorted(one \o clockIn)
          /\ Paired(one \o clockIn)
          /\ Elems(one \o clockIn) = Elems(one) \cup Elems(clockIn)
          /\ one # << >> => /\ Head(one \o clockIn) = Head(one)
                            /\ one \o clockIn # << >>
      BY <1>8, <3>1, <3>2, <3>3, Concatenated
    <3>5. QED BY <3>2, <3>4 DEF one
  <2>9. \A j \in Running(c) : j = i
    BY DEF IInv, OneRunningSession
  <2>10. Concerns(f) \subseteq os
    BY <2>4 DEF Concerns
  <2> HIDE DEF todo
  <2>11. WellBegun(c, os, FALSE, todo)
    <3>1. os \subseteq Orders /\ \A q \in os : Exists(q)
      BY <1>2, <2>2
    <3>2. Elems(todo) = {f} \cup Elems(clockIn) /\ Head(todo) = f
      BY <2>5, <2>8
    <3>3. \A x \in Elems(todo) : Concerns(x) \subseteq os
      BY <1>9, <2>10, <3>2
    <3> HIDE DEF os
    <3>4. QED BY <1>4, <1>5, <1>9, <1>10, <2>4, <2>8, <2>9, <3>1, <3>2, <3>3
              DEF WellBegun, Rewriting
  <2>12. QED BY <2>1, <2>11, BeginKeeps DEF todo, f
<1>13. QED BY <1>11, <1>12

\* What an update is to write.
LEMMA UpdatesType ==
  ASSUME Sane, Types, NEW o \in Orders, NEW status \in Statuses \cup {None},
         NEW hours \in Nat \cup {None}
  PROVE  LET w == Updates(orders[o], status, hours) IN
         /\ w \in UpdateRow /\ w.status = status
         /\ w.by = {} => w.hours = None
<1> DEFINE row == orders[o]
           start == IF status = "IN_PROGRESS" /\ row.started = None THEN now ELSE None
           end == IF status = "COMPLETED" /\ row.ended = None THEN now ELSE None
           until == IF row.ended = None THEN now ELSE row.ended
           byClock == /\ status = "COMPLETED" /\ row.hours = 0
                      /\ row.started # None /\ until > row.started
           h == IF hours # None THEN hours
                ELSE IF byClock THEN until - row.started ELSE None
           by == IF hours # None THEN {"hand"} ELSE IF byClock THEN {"clock"} ELSE {}
<1>1. /\ row.started \in Times \cup {None} /\ row.ended \in Times \cup {None}
      /\ now \in Times
  BY DEF Types, TypeOK, OrderRow
<1>2. Times \subseteq Nat /\ None \notin Int
  BY DEF Times, Types, Sane
<1>3. Updates(orders[o], status, hours) =
        [status |-> status, started |-> start, ended |-> end, hours |-> h, by |-> by]
  BY DEF Updates
<1>4. until \in Times
  BY <1>1
<1>5. byClock => row.started \in Nat /\ until \in Nat /\ until > row.started
  BY <1>1, <1>2, <1>4
<1> HIDE DEF until
<1>6. byClock => until - row.started \in Nat
  BY <1>5
<1>7. byClock \in BOOLEAN
  OBVIOUS
<1> HIDE DEF byClock
<1>8. h \in Nat \cup {None}
  BY <1>6, <1>7
<1>9. by \in SUBSET {"hand", "clock"} /\ (by = {} => h = None)
  BY <1>7
<1>10. start \in Times \cup {None} /\ end \in Times \cup {None}
  BY <1>1
<1> HIDE DEF start, end, h, by
<1>11. QED BY <1>3, <1>8, <1>9, <1>10 DEF UpdateRow

LEMMA updateKeeps ==
  ASSUME Sane, IInv, NEW c \in Clients, NEW o \in Orders,
         NEW status \in load.targets \cup {None}, NEW lines \in load.lists \cup {None},
         NEW hours \in {None, 0, 1}, update(c, o, status, lines, hours)
  PROVE  IInv'
<1> DEFINE row == orders[o]
           w == [do |-> "write", order |-> o, row |-> Updates(row, status, hours)]
           sent == IF lines = None THEN << >> ELSE lines
           d == [do |-> "dropLines", order |-> o]
           a == [do |-> "addLines", order |-> o, lines |-> sent]
           s == [do |-> "stopAll", order |-> o]
           i == [do |-> "issueAll", order |-> o]
           D == When(lines # None, d)
           A == When(lines # None, a)
           S == When(status \in Closing, s)
           I == When(status = "COMPLETED" /\ row.status # "COMPLETED", i)
           W == <<w>>
           todo == D \o A \o S \o I \o W
<1>1. Exists(o) /\ Begin(c, "update", {o}, TRUE, todo)
  <2>1. When(lines # None, [do |-> "addLines", order |-> o, lines |-> lines]) = A
    BY DEF When
  <2>2. QED BY <2>1 DEF update
<1>2. Updates(row, status, hours) \in UpdateRow
      /\ Updates(row, status, hours).status = status
      /\ (Updates(row, status, hours).by = {} => Updates(row, status, hours).hours = None)
  <2>1. status \in Statuses \cup {None}
    BY DEF IInv, Types, Sane
  <2>2. hours \in Nat \cup {None}
    OBVIOUS
  <2>3. QED BY <2>1, <2>2, UpdatesType DEF IInv
<1>3. /\ d \in Statement /\ a \in Statement /\ s \in Statement /\ i \in Statement
      /\ w \in Statement
  <2>1. sent \in Seq(Line)
    <3>1. lines # None => lines \in Seq(Line)
      BY DEF IInv, Types, Sane
    <3>2. QED BY <3>1, EmptyList
  <2> HIDE DEF sent
  <2>2. QED BY <1>2, <2>1, MakeOfOrder
<1>4. /\ d.do = "dropLines" /\ d.order = o /\ a.do = "addLines" /\ a.order = o
      /\ s.do = "stopAll" /\ s.order = o /\ i.do = "issueAll" /\ i.order = o
      /\ w.do = "write" /\ w.order = o /\ w.row.status = status
      /\ (w.row.by = {} => w.row.hours = None)
  BY <1>2
<1> HIDE DEF d, a, s, i, w
<1>5. /\ D \in Seq(Statement) /\ Sorted(D) /\ Paired(D) /\ Elems(D) \subseteq {d}
      /\ A \in Seq(Statement) /\ Sorted(A) /\ Paired(A) /\ Elems(A) \subseteq {a}
      /\ A = << >> \/ Head(A) = a
      /\ I \in Seq(Statement) /\ Sorted(I) /\ Paired(I) /\ Elems(I) \subseteq {i}
      /\ I = << >> \/ Head(I) = i
  BY <1>3, <1>4, WhenFits
<1>6. /\ S \in Seq(Statement) /\ Sorted(S) /\ Paired(S) /\ Elems(S) \subseteq {s}
      /\ S = << >> \/ Head(S) = s
      /\ status \in Closing => s \in Elems(S)
  <2> DEFINE closes == status \in Closing
  <2>1. closes \in BOOLEAN
    OBVIOUS
  <2>2. S = When(closes, s)
    OBVIOUS
  <2> HIDE DEF closes, S
  <2>3. /\ S \in Seq(Statement) /\ Sorted(S) /\ Paired(S)
        /\ Elems(S) = IF closes THEN {s} ELSE {}
        /\ S # << >> => Head(S) = s
    BY <1>3, <1>4, <2>1, <2>2, WhenFits
  <2>4. QED BY <2>3 DEF closes
<1>7. /\ W \in Seq(Statement) /\ Sorted(W) /\ Paired(W) /\ Elems(W) = {w}
      /\ W # << >> /\ Head(W) = w
  BY <1>3, <1>4, JustOne
<1> HIDE DEF D, A, S, I, W
<1> DEFINE J == D \o A
           K == J \o S
           L == K \o I
<1>8. /\ J \in Seq(Statement) /\ Sorted(J) /\ Paired(J)
      /\ Elems(J) \subseteq {d, a}
  <2>1. Before(d, a)
    BY <1>4 DEF Before, Rank, Final
  <2>2. \A x \in Elems(D), y \in Elems(A) : Before(x, y)
    BY <1>5, <2>1
  <2>3. A = << >> \/ Head(A).do \notin {"count", "dropLog"}
    BY <1>4, <1>5
  <2>4. J \in Seq(Statement) /\ Sorted(J) /\ Paired(J) /\ Elems(J) = Elems(D) \cup Elems(A)
    BY <1>5, <2>2, <2>3, Concatenated
  <2>5. QED BY <1>5, <2>4
<1> HIDE DEF J
<1>9. /\ K \in Seq(Statement) /\ Sorted(K) /\ Paired(K)
      /\ Elems(K) \subseteq {d, a, s} /\ Elems(S) \subseteq Elems(K)
  <2>1. Before(d, s) /\ Before(a, s)
    BY <1>4 DEF Before, Rank, Final
  <2>2. \A x \in Elems(J), y \in Elems(S) : Before(x, y)
    BY <1>6, <1>8, <2>1
  <2>3. S = << >> \/ Head(S).do \notin {"count", "dropLog"}
    BY <1>4, <1>6
  <2>4. K \in Seq(Statement) /\ Sorted(K) /\ Paired(K) /\ Elems(K) = Elems(J) \cup Elems(S)
    BY <1>6, <1>8, <2>2, <2>3, Concatenated
  <2>5. QED BY <1>6, <1>8, <2>4
<1> HIDE DEF K
<1>10. /\ L \in Seq(Statement) /\ Sorted(L) /\ Paired(L)
       /\ Elems(L) \subseteq {d, a, s, i} /\ Elems(S) \subseteq Elems(L)
  <2>1. Before(d, i) /\ Before(a, i) /\ Before(s, i)
    BY <1>4 DEF Before, Rank, Final
  <2>2. \A x \in Elems(K), y \in Elems(I) : Before(x, y)
    BY <1>5, <1>9, <2>1
  <2>3. I = << >> \/ Head(I).do \notin {"count", "dropLog"}
    BY <1>4, <1>5
  <2>4. L \in Seq(Statement) /\ Sorted(L) /\ Paired(L) /\ Elems(L) = Elems(K) \cup Elems(I)
    BY <1>5, <1>9, <2>2, <2>3, Concatenated
  <2>5. QED BY <1>5, <1>9, <2>4
<1>11. L \o W = todo
  BY DEF J, K
<1> HIDE DEF L, todo
<1>12. /\ todo \in Seq(Statement) /\ Sorted(todo) /\ Paired(todo)
       /\ Elems(todo) \subseteq {d, a, s, i, w} /\ Elems(S) \subseteq Elems(todo)
  <2>1. Before(d, w) /\ Before(a, w) /\ Before(s, w) /\ Before(i, w)
    BY <1>4 DEF Before, Rank, Final
  <2>2. \A x \in Elems(L), y \in Elems(W) : Before(x, y)
    BY <1>7, <1>10, <2>1
  <2>3. Head(W).do \notin {"count", "dropLog"}
    BY <1>4, <1>7
  <2>4. /\ L \o W \in Seq(Statement) /\ Sorted(L \o W) /\ Paired(L \o W)
        /\ Elems(L \o W) = Elems(L) \cup Elems(W)
    BY <1>7, <1>10, <2>2, <2>3, Concatenated
  <2>5. QED BY <1>7, <1>10, <1>11, <2>4
<1>13. todo # << >> => Head(todo) \in Elems(todo)
  BY <1>12 DEF Elems
<1>14. \A x \in {d, a, s, i, w} : /\ Concerns(x) \subseteq {o}
                                  /\ x.do \in {"dropLines", "addLines", "stopAll",
                                               "issueAll", "write"}
                                  /\ x.do = "write" => x = w
  BY <1>4 DEF Concerns
<1>15. status \in Closing => s \in Elems(todo)
  BY <1>6, <1>12
<1>16. WellBegun(c, {o}, TRUE, todo)
  BY <1>1, <1>4, <1>12, <1>13, <1>14, <1>15 DEF WellBegun
<1>17. QED BY <1>1, <1>16, BeginKeeps
-----------------------------------------------------------------------------
(* Time goes by, and the server stops or fails a statement.                *)

\* The invariant does not depend on the hour.
LEMMA CallsKept ==
  ASSUME IInv, load' = load, orders' = orders, materials' = materials,
         sessions' = sessions, logs' = logs, last' = last, stock' = stock,
         ledger' = ledger, written' = written, call' = call, clashed' = clashed,
         missed' = missed, restarts' = restarts, now' \in Times
  PROVE  IInv'
<1>1. /\ load' = load /\ orders' = orders /\ materials' = materials
      /\ sessions' = sessions /\ logs' = logs /\ last' = last /\ stock' = stock
      /\ ledger' = ledger /\ written' = written /\ call' = call /\ clashed' = clashed
      /\ missed' = missed /\ restarts' = restarts
  OBVIOUS
<1>2. now' \in Times /\ Times' = Times
  BY DEF Times
<1>3. Types'
  <2>1. Call' = Call
    BY <1>1, <1>2 DEF Call, Statement, OfOrder, OfIssue, OfSession, OfLog, UpdateRow
  <2>2. TypeOK'
    BY <1>1, <1>2 DEF IInv, Types, TypeOK, OrderRow, Session
  <2>3. QED BY <1>1, <2>1, <2>2 DEF IInv, Types
<1>4. /\ \A x : Concerns(x)' = Concerns(x)
      /\ \A d : Running(d)' = Running(d) /\ RunningOn(d)' = RunningOn(d)
      /\ \A d : Todo(d)' = Todo(d) /\ (Busy(d)' <=> Busy(d))
      /\ \A o, i : IssuedTo(o, i)' = IssuedTo(o, i)
      /\ \A o : Exists(o)' <=> Exists(o)
  BY <1>1 DEF Concerns, Running, RunningOn, Todo, Busy, IssuedTo, Exists
<1>5. \A d, i : Stops(d, i)' <=> Stops(d, i)
  BY <1>4 DEF Stops
<1>6. RowsExist' /\ CallsAreOrderly' /\ ClashesShow' /\ OrdersExist'
  <2>1. RowsExist'
    BY <1>1 DEF IInv, RowsExist, Exists
  <2>2. CallsAreOrderly'
    BY <1>1, <1>4 DEF IInv, CallsAreOrderly, Sorted, Paired, PairedAt, Before,
                      Rewriting, Rank, Final
  <2>3. ClashesShow' /\ OrdersExist'
    BY <1>1, <1>4 DEF IInv, ClashesShow, OrdersExist
  <2>4. QED BY <2>1, <2>2, <2>3
<1>7. IssuesAreNew' /\ IssuedOnce'
  BY <1>1, <1>4 DEF IInv, IssuesAreNew, IssuedOnce
<1>8. OpensAreSafe' /\ OneRunningSession'
  BY <1>4, <1>5 DEF IInv, OpensAreSafe, OneRunningSession
<1>9. OpensAreTimely' /\ ClosedOrdersAreQuiet'
  BY <1>1, <1>4 DEF IInv, OpensAreTimely, ClosedOrdersAreQuiet
<1>10. WritesAreSafe'
  BY <1>1, <1>4, <1>5 DEF IInv, WritesAreSafe
<1>11. HoursAreFresh'
  BY <1>1 DEF IInv, HoursAreFresh, Busy
<1>12. Balanced'
  <2>1. \A o \in Orders : Debts(o)' = Debts(o)
    BY <1>1 DEF Debts, Debt, Busy, SumOf, MapThenSumSet, MapThenFoldSet
  <2>2. \A o : Logged(o)' = Logged(o)
    BY <1>1, LoggedTotal
  <2>3. QED BY <1>1, <2>1, <2>2 DEF IInv, Balanced
<1>13. QED BY <1>3, <1>6, <1>7, <1>8, <1>9, <1>10, <1>11, <1>12 DEF IInv

LEMMA TickKeeps ==
  ASSUME Sane, IInv, Tick
  PROVE  IInv'
<1>1. now' \in Times
  BY DEF Tick, Times, IInv, Types, TypeOK, Sane
<1>2. QED BY <1>1, CallsKept DEF Tick, tables

LEMMA RestartKeeps ==
  ASSUME Sane, IInv, Restart
  PROVE  IInv'
<1>1. /\ load' = load /\ orders' = orders /\ materials' = materials
      /\ sessions' = sessions /\ logs' = logs /\ last' = last /\ stock' = stock
      /\ ledger' = ledger /\ written' = written /\ clashed' = clashed /\ now' = now
      /\ missed' = missed /\ restarts' = restarts + 1
      /\ call' = [d \in Clients |-> Idle]
  BY DEF Restart, tables
<1>2. \A d \in Clients : call'[d] = Idle /\ Todo(d)' = {} /\ ~Busy(d)'
  <2>1. DOMAIN << >> = {}
    OBVIOUS
  <2>2. QED BY <1>1, <2>1 DEF Idle, Todo, Busy
<1>3. Idle \in Call
  BY EmptyList DEF Idle, Call
<1>4. Types'
  <2>1. Call' = Call
    BY <1>1 DEF Call, Statement, OfOrder, OfIssue, OfSession, OfLog, UpdateRow, Times
  <2>2. TypeOK'
    BY <1>1 DEF IInv, Types, TypeOK, OrderRow, Session, Times
  <2>3. restarts' \in Nat
    BY <1>1 DEF IInv, Types
  <2>4. call' \in [Clients -> Call]
    BY <1>1, <1>3
  <2>5. QED BY <1>1, <2>1, <2>2, <2>3, <2>4 DEF IInv, Types
<1>5. /\ \A d : Running(d)' = Running(d) /\ RunningOn(d)' = RunningOn(d)
      /\ \A o, i : IssuedTo(o, i)' = IssuedTo(o, i)
  BY <1>1 DEF Running, RunningOn, IssuedTo
<1>6. RowsExist'
  BY <1>1 DEF IInv, RowsExist, Exists
<1>7. CallsAreOrderly'
  <2>1. \A d \in Clients : call'[d].todo = << >> /\ ~call'[d].rewrites
    BY <1>2 DEF Idle
  <2>2. Sorted(<< >>) /\ Paired(<< >>)
    BY EmptyList
  <2>3. QED BY <1>2, <2>1, <2>2 DEF CallsAreOrderly, Sorted, Paired, PairedAt, Before,
                                    Rewriting, Rank, Final
<1>8. ClashesShow' /\ OrdersExist' /\ IssuesAreNew'
  BY <1>2 DEF ClashesShow, OrdersExist, IssuesAreNew
<1>9. IssuedOnce' /\ OneRunningSession' /\ ClosedOrdersAreQuiet'
  BY <1>1, <1>5 DEF IInv, IssuedOnce, OneRunningSession, ClosedOrdersAreQuiet
<1>10. OpensAreSafe' /\ OpensAreTimely' /\ WritesAreSafe' /\ HoursAreFresh'
  BY <1>2 DEF OpensAreSafe, OpensAreTimely, WritesAreSafe, HoursAreFresh
<1>11. Balanced'
  <2> SUFFICES ASSUME NEW o \in Orders \ clashed, written[o] = {}
               PROVE  /\ orders[o].hours + Debts(o)' <= Logged(o)
                      /\ restarts' # 0
    BY <1>1, LoggedTotal DEF Balanced, TotalOf
  <2>1. restarts' # 0
    BY <1>1 DEF IInv, Types
  <2>2. Debts(o)' = 0
    <3> DEFINE g == [d \in Clients |-> Debt(d, o)']
    <3>1. \A d \in Clients : g[d] = 0
      BY <1>2 DEF Debt
    <3>2. Debts(o)' = SumOf(g, Clients)
      BY DEF Debts, SumOf, MapThenSumSet, MapThenFoldSet
    <3> HIDE DEF g
    <3>3. QED BY <3>1, <3>2, SumZero DEF Sane
  <2>3. Debts(o) \in Nat
    <3> DEFINE f == [d \in Clients |-> Debt(d, o)]
    <3>1. \A d \in Clients : f[d] \in Nat
      BY DebtCases DEF IInv
    <3>2. Debts(o) = SumOf(f, Clients)
      BY DEF Debts
    <3> HIDE DEF f
    <3>3. QED BY <3>1, <3>2, SumType DEF Sane
  <2>4. orders[o].hours + Debts(o) <= Logged(o)
    BY DEF IInv, Balanced
  <2>5. orders[o].hours \in Nat /\ Logged(o) \in Nat
    <3>1. orders[o].hours \in Nat
      BY DEF IInv, Types, TypeOK, OrderRow
    <3>2. QED BY <3>1, LoggedTotal, LogsAreTable, TableRows DEF IInv
  <2>6. QED BY <2>1, <2>2, <2>3, <2>4, <2>5
<1>12. QED BY <1>4, <1>6, <1>7, <1>8, <1>9, <1>10, <1>11 DEF IInv

\* What stops a session comes after what takes hours back.
LEMMA StopsComeLate ==
  ASSUME NEW a \in {"find", "end", "log", "count"},
         NEW b \in {"insert", "setHours", "dropLog"}
  PROVE  ~(Rank[a] < Rank[b]) /\ a # b
<1>1. Rank["insert"] = 0 /\ Rank["setHours"] = 1 /\ Rank["dropLog"] = 2
  BY DEF Rank
<1>2. Rank["end"] = 5 /\ Rank["log"] = 6 /\ Rank["count"] = 7 /\ Rank["find"] = 8
  BY DEF Rank
<1>3. QED BY <1>1, <1>2

\* A statement that fails leaves the last part of the list, or nothing.
LEMMA FailLeaves ==
  ASSUME Types, CallsAreOrderly, NEW c \in Clients, Fail(c)
  PROVE  LET s == Head(call[c].todo) IN
         /\ call' \in [Clients -> Call]
         /\ call'[c].orders = call[c].orders /\ call'[c].rewrites = call[c].rewrites
         /\ \A d \in Clients \ {c} : call'[d] = call[d] /\ Todo(d)' = Todo(d)
         /\ Busy(c) /\ Todo(c)' \subseteq Todo(c)
         /\ Sorted(call'[c].todo) /\ Paired(call'[c].todo)
         /\ Busy(c)' =>
              /\ \A x \in Todo(c) :
                   \/ x \in Todo(c)' \/ x.do \in {"log", "count"}
                   \/ x = s /\ x.do \in {"find", "end"} /\ x.id \in missed'
              /\ s.do \in {"find", "end", "log", "count"}
              /\ \A x \in Todo(c)' : x.do \notin {"insert", "open", "setHours", "dropLog"}
              /\ Head(call'[c].todo).do \notin {"count", "dropLog", "setHours"}
<1> DEFINE todo == call[c].todo
           rest == call'[c].todo
           s == Head(todo)
<1>1. /\ todo \in Seq(Statement) /\ todo # << >> /\ Busy(c)
      /\ call \in [Clients -> Call]
  BY DEF Types, Call, Fail, Busy
<1>2. /\ Len(todo) \in Nat /\ 1 \in DOMAIN todo /\ s = todo[1]
      /\ DOMAIN todo = 1..Len(todo) /\ \A n \in DOMAIN todo : todo[n] \in Statement
  BY <1>1
<1>3. CASE ~StopsForUpdate(c)
  <2>1. Abort(c)
    BY <1>3 DEF Fail
  <2>2. Sorted(<< >>) /\ Paired(<< >>)
    BY EmptyList
  <2>3. QED BY <1>1, <2>1, <2>2, Aborted
<1>4. CASE StopsForUpdate(c)
  <2>1. SkipStop(c)
    BY <1>4 DEF Fail
  <2>2. PICK n \in 2..Len(todo) :
          /\ todo[n].do \notin {"log", "count"}
          /\ \A m \in 2..(n - 1) : todo[m].do \in {"log", "count"}
          /\ call' = [call EXCEPT ![c].todo = SubSeq(todo, n, Len(todo))]
    BY <2>1 DEF SkipStop
  <2>3. n \in Nat /\ n >= 2 /\ n <= Len(todo)
    BY <1>2, <2>2
  <2> DEFINE cut == SubSeq(todo, n, Len(todo))
  <2>4. /\ cut \in Seq(Statement) /\ Len(cut) = Len(todo) - n + 1
        /\ DOMAIN cut = 1..(Len(todo) - n + 1)
        /\ \A m \in DOMAIN cut : cut[m] = todo[m + n - 1] /\ m + n - 1 \in DOMAIN todo
    BY <1>1, <1>2, <2>3
  <2>5. /\ call' \in [Clients -> Call] /\ rest = cut
        /\ call'[c].orders = call[c].orders /\ call'[c].rewrites = call[c].rewrites
        /\ \A d \in Clients \ {c} : call'[d] = call[d]
    <3> HIDE DEF cut
    <3>1. call' = [call EXCEPT ![c].todo = cut]
      BY <2>2 DEF cut
    <3>2. QED BY <1>1, <2>4, <3>1 DEF Call
  <2> HIDE DEF cut
  <2>6. \A m, k \in DOMAIN todo : m < k => Before(todo[m], todo[k])
    BY DEF CallsAreOrderly, Sorted
  <2>7. Sorted(cut)
    <3> SUFFICES ASSUME NEW m \in DOMAIN cut, NEW k \in DOMAIN cut, m < k
                 PROVE  Before(cut[m], cut[k])
      BY DEF Sorted
    <3>1. m + n - 1 < k + n - 1
      BY <2>3, <2>4
    <3>2. QED BY <2>4, <2>6, <3>1
  <2>8. Paired(cut)
    <3> SUFFICES ASSUME NEW m \in DOMAIN cut PROVE PairedAt(cut, m)
      BY DEF Paired
    <3> DEFINE k == m + n - 1
    <3>0. /\ Len(todo) \in Nat /\ DOMAIN todo = 1..Len(todo)
          /\ DOMAIN cut = 1..(Len(todo) - n + 1) /\ n \in Nat /\ n >= 2
          /\ m \in Nat /\ 1 <= m /\ m <= Len(todo) - n + 1
      BY <1>2, <2>3, <2>4
    <3>1. /\ k \in DOMAIN todo /\ cut[m] = todo[k] /\ k > 1 /\ m \in Nat /\ m >= 1
          /\ k \in Nat
      BY <1>2, <2>3, <2>4
    <3>2. PairedAt(todo, k)
      BY <3>1 DEF CallsAreOrderly, Paired
    <3>3. k + 1 \in DOMAIN todo => m + 1 \in DOMAIN cut /\ cut[m + 1] = todo[k + 1]
      <4> SUFFICES ASSUME k + 1 \in DOMAIN todo
                   PROVE  m + 1 \in DOMAIN cut /\ cut[m + 1] = todo[k + 1]
        OBVIOUS
      <4>1. m + 1 \in DOMAIN cut /\ (m + 1) + n - 1 = k + 1
        BY <3>0, <3>1
      <4>2. QED BY <2>4, <4>1
    <3>4. m > 1 => m - 1 \in DOMAIN cut /\ cut[m - 1] = todo[k - 1]
      <4> SUFFICES ASSUME m > 1
                   PROVE  m - 1 \in DOMAIN cut /\ cut[m - 1] = todo[k - 1]
        OBVIOUS
      <4>1. m - 1 \in DOMAIN cut /\ (m - 1) + n - 1 = k - 1
        BY <3>0, <3>1
      <4>2. QED BY <2>4, <4>1
    <3> HIDE DEF k
    <3>5. QED BY <3>1, <3>2, <3>3, <3>4 DEF PairedAt
  <2>9. s.do \in {"find", "end", "log", "count"}
    BY <1>4 DEF StopsForUpdate
  <2>10. PICK w \in DOMAIN todo : todo[w].do = "write"
    BY <1>4 DEF StopsForUpdate
  <2>11. Todo(c) = {todo[m] : m \in DOMAIN todo} /\ Todo(c)' = {cut[m] : m \in DOMAIN cut}
    BY <2>5 DEF Todo
  <2>12. Todo(c)' \subseteq Todo(c)
    BY <2>4, <2>11
  <2>13. ASSUME NEW x \in Todo(c)
         PROVE  \/ x \in Todo(c)' \/ x.do \in {"log", "count"}
                \/ x = s /\ x.do \in {"find", "end"} /\ x.id \in missed'
    <3>1. PICK m \in DOMAIN todo : x = todo[m]
      BY <2>11, <2>13
    <3>2. CASE m = 1
      <4>1. x = s
        BY <1>2, <3>1, <3>2
      <4>2. s.do \in {"find", "end"} => s.id \in missed'
        BY <1>4 DEF Fail
      <4>3. QED BY <2>9, <4>1, <4>2
    <3>3. CASE m # 1 /\ m < n
      <4>1. m \in 2..(n - 1)
        BY <1>2, <2>3, <3>1, <3>3
      <4>2. QED BY <2>2, <3>1, <4>1
    <3>4. CASE m >= n
      <4> DEFINE j == m - n + 1
      <4>1. j \in DOMAIN cut /\ j + n - 1 = m
        <5>1. /\ Len(todo) \in Nat /\ m \in Nat /\ m <= Len(todo) /\ n \in Nat
              /\ n <= m
          BY <1>2, <2>3, <3>1, <3>4
        <5>2. j \in 1..(Len(todo) - n + 1) /\ j + n - 1 = m
          BY <5>1
        <5>3. QED BY <2>4, <5>2
      <4> HIDE DEF j
      <4>2. cut[j] = todo[m]
        BY <2>4, <4>1
      <4>3. QED BY <2>11, <3>1, <4>1, <4>2
    <3>5. m \in Nat
      BY <1>2
    <3>6. QED BY <2>3, <3>2, <3>3, <3>4, <3>5
  <2>14. ASSUME NEW m \in DOMAIN cut
         PROVE  cut[m].do \notin {"insert", "open", "setHours", "dropLog"}
    <3> DEFINE k == m + n - 1
    <3>1. k \in DOMAIN todo /\ cut[m] = todo[k] /\ 1 < k /\ k \in Nat /\ w \in Nat
      BY <1>2, <2>3, <2>4
    <3> HIDE DEF k
    <3>2. Before(s, todo[k])
      BY <1>2, <2>6, <3>1
    <3>3. todo[k].do \notin {"insert", "setHours", "dropLog"}
      BY <2>9, <3>2, StopsComeLate DEF Before
    <3>4. todo[k].do # "open"
      <4> SUFFICES ASSUME todo[k].do = "open" PROVE FALSE
        OBVIOUS
      <4>1. k # w
        BY <2>10
      <4>2. k < w \/ w < k
        BY <3>1, <4>1
      <4>3. ~Before(todo[k], todo[w]) /\ ~Before(todo[w], todo[k])
        BY <2>10 DEF Before, Final
      <4>4. QED BY <2>6, <3>1, <4>2, <4>3
    <3>5. QED BY <3>1, <3>3, <3>4
  <2>15. Head(rest).do \notin {"count", "dropLog", "setHours"}
    <3>1. 1 \in DOMAIN cut /\ Head(cut) = cut[1] /\ cut[1] = todo[n]
      BY <2>3, <2>4
    <3>2. QED BY <2>2, <2>5, <2>14, <3>1
  <2>16. \A d \in Clients \ {c} : Todo(d)' = Todo(d)
    BY <2>5 DEF Todo
  <2>17. \A x \in Todo(c)' : x.do \notin {"insert", "open", "setHours", "dropLog"}
    BY <2>11, <2>14
  <2>18. Sorted(rest) /\ Paired(rest)
    BY <2>5, <2>7, <2>8
  <2> HIDE DEF s, rest, todo
  <2>19. QED BY <1>1, <2>5, <2>9, <2>12, <2>13, <2>15, <2>16, <2>17, <2>18 DEF s, rest, todo
<1>5. QED BY <1>3, <1>4

\* What a call fails to do keeps the invariant: a session that an update does
\* not stop is known to be missed.
LEMMA FailKeeps ==
  ASSUME Sane, IInv, NEW c \in Clients, Fail(c)
  PROVE  IInv'
<1> DEFINE s == Head(call[c].todo)
<1>1. /\ load' = load /\ orders' = orders /\ materials' = materials
      /\ sessions' = sessions /\ logs' = logs /\ last' = last /\ stock' = stock
      /\ ledger' = ledger /\ written' = written /\ clashed' = clashed /\ now' = now
      /\ restarts' = restarts + 1
  BY DEF Fail, tables
<1>2. /\ call' \in [Clients -> Call]
      /\ \A d \in Clients : /\ call'[d].orders = call[d].orders
                            /\ call'[d].rewrites = call[d].rewrites
                            /\ Todo(d)' \subseteq Todo(d)
                            /\ Sorted(call'[d].todo) /\ Paired(call'[d].todo)
      /\ \A d \in Clients \ {c} : call'[d] = call[d] /\ Todo(d)' = Todo(d)
      /\ Busy(c)
  BY FailLeaves DEF IInv, CallsAreOrderly
<1>3. Busy(c)' =>
        /\ \A x \in Todo(c) :
             \/ x \in Todo(c)' \/ x.do \in {"log", "count"}
             \/ x = s /\ x.do \in {"find", "end"} /\ x.id \in missed'
        /\ s.do \in {"find", "end", "log", "count"}
        /\ \A x \in Todo(c)' : x.do \notin {"insert", "open", "setHours", "dropLog"}
        /\ Head(call'[c].todo).do \notin {"count", "dropLog", "setHours"}
  BY FailLeaves DEF IInv
<1>4. \A d \in Clients : Busy(d)' => Busy(d)
  BY <1>2 DEF Busy
<1>5. Todo(c)' # {} => Busy(c)'
  <2>1. DOMAIN << >> = {}
    OBVIOUS
  <2>2. QED BY <2>1 DEF Todo, Busy
<1>6. missed \subseteq missed' /\ missed' \subseteq Nat
  <2>1. missed \subseteq Nat
    BY DEF IInv, Types, TypeOK
  <2>2. s.do \in {"find", "end"} => s.id \in Nat
    <3>1. Doing(c, s.do)
      BY <1>2 DEF Doing, Busy
    <3>2. s \in Statement
      BY <3>1, NextStatement DEF IInv
    <3>3. last.session \in Nat
      BY DEF IInv, Types
    <3>4. QED BY <3>2, <3>3, StatementFields
  <2>3. missed' = missed \/ (s.do \in {"find", "end"} /\ missed' = missed \cup {s.id})
    BY DEF Fail
  <2>4. QED BY <2>1, <2>2, <2>3
<1> HIDE DEF s
<1>7. /\ \A x : Concerns(x)' = Concerns(x)
      /\ \A d : Running(d)' = Running(d) /\ RunningOn(d)' = RunningOn(d)
      /\ \A o, i : IssuedTo(o, i)' = IssuedTo(o, i)
      /\ \A o : Exists(o)' <=> Exists(o)
  BY <1>1 DEF Concerns, Running, RunningOn, IssuedTo, Exists
<1>8. Types'
  <2>1. Call' = Call
    BY <1>1 DEF Call, Statement, OfOrder, OfIssue, OfSession, OfLog, UpdateRow, Times
  <2>2. TypeOK'
    BY <1>1, <1>6 DEF IInv, Types, TypeOK, OrderRow, Session, Times
  <2>3. restarts' \in Nat
    BY <1>1 DEF IInv, Types
  <2>4. QED BY <1>1, <1>2, <2>1, <2>2, <2>3 DEF IInv, Types
<1>9. RowsExist'
  BY <1>1 DEF IInv, RowsExist, Exists
<1>10. CallsAreOrderly'
  BY <1>2, <1>7 DEF IInv, CallsAreOrderly, Sorted, Paired, PairedAt, Before,
                    Rewriting, Rank, Final
<1>11. ClashesShow'
  BY <1>1, <1>2, <1>4 DEF IInv, ClashesShow
<1>12. OrdersExist'
  <2> SUFFICES ASSUME NEW d \in Clients, NEW o \in call'[d].orders \ clashed, Busy(d)'
               PROVE  Exists(o) \/ \E x \in Todo(d)' : x.do = "insert"
    BY <1>1, <1>7 DEF OrdersExist
  <2>1. Exists(o) \/ \E x \in Todo(d) : x.do = "insert"
    BY <1>2, <1>4 DEF IInv, OrdersExist
  <2>2. CASE d # c
    BY <1>2, <2>1, <2>2
  <2>3. CASE d = c
    BY <1>3, <2>1, <2>3
  <2>4. QED BY <2>2, <2>3
<1>13. IssuesAreNew' /\ IssuedOnce'
  BY <1>1, <1>2, <1>7 DEF IInv, IssuesAreNew, IssuedOnce
<1>14. OpensAreSafe'
  <2> SUFFICES ASSUME NEW d \in Clients, NEW x \in Todo(d)', x.do = "open",
                      NEW i \in Running(d)
               PROVE  Stops(d, i)'
    BY <1>7 DEF OpensAreSafe
  <2>1. d # c
    BY <1>3, <1>5
  <2>2. QED BY <1>2, <2>1 DEF IInv, OpensAreSafe, Stops
<1>15. OneRunningSession'
  BY <1>7 DEF IInv, OneRunningSession
<1>16. OpensAreTimely'
  <2> SUFFICES ASSUME NEW d \in Clients, NEW x \in Todo(d)', x.do = "open",
                      x.order \notin clashed, orders[x.order].status \in Closing
               PROVE  \E y \in Todo(d)' : y.do = "resume" /\ y.waited /\ y.order = x.order
    BY <1>1 DEF OpensAreTimely
  <2>1. d # c
    BY <1>3, <1>5
  <2>2. QED BY <1>2, <2>1 DEF IInv, OpensAreTimely
<1>17. WritesAreSafe'
  <2> SUFFICES ASSUME NEW d \in Clients, NEW x \in Todo(d)', x.do = "write",
                      x.order \notin clashed, x.row.status \in Closing
               PROVE  \/ \E y \in Todo(d)' : y.do = "stopAll" /\ y.order = x.order
                      \/ \A i \in RunningOn(x.order) \ missed' : Stops(d, i)'
    BY <1>1, <1>7 DEF WritesAreSafe
  <2>1. \/ \E y \in Todo(d) : y.do = "stopAll" /\ y.order = x.order
        \/ \A i \in RunningOn(x.order) \ missed' : Stops(d, i)
    BY <1>2, <1>6 DEF IInv, WritesAreSafe
  <2>2. CASE d # c
    BY <1>2, <2>1, <2>2 DEF Stops
  <2>3. CASE d = c /\ \E y \in Todo(d) : y.do = "stopAll" /\ y.order = x.order
    BY <1>3, <1>5, <2>3
  <2>4. CASE d = c /\ \A i \in RunningOn(x.order) \ missed' : Stops(d, i)
    <3> SUFFICES ASSUME NEW i \in RunningOn(x.order) \ missed'
                 PROVE  \E y \in Todo(c)' : y.do \in {"find", "end"} /\ y.id = i
      BY <2>4 DEF Stops
    <3>1. PICK y \in Todo(c) : y.do \in {"find", "end"} /\ y.id = i
      BY <2>4 DEF Stops
    <3>2. QED BY <1>3, <1>5, <2>4, <3>1
  <2>5. QED BY <2>1, <2>2, <2>3, <2>4
<1>18. ClosedOrdersAreQuiet'
  BY <1>1, <1>6, <1>7 DEF IInv, ClosedOrdersAreQuiet
<1>19. HoursAreFresh'
  <2> SUFFICES ASSUME NEW d \in Clients, Busy(d)', Head(call'[d].todo).do = "setHours",
                      Head(call'[d].todo).order \notin clashed
               PROVE  LET x == Head(call'[d].todo)
                          l == call'[d].todo[2].id
                      IN  /\ l \in DOMAIN logs /\ logs[l].order = x.order
                          /\ x.hours = Max({0, orders[x.order].hours - logs[l].hours})
    BY <1>1 DEF HoursAreFresh
  <2>1. d # c
    BY <1>3
  <2>2. call'[d] = call[d] /\ Busy(d)
    BY <1>2, <1>4, <2>1
  <2>3. QED BY <2>2 DEF IInv, HoursAreFresh
<1>20. Balanced'
  <2> SUFFICES ASSUME NEW o \in Orders \ clashed, written[o] = {}
               PROVE  /\ orders[o].hours + Debts(o)' <= Logged(o)
                      /\ restarts' # 0
    BY <1>1, LoggedTotal DEF Balanced, TotalOf
  <2>1. restarts' # 0
    BY <1>1 DEF IInv, Types
  <2> DEFINE f == [d \in Clients |-> Debt(d, o)]
             g == [d \in Clients |-> Debt(d, o)']
  <2>2. ASSUME NEW d \in Clients
        PROVE  f[d] \in Nat /\ (g[d] = f[d] \/ g[d] = 0)
    <3>1. Debt(d, o) \in Nat
      BY DebtCases DEF IInv
    <3>2. CASE d # c
      <4>1. Debt(d, o)' = Debt(d, o)
        BY <1>1, <1>2, <3>2 DEF Debt, Busy
      <4>2. QED BY <3>1, <4>1
    <3>3. CASE d = c
      <4>1. Debt(c, o)' = 0
        BY <1>3 DEF Debt
      <4>2. QED BY <3>1, <3>3, <4>1
    <3>4. QED BY <3>2, <3>3
  <2>3. Debts(o) = SumOf(f, Clients) /\ Debts(o)' = SumOf(g, Clients)
    BY DEF Debts, SumOf, MapThenSumSet, MapThenFoldSet
  <2> HIDE DEF f, g
  <2>4. \A d \in Clients : f[d] \in Nat /\ g[d] \in Nat /\ g[d] <= f[d]
    BY <2>2
  <2>5. IsFiniteSet(Clients)
    BY DEF Sane
  <2>6. Debts(o)' <= Debts(o)
    BY <2>3, <2>4, <2>5, SumMonotone
  <2>7. Debts(o) \in Nat /\ Debts(o)' \in Nat
    BY <2>3, <2>4, <2>5, SumType
  <2>8. orders[o].hours + Debts(o) <= Logged(o)
    BY DEF IInv, Balanced
  <2>9. orders[o].hours \in Nat /\ Logged(o) \in Nat
    <3>1. orders[o].hours \in Nat
      BY DEF IInv, Types, TypeOK, OrderRow
    <3>2. QED BY <3>1, LoggedTotal, LogsAreTable, TableRows DEF IInv
  <2>10. QED BY <2>1, <2>6, <2>7, <2>8, <2>9
<1>21. QED BY <1>8, <1>9, <1>10, <1>11, <1>12, <1>13, <1>14, <1>15, <1>16, <1>17,
              <1>18, <1>19, <1>20 DEF IInv
-----------------------------------------------------------------------------
(* The theorems.                                                           *)

LEMMA InitHolds ==
  ASSUME Sane, Init
  PROVE  IInv
<1>1. /\ load \in Workloads /\ load.stock \in [Items -> Nat] /\ load.last \in Nat
      /\ load.lists \subseteq Seq(Line)
  BY DEF Init, Sane
<1>2. PICK codes \in [Orders -> 1..Cardinality(Orders)], new \in SUBSET Orders :
        orders = [o \in Orders |->
           IF o \in new THEN Absent
           ELSE [Absent EXCEPT !.status = "ASSIGNED", !.code = codes[o]]]
  BY DEF Init
<1>3. /\ materials \in [Orders -> load.lists \cup {<< >>}]
      /\ sessions = << >> /\ logs = << >> /\ last = [session |-> 0, log |-> 0]
      /\ stock = load.stock /\ ledger = << >> /\ now = 0
      /\ call = [c \in Clients |-> Idle] /\ clashed = {} /\ missed = {}
      /\ written = [o \in Orders |-> {}] /\ restarts = 0
  BY DEF Init
<1>4. Cardinality(Orders) \in Nat
  BY FS_CardinalityType DEF Sane
<1>5. ASSUME NEW o \in Orders
      PROVE  /\ orders[o] \in OrderRow /\ orders[o].hours = 0
             /\ orders[o].status \notin Closing
  <2>1. CASE o \in new
    <3>1. orders[o] = Absent
      BY <1>2, <2>1
    <3>2. QED BY <3>1 DEF Absent, OrderRow, Closing
  <2>2. CASE o \notin new
    <3>1. orders[o] = [Absent EXCEPT !.status = "ASSIGNED", !.code = codes[o]]
      BY <1>2, <2>2
    <3>2. codes[o] \in Nat
      BY <1>4
    <3>3. orders[o] = [status |-> "ASSIGNED", code |-> codes[o], hours |-> 0,
                       started |-> None, ended |-> None]
      BY <3>1 DEF Absent
    <3>4. QED BY <3>2, <3>3 DEF OrderRow, Statuses, Closing
  <2>3. QED BY <2>1, <2>2
<1>6. orders \in [Orders -> OrderRow]
  BY <1>2, <1>5
<1>7. DOMAIN << >> = {}
  OBVIOUS
<1>8. \A c \in Clients : call[c] = Idle /\ Todo(c) = {} /\ ~Busy(c)
  BY <1>3, <1>7 DEF Idle, Todo, Busy
<1>9. DOMAIN sessions = {} /\ DOMAIN logs = {} /\ DOMAIN ledger = {}
  BY <1>3, <1>7
<1>10. TypeOK
  <2>1. materials \in [Orders -> Seq(Line)]
    BY <1>1, <1>3, EmptyList
  <2>2. sessions \in [DOMAIN sessions -> Session] /\ logs \in [DOMAIN logs -> LogRow]
    BY <1>3, <1>7
  <2>3. ledger \in Seq(Issue)
    BY <1>3, EmptyList
  <2>4. now \in Times
    BY <1>1, <1>3 DEF Times
  <2>5. QED BY <1>1, <1>3, <1>6, <1>9, <2>1, <2>2, <2>3, <2>4 DEF TypeOK, Line
<1>11. Types
  <2>1. Idle \in Call
    BY EmptyList DEF Idle, Call
  <2>2. QED BY <1>1, <1>3, <1>10, <2>1 DEF Types
<1>12. RowsExist
  BY <1>9 DEF RowsExist
<1>13. CallsAreOrderly
  <2>1. Sorted(<< >>) /\ Paired(<< >>)
    BY EmptyList
  <2>2. QED BY <1>8, <2>1 DEF CallsAreOrderly, Idle
<1>14. ClashesShow /\ OrdersExist /\ IssuesAreNew
  BY <1>8 DEF ClashesShow, OrdersExist, IssuesAreNew
<1>15. IssuedOnce /\ OneRunningSession
  BY <1>9 DEF IssuedOnce, IssuedTo, OneRunningSession, Running
<1>16. OpensAreSafe /\ OpensAreTimely /\ WritesAreSafe /\ HoursAreFresh
  BY <1>8 DEF OpensAreSafe, OpensAreTimely, WritesAreSafe, HoursAreFresh
<1>17. ClosedOrdersAreQuiet
  BY <1>5 DEF ClosedOrdersAreQuiet
<1>18. Balanced
  <2> SUFFICES ASSUME NEW o \in Orders
               PROVE  orders[o].hours = 0 /\ Debts(o) = 0 /\ Logged(o) = 0
    BY DEF Balanced
  <2>1. Debts(o) = 0
    <3> DEFINE f == [d \in Clients |-> Debt(d, o)]
    <3>1. \A d \in Clients : f[d] = 0
      BY <1>8 DEF Debt
    <3>2. Debts(o) = SumOf(f, Clients)
      BY DEF Debts
    <3> HIDE DEF f
    <3>3. QED BY <3>1, <3>2, SumZero DEF Sane
  <2>2. Logged(o) = 0
    <3>1. RowsOf(logs, o) = {}
      BY <1>9 DEF RowsOf
    <3>2. QED BY <3>1, LoggedTotal, TotalNone
  <2>3. QED BY <1>5, <2>1, <2>2
<1>19. QED BY <1>11, <1>12, <1>13, <1>14, <1>15, <1>16, <1>17, <1>18 DEF IInv

\* A statement of a call keeps the invariant.
LEMMA StepKeeps ==
  ASSUME Sane, IInv, NEW c \in Clients, Step(c)
  PROVE  IInv'
<1>1. Types' /\ CallsAreOrderly'
  BY TypesStep, CallsAreOrderlyStep DEF IInv
<1>2. RowsExist' /\ ClashesShow' /\ OrdersExist'
  BY RowsExistStep, ClashesShowStep, OrdersExistStep DEF IInv
<1>3. IssuesAreNew' /\ IssuedOnce'
  BY IssuesAreNewStep, IssuedOnceStep DEF IInv
<1>4. OpensAreSafe' /\ OneRunningSession'
  BY OpensAreSafeStep, OneRunningStep DEF IInv
<1>5. OpensAreTimely' /\ WritesAreSafe' /\ ClosedOrdersAreQuiet'
  BY OpensAreTimelyStep, WritesAreSafeStep, ClosedQuietStep DEF IInv
<1>6. HoursAreFresh' /\ Balanced'
  BY HoursAreFreshStep, BalancedStep DEF IInv
<1>7. QED BY <1>1, <1>2, <1>3, <1>4, <1>5, <1>6 DEF IInv

LEMMA NextKeeps ==
  ASSUME Sane, IInv, Next
  PROVE  IInv'
<1>1. ASSUME NEW c \in Clients, NEW o \in Orders,
             \/ startWorkSession(c, o) \/ remove(c, o)
             \/ \E lines \in load.lists : create(c, o, lines)
             \/ \E hours \in 0..1 : createProgressLog(c, o, hours)
             \/ \E status \in load.targets \cup {None}, lines \in load.lists \cup {None},
                   hours \in {None, 0, 1} : update(c, o, status, lines, hours)
      PROVE  IInv'
  BY <1>1, startWorkSessionKeeps, removeKeeps, createKeeps, createProgressLogKeeps,
     updateKeeps
<1>2. ASSUME NEW c \in Clients, NEW i \in DOMAIN sessions, stopWorkSession(c, i)
      PROVE  IInv'
  BY <1>2, stopWorkSessionKeeps
<1>3. ASSUME NEW c \in Clients, NEW l \in DOMAIN logs, deleteProgressLog(c, l)
      PROVE  IInv'
  BY <1>3, deleteProgressLogKeeps
<1>4. QED BY <1>1, <1>2, <1>3, StepKeeps, FailKeeps, TickKeeps, RestartKeeps DEF Next

LEMMA StutterKeeps ==
  ASSUME Sane, IInv, UNCHANGED vars
  PROVE  IInv'
<1>1. now' \in Times
  BY DEF vars, IInv, Types, TypeOK
<1>2. QED BY <1>1, CallsKept DEF vars

\* Every state that the service reaches has the invariant.
THEOREM Invariance ==
  ASSUME Sane
  PROVE  Spec => []IInv
<1>1. Init => IInv
  BY InitHolds
<1>2. IInv /\ [Next]_vars => IInv'
  BY NextKeeps, StutterKeeps
<1>3. QED BY <1>1, <1>2, PTL DEF Spec

LEMMA BalancedHours ==
  ASSUME Sane, IInv
  PROVE  HoursMatchLogs
<1> SUFFICES ASSUME NEW o \in Orders, o \notin clashed, written[o] = {}
             PROVE  /\ orders[o].hours <= Logged(o)
                    /\ AtRest(o) /\ restarts = 0 => orders[o].hours = Logged(o)
  BY DEF HoursMatchLogs
<1> DEFINE f == [d \in Clients |-> Debt(d, o)]
<1>1. Debts(o) = SumOf(f, Clients) /\ IsFiniteSet(Clients)
  BY DEF Debts, Sane
<1>2. \A d \in Clients : f[d] \in Nat
  BY DebtCases DEF IInv
<1>3. AtRest(o) => \A d \in Clients : f[d] = 0
  BY DebtCases DEF IInv, AtRest, Busy, CallsAreOrderly
<1> HIDE DEF f
<1>4. Debts(o) \in Nat /\ (AtRest(o) => Debts(o) = 0)
  BY <1>1, <1>2, <1>3, SumType, SumZero
<1>5. orders[o].hours \in Nat /\ Logged(o) \in Nat
  <2>1. orders[o].hours \in Nat
    BY DEF IInv, Types, TypeOK, OrderRow
  <2>2. QED BY <2>1, LoggedTotal, LogsAreTable, TableRows DEF IInv
<1>6. /\ orders[o].hours + Debts(o) <= Logged(o)
      /\ restarts = 0 => orders[o].hours + Debts(o) = Logged(o)
  BY DEF IInv, Balanced
<1>7. QED BY <1>4, <1>5, <1>6

\* Whatever statements of startSession, stopSession, update, remove, complete
\* and the others come between one another, every table keeps its type.
THEOREM TypeCorrect ==
  ASSUME Sane
  PROVE  Spec => []TypeOK
<1>1. IInv => TypeOK
  BY DEF IInv, Types
<1>2. QED BY <1>1, Invariance, PTL

\* startSession looks for a running session in one statement and creates one
\* in another: still nobody is clocked in twice, as he makes one call at a time.
THEOREM OneSessionRuns ==
  ASSUME Sane
  PROVE  Spec => []OneRunningSession
<1>1. IInv => OneRunningSession
  BY DEF IInv
<1>2. QED BY <1>1, Invariance, PTL

\* A session, its log and the hours of its order are written by separate
\* statements.  Unless a rewriting call overlapped another on the order, its
\* hours never exceed its logs, and equal them at rest if no server stopped.
THEOREM HoursAreLogged ==
  ASSUME Sane
  PROVE  Spec => []HoursMatchLogs
<1>1. IInv => HoursMatchLogs
  BY BalancedHours
<1>2. QED BY <1>1, Invariance, PTL

\* Holding, completing or cancelling an order stops the sessions in other
\* statements than the one that writes the status: none is left behind but the
\* one that could not be stopped.
THEOREM ClosedIsQuiet ==
  ASSUME Sane
  PROVE  Spec => []ClosedOrdersAreQuiet
<1>1. IInv => ClosedOrdersAreQuiet
  BY DEF IInv
<1>2. QED BY <1>1, Invariance, PTL

\* A completion issues what the ledger does not hold yet: completing an order
\* again, after a reopening or a restart, issues nothing twice.
THEOREM IssuesOnce ==
  ASSUME Sane
  PROVE  Spec => []IssuedOnce
<1>1. IInv => IssuedOnce
  BY DEF IInv
<1>2. QED BY <1>1, Invariance, PTL
=============================================================================
