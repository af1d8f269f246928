----------------------------- MODULE MCRecords ------------------------------
(***************************************************************************)
(* Records for TLC, and shift sheets beside them: when 'focus' is "sheet"  *)
(* or "sheets", only Oee runs, first with one sheet of many shapes, then   *)
(* with a few sheets of several people.                                    *)
(***************************************************************************)
EXTENDS Records, Oee, TLC

\* Two readings at most besides one that is added.
Readings == 0..2
Binary == 0..1

Two == 1..2
Sides == {"left", "right"}

\* A day that every month has, and one that few have; monthly and quarterly.
Starts == {28, 31}
Intervals == {1, 3}

\* Three shifts of a day whose unit is two hours: the first from 6 to 14
\* o'clock, the last one past midnight.
ThreeShifts == [CA_1 |-> <<3, 7>>, CA_2 |-> <<7, 11>>, CA_3 |-> <<11, 15>>]
LateShifts == [CA_2 |-> <<7, 11>>, CA_3 |-> <<11, 15>>]

Instants == {0, 5, 11}
Stretches == Instants \X Instants

TimeRow(key, times) == [key |-> key, times |-> times, minutes |-> Absent]

RunRows == {TimeRow("running", <<t>>) : t \in Stretches}
           \cup {TimeRow("running", <<t, u>>) : t, u \in Stretches}

\* A run that was never timed.
Untimed == <<[TimeRow("running", << >>) EXCEPT !.minutes = 2],
             TimeRow("breakShift", << <<9, 10>> >>)>>

\* Every run of one or two stretches, with a break or without.
RichSheets == {<<r>> : r \in RunRows} \cup {Untimed}
              \cup {<<r, TimeRow("breakShift", <<t>>)>> : r \in RunRows, t \in Stretches}

\* Runs that meet, and no run.
FewSheets ==
  {<<TimeRow("running", << <<9, 3>> >>), TimeRow("breakShift", << <<11, 0>> >>),
     TimeRow("cleaning", << <<8, 9>>, <<11, 0>> >>)>>,
   <<TimeRow("running", << <<11, 0>> >>), TimeRow("cleaning", << <<10, 0>> >>)>>,
   << >>}

AllSheets == RichSheets \cup FewSheets
NoTimes == {[duration |-> 4, planned |-> 1, unplanned |-> 1, override |-> 0]}

One == INSTANCE Oee WITH
         Ids <- {1}, Operators <- {"operator"}, Dates <- {0}, Sheets <- RichSheets

Some == INSTANCE Oee WITH Windows <- LateShifts, Sheets <- FewSheets

AllInit ==
  \/ RecordInit /\ OeeInit
  \/ /\ Init /\ \A u \in Users : users[u].kind = "LOCAL"
     /\ NoMeter /\ NoBrowser /\ NoClient /\ NoMonths /\ made = 0
     /\ \/ focus = "sheet" /\ One!OeeInit
        \/ focus = "sheets" /\ Some!OeeInit

AllNext ==
  \/ RecordNext /\ UNCHANGED oeeVars
  \/ /\ focus = "sheet" /\ One!OeeNext
     /\ UNCHANGED <<focus, vars, made, meter, browser, client, months>>
  \/ /\ focus = "sheets" /\ Some!OeeNext
     /\ UNCHANGED <<focus, vars, made, meter, browser, client, months>>

AllSpec ==
  AllInit
  /\ [][AllNext]_<<focus, vars, made, meter, browser, client, months, oeeVars>>

\* Accounts are alike, and so are people.
Alike == Permutations(Users) \cup Permutations(Clients)
=============================================================================
