------------------------------ MODULE PosReplay ------------------------------
(***************************************************************************)
(* The POS service (services/pos/csv_replay.py): it replays the receipts   *)
(* of each CSV file in order of time at the pace they were recorded, as a  *)
(* task that a signal cancels.  Docker starts the container again whenever *)
(* it ends, and it begins with the first file.                             *)
(***************************************************************************)
EXTENDS Integers, Sequences, FiniteSets

CONSTANTS
    None,       \* a column that is missing, or that does not parse
    Files,      \* the CSV files in order of name: sequences of rows
    Pace,       \* POS_PACE: 0 publishes in a burst
    MaxTime,    \* bound: ticks a replay of a file may take
    MaxRuns,    \* bound: starts of the container
    MaxFaults   \* bound: failing publishes in a run

Row == [invoice : Nat \cup {None}, ts : Nat \cup {None}, total : Nat \cup {None}]

ASSUME PosAssumption ==
    /\ None \notin Nat
    /\ Files \in Seq(Seq(Row))
    /\ {Pace, MaxTime, MaxFaults} \subseteq Nat /\ MaxRuns \in Nat \ {0}

VARIABLES
    now,        \* the wall clock
    file,       \* the file in hand
    rows,       \* its parsed rows, <<>> before it is parsed
    next,       \* the row the replay task publishes next
    start,      \* wall_start of the task
    status,     \* the process: "parse", "replay" or "ended"
    published,  \* receipts sent: run, file, place in it, row, time stamp
    runs,       \* starts so far
    cut         \* history: files whose replay was cut short, by run

vars == <<now, file, rows, next, start, status, published, runs, cut>>

-----------------------------------------------------------------------------
(* parse_csv *)

\* Rows without a usable time, invoice number or total are skipped.
Usable(csv) == {i \in DOMAIN csv : None \notin {csv[i].invoice, csv[i].ts, csv[i].total}}

\* Mutant of Before: not sorted.
BeforeInFile(csv, i, j) == i < j

\* list.sort is stable.
Before(csv, i, j) == csv[i].ts < csv[j].ts \/ (csv[i].ts = csv[j].ts /\ i < j)

ParseCsv(csv) ==
    [n \in 1..Cardinality(Usable(csv)) |->
        csv[CHOOSE i \in Usable(csv) :
                Cardinality({j \in Usable(csv) : Before(csv, j, i)}) = n - 1]]

-----------------------------------------------------------------------------
Init ==
    /\ now = 0 /\ file = 1 /\ rows = <<>> /\ next = 1 /\ start = 0
    /\ status = "parse" /\ published = <<>> /\ runs = 1 /\ cut = {}

\* The clock matters while a task waits for a receipt's time, and stands still
\* otherwise.
Tick ==
    /\ status = "replay" /\ now - start < MaxTime
    /\ now' = now + 1
    /\ UNCHANGED <<file, rows, next, start, status, published, runs, cut>>

\* Mutant of SkipFile: break for continue.
StopAtEmptyFile ==
    /\ status = "parse" /\ file \in DOMAIN Files
    /\ Usable(Files[file]) = {}
    /\ status' = "ended"
    /\ UNCHANGED <<now, file, rows, next, start, published, runs, cut>>

\* A file without a usable row.
SkipFile ==
    /\ status = "parse" /\ file \in DOMAIN Files
    /\ Usable(Files[file]) = {}
    /\ file' = file + 1
    /\ UNCHANGED <<now, rows, next, start, status, published, runs, cut>>

\* Parsed, and its replay task created: wall_start is now.
OpenFile ==
    /\ status = "parse" /\ file \in DOMAIN Files
    /\ Usable(Files[file]) # {}
    /\ rows' = ParseCsv(Files[file])
    /\ next' = 1 /\ start' = now /\ status' = "replay"
    /\ UNCHANGED <<now, file, published, runs, cut>>

\* sleep_for <= 0.  The shift of the times cancels out.
Due == Pace = 0 \/ rows[next].ts - rows[1].ts <= Pace * (now - start)

\* Mutant of NextFile: the parsed rows are kept.
NextFileKeepsRows == file' = file + 1 /\ next' = 1 /\ status' = "parse" /\ UNCHANGED rows

\* The task is done, one way or the other, and main goes on.
NextFile ==
    /\ file' = file + 1 /\ rows' = <<>> /\ next' = 1 /\ status' = "parse"

\* The receipt is stamped with the time of its publication.
Publish ==
    /\ status = "replay" /\ Due
    /\ published' = Append(published,
           [run |-> runs, file |-> file, n |-> next, row |-> rows[next], ts |-> now])
    /\ IF next < Len(rows)
       THEN next' = next + 1 /\ UNCHANGED <<file, rows, status>>
       ELSE NextFile
    /\ UNCHANGED <<now, start, runs, cut>>

\* Mutant of PublishFails: the file is begun anew.
RetryFile ==
    /\ status = "replay" /\ Due
    /\ Cardinality({c \in cut : c[1] = runs}) < MaxFaults
    /\ cut' = cut \cup {<<runs, file>>}
    /\ status' = "parse" /\ rows' = <<>> /\ next' = 1
    /\ UNCHANGED <<now, file, start, published, runs>>

\* An exception of publish ends the task.  asyncio.wait returns it as done,
\* nobody asks for its result, and the next file is begun.
PublishFails ==
    /\ status = "replay" /\ Due
    /\ Cardinality({c \in cut : c[1] = runs}) < MaxFaults
    /\ cut' = cut \cup {<<runs, file>>}
    /\ NextFile
    /\ UNCHANGED <<now, start, published, runs>>

\* A signal, or a kill: the task is cancelled where it is, and main ends.
Stop ==
    /\ status = "replay"
    /\ cut' = cut \cup {<<runs, f>> : f \in file..Len(Files)}
    /\ status' = "ended" /\ rows' = <<>> /\ next' = 1
    /\ UNCHANGED <<now, file, start, published, runs>>

End ==
    /\ status = "parse" /\ file \notin DOMAIN Files
    /\ status' = "ended"
    /\ UNCHANGED <<now, file, rows, next, start, published, runs, cut>>

\* restart: unless-stopped
Restart ==
    /\ status = "ended" /\ runs < MaxRuns
    /\ runs' = runs + 1 /\ file' = 1 /\ status' = "parse"
    /\ UNCHANGED <<now, rows, next, start, published, cut>>

Next ==
    \/ Tick \/ SkipFile \/ OpenFile \/ Publish \/ PublishFails
    \/ Stop \/ End \/ Restart

Spec == Init /\ [][Next]_vars

\* Time goes on, and the event loop runs main and its task.
FairSpec ==
    /\ Spec
    /\ WF_vars(Tick)
    /\ WF_vars(SkipFile \/ OpenFile \/ Publish \/ End)

-----------------------------------------------------------------------------
(* Properties. *)

TypeOK ==
    /\ now \in Nat /\ start \in 0..now /\ runs \in 1..MaxRuns
    /\ file \in 1..(Len(Files) + 1)
    /\ rows \in Seq(Row) /\ next \in 1..(Len(rows) + 1)
    /\ status \in {"parse", "replay", "ended"}
    /\ status = "replay" <=> rows # <<>>
    /\ published \in Seq([run : 1..runs, file : DOMAIN Files, n : Nat,
                          row : Row, ts : 0..now])

Of(r, f) == {i \in DOMAIN published : published[i].run = r /\ published[i].file = f}

\* Relative order is preserved (csv_replay.py:9-10): in one replay of a file, an
\* earlier receipt is published before a later one, and stamped no later.
OrderKept ==
    \A r \in 1..runs : \A f \in DOMAIN Files : \A i, j \in Of(r, f) :
        i < j => /\ published[i].row.ts <= published[j].row.ts
                 /\ published[i].ts <= published[j].ts

\* A receipt is published once in a run of the container, whatever fails in
\* between (csv_replay.py:123-140, 169-180).
OncePerRun ==
    \A r \in 1..runs : \A f \in DOMAIN Files : \A i, j \in Of(r, f) :
        published[i].n = published[j].n => i = j

\* A usable receipt of any file is published in every run that is not
\* cut short, empty and failing files in front of it notwithstanding
\* (csv_replay.py:169-180).
AllReplayed ==
    \A r \in 1..MaxRuns : \A f \in DOMAIN Files :
        runs = r ~> \/ <<r, f>> \in cut
                    \/ Cardinality(Of(r, f)) = Cardinality(Usable(Files[f]))
=============================================================================
