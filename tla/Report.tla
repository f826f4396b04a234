-------------------------------- MODULE Report --------------------------------
(***************************************************************************)
(* The analyzer from the first row of racedet.trace to its two reports: the *)
(* dictionaries in which validate_ax_bx counts the issues it confirms, and  *)
(* the lists it writes of them, racedet_report.csv and racedet_report.txt.  *)
(*                                                                         *)
(* The trace is Analysis' trace with timestamps, which rise from row to row *)
(* and may leave one out (the recorder counts a free it does not know       *)
(* without writing a row).  The analyzer may stop before its end, by the    *)
(* timeout or at the option -e: the rows behind are there all the same, for *)
(* the tools that read the file after it.                                  *)
(*                                                                         *)
(* An issue in a list is its type, its count and its two or four accesses   *)
(* (the columns ax to dx of the one, the sentences "Ax is ..." of the       *)
(* other); wording, the columns for the mutexes and the source lines that   *)
(* the text quotes are left out.                                           *)
(***************************************************************************)
EXTENDS Analysis

CONSTANTS
    Skipped,          \* the timestamps that may have no row
    MaxUnread         \* bound: rows behind the last one the analyzer reads

ASSUME ReportAssumption == Stamps \subseteq Nat /\ MaxUnread \in Nat

VARIABLES
    trace,            \* racedet.trace, as far as it is told
    unread,           \* the number of its rows the analyzer has not read
    confirmed,        \* the four dictionaries confirmed_ax_bx_0, ..., cy_dy
    raised,           \* history: every issue found on some row
    place,            \* place[k]: the place of k among its dictionary's values,
                      \* from the first time they are listed to the last
    csv, txt          \* the reports: a list of issues each, numbered from 1

writtenVars == <<place, csv, txt>>
reportVars == <<vars, trace, unread, confirmed, raised, writtenVars>>

ReportInit ==
    /\ Init
    /\ trace = <<>> /\ unread = 0
    /\ confirmed = <<>>
    /\ raised = {}
    /\ place = None /\ csv = None /\ txt = None

-----------------------------------------------------------------------------
(* Counting. *)

\* Interleaving(...): the columns of two accesses that identify them.
Interleaving(p) ==
    [n \in 1..2 |-> [op |-> p[n].op, addr |-> p[n].addr,
                     thread |-> p[n].thread, ipc |-> p[n].ipc]]

\* Mutant: all types are counted by the earlier idiom.
HeadingByHistory(i) == <<i.type, Interleaving(i.history)>>

\* The dictionary and the key under which an issue is counted.
Heading(i) == <<i.type, Interleaving(IF i.type \in {0, 1} THEN i.last ELSE i.history)>>

\* Mutant: the idiom that is the key is stored for type 1, too.
StoredKey(i) == IF i.type \in {0, 1} THEN i.last ELSE i.history \o i.last

\* Mutant: the accesses are stored with the latest idiom first.
StoredBackwards(i) ==
    CASE i.type = 0 -> i.last
      [] i.type = 1 -> i.history
      [] OTHER      -> i.last \o i.history

\* The accesses remembered when the heading is new.  For type 1 they are those
\* of the earlier idiom.
Stored(i) ==
    CASE i.type = 0 -> i.last
      [] i.type = 1 -> i.history
      [] OTHER      -> i.history \o i.last

Under(k, S) == {i \in S : Heading(i) = k}

\* An issue of a row opens its heading or is counted under it.
Count ==
    confirmed' =
        [k \in DOMAIN confirmed \cup {Heading(i) : i \in found'} |->
            IF k \notin DOMAIN confirmed
            THEN [accesses |-> Stored(CHOOSE i \in Under(k, found') : TRUE), count |-> 1]
            ELSE [confirmed[k] EXCEPT !.count = IF Under(k, found') = {} THEN @ ELSE @ + 1]]

LastStamp == IF trace = <<>> THEN 0 ELSE Last(trace).ts

\* The row may be the next line of the file.
IsNextLine(r) ==
    /\ r.ts > LastStamp
    /\ \A s \in LastStamp + 1 .. r.ts - 1 : s \in Skipped
    /\ trace' = Append(trace, r)

ReadTrace(r) ==
    /\ IsNextLine(r)
    /\ ReadRow(r)
    /\ Count
    /\ raised' = raised \cup found'
    /\ UNCHANGED <<unread, writtenVars>>

StopTrace == StopReading /\ UNCHANGED <<trace, unread, confirmed, raised, writtenVars>>

\* A row behind the last one the analyzer reads.
Unread(r) ==
    /\ state = "finished"
    /\ csv = None
    /\ unread < MaxUnread
    /\ unread' = unread + 1
    /\ IsNextLine(r)
    /\ G!Follows(r) \/ Strays(r)
    /\ UNCHANGED <<analyzerVars, recent, confirmed, raised, writtenVars>>

-----------------------------------------------------------------------------
(* Writing. *)

\* One dictionary after the other, and in each sorted(..., key=count,
\* reverse=True), which is stable: p[k] is the place of k among the
\* dictionary's values.
Precedes(p, j, k) ==
    \/ j[1] < k[1]
    \/ j[1] = k[1] /\ confirmed[j].count > confirmed[k].count
    \/ j[1] = k[1] /\ confirmed[j].count = confirmed[k].count /\ p[j] < p[k]

Listings(p) ==
    {l \in SetToSeqs(DOMAIN confirmed) :
        \A m, n \in DOMAIN l : m < n => Precedes(p, l[m], l[n])}

ListOf(l) ==
    [n \in DOMAIN l |-> [type |-> l[n][1], count |-> confirmed[l[n]].count,
                         accesses |-> confirmed[l[n]].accesses]]

\* racedet_report.csv, numbered from 1.  The order of a dictionary's values is
\* any, but the same as long as the dictionary is not changed.
WriteCsv ==
    /\ state = "finished" /\ csv = None
    /\ \E p \in Injection(DOMAIN confirmed, 1 .. Cardinality(DOMAIN confirmed)) :
         /\ place' = p
         /\ \E l \in Listings(p) : csv' = ListOf(l)
    /\ UNCHANGED <<vars, trace, unread, confirmed, raised, txt>>

\* The dictionaries are sorted again for racedet_report.txt, which is numbered
\* from 1 again.
WriteText ==
    /\ csv # None /\ place # None
    /\ \E l \in Listings(place) : txt' = ListOf(l)
    /\ place' = None
    /\ UNCHANGED <<vars, trace, unread, confirmed, raised, csv>>

ReportNext ==
    \/ \E r \in Rows : ReadTrace(r) \/ Unread(r)
    \/ StopTrace \/ WriteCsv \/ WriteText

ReportSpec == ReportInit /\ [][ReportNext]_reportVars

-----------------------------------------------------------------------------
(* Properties. *)

Reported == csv # None

\* The row is for the heading: it names the accesses counted under it.  Those
\* of a type 1 row are the other way round, with the ops of the earlier idiom.
IsFor(row, k) ==
    LET p == Interleaving(row.accesses)
        Same(m, n) == /\ p[m].addr = k[2][n].addr
                      /\ p[m].thread = k[2][n].thread
                      /\ p[m].ipc = k[2][n].ipc
    IN /\ row.type = k[1]
       /\ IF row.type = 1 THEN Same(1, 2) /\ Same(2, 1) ELSE p = k[2]

\* No confirmed issue is lost: in either report there is one entry for its type
\* and its pair of accesses, and its count is the number of issues confirmed
\* there.  (Issues of the types 2 and 4 that differ in Cx or Dx alone share it.)
ListsAll(report) ==
    /\ Len(report) = Cardinality({Heading(i) : i \in raised})
    /\ \A i \in raised : \E n \in DOMAIN report :
           /\ IsFor(report[n], Heading(i))
           /\ report[n].count = Cardinality(Under(Heading(i), raised))

EveryIssueCounted ==
    /\ Reported => ListsAll(csv)
    /\ txt # None => ListsAll(txt)

\* The rows printed for an issue are rows of the trace, in the order in which
\* they are printed; only Cy and Dy of type 4, on an address of their own, may
\* begin before Bx.
InOrder ==
    Reported =>
        \A n \in DOMAIN csv :
            LET q == csv[n].accesses
                type == csv[n].type
            IN /\ \A m \in DOMAIN q :
                     \E r \in ToSet(trace) :
                         q[m].ts = r.ts /\ q[m].thread = r.thread /\ q[m].ipc = r.ipc
               /\ q[1].ts < q[2].ts
               /\ type \in {2, 4} => q[3].ts < q[4].ts /\ q[2].ts < q[4].ts
               /\ type = 2 => q[2].ts <= q[3].ts

\* An issue of type 1 is witnessed by the trace: after the Ax and Bx printed,
\* the same two threads and instructions touched the address the other way
\* round.
ReversalWitnessed ==
    Reported =>
        \A n \in DOMAIN csv :
            LET q == csv[n].accesses
            IN csv[n].type = 1 =>
                 \E j, k \in DOMAIN trace :
                     /\ j < k
                     /\ trace[j].ts >= q[2].ts
                     /\ trace[j].thread = q[2].thread /\ trace[j].ipc = q[2].ipc
                     /\ trace[k].thread = q[1].thread /\ trace[k].ipc = q[1].ipc
                     /\ trace[j].addr = q[1].addr /\ trace[k].addr = q[1].addr
=============================================================================
