----------------------------- MODULE NightAudit -----------------------------
(***************************************************************************)
(* The night audit (nightaudit_handler.go).  CloseDay adds up the bookings *)
(* of CURRENT_DATE in one statement and files a report for CURRENT_DATE in *)
(* another; the database evaluates each when it executes the statement.    *)
(* The checklist of a day is done as soon as a report is filed for it.     *)
(* bookings is a table that nothing in the server writes: totals are told  *)
(* by the hotel and day they were taken of.                                *)
(***************************************************************************)
EXTENDS Requests, Integers

CONSTANTS
    Tenant,     \* hotels whose staff close days
    MaxDay      \* bounds the days of a run

VARIABLES
    today,      \* CURRENT_DATE
    reports,    \* night_audit_reports
    totals,     \* the day of the totals that a request has read
    told,       \* the day whose checklist a request has found done

    \* A history variable: no guard reads it.
    overnight   \* requests that had totals in hand at midnight

audit == <<today, reports, totals, told, overnight>>

Day == 1..MaxDay
AskAudit == [op : {"close", "checklist"}, hotel : Tenant]

ASSUME NightAuditAssumption == MaxDay \in Nat \ {0} /\ None \notin AskAudit

TypeAudit ==
    /\ today \in Day
    /\ reports \subseteq [by : Call, hotel : Tenant, date : Day, of : Day]
    /\ totals \in [Call -> Day \cup {None}]
    /\ told \in [Call -> Day \cup {None}]
    /\ overnight \subseteq Call

InitAudit ==
    /\ today = 1 /\ reports = {}
    /\ totals = [c \in Call |-> None]
    /\ told = [c \in Call |-> None]
    /\ overnight = {}

\* CloseDay: what the bookings of the day add up to,
Total(c) ==
    /\ Goto(c, "total", "count")
    /\ totals' = [totals EXCEPT ![c] = today]
    /\ UNCHANGED <<today, reports, told, overnight>>

\* how many come and go, which is only answered,
Count(c) ==
    /\ Goto(c, "count", "file")
    /\ UNCHANGED audit

\* and the report: nothing keeps a hotel from a second one for the same day.
File(c) ==
    /\ Finish(c, "file")
    /\ reports' = reports \cup {[by |-> c, hotel |-> ask[c].hotel, date |-> today, of |-> totals[c]]}
    /\ UNCHANGED <<today, totals, told, overnight>>

\* Mutant: the reports of any hotel count.
FiledAny(c) == \E r \in reports : r.date = today

Filed(c) == \E r \in reports : r.hotel = ask[c].hotel /\ r.date = today

\* GetChecklist: an error leaves the checklist as not done.
Checklist(c) ==
    /\ Finish(c, "list")
    /\ \/ Filed(c) /\ told' = [told EXCEPT ![c] = today]
       \/ UNCHANGED told
    /\ UNCHANGED <<today, reports, totals, overnight>>

Midnight ==
    /\ today < MaxDay
    /\ today' = today + 1
    /\ overnight' = overnight \cup {c \in Call : Makes(c, "count") \/ Makes(c, "file")}
    /\ UNCHANGED <<request, reports, totals, told>>

ServeAudit(c) ==
    \/ /\ Fresh(c) /\ UNCHANGED audit
       /\ \E a \in AskAudit : Begin(c, a, IF a.op = "close" THEN "total" ELSE "list")
    \/ ask[c] \in AskAudit /\ (Total(c) \/ Count(c) \/ File(c) \/ Checklist(c))

-----------------------------------------------------------------------------
(* Properties.                                                             *)

\* "the report totals always correspond to the day they are filed under" (CloseDay), unless
\* midnight came between the two statements; and whoever finds that a day is done has a
\* report of the own hotel and of that day, with totals of it but for that same exception.
DoneDaysAudited ==
    /\ \A r \in reports : r.of = r.date \/ r.by \in overnight
    /\ \A c \in Call : told[c] # None =>
         \E r \in reports : r.hotel = ask[c].hotel /\ r.date = told[c]
                            /\ (r.of = told[c] \/ r.by \in overnight)

=============================================================================
