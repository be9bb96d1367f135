------------------------------ MODULE EntryGates ------------------------------
(***************************************************************************)
(* What an operator can do to a running agent, and what stops its trades:  *)
(* the control file of a manual halt and the calendar of events            *)
(* (src/strategy/event_filter.py), checked by run_agent (src/main.py) at   *)
(* the top of a cycle, around the choice of an entry, before an execution  *)
(* and before the daily compliance swap.  The operator acts between any    *)
(* two steps of the loop; the verdicts of the risk state and of the        *)
(* strategy are choices.                                                   *)
(*                                                                         *)
(* A file of events is known by its modification time: a saved version has *)
(* one of its own, a restored backup has its old one.  A load asks for the *)
(* time first and reads the text afterwards, so that a save between the    *)
(* two goes under the time of the version before it.                       *)
(***************************************************************************)
EXTENDS Naturals

CONSTANTS
    Tokens,         \* symbols that may be entered
    Counter,        \* COMPLIANCE_TO_SYMBOL
    Versions,       \* modification time -> the calendar saved then
    Malformed,      \* the times of the saves that are not a valid calendar
    TornReads,      \* what the text of a half-written file may be read as
    MaxTime,        \* bound: ticks of the clock
    MaxActs         \* bound: acts of the operator

GLOBAL == "GLOBAL"
Symbols == Tokens \cup {Counter, GLOBAL}
Unreadable == {"malformed", "undecodable"}
Stamps == DOMAIN Versions
NoStamp == 0

(* The events of a saved version; events of the same window are one.       *)
IsCalendar(c) == \A e \in c : e.symbol \in Symbols /\ e.from \in Nat /\ e.to \in Nat

ASSUME GatesAssumption ==
    /\ Stamps \subseteq Nat \ {NoStamp}
    /\ \A m \in Stamps : IsCalendar(Versions[m])
    /\ Malformed \subseteq Stamps
    /\ TornReads \subseteq Unreadable
    /\ Counter # GLOBAL
    /\ MaxTime \in Nat /\ MaxActs \in Nat

VARIABLES
    halt,           \* does the control file exist
    file,           \* the events file: its stamp (NoStamp: no file), is it half written
    now,            \* the clock
    acts,           \* acts of the operator
    events, mtime,  \* the filter: the calendar in force, the stamp it was loaded at
    stat,           \* the stamp that a load under way has seen
    pc, ret,        \* where the loop is, and where a load returns to
    at,             \* now_utc of the cycle
    allowed,        \* entries_allowed
    haltSeen,       \* rweal_manual_halt
    haltWas,        \* _rweal_halt_was_active
    candidate,      \* the symbol to enter, or "none"
    due, firm,      \* history, for the properties
    misread         \* history: was the calendar in force read under another version's stamp

world == <<halt, file, now, acts>>
cal   == <<events, mtime, stat, misread>>
cycle == <<at, allowed, haltSeen, candidate>>
vars  == <<world, cal, pc, ret, cycle, haltWas, due, firm>>

NoFile == [stamp |-> NoStamp, torn |-> FALSE]

-----------------------------------------------------------------------------
(* The operator and the clock.                                             *)

Act == acts < MaxActs /\ acts' = acts + 1

Loop == <<pc, ret, cycle, haltWas>>

(* touch TRADING_HALT                                                      *)
SetHalt ==
    /\ Act /\ ~halt /\ halt' = TRUE
    /\ UNCHANGED <<file, now, cal, Loop, due, firm>>

LiftHalt ==
    /\ Act /\ halt /\ halt' = FALSE
    /\ firm' = FALSE
    /\ UNCHANGED <<file, now, cal, Loop, due>>

(* A save or the restoring of a backup truncates the file and then writes  *)
(* it.                                                                     *)
BeginSave ==
    /\ Act /\ ~file.torn
    /\ \E m \in Stamps \ {file.stamp} : file' = [stamp |-> m, torn |-> TRUE]
    /\ UNCHANGED <<halt, now, cal, Loop, due, firm>>

EndSave ==
    /\ file.torn
    /\ file' = [file EXCEPT !.torn = FALSE]
    /\ UNCHANGED <<halt, now, acts, cal, Loop, due, firm>>

DeleteFile ==
    /\ Act /\ file # NoFile /\ file' = NoFile
    /\ UNCHANGED <<halt, now, cal, Loop, due, firm>>

Tick ==
    /\ now < MaxTime /\ now' = now + 1
    /\ UNCHANGED <<halt, file, acts, cal, Loop, due, firm>>

-----------------------------------------------------------------------------
(* EventRiskFilter.                                                        *)

Covers(e, t) == e.from <= t /\ t <= e.to

(* global_blackout, active_symbol_blackouts and symbol_blackout.           *)
GlobalBlackout(t) == \E e \in events : e.symbol = GLOBAL /\ Covers(e, t)
ActiveSymbols(t) == {e.symbol : e \in {d \in events : d.symbol # GLOBAL /\ Covers(d, t)}}
SymbolBlackout(s, t) == \E e \in events : e.symbol \in {s, GLOBAL} /\ Covers(e, t)

(* What reading the file may give.                                         *)
Texts == IF file.torn THEN TornReads
         ELSE {IF file.stamp \in Malformed THEN "malformed" ELSE "calendar"}

Whole == file # NoFile /\ Texts = {"calendar"}

(* Mutated: a file is loaded only if it is newer.                          *)
ChangedIfNewer(stamp) == stamp > mtime

Changed(stamp) == stamp # mtime

StampKept == mtime

Goto(next) == pc' = next /\ UNCHANGED ret

(* _maybe_reload: every gate looks at the stamp first ...                  *)
Reload(next) ==
    /\ IF file # NoFile /\ Changed(file.stamp)
         THEN pc' = "load" /\ ret' = next
         ELSE Goto(next)
    /\ due' = IF Whole THEN Versions[file.stamp] ELSE due

(* ... load looks again ...                                                *)
LoadStat ==
    /\ pc = "load"
    /\ IF file = NoFile
         THEN /\ mtime' = IF events # {} THEN mtime ELSE NoStamp
              /\ misread' = (misread /\ events # {})
              /\ pc' = ret /\ due' = events
              /\ UNCHANGED stat
         ELSE /\ stat' = file.stamp
              /\ pc' = "read"
              /\ UNCHANGED <<mtime, misread, due>>
    /\ UNCHANGED <<world, events, ret, cycle, haltWas, firm>>

(* ... and reads a calendar, which may have been saved since, ...          *)
Load ==
    /\ Whole
    /\ events' = Versions[file.stamp] /\ due' = events'
    /\ mtime' = stat
    /\ misread' = (file.stamp # stat)

LoadGood ==
    /\ pc = "read"
    /\ Load
    /\ pc' = ret
    /\ UNCHANGED <<world, stat, ret, cycle, haltWas, firm>>

(* ... or fails, because the file is malformed or gone, and keeps the last *)
(* good one, ...                                                           *)
LoadKeepsLastGood ==
    /\ pc = "read"
    /\ file = NoFile \/ "malformed" \in Texts
    /\ mtime' = StampKept
    /\ due' = events
    /\ pc' = ret
    /\ UNCHANGED <<world, events, stat, misread, ret, cycle, haltWas, firm>>

(* ... or raises UnicodeDecodeError, which load does not catch.            *)
LoadRaises ==
    /\ pc = "read"
    /\ file # NoFile /\ "undecodable" \in Texts
    /\ pc' = "dead"
    /\ UNCHANGED <<world, cal, ret, cycle, haltWas, due, firm>>

(* from_settings in a new process: no file is an empty calendar, ...       *)
Restart ==
    /\ pc = "dead"
    /\ haltWas' = FALSE
    /\ IF file = NoFile
         THEN /\ events' = {} /\ due' = {} /\ mtime' = NoStamp /\ misread' = FALSE
              /\ pc' = "start"
              /\ UNCHANGED stat
         ELSE /\ stat' = file.stamp
              /\ pc' = "boot"
              /\ UNCHANGED <<events, due, mtime, misread>>
    /\ UNCHANGED <<world, ret, cycle, firm>>

(* ... and one that cannot be read raises.                                 *)
Boot ==
    /\ pc = "boot"
    /\ \/ Load /\ pc' = "start"
       \/ ~Whole /\ pc' = "dead" /\ UNCHANGED <<events, due, mtime, misread>>
    /\ UNCHANGED <<world, stat, ret, cycle, haltWas, firm>>

-----------------------------------------------------------------------------
(* run_agent.  firm: the control file has been there since the last phase  *)
(* of the cycle began.                                                     *)

(* _interruptible_sleep: one poll a second, a halt that appears wakes once.*)
SleepPoll ==
    /\ pc = "sleep"
    /\ haltWas' = halt
    /\ Goto(IF halt /\ ~haltWas THEN "start" ELSE "sleep")
    /\ UNCHANGED <<world, cal, cycle, due, firm>>

SleepOver ==
    /\ pc = "sleep"
    /\ Goto("start")
    /\ UNCHANGED <<world, cal, cycle, haltWas, due, firm>>

(* The data, the portfolio and the verdict of the guardrails: entries, no  *)
(* entries, or the kill switch.                                            *)
StartCycle ==
    /\ pc = "start"
    /\ at' = now /\ haltSeen' = FALSE /\ candidate' = "none"
    /\ allowed' \in {"yes", "no", "kill"}
    /\ firm' = halt
    /\ Goto("top")
    /\ UNCHANGED <<world, cal, haltWas, due>>

(* Blocked: entries_allowed = False, which leaves a kill switch as it is.  *)
Blocked == IF allowed = "yes" THEN "no" ELSE allowed

TopHalt ==
    /\ pc = "top"
    /\ haltSeen' = halt
    /\ IF halt THEN /\ allowed' = Blocked
                    /\ Goto("exits") /\ UNCHANGED due
               ELSE Reload("global") /\ UNCHANGED allowed
    /\ UNCHANGED <<world, cal, at, candidate, haltWas, firm>>

TopEvents ==
    /\ pc = "global"
    /\ allowed' = IF GlobalBlackout(at) THEN Blocked ELSE allowed
    /\ Goto("exits")
    /\ UNCHANGED <<world, cal, at, haltSeen, candidate, haltWas, due, firm>>

(* The positions are liquidated, or their exits processed.                 *)
Exits ==
    /\ pc = "exits"
    /\ firm' = halt
    /\ IF allowed = "yes" THEN Reload("select")
                          ELSE Goto("backstop") /\ UNCHANGED due
    /\ UNCHANGED <<world, cal, cycle, haltWas>>

(* A choice was made: it is confirmed, or the next way to one is tried.    *)
Chosen(c, confirm, otherwise) ==
    /\ candidate' = c
    /\ firm' = halt
    /\ IF c = "none" THEN Goto(otherwise) /\ UNCHANGED due ELSE Reload(confirm)
    /\ UNCHANGED <<world, cal, at, allowed, haltSeen, haltWas>>

(* _evaluate_universe_v25 without the symbols of active events.            *)
Select ==
    /\ pc = "select"
    /\ \E c \in (Tokens \ ActiveSymbols(at)) \cup {"none"} : Chosen(c, "confirm", "minimum")

(* check_daily_minimum_compliance and _minimum_trade_candidate.            *)
Minimum ==
    /\ pc = "minimum"
    /\ \E c \in Tokens \cup {"none"} : Chosen(c, "confirmMinimum", "backstop")

(* Mutated: the candidate is not reset.                                    *)
DropNot(next) == UNCHANGED candidate /\ Goto(next)

Drop(next) == candidate' = "none" /\ Goto(next)

(* Mutated: the calendar was asked when the symbols were excluded.         *)
ConfirmExcluded ==
    /\ pc = "confirm"
    /\ Goto("final") /\ UNCHANGED candidate
    /\ UNCHANGED <<world, cal, at, allowed, haltSeen, haltWas, due, firm>>

Confirm ==
    /\ pc = "confirm"
    /\ IF SymbolBlackout(candidate, at) THEN Drop("minimum")
                                        ELSE Goto("final") /\ UNCHANGED candidate
    /\ UNCHANGED <<world, cal, at, allowed, haltSeen, haltWas, due, firm>>

ConfirmMinimum ==
    /\ pc = "confirmMinimum"
    /\ IF SymbolBlackout(candidate, at) THEN Drop("backstop")
                                        ELSE Goto("final") /\ UNCHANGED candidate
    /\ UNCHANGED <<world, cal, at, allowed, haltSeen, haltWas, due, firm>>

(* Mutated: the halt of the cycle's top is good enough.                    *)
HaltNowAtTop == haltSeen

(* The check before an execution.                                          *)
HaltNow == haltSeen \/ halt

Final ==
    /\ pc = "final"
    /\ haltSeen' = HaltNow
    /\ IF HaltNow THEN Drop("backstop") ELSE Goto("attempt") /\ UNCHANGED candidate
    /\ UNCHANGED <<world, cal, at, allowed, haltWas, due, firm>>

(* _attempt_entry_v25 buys ...                                             *)
Enter ==
    /\ pc = "attempt"
    /\ Goto("sleep")
    /\ UNCHANGED <<world, cal, cycle, haltWas, due, firm>>

(* ... or declines.                                                        *)
Decline ==
    /\ pc = "attempt"
    /\ firm' = halt
    /\ Drop("backstop")
    /\ UNCHANGED <<world, cal, at, allowed, haltSeen, haltWas, due>>

(* _ensure_daily_minimum_trade, on a clock of its own, if the day has had  *)
(* no trade and is about to end.                                           *)
Backstop ==
    /\ pc = "backstop"
    /\ at' = now
    /\ \/ ~HaltNow /\ Reload("counter")
       \/ Goto("sleep") /\ UNCHANGED due
    /\ UNCHANGED <<world, cal, allowed, haltSeen, candidate, haltWas, firm>>

CounterGate ==
    /\ pc = "counter"
    /\ Goto(IF Counter \in ActiveSymbols(at) THEN "sleep" ELSE "comply")
    /\ UNCHANGED <<world, cal, cycle, haltWas, due, firm>>

Comply ==
    /\ pc = "comply"
    /\ Goto("sleep")
    /\ UNCHANGED <<world, cal, cycle, haltWas, due, firm>>

-----------------------------------------------------------------------------

Init ==
    /\ halt = FALSE /\ now = 0 /\ acts = 0
    /\ \/ /\ file = NoFile /\ events = {} /\ mtime = NoStamp
       \/ \E m \in Stamps :
             /\ m \notin Malformed
             /\ file = [stamp |-> m, torn |-> FALSE]
             /\ events = Versions[m] /\ mtime = m
    /\ stat = NoStamp /\ pc = "start" /\ ret = "global"
    /\ at = 0 /\ allowed = "no" /\ haltSeen = FALSE /\ haltWas = FALSE
    /\ candidate = "none"
    /\ due = events /\ firm = FALSE /\ misread = FALSE

Operator == SetHalt \/ LiftHalt \/ BeginSave \/ EndSave \/ DeleteFile

Agent ==
    \/ LoadStat \/ LoadGood \/ LoadKeepsLastGood \/ LoadRaises
    \/ Restart \/ Boot
    \/ SleepPoll \/ SleepOver \/ StartCycle \/ TopHalt \/ TopEvents \/ Exits
    \/ Select \/ Minimum \/ Confirm \/ ConfirmMinimum \/ Final
    \/ Enter \/ Decline \/ Backstop \/ CounterGate \/ Comply

Next == Operator \/ Tick \/ Agent

Spec == Init /\ [][Next]_vars

-----------------------------------------------------------------------------
(* Properties.                                                             *)

Asking == {"global", "select", "confirm", "confirmMinimum", "counter"}

(* The types of the variables; a candidate that was dropped is forgotten.  *)
TypeOK ==
    /\ halt \in BOOLEAN /\ now \in 0 .. MaxTime /\ acts \in 0 .. MaxActs
    /\ file.stamp \in Stamps \cup {NoStamp} /\ file.torn \in BOOLEAN
    /\ IsCalendar(events)
    /\ mtime \in Stamps \cup {NoStamp} /\ stat \in Stamps \cup {NoStamp}
    /\ pc \in {"start", "top", "exits", "minimum", "final", "attempt", "backstop", "comply",
               "sleep", "load", "read", "dead", "boot"} \cup Asking
    /\ ret \in Asking
    /\ at \in 0 .. now /\ allowed \in {"yes", "no", "kill"}
    /\ haltSeen \in BOOLEAN /\ haltWas \in BOOLEAN
    /\ candidate \in Tokens \cup {"none"}
    /\ pc \in {"top", "minimum", "backstop"} => candidate = "none"
    /\ IsCalendar(due) /\ firm \in BOOLEAN
    /\ misread \in BOOLEAN /\ (misread => mtime \in Stamps)

(* Nothing is bought while the control file has been there since before    *)
(* the last phase of the cycle: the start, the choice of a candidate, the  *)
(* end of the exits or of a declined entry.                                *)
HaltStopsTrades == pc \in {"attempt", "comply"} => ~firm

(* The exception to both properties below: a save fell between the stat    *)
(* and the read of the load that gave the calendar in force, and the gate  *)
(* has now found the version of that stamp in its place again.             *)
Misdated == misread /\ due = Versions[mtime]

(* The calendar in force is that of the file if a gate found it whole, and *)
(* else the last good one, whatever the order of saves, restored backups,  *)
(* deletions and loads; except that a backup goes unnoticed whose stamp    *)
(* was taken for the text of a save that overtook a load.                  *)
LastGoodInForce == pc \notin {"load", "read", "dead", "boot"} => events = due \/ Misdated

(* Nothing is bought in a blackout of the calendar that the last gate had  *)
(* to know, as of the time of the cycle (an entry) or of the swap (the     *)
(* compliance swap, which a GLOBAL event does not stop), with the same     *)
(* exception.                                                              *)
TradesAvoidEvents ==
    \/ Misdated
    \/ /\ pc = "attempt" => \A e \in due : e.symbol \in {candidate, GLOBAL} => ~Covers(e, at)
       /\ pc = "comply" => \A e \in due : e.symbol = Counter => ~Covers(e, at)

(* event_filter.py: a file that is edited to an invalid state while the    *)
(* agent runs does not crash the loop.                                     *)
EditsNeverCrash == pc # "dead"
=============================================================================
