------------------------------- MODULE Timer -------------------------------
(***************************************************************************)
(* The ticker of package timer (cache.go, timer.go): the functions added   *)
(* with AddDuration* and AddTimerRun, the two sync.Maps that hold them     *)
(* (one: due within part, two: later), the ticker goroutine that ranges    *)
(* over one and starts a run goroutine per due function, the run          *)
(* goroutines that re-put a periodic function, and the checkSave           *)
(* goroutines that move functions from two to one.                         *)
(*                                                                         *)
(* A TimerFunc is identified by its uniq, which is also its key in one and *)
(* two, so a map is the set of the functions stored in it.  The clock is   *)
(* in whole units advanced by its own action: goroutines get no timing     *)
(* guarantee, so a tick or a run may happen late.  A Range visits the keys *)
(* present when it starts, each at most once, and skips a key deleted      *)
(* meanwhile.  Run goroutines of one function at one step are              *)
(* interchangeable, so they are kept as counts.                            *)
(***************************************************************************)
EXTENDS Integers, Sequences

CONSTANTS
    Funcs,     \* the functions callers add (their uniq)
    Adder,     \* Adder[f]: "function", "argument", "boolean", "argbool", "timerrun"
    Interval,  \* Interval[f]: the duration or stamp interval, in clock units
    Times,     \* Times[f]: the times argument of the call that adds f
    Part,      \* TimerData.part: 5 ticker periods, in clock units
    MaxTime,   \* bound on the clock
    MaxTicks   \* bound on ticks of the ticker

VARIABLES
    now,     \* the clock
    one,     \* TimerData.one: functions due within part
    two,     \* TimerData.two: functions due later
    data,    \* data[f]: the TimerFunc's next and times
    st,      \* st[f]: "new" before its Add call, then "added" or "refused"
    cnt,     \* TimerData.next: ticks since the last checkSave
    tk,      \* the ticker goroutine
    rn,      \* rn[f]: run goroutines of f in RunFunc ("run") or about to put
    cs,      \* the checkSave goroutines started so far, in order
    ticks,   \* ticks so far
    closed   \* CloseAndExit has sent on done

vars == << now, one, two, data, st, cnt, tk, rn, cs, ticks, closed >>

\* The FunctionType of each Add call; FuncOnly < FuncArg < FuncBool < FuncArgBool.
FuncType(f) ==
    CASE Adder[f] = "function"                   -> "only"
      [] Adder[f] \in {"argument", "timerrun"}   -> "arg"
      [] Adder[f] = "boolean"                    -> "bool"
      [] OTHER                                   -> "argbool"

\* run counts times only for funcType < FuncBool.
Counted(f) == FuncType(f) \in {"only", "arg"}

\* times < 0 is taken as -1, forever.
NormTimes(t) == IF t < 0 THEN -1 ELSE t

Init == /\ now = 0 /\ one = {} /\ two = {}
        /\ data = [f \in Funcs |-> [next |-> 0, times |-> 0]]
        /\ st = [f \in Funcs |-> "new"]
        /\ cnt = 0
        /\ tk = [pc |-> "idle", now |-> 0, todo |-> {}, key |-> "none"]
        /\ rn = [f \in Funcs |-> [run |-> 0, put |-> 0]]
        /\ cs = << >>
        /\ ticks = 0
        /\ closed = FALSE

\* put: into one when due within part of the clock, else into two.
put(f, nx) ==
    IF nx <= now + Part
    THEN one' = one \cup {f} /\ UNCHANGED two
    ELSE two' = two \cup {f} /\ UNCHANGED one

Added(f, nx, t) ==
    /\ st' = [st EXCEPT ![f] = "added"]
    /\ data' = [data EXCEPT ![f] = [next |-> nx, times |-> t]]
    /\ put(f, nx)

Refused(f) ==
    /\ st' = [st EXCEPT ![f] = "refused"]
    /\ UNCHANGED << one, two, data >>
-----------------------------------------------------------------------------
(* The Add calls, each made once per function by its caller.               *)

\* AddDurationFunction and AddDurationArgument: times 0 adds nothing; the
\* first run is one duration from now.  (Callers never pass a nil function
\* or argument, the other early return.)
AddDuration(f) ==
    /\ st[f] = "new" /\ Adder[f] \in {"function", "argument"}
    /\ IF Times[f] = 0 THEN Refused(f)
       ELSE Added(f, now + Interval[f], NormTimes(Times[f]))

\* AddDurationBoolean and AddDurationArgBool: no times; run until the
\* function returns false.
AddBoolean(f) ==
    /\ st[f] = "new" /\ Adder[f] \in {"boolean", "argbool"}
    /\ Added(f, now + Interval[f], 0)

\* checkTime: the first instant after the clock on the stamp's grid
\* (a duration stamp gives now + interval, a clock stamp a boundary at
\* most one interval ahead).
CheckTime(f) == now + 1 .. now + Interval[f]

\* AddTimerRun: times 0 is an error; with run the caller runs the function
\* once at once, and a single run then adds nothing.
AddTimerRun(f) ==
    /\ st[f] = "new" /\ Adder[f] = "timerrun"
    /\ \E nx \in CheckTime(f), run \in BOOLEAN :
         LET t == NormTimes(Times[f]) IN
         CASE t = 0            -> Refused(f)
           [] run /\ t = 1     -> Refused(f)
           [] run /\ t > 1     -> Added(f, nx, t - 1)
           [] OTHER            -> Added(f, nx, t)
    /\ UNCHANGED << now, cnt, tk, rn, cs, ticks, closed >>

Add(f) ==
    \/ /\ AddDuration(f) \/ AddBoolean(f)
       /\ UNCHANGED << now, cnt, tk, rn, cs, ticks, closed >>
    \/ AddTimerRun(f)
-----------------------------------------------------------------------------
(* The ticker goroutine of newTimer.                                       *)

\* A tick: every fourth starts a checkSave goroutine and resets the count;
\* then the clock is read.
Tick ==
    /\ tk.pc = "idle" /\ ticks < MaxTicks
    /\ ticks' = ticks + 1
    /\ IF cnt + 1 >= 4
       THEN cs' = Append(cs, [pc |-> "start", lim |-> 0, todo |-> {}, key |-> "none"])
            /\ cnt' = 0
       ELSE cnt' = cnt + 1 /\ UNCHANGED cs
    /\ tk' = [tk EXCEPT !.pc = "range", !.now = now]
    /\ UNCHANGED << now, one, two, data, st, rn, closed >>

\* s.one.Range starts.
RangeStart ==
    /\ tk.pc = "range"
    /\ tk' = [tk EXCEPT !.pc = "visit", !.todo = one]
    /\ UNCHANGED << now, one, two, data, st, cnt, rn, cs, ticks, closed >>

\* The Range callback for one key: a due function gets "go s.run(v)"; the
\* ticker then deletes its key (Delete).
Visit ==
    /\ tk.pc = "visit"
    /\ IF tk.todo = {}
       THEN tk' = [tk EXCEPT !.pc = "idle"] /\ UNCHANGED rn
       ELSE \E k \in tk.todo :
              IF k \in one /\ data[k].next <= tk.now
              THEN /\ rn' = [rn EXCEPT ![k].run = @ + 1]
                   /\ tk' = [tk EXCEPT !.pc = "delete", !.key = k, !.todo = @ \ {k}]
              ELSE /\ tk' = [tk EXCEPT !.todo = @ \ {k}]
                   /\ UNCHANGED rn
    /\ UNCHANGED << now, one, two, data, st, cnt, cs, ticks, closed >>

Delete ==
    /\ tk.pc = "delete"
    /\ one' = one \ {tk.key}
    /\ tk' = [tk EXCEPT !.pc = "visit"]
    /\ UNCHANGED << now, two, data, st, cnt, rn, cs, ticks, closed >>

\* The select takes done: the ticker stops and the goroutine returns.
Stop ==
    /\ tk.pc = "idle" /\ closed
    /\ tk' = [tk EXCEPT !.pc = "stopped"]
    /\ UNCHANGED << now, one, two, data, st, cnt, rn, cs, ticks, closed >>

\* CloseAndExit sends on the one-slot done channel.
CloseAndExit ==
    /\ ~closed
    /\ closed' = TRUE
    /\ UNCHANGED << now, one, two, data, st, cnt, tk, rn, cs, ticks >>
-----------------------------------------------------------------------------
(* The run goroutines.                                                     *)

\* RunFunc: what it can return; FuncOnly and FuncArg functions return
\* nothing and it answers true, the boolean ones answer their own result.
RunFunc(f) == IF Counted(f) THEN {TRUE} ELSE BOOLEAN

\* run(data) through RunFunc: for FuncOnly and FuncArg, times 0 returns,
\* times 1 runs once and returns, times -1 runs and re-puts, other times
\* count down; a boolean function is re-put while RunFunc answers true.
\* A re-put function's next moves one interval.
Run(f) ==
    /\ rn[f].run > 0
    /\ \E ret \in RunFunc(f) :
         LET t == data[f].times
             again == IF Counted(f) THEN t \notin {0, 1} ELSE ret
         IN /\ data' = [data EXCEPT ![f].times = IF Counted(f) /\ t > 1 THEN t - 1 ELSE t,
                                    ![f].next = IF again THEN @ + Interval[f] ELSE @]
            /\ rn' = [rn EXCEPT ![f].run = @ - 1,
                                ![f].put = IF again THEN @ + 1 ELSE @]
    /\ UNCHANGED << now, one, two, st, cnt, tk, cs, ticks, closed >>

\* s.put(data), reading the clock now.
Put(f) ==
    /\ rn[f].put > 0
    /\ put(f, data[f].next)
    /\ rn' = [rn EXCEPT ![f].put = @ - 1]
    /\ UNCHANGED << now, data, st, cnt, tk, cs, ticks, closed >>
-----------------------------------------------------------------------------
(* The checkSave goroutines.                                               *)

SetCs(i, r) == cs' = [cs EXCEPT ![i] = r]

\* next := now + part; t.two.Range starts.
SaveStart(i) ==
    /\ cs[i].pc = "start"
    /\ SetCs(i, [cs[i] EXCEPT !.pc = "visit", !.lim = now + Part, !.todo = two])
    /\ UNCHANGED << now, one, two, data, st, cnt, tk, rn, ticks, closed >>

\* For one key: a function due by the limit is stored in one, and its key
\* then deleted from two.
SaveVisit(i) ==
    /\ cs[i].pc = "visit"
    /\ IF cs[i].todo = {}
       THEN SetCs(i, [cs[i] EXCEPT !.pc = "done"]) /\ UNCHANGED one
       ELSE \E k \in cs[i].todo :
              IF k \in two /\ data[k].next <= cs[i].lim
              THEN /\ one' = one \cup {k}
                   /\ SetCs(i, [cs[i] EXCEPT !.pc = "del", !.key = k, !.todo = @ \ {k}])
              ELSE /\ SetCs(i, [cs[i] EXCEPT !.todo = @ \ {k}])
                   /\ UNCHANGED one
    /\ UNCHANGED << now, two, data, st, cnt, tk, rn, ticks, closed >>

SaveDel(i) ==
    /\ cs[i].pc = "del"
    /\ two' = two \ {cs[i].key}
    /\ SetCs(i, [cs[i] EXCEPT !.pc = "visit"])
    /\ UNCHANGED << now, one, data, st, cnt, tk, rn, ticks, closed >>
-----------------------------------------------------------------------------
Clock ==
    /\ now < MaxTime
    /\ now' = now + 1
    /\ UNCHANGED << one, two, data, st, cnt, tk, rn, cs, ticks, closed >>

Next ==
    \/ \E f \in Funcs : Add(f) \/ Run(f) \/ Put(f)
    \/ Tick \/ RangeStart \/ Visit \/ Delete \/ Stop \/ CloseAndExit
    \/ \E i \in 1..Len(cs) : SaveStart(i) \/ SaveVisit(i) \/ SaveDel(i)
    \/ Clock

Spec == Init /\ [][Next]_vars

TypeOK ==
    /\ now \in 0..MaxTime /\ ticks \in 0..MaxTicks /\ cnt \in 0..3
    /\ one \subseteq Funcs /\ two \subseteq Funcs
    /\ \A f \in Funcs : st[f] \in {"new", "added", "refused"}
                        /\ rn[f].run \in Nat /\ rn[f].put \in Nat
    /\ tk.pc \in {"idle", "range", "visit", "delete", "stopped"}
=============================================================================
