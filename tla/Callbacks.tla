------------------------------- MODULE Callbacks -------------------------------
(***************************************************************************)
(* The callback manager (core/callbacks): functions registered for an      *)
(* event, two bounded queues and the workers behind them.                  *)
(*                                                                         *)
(* The list of registrations is a Go slice: a backing array and a length.  *)
(* Fire copies the slice under the lock and reads the array without it;    *)
(* Register writes the array in place as long as there is room, and        *)
(* Unregister filters it in place.                                         *)
(***************************************************************************)
EXTENDS Naturals, Sequences, FiniteSets

CONSTANTS
    CallbackIDs,    \* ids to register
    Panicking,      \* those whose function panics
    Firers,         \* goroutines that fire an event (decisions)
    CbWorkers,      \* workers of each pool
    CbQueue,        \* capacity of the job queue (1000; workers*8 for HTTP)
    MaxFires,       \* bound on the events
    MaxEdits        \* bound on the registrations and removals

ASSUME CallbacksAssumption ==
    /\ Panicking \subseteq CallbackIDs
    /\ CbQueue \in Nat \ {0} /\ MaxFires \in Nat /\ MaxEdits \in Nat

VARIABLES
    arrays,     \* the backing arrays made so far
    slice,      \* the registered list: [arr, len]
    firing,     \* each firer: its copy of the slice and the index it is at
    fnJobs,     \* jobs of registered functions: [id, fire]
    httpJobs,   \* jobs of the endpoint the policy names
    worker,     \* what each worker of the two pools runs
    manager,    \* "started", "stopped", or "panicked" with the process
    fires, edits

cbVars == <<arrays, slice, firing, fnJobs, httpJobs, worker, manager, fires, edits>>
jobVars == <<fnJobs, httpJobs, worker, manager>>

Nothing == [id |-> "none", fire |-> 0]
AtRest == [at |-> "rest", arr |-> 1, len |-> 0, i |-> 1, fire |-> 0, due |-> {}, given |-> <<>>,
           full |-> FALSE, crossed |-> FALSE]

CbInit ==
    /\ arrays = <<<<>>>> /\ slice = [arr |-> 1, len |-> 0]
    /\ firing = [f \in Firers |-> AtRest]
    /\ fnJobs = <<>> /\ httpJobs = <<>>
    /\ worker = [w \in {"fn", "http"} \X CbWorkers |-> Nothing]
    /\ manager = "started" /\ fires = 0 /\ edits = 0

Registered == {arrays[slice.arr][i] : i \in 1 .. slice.len}

(* A callback is registered under an id of its own.                        *)
(* append(regs, r): in place while the array has room, else into a new     *)
(* array of twice the size.                                                *)
RegisterCallback(id) ==
    LET a == arrays[slice.arr] n == slice.len + 1 IN
    /\ edits < MaxEdits /\ edits' = edits + 1
    /\ id \notin Registered
    /\ IF n <= Len(a)
         THEN /\ arrays' = [arrays EXCEPT ![slice.arr][n] = id]
              /\ slice' = [slice EXCEPT !.len = n]
         ELSE /\ arrays' = Append(arrays, [i \in 1 .. (IF n = 1 THEN 1 ELSE 2 * Len(a)) |->
                                             IF i < n THEN a[i] ELSE IF i = n THEN id ELSE "free"])
              /\ slice' = [arr |-> Len(arrays) + 1, len |-> n]
    /\ UNCHANGED <<firing, jobVars, fires>>

(* regs[:0] and append: of ids that are registered once each, what follows *)
(* the one removed moves a place forward, in the same array, and what is   *)
(* behind the shorter list stays as it was.                                *)
Unregister(id) ==
    \E k \in 1 .. slice.len : LET a == arrays[slice.arr] IN
      /\ edits < MaxEdits /\ edits' = edits + 1
      /\ a[k] = id
      /\ arrays' = [arrays EXCEPT ![slice.arr] =
                      [i \in 1 .. Len(a) |-> IF k <= i /\ i < slice.len THEN a[i + 1] ELSE a[i]]]
      /\ slice' = [slice EXCEPT !.len = @ - 1]
      /\ firing' = [f \in Firers |-> [firing[f] EXCEPT !.crossed = TRUE]]
      /\ UNCHANGED <<jobVars, fires>>

(* Fire: the copy of the slice is what the loop runs over. *)
Fire(f) ==
    /\ firing[f].at = "rest" /\ fires < MaxFires /\ manager # "panicked"
    /\ fires' = fires + 1
    /\ firing' = [firing EXCEPT ![f] = [AtRest EXCEPT !.at = "loop", !.arr = slice.arr, !.len = slice.len,
                                                      !.fire = fires + 1, !.due = Registered]]
    /\ UNCHANGED <<arrays, slice, jobVars, edits>>

(* A send on a channel that Stop closed panics. *)
Panics == manager = "stopped" /\ manager' = "panicked"

(* Mutant of LastIndex: the loop leaves out the last registration. *)
OneBeforeLast(f) == firing[f].len - 1
LastIndex(f) == firing[f].len

FireNext(f) ==
    LET s == firing[f] IN
    /\ s.at = "loop" /\ s.i <= LastIndex(f) /\ manager # "panicked"
    /\ \/ Panics /\ UNCHANGED <<fnJobs, firing>>
       \/ /\ manager = "started" /\ Len(fnJobs) < CbQueue
          /\ fnJobs' = Append(fnJobs, [id |-> arrays[s.arr][s.i], fire |-> s.fire])
          /\ firing' = [firing EXCEPT ![f].i = @ + 1, ![f].given = Append(@, arrays[s.arr][s.i])]
          /\ UNCHANGED manager
       \/ /\ manager = "started" /\ Len(fnJobs) >= CbQueue
          /\ firing' = [firing EXCEPT ![f].i = @ + 1, ![f].full = TRUE]
          /\ UNCHANGED <<fnJobs, manager>>
    /\ UNCHANGED <<arrays, slice, httpJobs, worker, fires, edits>>

(* FireOnDecision, after Fire: one job for the endpoint, if it has room. *)
FireHttp(f) ==
    LET s == firing[f] IN
    /\ s.at = "loop" /\ s.i > LastIndex(f) /\ manager # "panicked"
    /\ \/ Panics /\ UNCHANGED <<httpJobs, firing>>
       \/ /\ manager = "started"
          /\ httpJobs' = IF Len(httpJobs) < CbQueue THEN Append(httpJobs, [id |-> "url", fire |-> s.fire]) ELSE httpJobs
          /\ firing' = [firing EXCEPT ![f].at = "fired"]
          /\ UNCHANGED manager
    /\ UNCHANGED <<arrays, slice, fnJobs, worker, fires, edits>>

EndFire(f) ==
    /\ firing[f].at = "fired"
    /\ firing' = [firing EXCEPT ![f] = AtRest]
    /\ UNCHANGED <<arrays, slice, jobVars, fires, edits>>

Take(pool, w) ==
    /\ worker[<<pool, w>>] = Nothing /\ manager # "panicked"
    /\ LET q == IF pool = "fn" THEN fnJobs ELSE httpJobs IN
         /\ q # <<>>
         /\ worker' = [worker EXCEPT ![<<pool, w>>] = Head(q)]
         /\ fnJobs' = IF pool = "fn" THEN Tail(q) ELSE fnJobs
         /\ httpJobs' = IF pool = "http" THEN Tail(q) ELSE httpJobs
    /\ UNCHANGED <<arrays, slice, firing, manager, fires, edits>>

(* Mutant of EndJob: the panic is recovered outside the loop. *)
EndJobOrWorker(pool, w) ==
    /\ worker[<<pool, w>>] # Nothing /\ worker[<<pool, w>>].id \notin Panicking
    /\ worker' = [worker EXCEPT ![<<pool, w>>] = Nothing]
    /\ UNCHANGED <<arrays, slice, firing, fnJobs, httpJobs, manager, fires, edits>>

(* The function returns or panics, the request succeeds or times out: the  *)
(* worker takes the next job.                                              *)
EndJob(pool, w) ==
    /\ worker[<<pool, w>>] # Nothing
    /\ worker' = [worker EXCEPT ![<<pool, w>>] = Nothing]
    /\ UNCHANGED <<arrays, slice, firing, fnJobs, httpJobs, manager, fires, edits>>

(* Stop closes both queues and waits for nobody. *)
StopManager ==
    /\ manager = "started" /\ manager' = "stopped"
    /\ UNCHANGED <<arrays, slice, firing, fnJobs, httpJobs, worker, fires, edits>>

CbWork == \E pool \in {"fn", "http"}, w \in CbWorkers : Take(pool, w) \/ EndJob(pool, w)

CbNext ==
    \/ \E id \in CallbackIDs : RegisterCallback(id) \/ Unregister(id)
    \/ \E f \in Firers : Fire(f) \/ FireNext(f) \/ FireHttp(f) \/ EndFire(f)
    \/ CbWork \/ StopManager

CbSpec == CbInit /\ [][CbNext]_cbVars
CbFairness ==
    \A pool \in {"fn", "http"}, w \in CbWorkers : WF_cbVars(Take(pool, w)) /\ WF_cbVars(EndJob(pool, w))

-------------------------------------------------------------------------------
(* Properties *)

CbTypeOK ==
    /\ slice.arr \in 1 .. Len(arrays) /\ slice.len <= Len(arrays[slice.arr])
    /\ Len(fnJobs) <= CbQueue /\ Len(httpJobs) <= CbQueue
    /\ manager \in {"started", "stopped", "panicked"}

Times(x, s) == Cardinality({i \in 1 .. Len(s) : s[i] = x})

(* "Fire dispatches an event to all registered callbacks": each callback   *)
(* that was registered gets the event once, and no other does, unless the  *)
(* fnJobs was full or a removal moved the list the loop runs over.          *)
AllRegisteredFire ==
    \A f \in Firers : firing[f].at = "fired" /\ ~firing[f].full /\ ~firing[f].crossed =>
       \A id \in CallbackIDs : Times(id, firing[f].given) = IF id \in firing[f].due THEN 1 ELSE 0

CbSafe == CbTypeOK /\ AllRegisteredFire

(* The same, removals included. *)
AllRegisteredFireAlways ==
    \A f \in Firers : firing[f].at = "fired" /\ ~firing[f].full =>
       \A id \in firing[f].due \cap Registered : Times(id, firing[f].given) = 1

(* A queued job is taken, whatever the functions before it did and         *)
(* whether or not the manager was stopped; only a panic of the process     *)
(* itself loses it.                                                        *)
QueuedJobsRun == fnJobs # <<>> ~> fnJobs = <<>> \/ manager = "panicked"
===============================================================================
