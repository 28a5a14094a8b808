----------------------------- MODULE VmLifecycle -----------------------------
(***************************************************************************)
(* What the lifecycle of a virtual machine promises its users, whoever     *)
(* calls at the same time: each VM is created once, started once, then     *)
(* stopped, and can be destroyed at any time.  Only an execution fails a   *)
(* VM, and only the end of an execution takes a VM backwards or brings it  *)
(* back: to the state that execution found when it began, or to Failed.    *)
(***************************************************************************)
CONSTANTS VmIds, Threads, None

States == {"Created", "Running", "Stopped", "Failed"}

VARIABLES
  status,   \* of each VM
  held      \* the execution each thread is in: its VM and the state it found

Init ==
  /\ status = [v \in VmIds |-> "absent"]
  /\ held = [t \in Threads |-> None]

Move(v, from, to) ==
  status[v] \in from /\ status' = [status EXCEPT ![v] = to] /\ UNCHANGED held

Create(v) == Move(v, {"absent"}, "Created")
Start(v) == Move(v, {"Created"}, "Running")
Stop(v) == Move(v, {"Running"}, "Stopped")
Destroy(v) == Move(v, States, "destroyed")

Hold(t, execution) == held' = [held EXCEPT ![t] = execution]

Begin(t, v) ==
  /\ held[t] = None /\ status[v] \in States
  /\ Hold(t, [vm |-> v, state |-> status[v]])
  /\ UNCHANGED status

Fail(t) ==
  /\ held[t] # None /\ held[t].state = "Running"
  /\ Hold(t, [held[t] EXCEPT !.state = "Failed"])
  /\ UNCHANGED status

\* The execution ends and its VM is what it was to it.
End(t) ==
  /\ held[t] # None
  /\ status' = [status EXCEPT ![held[t].vm] = held[t].state]
  /\ Hold(t, None)

GiveUp(t) == held[t] # None /\ Hold(t, None) /\ UNCHANGED status

Next ==
  \/ \E v \in VmIds : Create(v) \/ Start(v) \/ Stop(v) \/ Destroy(v)
  \/ \E t \in Threads : (\E v \in VmIds : Begin(t, v)) \/ Fail(t) \/ End(t) \/ GiveUp(t)

Spec == Init /\ [][Next]_<<status, held>>
=============================================================================
