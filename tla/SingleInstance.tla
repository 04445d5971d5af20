--------------------------- MODULE SingleInstance ---------------------------
(***************************************************************************)
(* Starts of the program: _tmain looks for a named mutex and creates it in *)
(* two calls, and CHTTPClientServer::main binds the port.                  *)
(*                                                                         *)
(* A process keeps the handle it got, from either call, until it ends; the *)
(* mutex exists as long as somebody has a handle of it.  Either call may   *)
(* fail (access denied, say), and nobody asks why.  Processes may end at   *)
(* any statement and be started again.                                     *)
(***************************************************************************)
EXTENDS Naturals

CONSTANTS
  Processes,
  MaxStarts   \* bound: starts of processes

ASSUME StartsAssumption == MaxStarts \in Nat

VARIABLES
  pc,         \* pc[p]: "off", "start", "create", "begin", "serving" or "refused"
  holders,    \* the processes with a handle of the mutex
  starts,     \* how many starts there were
  together,   \* history: pairs that had both found no mutex before either made one
  failed      \* history: the processes that a call has failed

history == <<together, failed>>
vars == <<pc, holders, starts, history>>

Init ==
  /\ pc = [p \in Processes |-> "off"]
  /\ holders = {} /\ together = {} /\ failed = {} /\ starts = 0

Goto(p, where) == pc' = [pc EXCEPT ![p] = where]
Are(states) == {p \in Processes : pc[p] \in states}

Start(p) ==
  /\ pc[p] = "off" /\ starts < MaxStarts
  /\ starts' = starts + 1 /\ Goto(p, "start") /\ UNCHANGED <<holders, history>>

OneServes == Are({"serving"}) # {}
MutexExists == holders # {}

\* OpenMutexA: a process is refused when it gets a handle.  No handle, for whatever
\* reason, is taken as no mutex.
OpenMutex(p) ==
  /\ pc[p] = "start"
  /\ \/ /\ MutexExists
        /\ Goto(p, "refused") /\ holders' = holders \cup {p} /\ UNCHANGED history
     \/ /\ Goto(p, "create") /\ UNCHANGED holders
        /\ together' = together \cup {{p, o} : o \in Are({"create"})}
        /\ failed' = IF MutexExists THEN failed \cup {p} ELSE failed
  /\ UNCHANGED starts

\* CreateMutexA: makes the mutex, or opens what another has made since.  GetLastError,
\* which tells the two apart, is not asked.  Without a handle the process goes on as well.
CreateMutex(p) ==
  /\ pc[p] = "create" /\ Goto(p, "begin")
  /\ \/ holders' = holders \cup {p} /\ UNCHANGED failed
     \/ failed' = failed \cup {p} /\ UNCHANGED holders
  /\ UNCHANGED <<starts, together>>

\* The program: CHTTPClientServer::main.
Serve(p) == pc[p] = "begin" /\ Goto(p, "serving") /\ UNCHANGED <<holders, starts, history>>

\* The three seconds of a refused process, a port that cannot be bound, the termination
\* request, or any other end.
Released(p) == holders \ {p}

End(p) ==
  /\ pc[p] # "off" /\ Goto(p, "off")
  /\ holders' = Released(p)
  /\ together' = {pair \in together : p \notin pair} /\ failed' = failed \ {p}
  /\ UNCHANGED starts

Next == \E p \in Processes : Start(p) \/ OpenMutex(p) \/ CreateMutex(p) \/ Serve(p) \/ End(p)

Spec == Init /\ [][Next]_vars

-----------------------------------------------------------------------------
(* Properties                                                              *)

\* Two processes go on into the program only if each looked before the other had made
\* the mutex, or if one of them went on after a call that failed, also when others end,
\* restart and are refused in between.  One that failed does not let in those that look
\* later, as long as another has the mutex.
OneUnlessTogether ==
  \A p, o \in Are({"begin", "serving"}) \ failed : p # o => {p, o} \in together
=============================================================================
