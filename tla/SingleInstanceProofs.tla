------------------------ MODULE SingleInstanceProofs ------------------------
(***************************************************************************)
(* However many processes are started, two go on into the program only if  *)
(* they had both looked before either made the mutex, or if a call failed  *)
(* one of them.                                                            *)
(***************************************************************************)
EXTENDS SingleInstance, TLAPS

States == {"off", "start", "create", "begin", "serving", "refused"}

\* The types that the invariant rests on, and who has a handle.
Holding ==
  /\ pc \in [Processes -> States]
  /\ Are({"begin", "serving", "refused"}) \ failed \subseteq holders

\* Already from the moment a process has found no mutex.
PairsTogether ==
  \A p, o \in Are({"create", "begin", "serving"}) \ failed : p # o => {p, o} \in together

IInv == Holding /\ PairsTogether

LEMMA InitIInv == Init => IInv
  BY DEF Init, IInv, Holding, PairsTogether, Are, States

\* A process that looks while one of the pair holds the mutex is refused, or its call
\* failed; one that looks while the other is between its two calls is put into a pair with it.
LEMMA StepIInv == IInv /\ [Next]_vars => IInv'
<1> SUFFICES ASSUME IInv, [Next]_vars PROVE IInv'
  OBVIOUS
<1> USE DEF IInv, Holding, PairsTogether, Are, States, Goto
<1>1. ASSUME NEW p \in Processes, Start(p) PROVE IInv'
  BY <1>1 DEF Start, history
<1>2. ASSUME NEW p \in Processes, OpenMutex(p) PROVE IInv'
  <2>1. CASE MutexExists /\ Goto(p, "refused") /\ holders' = holders \cup {p} /\ UNCHANGED history
    BY <1>2, <2>1 DEF OpenMutex, history
  <2>2. CASE /\ Goto(p, "create") /\ UNCHANGED holders
             /\ together' = together \cup {{p, o} : o \in Are({"create"})}
             /\ failed' = IF MutexExists THEN failed \cup {p} ELSE failed
    <3>1. /\ pc' = [pc EXCEPT ![p] = "create"] /\ holders' = holders
          /\ together' = together \cup {{p, o} : o \in Are({"create"})}
      BY <2>2
    <3>2. p \notin failed' => \A o \in Are({"begin", "serving"}) : o \in failed
      BY <2>2 DEF MutexExists
    <3>3. Holding'
      BY <1>2, <2>2 DEF OpenMutex
    <3>4. PairsTogether'
      <4> SUFFICES ASSUME NEW q \in Are({"create", "begin", "serving"})' \ failed',
                          NEW o \in Are({"create", "begin", "serving"})' \ failed', q # o
                   PROVE {q, o} \in together'
        OBVIOUS
      <4>1. CASE q # p /\ o # p
        BY <2>2, <4>1
      <4>2. CASE q = p
        <5>1. o \in Are({"create"})
          BY <2>2, <3>2, <4>2
        <5> QED
          BY <3>1, <4>2, <5>1
      <4>3. CASE o = p
        <5>1. q \in Are({"create"})
          BY <2>2, <3>2, <4>3
        <5>2. {q, o} = {p, q}
          BY <4>3
        <5> QED
          BY <3>1, <5>1, <5>2
      <4> QED
        BY <4>1, <4>2, <4>3
    <3> QED
      BY <3>3, <3>4
  <2> QED
    BY <1>2, <2>1, <2>2 DEF OpenMutex
<1>3. ASSUME NEW p \in Processes, CreateMutex(p) PROVE IInv'
  BY <1>3 DEF CreateMutex
<1>4. ASSUME NEW p \in Processes, Serve(p) PROVE IInv'
  BY <1>4 DEF Serve, history
<1>5. ASSUME NEW p \in Processes, End(p) PROVE IInv'
  BY <1>5 DEF End, Released
<1>6. CASE UNCHANGED vars
  BY <1>6 DEF vars, history
<1> QED
  BY <1>1, <1>2, <1>3, <1>4, <1>5, <1>6 DEF Next

\* _tmain, whatever the order of starts, looks and ends: the two calls leave no other way
\* to run twice than two looks before the first creation, and a call that fails.
THEOREM AloneUnlessTogether == Spec => []OneUnlessTogether
<1>1. IInv => OneUnlessTogether
  BY DEF IInv, PairsTogether, OneUnlessTogether, Are
<1> QED
  BY InitIInv, StepIInv, <1>1, PTL DEF Spec
=============================================================================
