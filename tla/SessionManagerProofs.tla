------------------------ MODULE SessionManagerProofs ------------------------
(***************************************************************************)
(* Safety of SessionManager for any number of requests and sessions.       *)
(***************************************************************************)
EXTENDS SessionManager, TLAPS

\* Where an operation of each kind can be.
TurnLabels  == {"get", "turn_lock", "register"} \cup TurnWork
                 \cup {"deregister", "turn_unlock", "done"}
CloseLabels == {"lookup", "close_cancel", "close_lock"} \cup CloseWork \cup {"remove", "done"}
ResetLabels == CloseLabels \cup {"get", "reset_create"}
LabelsOf    == [turn |-> TurnLabels, close |-> CloseLabels, reset |-> ResetLabels,
                interrupt |-> {"get", "interrupt_cancel", "done"},
                read |-> {"get", "read_lock", "done"}]

\* Every operation that has started knows what it does, and is where that kind can be.
OpInv == \A g \in Ops : pc[g] # "idle" =>
           /\ op[g] \in [kind : Kinds, session : Sessions]
           /\ pc[g] \in LabelsOf[Kind(g)]

\* sess.mu is held exactly by the operation between its Lock and its Unlock.
Holding == {"register"} \cup TurnWork \cup {"deregister", "turn_unlock"} \cup CloseWork
LockInv == /\ \A g \in Ops : pc[g] \in Holding => mu[Target(g)] = g
           /\ \A s \in Sessions : mu[s] # None =>
                pc[mu[s]] \in Holding /\ Target(mu[s]) = s

\* sess.cancel is set exactly while the turn that set it runs.
CancelInv == \A s \in Sessions : cancel[s] # None =>
               /\ pc[cancel[s]] \in TurnWork \cup {"deregister"}
               /\ Target(cancel[s]) = s

Core   == OpInv /\ LockInv /\ CancelInv /\ StableView
IndInv == TypeOK /\ Core

USE NoneAssumption

\* A manager without sessions, and requests that have not arrived, satisfy the invariant.
LEMMA InitInd == Init => IndInv
  <1> SUFFICES ASSUME Init PROVE IndInv
    OBVIOUS
  <1> USE DEF Init
  <1>1. TypeOK
    <2>1. messages \in [Sessions -> Seq(Ops)]
      OBVIOUS
    <2>2. view \in [Ops -> Seq(Ops)]
      OBVIOUS
    <2>3. op \in [Ops -> [kind : Kinds, session : Sessions] \cup {None}]
      OBVIOUS
    <2>4. pc \in [Ops -> Labels]
      BY DEF Labels
    <2>5. outcome \in [Ops -> Outcomes]
      BY DEF Outcomes
    <2>6. mu \in [Sessions -> Ops \cup {None}] /\ cancel \in [Sessions -> Ops \cup {None}]
      OBVIOUS
    <2>7. loaded \in [Ops -> SUBSET Ops]
      OBVIOUS
    <2>8. reviewed \in [Sessions -> Seq(Ops)]
      OBVIOUS
    <2> QED BY <2>1, <2>2, <2>3, <2>4, <2>5, <2>6, <2>7, <2>8 DEF TypeOK
  <1>2. OpInv
    BY DEF OpInv
  <1>3. LockInv
    BY DEF LockInv, Holding, TurnWork, CloseWork
  <1>4. CancelInv
    BY DEF CancelInv
  <1>5. StableView
    BY DEF StableView, Working, TurnWork, CloseWork
  <1> QED BY <1>1, <1>2, <1>3, <1>4, <1>5 DEF IndInv, Core

-----------------------------------------------------------------------------
(* Type correctness                                                        *)

\* A started operation names a session and one of the five kinds.
LEMMA Started ==
  ASSUME IndInv, NEW g \in Ops, pc[g] # "idle"
  PROVE  Target(g) \in Sessions /\ Kind(g) \in Kinds /\ pc[g] \in LabelsOf[Kind(g)]
  BY DEF IndInv, Core, OpInv, Target, Kind

\* No step, of any request, takes a variable out of its type.
LEMMA TypeStep == IndInv /\ [Next]_vars => TypeOK'
  <1> SUFFICES ASSUME IndInv, [Next]_vars PROVE TypeOK'
    OBVIOUS
  <1>0. TypeOK
    BY DEF IndInv
  <1> USE DEF sessionVars, lockVars, memoryVars, Goto, At, Return, Insert, Labels, TurnWork,
              CloseWork, Outcomes
  <1>1. ASSUME NEW s \in Sessions, Create(s) PROVE TypeOK'
    BY <1>0, <1>1 DEF TypeOK, Create
  <1>2. ASSUME NEW g \in Ops, NEW k \in Kinds, NEW s \in created, Dispatch(g, k, s)
        PROVE TypeOK'
    BY <1>0, <1>2 DEF TypeOK, Dispatch
  <1>3. ASSUME NEW g \in Ops, Get(g) PROVE TypeOK'
    <2>1. AfterGet[Kind(g)] \in Labels
      BY <1>3, Started DEF Get, AfterGet, LabelsOf, TurnLabels, CloseLabels, ResetLabels, Kinds
    <2>2. PICK l \in Labels : pc' = [pc EXCEPT ![g] = l]
      BY <1>3, <2>1 DEF Get
    <2>4. pc' \in [Ops -> Labels]
      BY <1>0, <2>2 DEF TypeOK
    <2>5. outcome' \in [Ops -> Outcomes]
      BY <1>0, <1>3 DEF TypeOK, Get
    <2>3. UNCHANGED <<sessionVars, lockVars, shutdown, memoryVars, op, view, loaded>>
      BY <1>3 DEF Get
    <2> QED BY <1>0, <2>3, <2>4, <2>5 DEF TypeOK
  <1>4. ASSUME NEW g \in Ops, TurnLock(g) PROVE TypeOK'
    BY <1>0, <1>4, Started DEF TypeOK, TurnLock
  <1>5. ASSUME NEW g \in Ops, TurnRegister(g) PROVE TypeOK'
    BY <1>0, <1>5, Started DEF TypeOK, TurnRegister
  <1>6. ASSUME NEW g \in Ops, TurnCall(g) PROVE TypeOK'
    BY <1>0, <1>6, Started DEF TypeOK, TurnCall
  <1>7. ASSUME NEW g \in Ops, TurnTools(g) PROVE TypeOK'
    BY <1>0, <1>7, Started DEF TypeOK, TurnTools
  <1>8. ASSUME NEW g \in Ops, TurnToolsDone(g) PROVE TypeOK'
    BY <1>0, <1>8, Started DEF TypeOK, TurnToolsDone
  <1>9. ASSUME NEW g \in Ops, TurnAnswer(g) PROVE TypeOK'
    BY <1>0, <1>9, Started DEF TypeOK, TurnAnswer
  <1>10. ASSUME NEW g \in Ops, TurnError(g) PROVE TypeOK'
    BY <1>0, <1>10, Started DEF TypeOK, TurnError
  <1>11. ASSUME NEW g \in Ops, TurnDeregister(g) PROVE TypeOK'
    BY <1>0, <1>11, Started DEF TypeOK, TurnDeregister
  <1>12. ASSUME NEW g \in Ops, TurnUnlock(g) PROVE TypeOK'
    BY <1>0, <1>12, Started DEF TypeOK, TurnUnlock
  <1>13. ASSUME NEW g \in Ops, CloseLookup(g) PROVE TypeOK'
    <2>1. pc' \in [Ops -> Labels] /\ outcome' \in [Ops -> Outcomes]
      BY <1>0, <1>13 DEF TypeOK, CloseLookup
    <2>2. UNCHANGED <<sessionVars, lockVars, shutdown, memoryVars, op, view, loaded>>
      BY <1>13 DEF CloseLookup
    <2> QED BY <1>0, <2>1, <2>2 DEF TypeOK
  <1>14. ASSUME NEW g \in Ops, CloseCancel(g) PROVE TypeOK'
    <2>1. cancelled' \subseteq Ops
      BY <1>0, <1>14, Started DEF TypeOK, CloseCancel, CancelInflight
    <2> QED BY <1>0, <1>14, <2>1 DEF TypeOK, CloseCancel
  <1>15. ASSUME NEW g \in Ops, CloseLock(g) PROVE TypeOK'
    BY <1>0, <1>15, Started DEF TypeOK, CloseLock
  <1>16. ASSUME NEW g \in Ops, FinalizeLoad(g) PROVE TypeOK'
    <2>1. pc' \in [Ops -> Labels] /\ loaded' \in [Ops -> SUBSET Ops]
      BY <1>0, <1>16 DEF TypeOK, FinalizeLoad
    <2>2. UNCHANGED <<sessionVars, lockVars, shutdown, memoryVars, op, view, outcome>>
      BY <1>16 DEF FinalizeLoad
    <2> QED BY <1>0, <2>1, <2>2 DEF TypeOK
  <1>17. ASSUME NEW g \in Ops, FinalizeWrite(g) PROVE TypeOK'
    <2>1. view[g] \in Seq(Ops)
      BY <1>0 DEF TypeOK
    <2>2. {view[g][i] : i \in 1 .. Len(view[g])} \subseteq Ops
      BY <2>1
    <2>3. memory' \subseteq Ops
      BY <1>0, <1>17, <2>2 DEF TypeOK, FinalizeWrite
    <2> QED BY <1>0, <1>17, <2>3 DEF TypeOK, FinalizeWrite
  <1>18. ASSUME NEW g \in Ops, FinalizeFail(g) PROVE TypeOK'
    BY <1>0, <1>18, Started DEF TypeOK, FinalizeFail
  <1>19. ASSUME NEW g \in Ops, CloseUnlock(g) PROVE TypeOK'
    BY <1>0, <1>19, Started DEF TypeOK, CloseUnlock
  <1>20. ASSUME NEW g \in Ops, CloseRemove(g) PROVE TypeOK'
    <2>1. pc' \in [Ops -> Labels] /\ outcome' \in [Ops -> Outcomes]
      BY <1>0, <1>20 DEF TypeOK, CloseRemove
    <2>2. sessions' \subseteq created' /\ created' \subseteq Sessions
      BY <1>0, <1>20 DEF TypeOK, CloseRemove
    <2>3. UNCHANGED <<messages, lockVars, shutdown, memoryVars, op, view, loaded>>
      BY <1>20 DEF CloseRemove
    <2> QED BY <1>0, <2>1, <2>2, <2>3 DEF TypeOK
  <1>21. ASSUME NEW g \in Ops, NEW s \in Sessions, ResetCreate(g, s) PROVE TypeOK'
    <2>1. pc' \in [Ops -> Labels] /\ outcome' \in [Ops -> Outcomes]
      BY <1>0, <1>21 DEF TypeOK, ResetCreate
    <2>2. sessions' \subseteq created' /\ created' \subseteq Sessions
      BY <1>0, <1>21 DEF TypeOK, ResetCreate
    <2> QED BY <1>0, <1>21, <2>1, <2>2 DEF TypeOK, ResetCreate
  <1>22. ASSUME NEW g \in Ops, InterruptCancel(g) PROVE TypeOK'
    <2>1. cancelled' \subseteq Ops
      BY <1>0, <1>22, Started DEF TypeOK, InterruptCancel, CancelInflight
    <2> QED BY <1>0, <1>22, <2>1 DEF TypeOK, InterruptCancel
  <1>23. ASSUME NEW g \in Ops, Read(g) PROVE TypeOK'
    BY <1>0, <1>23, Started DEF TypeOK, Read
  <1>24. CASE Shutdown
    BY <1>0, <1>24 DEF TypeOK, Shutdown
  <1>25. CASE UNCHANGED vars
    BY <1>0, <1>25 DEF TypeOK, vars
  <1> QED
    BY <1>1, <1>2, <1>3, <1>4, <1>5, <1>6, <1>7, <1>8, <1>9, <1>10, <1>11, <1>12, <1>13, <1>14, <1>15, <1>16, <1>17, <1>18, <1>19, <1>20, <1>21, <1>22, <1>23, <1>24, <1>25
    DEF Next, Step, TurnStep, CloseStep, Served

-----------------------------------------------------------------------------
(* The lock, the cancel function and the view                              *)

\* A step that moves one operation, without entering or leaving a critical section,
\* preserves the invariant.
LEMMA LocalStep ==
  ASSUME IndInv, TypeOK', NEW g \in Ops, NEW l,
         pc[g] # "idle", pc' = [pc EXCEPT ![g] = l],
         op' = op, mu' = mu, cancel' = cancel, view' = view, messages' = messages,
         l \in LabelsOf[Kind(g)],
         l \in Holding <=> pc[g] \in Holding,
         l \in TurnWork \cup CloseWork => pc[g] \in TurnWork \cup CloseWork,
         pc[g] \in TurnWork \cup {"deregister"} => l \in TurnWork \cup {"deregister"}
  PROVE  Core'
  <1> USE DEF IndInv, Core, TypeOK, Target, Kind
  <1>1. OpInv'
    BY DEF OpInv
  <1>2. LockInv'
    BY DEF LockInv
  <1>3. CancelInv'
    BY DEF CancelInv
  <1>4. StableView'
    BY DEF StableView, Working
  <1> QED BY <1>1, <1>2, <1>3, <1>4

\* An operation that moves where its kind can be preserves OpInv.
LEMMA OpStep ==
  ASSUME IndInv, NEW g \in Ops, NEW l, pc[g] # "idle", pc' = [pc EXCEPT ![g] = l],
         op' = op, l \in LabelsOf[Kind(g)]
  PROVE  OpInv'
  BY DEF IndInv, Core, OpInv, TypeOK, Kind

\* No step breaks the lock discipline, the registration of cancel functions or a view: the
\* steps that take or release sess.mu one by one, all others by LocalStep.
LEMMA CoreStep == IndInv /\ [Next]_vars => Core'
  <1> SUFFICES ASSUME IndInv, [Next]_vars PROVE Core'
    OBVIOUS
  <1>t. TypeOK /\ TypeOK'
    BY TypeStep DEF IndInv
  <1> USE DEF sessionVars, lockVars, memoryVars, Goto, At, Return, Insert
  <1>1. ASSUME NEW s \in Sessions, Create(s) PROVE Core'
    BY <1>1 DEF Create, IndInv, Core, OpInv, LockInv, CancelInv, StableView, Working, Kind, Target
  <1>2. ASSUME NEW g \in Ops, NEW k \in Kinds, NEW s \in created, Dispatch(g, k, s) PROVE Core'
    <2>1. s \in Sessions
      BY <1>t DEF TypeOK
    <2>2. OpInv'
      BY <1>2, <1>t, <2>1 DEF Dispatch, IndInv, Core, OpInv, TypeOK, Kind, Target, Kinds,
         LabelsOf, TurnLabels, CloseLabels, ResetLabels, TurnWork, CloseWork
    <2>3. LockInv'
      BY <1>2, <1>t, <2>1 DEF Dispatch, IndInv, Core, LockInv, TypeOK, Target, Holding,
         TurnWork, CloseWork
    <2>4. CancelInv'
      BY <1>2, <1>t, <2>1 DEF Dispatch, IndInv, Core, CancelInv, LockInv, TypeOK, Target, Holding,
         TurnWork, CloseWork
    <2>5. StableView'
      BY <1>2, <1>t, <2>1 DEF Dispatch, IndInv, Core, StableView, LockInv, TypeOK, Target, Working,
         Holding, TurnWork, CloseWork
    <2> QED BY <2>2, <2>3, <2>4, <2>5 DEF Core
  <1>3. ASSUME NEW g \in Ops, Get(g) PROVE Core'
    <2>1. PICK l \in {"turn_lock", "lookup", "interrupt_cancel", "read_lock", "done"} : /\ pc' = [pc EXCEPT ![g] = l]
                        /\ l \in LabelsOf[Kind(g)]
      BY <1>3, Started DEF Get, AfterGet, Kinds, LabelsOf, TurnLabels, CloseLabels, ResetLabels, CloseWork
    <2> QED BY <1>3, <1>t, <2>1, LocalStep DEF Get, Holding, TurnWork, CloseWork
  <1>4. ASSUME NEW g \in Ops, CloseLookup(g) PROVE Core'
    <2>0. /\ "close_cancel" \in LabelsOf[Kind(g)]
          /\ Kind(g) = "close" => "done" \in LabelsOf[Kind(g)]
          /\ Kind(g) = "reset" => "reset_create" \in LabelsOf[Kind(g)]
      BY <1>4, Started DEF CloseLookup, Kinds, LabelsOf, TurnLabels, CloseLabels, ResetLabels, TurnWork, CloseWork
    <2>1. PICK l \in {"close_cancel", "done", "reset_create"} : /\ pc' = [pc EXCEPT ![g] = l]
                        /\ l \in LabelsOf[Kind(g)]
      BY <1>4, <2>0 DEF CloseLookup
    <2> QED BY <1>4, <1>t, <2>1, LocalStep DEF CloseLookup, Holding, TurnWork, CloseWork
  <1>5. ASSUME NEW g \in Ops, FinalizeLoad(g) PROVE Core'
    <2>0. "memory" \in LabelsOf[Kind(g)] /\ "close_unlock" \in LabelsOf[Kind(g)]
      BY <1>5, Started DEF FinalizeLoad, Kinds, LabelsOf, TurnLabels, CloseLabels, ResetLabels, TurnWork, CloseWork
    <2>1. PICK l \in {"memory", "close_unlock"} : /\ pc' = [pc EXCEPT ![g] = l]
                        /\ l \in LabelsOf[Kind(g)]
      BY <1>5, <2>0 DEF FinalizeLoad
    <2> QED BY <1>5, <1>t, <2>1, LocalStep DEF FinalizeLoad, Holding, TurnWork, CloseWork
  <1>6. ASSUME NEW g \in Ops, CloseRemove(g) PROVE Core'
    <2>1. PICK l \in {"done", "reset_create"} : /\ pc' = [pc EXCEPT ![g] = l]
                        /\ l \in LabelsOf[Kind(g)]
      BY <1>6, Started DEF CloseRemove, AfterGet, Kinds, LabelsOf, TurnLabels, CloseLabels, ResetLabels, CloseWork
    <2> QED BY <1>6, <1>t, <2>1, LocalStep DEF CloseRemove, Holding, TurnWork, CloseWork
  <1>7. ASSUME NEW g \in Ops, TurnCall(g) PROVE Core'
    <2>1. "await" \in LabelsOf[Kind(g)]
      BY <1>7, Started DEF TurnCall, Kinds, LabelsOf, TurnLabels, CloseLabels, ResetLabels, TurnWork, CloseWork
    <2> QED BY <1>7, <1>t, <2>1, LocalStep DEF TurnCall, Holding, TurnWork, CloseWork
  <1>8. ASSUME NEW g \in Ops, TurnTools(g) PROVE Core'
    <2>1. "tools" \in LabelsOf[Kind(g)]
      BY <1>8, Started DEF TurnTools, Kinds, LabelsOf, TurnLabels, CloseLabels, ResetLabels, TurnWork, CloseWork
    <2> QED BY <1>8, <1>t, <2>1, LocalStep DEF TurnTools, Holding, TurnWork, CloseWork
  <1>9. ASSUME NEW g \in Ops, TurnToolsDone(g) PROVE Core'
    <2>1. "generate" \in LabelsOf[Kind(g)]
      BY <1>9, Started DEF TurnToolsDone, Kinds, LabelsOf, TurnLabels, CloseLabels, ResetLabels, TurnWork, CloseWork
    <2> QED BY <1>9, <1>t, <2>1, LocalStep DEF TurnToolsDone, Holding, TurnWork, CloseWork
  <1>10. ASSUME NEW g \in Ops, TurnError(g) PROVE Core'
    <2>1. "deregister" \in LabelsOf[Kind(g)]
      BY <1>10, Started DEF TurnError, Kinds, LabelsOf, TurnLabels, CloseLabels, ResetLabels, TurnWork, CloseWork
    <2> QED BY <1>10, <1>t, <2>1, LocalStep DEF TurnError, Holding, TurnWork, CloseWork
  <1>11. ASSUME NEW g \in Ops, CloseCancel(g) PROVE Core'
    <2>1. "close_lock" \in LabelsOf[Kind(g)]
      BY <1>11, Started DEF CloseCancel, Kinds, LabelsOf, TurnLabels, CloseLabels, ResetLabels, TurnWork, CloseWork
    <2> QED BY <1>11, <1>t, <2>1, LocalStep DEF CloseCancel, Holding, TurnWork, CloseWork
  <1>12. ASSUME NEW g \in Ops, FinalizeWrite(g) PROVE Core'
    <2>1. "close_unlock" \in LabelsOf[Kind(g)]
      BY <1>12, Started DEF FinalizeWrite, Kinds, LabelsOf, TurnLabels, CloseLabels, ResetLabels, TurnWork, CloseWork
    <2> QED BY <1>12, <1>t, <2>1, LocalStep DEF FinalizeWrite, Holding, TurnWork, CloseWork
  <1>13. ASSUME NEW g \in Ops, FinalizeFail(g) PROVE Core'
    <2>1. "close_unlock" \in LabelsOf[Kind(g)]
      BY <1>13, Started DEF FinalizeFail, Kinds, LabelsOf, TurnLabels, CloseLabels, ResetLabels, TurnWork, CloseWork
    <2> QED BY <1>13, <1>t, <2>1, LocalStep DEF FinalizeFail, Holding, TurnWork, CloseWork
  <1>14. ASSUME NEW g \in Ops, InterruptCancel(g) PROVE Core'
    <2>1. "done" \in LabelsOf[Kind(g)]
      BY <1>14, Started DEF InterruptCancel, Kinds, LabelsOf, TurnLabels, CloseLabels, ResetLabels, TurnWork, CloseWork
    <2> QED BY <1>14, <1>t, <2>1, LocalStep DEF InterruptCancel, Holding, TurnWork, CloseWork
  <1>15. ASSUME NEW g \in Ops, Read(g) PROVE Core'
    <2>1. "done" \in LabelsOf[Kind(g)]
      BY <1>15, Started DEF Read, Kinds, LabelsOf, TurnLabels, CloseLabels, ResetLabels, TurnWork, CloseWork
    <2> QED BY <1>15, <1>t, <2>1, LocalStep DEF Read, Holding, TurnWork, CloseWork
  <1>16. ASSUME NEW g \in Ops, NEW s \in Sessions, ResetCreate(g, s) PROVE Core'
    <2>1. "done" \in LabelsOf[Kind(g)]
      BY <1>16, Started DEF ResetCreate, Kinds, LabelsOf, TurnLabels, CloseLabels, ResetLabels
    <2> QED BY <1>16, <1>t, <2>1, LocalStep DEF ResetCreate, Holding, TurnWork, CloseWork
  <1>17. ASSUME NEW g \in Ops, TurnLock(g) PROVE Core'
    <2>0. "register" \in LabelsOf[Kind(g)]
      BY <1>17, Started DEF TurnLock, Kinds, LabelsOf, TurnLabels, CloseLabels, ResetLabels, TurnWork, CloseWork
    <2>1. OpInv'
      BY <1>17, <2>0, OpStep DEF TurnLock
    <2>2. LockInv'
      BY <1>17, <1>t, Started DEF TurnLock, IndInv, Core, LockInv, TypeOK, Target, Holding,
         TurnWork, CloseWork
    <2>3. CancelInv'
      BY <1>17, <1>t, Started DEF TurnLock, IndInv, Core, CancelInv, LockInv, TypeOK, Target, Holding,
         TurnWork, CloseWork
    <2>4. StableView'
      BY <1>17, <1>t, Started DEF TurnLock, IndInv, Core, StableView, LockInv, TypeOK, Target, Working,
         Holding, TurnWork, CloseWork
    <2> QED BY <2>1, <2>2, <2>3, <2>4 DEF Core
  <1>18. ASSUME NEW g \in Ops, TurnRegister(g) PROVE Core'
    <2>0. "generate" \in LabelsOf[Kind(g)]
      BY <1>18, Started DEF TurnRegister, Kinds, LabelsOf, TurnLabels, CloseLabels, ResetLabels, TurnWork, CloseWork
    <2>1. OpInv'
      BY <1>18, <2>0, OpStep DEF TurnRegister
    <2>2. LockInv'
      BY <1>18, <1>t, Started DEF TurnRegister, IndInv, Core, LockInv, TypeOK, Target, Holding,
         TurnWork, CloseWork
    <2>3. CancelInv'
      BY <1>18, <1>t, Started DEF TurnRegister, IndInv, Core, CancelInv, LockInv, TypeOK, Target, Holding,
         TurnWork, CloseWork
    <2>4. StableView'
      BY <1>18, <1>t, Started DEF TurnRegister, IndInv, Core, StableView, LockInv, TypeOK, Target, Working,
         Holding, TurnWork, CloseWork
    <2> QED BY <2>1, <2>2, <2>3, <2>4 DEF Core
  <1>19. ASSUME NEW g \in Ops, TurnAnswer(g) PROVE Core'
    <2>0. "deregister" \in LabelsOf[Kind(g)]
      BY <1>19, Started DEF TurnAnswer, Kinds, LabelsOf, TurnLabels, CloseLabels, ResetLabels, TurnWork, CloseWork
    <2>1. OpInv'
      BY <1>19, <2>0, OpStep DEF TurnAnswer
    <2>2. LockInv'
      BY <1>19, <1>t, Started DEF TurnAnswer, IndInv, Core, LockInv, TypeOK, Target, Holding,
         TurnWork, CloseWork
    <2>3. CancelInv'
      BY <1>19, <1>t, Started DEF TurnAnswer, IndInv, Core, CancelInv, LockInv, TypeOK, Target, Holding,
         TurnWork, CloseWork
    <2>4. StableView'
      BY <1>19, <1>t, Started DEF TurnAnswer, IndInv, Core, StableView, LockInv, TypeOK, Target, Working,
         Holding, TurnWork, CloseWork
    <2> QED BY <2>1, <2>2, <2>3, <2>4 DEF Core
  <1>20. ASSUME NEW g \in Ops, TurnDeregister(g) PROVE Core'
    <2>0. "turn_unlock" \in LabelsOf[Kind(g)]
      BY <1>20, Started DEF TurnDeregister, Kinds, LabelsOf, TurnLabels, CloseLabels, ResetLabels, TurnWork, CloseWork
    <2>1. OpInv'
      BY <1>20, <2>0, OpStep DEF TurnDeregister
    <2>2. LockInv'
      BY <1>20, <1>t, Started DEF TurnDeregister, IndInv, Core, LockInv, TypeOK, Target, Holding,
         TurnWork, CloseWork
    <2>3. CancelInv'
      BY <1>20, <1>t, Started DEF TurnDeregister, IndInv, Core, CancelInv, LockInv, TypeOK, Target, Holding,
         TurnWork, CloseWork
    <2>4. StableView'
      BY <1>20, <1>t, Started DEF TurnDeregister, IndInv, Core, StableView, LockInv, TypeOK, Target, Working,
         Holding, TurnWork, CloseWork
    <2> QED BY <2>1, <2>2, <2>3, <2>4 DEF Core
  <1>21. ASSUME NEW g \in Ops, TurnUnlock(g) PROVE Core'
    <2>0. "done" \in LabelsOf[Kind(g)]
      BY <1>21, Started DEF TurnUnlock, Kinds, LabelsOf, TurnLabels, CloseLabels, ResetLabels, TurnWork, CloseWork
    <2>1. OpInv'
      BY <1>21, <2>0, OpStep DEF TurnUnlock
    <2>2. LockInv'
      BY <1>21, <1>t, Started DEF TurnUnlock, IndInv, Core, LockInv, TypeOK, Target, Holding,
         TurnWork, CloseWork
    <2>3. CancelInv'
      BY <1>21, <1>t, Started DEF TurnUnlock, IndInv, Core, CancelInv, LockInv, TypeOK, Target, Holding,
         TurnWork, CloseWork
    <2>4. StableView'
      BY <1>21, <1>t, Started DEF TurnUnlock, IndInv, Core, StableView, LockInv, TypeOK, Target, Working,
         Holding, TurnWork, CloseWork
    <2> QED BY <2>1, <2>2, <2>3, <2>4 DEF Core
  <1>22. ASSUME NEW g \in Ops, CloseLock(g) PROVE Core'
    <2>0. "load" \in LabelsOf[Kind(g)]
      BY <1>22, Started DEF CloseLock, Kinds, LabelsOf, TurnLabels, CloseLabels, ResetLabels, TurnWork, CloseWork
    <2>1. OpInv'
      BY <1>22, <2>0, OpStep DEF CloseLock
    <2>2. LockInv'
      BY <1>22, <1>t, Started DEF CloseLock, IndInv, Core, LockInv, TypeOK, Target, Holding,
         TurnWork, CloseWork
    <2>3. CancelInv'
      BY <1>22, <1>t, Started DEF CloseLock, IndInv, Core, CancelInv, LockInv, TypeOK, Target, Holding,
         TurnWork, CloseWork
    <2>4. StableView'
      BY <1>22, <1>t, Started DEF CloseLock, IndInv, Core, StableView, LockInv, TypeOK, Target, Working,
         Holding, TurnWork, CloseWork
    <2> QED BY <2>1, <2>2, <2>3, <2>4 DEF Core
  <1>23. ASSUME NEW g \in Ops, CloseUnlock(g) PROVE Core'
    <2>0. "remove" \in LabelsOf[Kind(g)]
      BY <1>23, Started DEF CloseUnlock, Kinds, LabelsOf, TurnLabels, CloseLabels, ResetLabels, TurnWork, CloseWork
    <2>1. OpInv'
      BY <1>23, <2>0, OpStep DEF CloseUnlock
    <2>2. LockInv'
      BY <1>23, <1>t, Started DEF CloseUnlock, IndInv, Core, LockInv, TypeOK, Target, Holding,
         TurnWork, CloseWork
    <2>3. CancelInv'
      BY <1>23, <1>t, Started DEF CloseUnlock, IndInv, Core, CancelInv, LockInv, TypeOK, Target, Holding,
         TurnWork, CloseWork
    <2>4. StableView'
      BY <1>23, <1>t, Started DEF CloseUnlock, IndInv, Core, StableView, LockInv, TypeOK, Target, Working,
         Holding, TurnWork, CloseWork
    <2> QED BY <2>1, <2>2, <2>3, <2>4 DEF Core
  <1>24. CASE Shutdown \/ UNCHANGED vars
    BY <1>24 DEF Shutdown, vars, IndInv, Core, OpInv, LockInv, CancelInv, StableView, Working, Kind, Target
  <1> QED
    BY <1>1, <1>2, <1>3, <1>4, <1>5, <1>6, <1>7, <1>8, <1>9, <1>10, <1>11, <1>12, <1>13, <1>14, <1>15, <1>16, <1>17, <1>18, <1>19, <1>20, <1>21, <1>22, <1>23, <1>24
    DEF Next, Step, TurnStep, CloseStep, Served

-----------------------------------------------------------------------------
(* The invariant, and what follows from it                                 *)

\* The inductive invariant holds of every behaviour of the manager.
THEOREM Invariance == Spec => []IndInv
  <1>1. IndInv /\ [Next]_vars => IndInv'
    BY TypeStep, CoreStep DEF IndInv
  <1> QED BY InitInd, <1>1, PTL DEF Spec

\* Every variable keeps its type; only known sessions are in the manager's map.
THEOREM TypeCorrect == Spec => []TypeOK
  BY Invariance, PTL DEF IndInv

\* What RunTurnStream extends and what Finalize reviews cannot change under them.
THEOREM ViewsAreStable == Spec => []StableView
  BY Invariance, PTL DEF IndInv, Core

\* Interrupt and Close can only cancel the turn that holds the session.
THEOREM CancelIsPrecise == Spec => []CancelHitsHolder
  <1>1. IndInv => CancelHitsHolder
    <2> SUFFICES ASSUME IndInv, NEW s \in Sessions, cancel[s] # None
                 PROVE mu[s] = cancel[s] /\ Kind(cancel[s]) = "turn"
      BY DEF CancelHitsHolder
    <2> DEFINE g == cancel[s]
    <2>1. g \in Ops /\ pc[g] \in TurnWork \cup {"deregister"} /\ Target(g) = s
      BY DEF IndInv, Core, TypeOK, CancelInv
    <2>2. mu[s] = g
      BY <2>1 DEF IndInv, Core, LockInv, Holding
    <2>3. pc[g] \in LabelsOf[Kind(g)] /\ Kind(g) \in Kinds
      BY <2>1, Started DEF TurnWork
    <2>4. Kind(g) = "turn"
      BY <2>1, <2>3 DEF Kinds, LabelsOf, TurnLabels, CloseLabels, ResetLabels, TurnWork, CloseWork
    <2> QED BY <2>2, <2>4
  <1> QED BY <1>1, Invariance, PTL

\* Only an answered turn changes a history.
LEMMA OnlyAnswersWrite ==
  ASSUME [Next]_vars, \A g \in Ops : ~TurnAnswer(g)
  PROVE  messages' = messages
  BY DEF Next, Step, TurnStep, CloseStep, Create, Dispatch, Shutdown, Served, vars,
         sessionVars, Get, TurnLock, TurnRegister, TurnCall, TurnTools, TurnToolsDone,
         TurnError, TurnDeregister, TurnUnlock, CloseLookup, CloseCancel, CloseLock,
         FinalizeLoad, FinalizeWrite, FinalizeFail, CloseUnlock, CloseRemove, ResetCreate,
         InterruptCancel, Read

\* A step extends at most one history, by one whole turn, and rewrites none.
THEOREM HistoryIsAppendOnly == Spec => AppendOnly
  <1> DEFINE Extends == \A s \in Sessions :
                          \/ messages'[s] = messages[s]
                          \/ \E g \in Ops : messages'[s] = Append(messages[s], g)
  <1>1. IndInv /\ [Next]_vars => [Extends]_vars
    <2> SUFFICES ASSUME IndInv, [Next]_vars PROVE Extends
      OBVIOUS
    <2>1. CASE \A g \in Ops : ~TurnAnswer(g)
      BY <2>1, OnlyAnswersWrite
    <2>2. ASSUME NEW g \in Ops, TurnAnswer(g) PROVE Extends
      <3>1. view[g] = messages[Target(g)]
        BY <2>2 DEF IndInv, Core, StableView, Working, TurnAnswer, At, TurnWork
      <3>2. messages' = [messages EXCEPT ![Target(g)] = Append(messages[Target(g)], g)]
        BY <2>2, <3>1 DEF TurnAnswer
      <3> QED BY <3>2 DEF IndInv, TypeOK
    <2> QED BY <2>1, <2>2
  <1> QED BY <1>1, Invariance, PTL DEF Spec, AppendOnly

-----------------------------------------------------------------------------
(* No answered turn is lost                                                *)

\* Where an operation has not been answered.
Early == {"idle", "get", "turn_lock", "register"} \cup TurnWork

FreshInv == \A g \in Ops : /\ pc[g] = "idle" => op[g] = None
                           /\ pc[g] \in Early => outcome[g] = None

\* What a history holds are answered turns of that session, each once.
RecordInv == \A s \in Sessions : \A i \in 1 .. Len(messages[s]) :
               /\ pc[messages[s][i]] # "idle"
               /\ Kind(messages[s][i]) = "turn"
               /\ outcome[messages[s][i]] = "ok"
DistinctInv == \A s \in Sessions : \A i, j \in 1 .. Len(messages[s]) :
                 messages[s][i] = messages[s][j] => i = j

\* Every answered turn is in its history.
AnsweredInv == \A g \in Ops : (pc[g] # "idle" /\ Kind(g) = "turn" /\ outcome[g] = "ok")
                 => \E i \in 1 .. Len(messages[Target(g)]) : messages[Target(g)][i] = g

HistInv == FreshInv /\ RecordInv /\ DistinctInv /\ AnsweredInv

\* What a step of an operation other than a turn's answer does to what HistInv is about.
Unrecorded(g) ==
  /\ messages' = messages /\ op' = op
  /\ \A h \in Ops \ {g} : pc'[h] = pc[h] /\ outcome'[h] = outcome[h]
  /\ pc[g] # "idle" /\ pc'[g] # "idle"
  /\ pc'[g] \in Early => pc[g] \in Early /\ outcome'[g] = outcome[g]
  /\ Kind(g) = "turn" => \/ outcome'[g] = outcome[g]
                         \/ pc[g] \in Early /\ outcome'[g] # "ok"

\* Every step but a turn's answer leaves the histories alone, moves only its own request,
\* and tells no turn's caller "ok".
LEMMA OtherSteps ==
  ASSUME IndInv, NEW g \in Ops, Step(g), ~TurnAnswer(g)
  PROVE  Unrecorded(g)
  <1> USE DEF sessionVars, Goto, At, Return, Insert, Unrecorded, Early, TurnWork, CloseWork
  <1>t. pc \in [Ops -> Labels] /\ outcome \in [Ops -> Outcomes]
    BY DEF IndInv, TypeOK
  <1>s. pc[g] # "idle" => Kind(g) \in Kinds /\ pc[g] \in LabelsOf[Kind(g)]
    BY Started
  <1>k. /\ pc[g] \in {"lookup", "remove", "reset_create", "interrupt_cancel", "read_lock"}
             => Kind(g) # "turn"
        /\ pc[g] = "get" => AfterGet[Kind(g)] # "idle" /\ (Kind(g) = "turn" \/ AfterGet[Kind(g)] \notin Early)
    BY <1>s DEF Kinds, LabelsOf, TurnLabels, CloseLabels, ResetLabels, AfterGet
  <1>1. CASE Get(g)
    BY <1>1, <1>t, <1>k DEF Get
  <1>2. CASE TurnLock(g)
    BY <1>2, <1>t, <1>k DEF TurnLock
  <1>3. CASE TurnRegister(g)
    BY <1>3, <1>t, <1>k DEF TurnRegister
  <1>4. CASE TurnCall(g)
    BY <1>4, <1>t, <1>k DEF TurnCall
  <1>5. CASE TurnTools(g)
    BY <1>5, <1>t, <1>k DEF TurnTools
  <1>6. CASE TurnToolsDone(g)
    BY <1>6, <1>t, <1>k DEF TurnToolsDone
  <1>7. CASE TurnError(g)
    BY <1>7, <1>t, <1>k DEF TurnError
  <1>8. CASE TurnDeregister(g)
    BY <1>8, <1>t, <1>k DEF TurnDeregister
  <1>9. CASE TurnUnlock(g)
    BY <1>9, <1>t, <1>k DEF TurnUnlock
  <1>10. CASE CloseLookup(g)
    BY <1>10, <1>t, <1>k DEF CloseLookup
  <1>11. CASE CloseCancel(g)
    BY <1>11, <1>t, <1>k DEF CloseCancel
  <1>12. CASE CloseLock(g)
    BY <1>12, <1>t, <1>k DEF CloseLock
  <1>13. CASE FinalizeLoad(g)
    BY <1>13, <1>t, <1>k DEF FinalizeLoad
  <1>14. CASE FinalizeWrite(g)
    BY <1>14, <1>t, <1>k DEF FinalizeWrite
  <1>15. CASE FinalizeFail(g)
    BY <1>15, <1>t, <1>k DEF FinalizeFail
  <1>16. CASE CloseUnlock(g)
    BY <1>16, <1>t, <1>k DEF CloseUnlock
  <1>17. CASE CloseRemove(g)
    BY <1>17, <1>t, <1>k DEF CloseRemove
  <1>18. CASE InterruptCancel(g)
    BY <1>18, <1>t, <1>k DEF InterruptCancel
  <1>19. CASE Read(g)
    BY <1>19, <1>t, <1>k DEF Read
  <1>20. CASE \E s \in Sessions : ResetCreate(g, s)
    BY <1>20, <1>t, <1>k DEF ResetCreate
  <1> QED BY <1>1, <1>2, <1>3, <1>4, <1>5, <1>6, <1>7, <1>8, <1>9, <1>10, <1>11, <1>12, <1>13, <1>14, <1>15, <1>16, <1>17, <1>18, <1>19, <1>20 DEF Step, TurnStep, CloseStep

\* A step keeps every answered turn in its history exactly once, and every turn that has
\* not answered out of all of them.
LEMMA HistStep == IndInv /\ IndInv' /\ HistInv /\ [Next]_vars => HistInv'
  <1> SUFFICES ASSUME IndInv, IndInv', HistInv, [Next]_vars PROVE HistInv'
    OBVIOUS
  <1>t. TypeOK /\ TypeOK'
    BY DEF IndInv
  <1>m. \A s \in Sessions : \A i \in 1 .. Len(messages[s]) : messages[s][i] \in Ops
    BY <1>t DEF TypeOK
  <1>1. ASSUME NEW g \in Ops, TurnAnswer(g) PROVE HistInv'
    <2> DEFINE t == Target(g)
               n == Len(messages[t]) + 1
    <2>1. pc[g] = "await" /\ outcome[g] = None
      BY <1>1 DEF TurnAnswer, At, HistInv, FreshInv, Early, TurnWork
    <2>2. t \in Sessions /\ Kind(g) = "turn"
      BY <2>1, Started DEF Kinds, LabelsOf, TurnLabels, CloseLabels, ResetLabels, CloseWork
    <2>3. messages' = [messages EXCEPT ![t] = Append(messages[t], g)]
      BY <1>1, <2>1 DEF TurnAnswer, IndInv, Core, StableView, Working, TurnWork
    <2>4. /\ messages[t] \in Seq(Ops)
          /\ messages'[t] = Append(messages[t], g)
          /\ \A s \in Sessions \ {t} : messages'[s] = messages[s]
      BY <1>t, <2>2, <2>3 DEF TypeOK
    <2>5. /\ Len(messages'[t]) = n /\ messages'[t][n] = g
          /\ \A i \in 1 .. Len(messages[t]) : messages'[t][i] = messages[t][i]
          /\ \A i \in 1 .. n : i # n => i \in 1 .. Len(messages[t])
      BY <2>4
    <2>6. \A i \in 1 .. Len(messages[t]) : messages[t][i] # g
      BY <2>1, <2>2 DEF HistInv, RecordInv
    <2>7. op' = op /\ pc' = [pc EXCEPT ![g] = "deregister"]
          /\ outcome' = [outcome EXCEPT ![g] = "ok"]
      BY <1>1 DEF TurnAnswer, Goto
    <2>8. FreshInv'
      BY <1>t, <2>7 DEF TypeOK, HistInv, FreshInv, Early, TurnWork
    <2>9. RecordInv'
      <3> SUFFICES ASSUME NEW s \in Sessions, NEW i \in 1 .. Len(messages'[s])
                   PROVE  /\ pc'[messages'[s][i]] # "idle"
                          /\ Kind(messages'[s][i]) = "turn"
                          /\ outcome'[messages'[s][i]] = "ok"
        BY <2>7 DEF RecordInv, Kind
      <3>1. CASE s = t /\ i = n
        BY <1>t, <2>2, <2>5, <2>7, <3>1 DEF TypeOK, Kind
      <3>2. CASE s # t \/ i # n
        <4>1. i \in 1 .. Len(messages[s]) /\ messages'[s][i] = messages[s][i]
          <5>1. CASE s # t
            BY <2>4, <5>1
          <5>2. CASE s = t
            BY <2>5, <3>2, <5>2
          <5> QED BY <5>1, <5>2
        <4> QED BY <1>t, <1>m, <2>7, <4>1 DEF TypeOK, HistInv, RecordInv, Kind
      <3> QED BY <3>1, <3>2
    <2>10. DistinctInv'
      <3> SUFFICES ASSUME NEW s \in Sessions, NEW i \in 1 .. Len(messages'[s]),
                          NEW j \in 1 .. Len(messages'[s]), messages'[s][i] = messages'[s][j]
                   PROVE  i = j
        BY DEF DistinctInv
      <3>1. CASE s # t
        BY <2>4, <3>1 DEF HistInv, DistinctInv
      <3>2. CASE s = t
        <4>1. i \in 1 .. n /\ j \in 1 .. n
          BY <2>5, <3>2
        <4>2. CASE i = n \/ j = n
          BY <2>5, <2>6, <3>2, <4>1, <4>2
        <4>3. CASE i # n /\ j # n
          <5>1. i \in 1 .. Len(messages[t]) /\ j \in 1 .. Len(messages[t])
            BY <2>5, <4>1, <4>3
          <5>2. messages[t][i] = messages[t][j]
            BY <2>5, <3>2, <5>1
          <5> QED BY <2>2, <5>1, <5>2 DEF HistInv, DistinctInv
        <4> QED BY <4>2, <4>3
      <3> QED BY <3>1, <3>2
    <2>11. AnsweredInv'
      <3> SUFFICES ASSUME NEW h \in Ops, pc'[h] # "idle", (Kind(h))' = "turn", outcome'[h] = "ok"
                   PROVE  \E i \in 1 .. Len(messages'[Target(h)]) : messages'[Target(h)][i] = h
        BY <2>7 DEF AnsweredInv, Target
      <3>1. CASE h = g
        BY <2>4, <2>5, <3>1
      <3>2. CASE h # g
        <4>1. PICK i \in 1 .. Len(messages[Target(h)]) : messages[Target(h)][i] = h
          BY <1>t, <2>7, <3>2 DEF TypeOK, HistInv, AnsweredInv, Kind
        <4>2. Target(h) \in Sessions
          BY <1>t, <2>7, <3>2, Started DEF TypeOK
        <4> QED BY <2>4, <2>5, <4>1, <4>2
      <3> QED BY <3>1, <3>2
    <2> QED BY <2>8, <2>9, <2>10, <2>11 DEF HistInv
  <1>2. ASSUME NEW g \in Ops, Step(g), ~TurnAnswer(g) PROVE HistInv'
    <2>1. Unrecorded(g)
      BY <1>2, OtherSteps
    <2>2. FreshInv'
      BY <2>1 DEF Unrecorded, HistInv, FreshInv, Early
    <2>3. RecordInv'
      BY <1>t, <2>1 DEF Unrecorded, HistInv, RecordInv, FreshInv, TypeOK, Kind
    <2>4. DistinctInv'
      BY <2>1 DEF Unrecorded, HistInv, DistinctInv
    <2>5. AnsweredInv'
      <3> SUFFICES ASSUME NEW h \in Ops, pc'[h] # "idle", Kind(h) = "turn", outcome'[h] = "ok"
                   PROVE  \E i \in 1 .. Len(messages[Target(h)]) : messages[Target(h)][i] = h
        BY <2>1 DEF Unrecorded, AnsweredInv, Kind, Target
      <3>1. pc[h] # "idle" /\ outcome[h] = "ok"
        BY <2>1 DEF Unrecorded
      <3> QED BY <3>1 DEF HistInv, AnsweredInv
    <2> QED BY <2>2, <2>3, <2>4, <2>5 DEF HistInv
  <1>3. ASSUME NEW g \in Ops, NEW k \in Kinds, NEW s \in created, Dispatch(g, k, s)
        PROVE  HistInv'
    <2>1. /\ messages' = messages /\ outcome' = outcome /\ pc[g] = "idle" /\ pc'[g] # "idle"
          /\ \A h \in Ops \ {g} : pc'[h] = pc[h] /\ op'[h] = op[h]
      BY <1>t, <1>3 DEF Dispatch, At, Goto, TypeOK, sessionVars
    <2>2. FreshInv'
      BY <2>1 DEF HistInv, FreshInv, Early
    <2>3. RecordInv'
      BY <1>m, <2>1 DEF HistInv, RecordInv, Kind
    <2>4. DistinctInv'
      BY <2>1 DEF HistInv, DistinctInv
    <2>5. AnsweredInv'
      <3> SUFFICES ASSUME NEW h \in Ops, outcome'[h] = "ok", (Kind(h))' = "turn"
                   PROVE  (\E i \in 1 .. Len(messages[Target(h)]) : messages[Target(h)][i] = h)'
        BY DEF AnsweredInv
      <3>1. h # g
        BY <2>1 DEF HistInv, FreshInv, Early
      <3>2. pc[h] # "idle"
        BY <2>1, <3>1 DEF HistInv, FreshInv, Early
      <3> QED BY <2>1, <3>1, <3>2 DEF HistInv, AnsweredInv, Kind, Target
    <2> QED BY <2>2, <2>3, <2>4, <2>5 DEF HistInv
  <1>4. CASE (\E s \in Sessions : Create(s)) \/ Shutdown \/ UNCHANGED vars
    BY <1>4 DEF Create, Shutdown, vars, sessionVars, HistInv, FreshInv, RecordInv, DistinctInv,
                AnsweredInv, Kind, Target
  <1> QED BY <1>1, <1>2, <1>3, <1>4 DEF Next, Served

\* A turn whose caller got its answer is in the session's history exactly once, however
\* turns, closes, resets and interrupts interleave.
THEOREM NoTurnIsLost == Spec => []TurnsDurable
  <1>1. Init => HistInv
    BY DEF Init, HistInv, FreshInv, RecordInv, DistinctInv, AnsweredInv, Early
  <1>2. IndInv /\ HistInv => TurnsDurable
    <2> SUFFICES ASSUME IndInv, HistInv, NEW g \in Ops, op[g] # None, Kind(g) = "turn",
                        outcome[g] = "ok"
                 PROVE  \E i \in 1 .. Len(messages[Target(g)]) :
                          Occurrences(g, messages[Target(g)]) = {i}
      BY DEF TurnsDurable
    <2>1. pc[g] # "idle"
      BY DEF HistInv, FreshInv
    <2>2. PICK i \in 1 .. Len(messages[Target(g)]) : messages[Target(g)][i] = g
      BY <2>1 DEF HistInv, AnsweredInv
    <2>3. Target(g) \in Sessions
      BY <2>1, Started
    <2> QED BY <2>2, <2>3 DEF HistInv, DistinctInv, Occurrences
  <1> QED BY <1>1, <1>2, HistStep, Invariance, PTL DEF Spec

-----------------------------------------------------------------------------
(* Cancellation has a cause                                                *)

\* Every cancelled turn has started, and so has a request that asked for its session to be
\* interrupted or closed.
AskedFor(g) == \E h \in Ops : /\ pc[h] # "idle"
                              /\ Kind(h) \in {"interrupt", "close", "reset"}
                              /\ Target(h) = Target(g)
AskedInv == \A g \in cancelled : pc[g] # "idle" /\ AskedFor(g)

\* Requests that have started keep what they do, so a cause once given remains.
LEMMA CauseRemains ==
  ASSUME TypeOK, AskedInv,
         \A h \in Ops : pc[h] # "idle" => pc'[h] # "idle" /\ op'[h] = op[h],
         NEW g \in cancelled
  PROVE  pc'[g] # "idle" /\ AskedFor(g)'
  BY DEF TypeOK, AskedInv, AskedFor, Kind, Target

\* Close, Reset and Interrupt are the only steps that cancel, and they are the cause.
LEMMA AskedStep == IndInv /\ AskedInv /\ [Next]_vars => AskedInv'
  <1> SUFFICES ASSUME IndInv, AskedInv, [Next]_vars PROVE AskedInv'
    OBVIOUS
  <1> USE DEF lockVars, sessionVars, Goto, At, Return
  <1>t. TypeOK
    BY DEF IndInv
  <1>k. ASSUME \A h \in Ops : pc[h] # "idle" => pc'[h] # "idle" /\ op'[h] = op[h],
               cancelled' = cancelled
        PROVE  AskedInv'
    BY <1>t, <1>k, CauseRemains DEF AskedInv
  <1>1. CASE UNCHANGED vars
    BY <1>1, <1>k DEF vars
  <1>2. CASE \E s \in Sessions : Create(s)
    BY <1>2, <1>k DEF Create
  <1>3. CASE \E g \in Ops, k \in Kinds, s \in created : Dispatch(g, k, s)
    BY <1>3, <1>t, <1>k DEF Dispatch, TypeOK
  <1>4. CASE Shutdown
    BY <1>4, <1>k DEF Shutdown
  <1>5. ASSUME NEW g \in Ops, Step(g) PROVE AskedInv'
    <2>1. \A h \in Ops : pc[h] # "idle" => pc'[h] # "idle" /\ op'[h] = op[h]
      <3>1. CASE TurnAnswer(g)
        BY <3>1, <1>t DEF TurnAnswer, TypeOK
      <3>2. CASE ~TurnAnswer(g)
        BY <3>2, <1>5, OtherSteps DEF Unrecorded
      <3> QED BY <3>1, <3>2
    <2>2. ASSUME pc[g] \in {"close_cancel", "interrupt_cancel"}, CancelInflight(Target(g))
          PROVE  AskedInv'
      <3>1. Target(g) \in Sessions /\ Kind(g) \in {"interrupt", "close", "reset"}
        BY <2>2, Started
           DEF Kinds, LabelsOf, TurnLabels, CloseLabels, ResetLabels, TurnWork, CloseWork
      <3>2. ASSUME NEW h \in Ops, h = cancel[Target(g)]
            PROVE  pc'[h] # "idle" /\ AskedFor(h)'
        <4>1. pc[h] # "idle" /\ Target(h) = Target(g)
          BY <3>1, <3>2 DEF IndInv, TypeOK, Core, CancelInv, TurnWork
        <4>2. pc[g] # "idle"
          BY <2>2
        <4> QED BY <4>1, <4>2, <3>1, <2>1 DEF AskedFor, Kind, Target
      <3>3. ASSUME NEW h \in cancelled PROVE pc'[h] # "idle" /\ AskedFor(h)'
        BY <1>t, <2>1, CauseRemains
      <3>4. ASSUME NEW h \in cancelled' PROVE h \in cancelled \/ (h \in Ops /\ h = cancel[Target(g)])
        BY <3>1, <2>2, <1>t DEF CancelInflight, TypeOK
      <3> QED BY <3>2, <3>3, <3>4 DEF AskedInv
    <2>3. CASE CloseCancel(g)
      BY <2>2, <2>3 DEF CloseCancel
    <2>4. CASE InterruptCancel(g)
      BY <2>2, <2>4 DEF InterruptCancel
    <2>5. CASE ~CloseCancel(g) /\ ~InterruptCancel(g)
      <3>1. cancelled' = cancelled
        BY <1>5, <2>5
           DEF Step, TurnStep, CloseStep, Get, TurnLock, TurnRegister, TurnCall, TurnTools,
               TurnToolsDone, TurnAnswer, TurnError, TurnDeregister, TurnUnlock, CloseLookup,
               CloseLock, FinalizeLoad, FinalizeWrite, FinalizeFail, CloseUnlock, CloseRemove,
               ResetCreate, Read
      <3> QED BY <1>k, <2>1, <3>1
    <2> QED BY <2>3, <2>4, <2>5
  <1> QED BY <1>1, <1>2, <1>3, <1>4, <1>5 DEF Next, Served

\* No turn is cancelled unless a request asked to interrupt or close that very session.
THEOREM CancelHasCause == Spec => []CancelIsAsked
  <1>1. Init => AskedInv
    BY DEF Init, AskedInv
  <1>2. AskedInv => CancelIsAsked
    BY DEF AskedInv, AskedFor, CancelIsAsked
  <1> QED BY <1>1, <1>2, AskedStep, Invariance, PTL DEF Spec

-----------------------------------------------------------------------------
(* Reset                                                                   *)

\* What Reset returned was created by that reset alone, and is there until it is closed.
ClosingOf(s) == \E h \in Ops : pc[h] # "idle" /\ Kind(h) \in {"close", "reset"} /\ Target(h) = s
ResetInv == \A g \in Ops : outcome[g] \in Sessions =>
              /\ outcome[g] \in created
              /\ \A h \in Ops \ {g} : outcome[h] # outcome[g]
              /\ outcome[g] \in sessions \/ ClosingOf(outcome[g])

\* Only Reset returns sessions, always new ones; only Close removes them.
LEMMA ResetStep == IndInv /\ ResetInv /\ [Next]_vars => ResetInv'
  <1> SUFFICES ASSUME IndInv, ResetInv, [Next]_vars PROVE ResetInv'
    OBVIOUS
  <1> USE SessionsAssumption DEF lockVars, sessionVars, Goto, At, Return
  <1>t. TypeOK
    BY DEF IndInv
  <1>k. ASSUME \A h \in Ops : pc[h] # "idle" => pc'[h] # "idle" /\ op'[h] = op[h],
               NEW s, ClosingOf(s)
        PROVE  ClosingOf(s)'
    BY <1>k DEF ClosingOf, Kind, Target
  <1>n. ASSUME \A h \in Ops : pc[h] # "idle" => pc'[h] # "idle" /\ op'[h] = op[h],
               \A h \in Ops : outcome'[h] = outcome[h] \/ outcome'[h] \notin Sessions,
               sessions \subseteq sessions', created \subseteq created'
        PROVE  ResetInv'
    BY <1>n, <1>k DEF ResetInv
  <1>1. CASE UNCHANGED vars
    BY <1>1, <1>n DEF vars
  <1>2. CASE \E s \in Sessions : Create(s)
    BY <1>2, <1>n DEF Create, Insert
  <1>3. CASE \E g \in Ops, k \in Kinds, s \in created : Dispatch(g, k, s)
    BY <1>3, <1>t, <1>n DEF Dispatch, TypeOK
  <1>4. CASE Shutdown
    BY <1>4, <1>n DEF Shutdown
  <1>5. ASSUME NEW g \in Ops, Step(g) PROVE ResetInv'
    <2>1. \A h \in Ops : pc[h] # "idle" => pc'[h] # "idle" /\ op'[h] = op[h]
      <3>1. CASE TurnAnswer(g)
        BY <3>1, <1>t DEF TurnAnswer, TypeOK
      <3>2. CASE ~TurnAnswer(g)
        BY <3>2, <1>5, OtherSteps DEF Unrecorded
      <3> QED BY <3>1, <3>2
    <2>2. CASE \E s \in Sessions : ResetCreate(g, s)
      <3>1. PICK s \in Sessions : ResetCreate(g, s)
        BY <2>2
      <3>2. /\ s \notin created /\ created' = created \cup {s} /\ sessions' = sessions \cup {s}
            /\ outcome'[g] = s /\ \A h \in Ops \ {g} : outcome'[h] = outcome[h]
        BY <1>t, <3>1 DEF ResetCreate, Insert, TypeOK
      <3>3. \A h \in Ops : outcome[h] \in Sessions => outcome[h] # s
        BY <3>2 DEF ResetInv
      <3> QED BY <1>k, <2>1, <3>2, <3>3 DEF ResetInv
    <2>3. CASE CloseRemove(g)
      <3>1. pc[g] # "idle" /\ Kind(g) \in {"close", "reset"} /\ sessions' = sessions \ {Target(g)} /\ created' = created
        BY <2>3 DEF CloseRemove
      <3>2. ClosingOf(Target(g))
        BY <3>1 DEF ClosingOf
      <3>3. \A h \in Ops : outcome'[h] = outcome[h] \/ outcome'[h] \notin Sessions
        BY <1>t, <2>3 DEF CloseRemove, TypeOK
      <3> QED BY <1>k, <2>1, <3>1, <3>2, <3>3 DEF ResetInv
    <2>4. CASE ~CloseRemove(g) /\ ~\E s \in Sessions : ResetCreate(g, s)
      <3>1. sessions' = sessions /\ created' = created
        BY <1>5, <2>4
           DEF Step, TurnStep, CloseStep, Get, TurnLock, TurnRegister, TurnCall, TurnTools,
               TurnToolsDone, TurnAnswer, TurnError, TurnDeregister, TurnUnlock, CloseLookup,
               CloseCancel, CloseLock, FinalizeLoad, FinalizeWrite, FinalizeFail, CloseUnlock,
               InterruptCancel, Read
      <3>2. \/ outcome' = outcome
            \/ \E o \in {"ok", "error", "not_found"} : outcome' = [outcome EXCEPT ![g] = o]
        BY <1>5, <2>4
           DEF Step, TurnStep, CloseStep, Get, TurnLock, TurnRegister, TurnCall, TurnTools,
               TurnToolsDone, TurnAnswer, TurnError, TurnDeregister, TurnUnlock, CloseLookup,
               CloseCancel, CloseLock, FinalizeLoad, FinalizeWrite, FinalizeFail, CloseUnlock,
               InterruptCancel, Read
      <3>3. \A h \in Ops : outcome'[h] = outcome[h] \/ outcome'[h] \notin Sessions
        BY <1>t, <3>2 DEF TypeOK
      <3> QED BY <1>n, <2>1, <3>1, <3>3
    <2> QED BY <2>2, <2>3, <2>4
  <1> QED BY <1>1, <1>2, <1>3, <1>4, <1>5 DEF Next, Served

\* No two calls of Reset return the same session, and what one returns can be used until
\* somebody asks to close it.
THEOREM ResetsAreFresh == Spec => []ResetIsFresh
  <1>1. Init => ResetInv
    BY DEF Init, ResetInv
  <1>2. ResetInv => ResetIsFresh
    BY DEF ResetInv, ClosingOf, ResetIsFresh
  <1> QED BY <1>1, <1>2, ResetStep, Invariance, PTL DEF Spec

-----------------------------------------------------------------------------
(* The manager implements the session log                                  *)

\* A request names a session that was once created, whatever became of it since.
TargetInv == \A g \in Ops : pc[g] # "idle" => Target(g) \in created

\* Ids are never taken back, and a request keeps the session it names.
LEMMA TargetStep == IndInv /\ TargetInv /\ [Next]_vars => TargetInv'
  <1> SUFFICES ASSUME IndInv, TargetInv, [Next]_vars PROVE TargetInv'
    OBVIOUS
  <1>t. TypeOK
    BY DEF IndInv
  <1>1. created \subseteq created'
    BY DEF Next, Step, TurnStep, CloseStep, Create, Insert, Dispatch, Shutdown, Served, vars,
           sessionVars, Get, TurnLock, TurnRegister, TurnCall, TurnTools, TurnToolsDone,
           TurnAnswer, TurnError, TurnDeregister, TurnUnlock, CloseLookup, CloseCancel,
           CloseLock, FinalizeLoad, FinalizeWrite, FinalizeFail, CloseUnlock, CloseRemove,
           ResetCreate, InterruptCancel, Read
  <1>2. ASSUME \A g \in Ops : pc'[g] # "idle" => pc[g] # "idle", op' = op
        PROVE  TargetInv'
    BY <1>1, <1>2 DEF TargetInv, Target
  <1>3. CASE UNCHANGED vars \/ Shutdown \/ \E s \in Sessions : Create(s)
    BY <1>2, <1>3 DEF vars, Shutdown, Create
  <1>4. ASSUME NEW g \in Ops, NEW k \in Kinds, NEW s \in created, Dispatch(g, k, s)
        PROVE  TargetInv'
    BY <1>1, <1>4, <1>t DEF Dispatch, TargetInv, Target, TypeOK, Goto
  <1>5. ASSUME NEW g \in Ops, Step(g) PROVE TargetInv'
    <2>1. CASE TurnAnswer(g)
      BY <1>2, <1>t, <2>1 DEF TurnAnswer, At, Goto, TypeOK
    <2>2. CASE ~TurnAnswer(g)
      BY <1>2, <1>5, <2>2, OtherSteps DEF Unrecorded
    <2> QED BY <2>1, <2>2
  <1> QED BY <1>3, <1>4, <1>5 DEF Next, Served

\* Every step of the manager is a step of the log, or leaves it alone.
LEMMA LogStep == IndInv /\ HistInv /\ TargetInv /\ [Next]_vars => [Log!LogNext]_(Log!logVars)
  <1> SUFFICES ASSUME IndInv, HistInv, TargetInv, [Next]_vars
               PROVE  [Log!LogNext]_(Log!logVars)
    OBVIOUS
  <1>t. TypeOK
    BY DEF IndInv
  <1>1. ASSUME NEW s \in Sessions, Insert(s), messages' = messages PROVE Log!LogNext
    BY <1>1 DEF Insert, Log!LogNext, Log!Open
  <1>2. ASSUME NEW g \in Ops, TurnAnswer(g) PROVE Log!LogNext
    <2>1. pc[g] = "await" /\ outcome[g] = None
      BY <1>2 DEF TurnAnswer, At, HistInv, FreshInv, Early, TurnWork
    <2>2. Target(g) \in Sessions /\ Target(g) \in created
      BY <2>1, Started DEF TargetInv
    <2>3. messages' = [messages EXCEPT ![Target(g)] = Append(messages[Target(g)], g)]
      BY <1>2, <2>1 DEF TurnAnswer, IndInv, Core, StableView, Working, TurnWork
    <2>4. ~Log!Committed(g)
      BY <2>1 DEF Log!Committed, HistInv, RecordInv
    <2>5. Log!Commit(Target(g), g)
      BY <1>2, <2>2, <2>3, <2>4 DEF TurnAnswer, Log!Commit
    <2> QED BY <2>2, <2>5 DEF Log!LogNext
  <1>3. ASSUME NEW g \in Ops, CloseRemove(g) PROVE [Log!LogNext]_(Log!logVars)
    <2>1. Target(g) \in Sessions
      BY <1>3, Started DEF CloseRemove, At
    <2>2. CASE Target(g) \in sessions
      BY <1>3, <2>1, <2>2 DEF CloseRemove, Log!LogNext, Log!Remove
    <2>3. CASE Target(g) \notin sessions
      BY <1>3, <2>3 DEF CloseRemove, Log!logVars
    <2> QED BY <2>2, <2>3
  <1>4. ASSUME NEW g \in Ops, Step(g), ~TurnAnswer(g), ~CloseRemove(g),
               ~\E s \in Sessions : ResetCreate(g, s)
        PROVE  UNCHANGED sessionVars
    BY <1>4 DEF Step, TurnStep, CloseStep, sessionVars, Get, TurnLock, TurnRegister, TurnCall,
                TurnTools, TurnToolsDone, TurnError, TurnDeregister, TurnUnlock, CloseLookup,
                CloseCancel, CloseLock, FinalizeLoad, FinalizeWrite, FinalizeFail, CloseUnlock,
                InterruptCancel, Read
  <1>5. ASSUME UNCHANGED sessionVars PROVE UNCHANGED Log!logVars
    BY <1>5 DEF sessionVars, Log!logVars
  <1>6. CASE \E s \in Sessions : Create(s)
    BY <1>1, <1>6 DEF Create
  <1>7. CASE \/ \E g \in Ops, k \in Kinds, s \in created : Dispatch(g, k, s)
             \/ Shutdown \/ UNCHANGED vars
    BY <1>5, <1>7 DEF Dispatch, Shutdown, vars, sessionVars
  <1>8. ASSUME NEW g \in Ops, Step(g) PROVE [Log!LogNext]_(Log!logVars)
    <2>1. CASE \E s \in Sessions : ResetCreate(g, s)
      BY <1>1, <2>1 DEF ResetCreate
    <2> QED BY <1>2, <1>3, <1>4, <1>5, <1>8, <2>1
  <1> QED BY <1>6, <1>7, <1>8 DEF Next, Served

\* The manager implements the session log: ids are opened once, removed at most once, and
\* histories change only by atomic commits of turns not committed before.
THEOREM ManagerImplementsLog == Spec => ImplementsLog
  <1>1. Init => Log!LogInit
    BY DEF Init, Log!LogInit
  <1>2. Init => HistInv /\ TargetInv
    BY DEF Init, HistInv, FreshInv, RecordInv, DistinctInv, AnsweredInv, Early, TargetInv
  <1> QED BY <1>1, <1>2, HistStep, TargetStep, LogStep, Invariance, PTL
          DEF Spec, ImplementsLog, Log!LogSpec
=============================================================================
