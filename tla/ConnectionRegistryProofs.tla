----------------------- MODULE ConnectionRegistryProofs -----------------------
(***************************************************************************)
(* Theorems about ConnectionRegistry for every set of connections, socket  *)
(* handles and sending threads: a handle leads to its connection as long   *)
(* as anything refers to it, and so no message is queued on a stranger.    *)
(***************************************************************************)
EXTENDS ConnectionRegistry, TLAPS

USE ConnectionRegistryAssumption

\* Whatever refers to a connection refers to one that is alive, and a QueueSend
\* under way has found the connection its sender holds on to.
Links ==
  /\ acceptor # None => phase[acceptor] \in {"made", "live"}
  /\ \A k \in clients \union serving \union inFlight : phase[k] = "live"
  /\ \A s \in Senders :
       /\ \A k \in recipients[s] : phase[k] = "live"
       /\ target[s] # None => phase[target[s]] = "live"
       /\ found[s] # None => found[s] = target[s]

\* The invariant of the whole: it is kept by every step.
RegistryCore == RegistryInv /\ Links /\ RightRecipient

\* Whatever is referred to is not yet being destroyed.
LEMMA ReferredIsAlive ==
  ASSUME TypeOK, Links, NEW k \in Conns, Referred(k)
  PROVE  phase[k] \in {"made", "live"}
  BY DEF Referred, Links, TypeOK

\* A sender that holds on to its recipient finds it, and nobody else.
LEMMA FindsTheTarget ==
  ASSUME RegistryCore, NEW s \in Senders, target[s] # None
  PROVE  registry[handle[target[s]]] = target[s] /\ Referred(target[s])
  <1>1. target[s] \in Conns /\ phase[target[s]] = "live"
    BY DEF RegistryCore, RegistryInv, TypeOK, Links
  <1>2. Referred(target[s])
    BY DEF Referred
  <1>3. QED BY <1>1, <1>2 DEF RegistryCore, RegistryInv, Findable

\* Steps that leave the connections and their handles alone keep Findable and
\* OwnsItsHandle if they refer to nothing that was not referred to before.
LEMMA NoNewReference ==
  ASSUME Findable, OwnsItsHandle, UNCHANGED <<phase, handle, open, registry>>,
         \A k \in Conns : Referred(k)' => Referred(k)
  PROVE  Findable' /\ OwnsItsHandle'
  BY DEF Findable, OwnsItsHandle

\* A step of the accept loop or of the life of one connection.
LEMMA ConnStepKeeps ==
  ASSUME RegistryCore, NEW k \in Conns,
         \/ \E h \in Handles : AcceptSocket(k, h)
         \/ ConnStep(k)
         \/ Stop(k)
  PROVE  RegistryCore'
  <1> USE DEF RegistryCore, RegistryInv, sendVars
  <1>1. ASSUME NEW h \in Handles, AcceptSocket(k, h) PROVE RegistryCore'
    <2>1. TypeOK'
      BY <1>1 DEF AcceptSocket, TypeOK
    <2>2. Links' /\ RightRecipient'
      BY <1>1 DEF AcceptSocket, TypeOK, Links, RightRecipient
    <2>3. Findable'
      BY <1>1 DEF AcceptSocket, TypeOK, Findable, Referred
    <2>4. OwnsItsHandle'
      BY <1>1 DEF AcceptSocket, TypeOK, OwnsItsHandle
    <2>5. QED BY <2>1, <2>2, <2>3, <2>4
  <1>2. CASE Create(k)
    <2>0. handle[k] \in Handles
      BY <1>2 DEF Create, OwnsItsHandle, TypeOK
    <2>1. TypeOK'
      BY <1>2, <2>0 DEF Create, TypeOK
    <2>2. Links' /\ RightRecipient'
      BY <1>2 DEF Create, TypeOK, Links, RightRecipient
    <2>3. Findable'
      BY <1>2, <2>0 DEF Create, TypeOK, Findable, Referred, OwnsItsHandle
    <2>4. OwnsItsHandle'
      BY <1>2 DEF Create, TypeOK, OwnsItsHandle
    <2>5. QED BY <2>1, <2>2, <2>3, <2>4
  <1>3. CASE Serve(k)
    <2>1. TypeOK' /\ Links' /\ RightRecipient'
      BY <1>3 DEF Serve, TypeOK, Links, RightRecipient
    <2>2. Findable' /\ OwnsItsHandle'
      BY <1>3, NoNewReference DEF Serve, Referred
    <2>3. QED BY <2>1, <2>2
  <1>4. CASE Stop(k)
    <2>1. TypeOK' /\ Links' /\ RightRecipient'
      BY <1>4 DEF Stop, TypeOK, Links, RightRecipient
    <2>2. Findable' /\ OwnsItsHandle'
      BY <1>4, NoNewReference DEF Stop, Referred
    <2>3. QED BY <2>1, <2>2
  <1>5. CASE RemoveClient(k)
    <2>1. TypeOK' /\ Links' /\ RightRecipient'
      BY <1>5 DEF RemoveClient, TypeOK, Links, RightRecipient
    <2>2. Findable' /\ OwnsItsHandle'
      BY <1>5, NoNewReference DEF RemoveClient, Referred
    <2>3. QED BY <2>1, <2>2
  <1>6. CASE EndThread(k)
    <2>1. TypeOK' /\ Links' /\ RightRecipient'
      BY <1>6 DEF EndThread, TypeOK, Links, RightRecipient
    <2>2. Findable' /\ OwnsItsHandle'
      BY <1>6, NoNewReference DEF EndThread, Referred
    <2>3. QED BY <2>1, <2>2
  <1>7. CASE Release(k)
    <2>1. TypeOK' /\ Links' /\ RightRecipient'
      BY <1>7 DEF Release, TypeOK, Links, RightRecipient
    <2>2. Findable' /\ OwnsItsHandle'
      BY <1>7, NoNewReference DEF Release, Referred
    <2>3. QED BY <2>1, <2>2
  <1>8. CASE EraseEntry(k)
    <2>0. /\ handle[k] \in Handles
          /\ \A j \in Conns : Referred(j)' <=> Referred(j)
          /\ \A j \in Conns : phase'[j] = IF j = k THEN "erased" ELSE phase[j]
      BY <1>8 DEF EraseEntry, OwnsItsHandle, TypeOK, Referred
    <2>1. TypeOK'
      BY <1>8, <2>0 DEF EraseEntry, TypeOK
    <2>2. Links' /\ RightRecipient'
      BY <1>8 DEF EraseEntry, TypeOK, Links, RightRecipient, Referred
    <2>3. Findable'
      <3>1. \A h \in Handles : h # handle[k] => registry'[h] = registry[h]
        BY <1>8 DEF EraseEntry, TypeOK
      <3>2. \A j \in Conns : phase[j] = "live" => handle[j] \in Handles
        BY DEF OwnsItsHandle, TypeOK
      <3>3. ASSUME NEW j \in Conns, j # k, phase[j] = "live"
            PROVE  handle[j] # handle[k]
        BY <1>8, <3>3 DEF EraseEntry, OwnsItsHandle
      <3>4. handle' = handle
        BY <1>8 DEF EraseEntry
      <3>5. QED BY <2>0, <3>1, <3>2, <3>3, <3>4 DEF Findable
    <2>4. OwnsItsHandle'
      BY <1>8, <2>0 DEF EraseEntry, OwnsItsHandle
    <2>5. QED BY <2>1, <2>2, <2>3, <2>4
  <1>9. CASE CloseSocket(k)
    <2>1. TypeOK'
      BY <1>9 DEF CloseSocket, TypeOK
    <2>2. Links' /\ RightRecipient'
      BY <1>9 DEF CloseSocket, TypeOK, Links, RightRecipient
    <2>3. Findable'
      BY <1>9 DEF CloseSocket, TypeOK, Findable, Referred
    <2>4. OwnsItsHandle'
      BY <1>9 DEF CloseSocket, TypeOK, OwnsItsHandle
    <2>5. QED BY <2>1, <2>2, <2>3, <2>4
  <1>10. QED
    BY <1>1, <1>2, <1>3, <1>4, <1>5, <1>6, <1>7, <1>8, <1>9 DEF ConnStep, Destroy

\* A step of a thread that sends.
LEMMA SenderStepKeeps ==
  ASSUME RegistryCore, NEW s \in Senders, Gather(s) \/ SenderStep(s)
  PROVE  RegistryCore'
  <1> USE DEF RegistryCore, RegistryInv
  <1>1. CASE Gather(s)
    <2>1. TypeOK' /\ Links' /\ RightRecipient'
      BY <1>1 DEF Gather, TypeOK, Links, RightRecipient
    <2>2. Findable' /\ OwnsItsHandle'
      BY <1>1, NoNewReference DEF Gather, Referred, TypeOK
    <2>3. QED BY <2>1, <2>2
  <1>2. CASE NextRecipient(s)
    <2>1. TypeOK' /\ Links' /\ RightRecipient'
      BY <1>2 DEF NextRecipient, TypeOK, Links, RightRecipient
    <2>2. Findable' /\ OwnsItsHandle'
      BY <1>2, NoNewReference DEF NextRecipient, Referred, TypeOK
    <2>3. QED BY <2>1, <2>2
  <1>3. CASE LookUp(s)
    <2>1. /\ target[s] # None /\ target[s] \in Conns
          /\ found' = [found EXCEPT ![s] = target[s]] /\ target' = target
      BY <1>3, FindsTheTarget DEF LookUp, TypeOK
    <2>2. TypeOK' /\ Links' /\ RightRecipient'
      BY <1>3, <2>1 DEF LookUp, TypeOK, Links, RightRecipient
    <2>3. Findable' /\ OwnsItsHandle'
      BY <1>3, <2>1, NoNewReference DEF LookUp, Referred, TypeOK
    <2>4. QED BY <2>2, <2>3
  <1>4. CASE Enqueue(s)
    <2>1. found[s] \in Conns /\ target[s] = found[s] /\ phase[found[s]] = "live"
      BY <1>4 DEF Enqueue, TypeOK, Links
    <2>2. TypeOK' /\ Links' /\ RightRecipient'
      BY <1>4, <2>1 DEF Enqueue, TypeOK, Links, RightRecipient
    <2>3. Findable' /\ OwnsItsHandle'
      BY <1>4, <2>1, NoNewReference DEF Enqueue, Referred, TypeOK
    <2>4. QED BY <2>2, <2>3
  <1>5. QED BY <1>1, <1>2, <1>3, <1>4 DEF SenderStep

\* The invariant holds in every reachable state.
THEOREM RegistryCoreInvariant == Spec => []RegistryCore
  <1>1. Init => RegistryCore
    BY DEF Init, RegistryCore, RegistryInv, TypeOK, Findable, OwnsItsHandle, Links,
           RightRecipient
  <1>2. RegistryCore /\ [Next]_vars => RegistryCore'
    <2> SUFFICES ASSUME RegistryCore, [Next]_vars PROVE RegistryCore'
      OBVIOUS
    <2>1. CASE Next
      BY <2>1, ConnStepKeeps, SenderStepKeeps DEF Next
    <2>2. CASE UNCHANGED vars
      BY <2>2 DEF vars, sendVars, RegistryCore, RegistryInv, TypeOK, Findable, Referred,
                  OwnsItsHandle, Links, RightRecipient
    <2>3. QED BY <2>1, <2>2
  <1>3. QED BY <1>1, <1>2, PTL DEF Spec

\* A connection that anything refers to is found under its handle, and no two
\* connections ever own the same open handle, however handles are reused.
THEOREM RegistryCorrect == Spec => []RegistryInv
  <1>1. RegistryCore => RegistryInv
    BY DEF RegistryCore
  <1>2. QED BY <1>1, RegistryCoreInvariant, PTL

\* Every message is queued on the connection it was meant for.
THEOREM NoStrangerGetsIt == Spec => []RightRecipient
  <1>1. RegistryCore => RightRecipient
    BY DEF RegistryCore
  <1>2. QED BY <1>1, RegistryCoreInvariant, PTL
=============================================================================
