-------------------------- MODULE TransfersProofs --------------------------
(***************************************************************************)
(* Theorems about Transfers for every set of transfers, descriptors,       *)
(* devices and reads and every limit.                                      *)
(***************************************************************************)
EXTENDS Transfers, SequenceTheorems, TLAPS

(* The pipes of a read are its parts, and a part stays what it was started as; a
   list of parts to cancel names parts; a read that returned has all results. *)
PartsInv(r) ==
    /\ reader[r] = "idle" => parts[r] = <<>>
    /\ reader[r] = "starting" => phase = "commands" /\ device # None
    /\ reader[r] # "cancelling" => pending[r] = {}
    /\ pending[r] \subseteq Parts(r)
    /\ \A t \in Parts(r) : pipe[t] # None /\ pipe[t].read = r /\ future[t] # "none"
    /\ \A t \in Live : pipe[t].read = r => t \in Parts(r)
    /\ reader[r] = "returned" => \A t \in Parts(r) : future[t] = "result"

(* A part completes with bytes left only when the budget is overdrawn, and then
   the part that overdrew it has failed. *)
BudgetInv(r) ==
    /\ reader[r] # "idle" /\ remaining[r] < 0 =>
          \E t \in Parts(r) : future[t] = "error"
    /\ \A t \in Parts(r) :
          future[t] = "result" /\ pipe[t].left # 0 => remaining[r] < 0

IInv == /\ TypeOK /\ DescriptorsOwned /\ TransfersBelongToDevice
        /\ \A r \in Reads : PartsInv(r) /\ BudgetInv(r)

(* What a step that finishes transfers changes. *)
LEMMA FinishEffect ==
    ASSUME ServiceTypes, DescriptorsOwned, NEW S, NEW how \in {"result", "error"},
           Finish(S, how), pipe' = pipe
    PROVE  /\ ServiceTypes' /\ DescriptorsOwned'
           /\ Live' = Live \ S
           /\ future' = [t \in Transfers |-> IF t \in S \cap Live THEN how ELSE future[t]]
           /\ due' \subseteq due
<1> DEFINE F == S \cap Live
           fds == {pipe[t].fd : t \in F}
<1>1. /\ active' = [d \in Descriptors |-> IF d \in fds THEN None ELSE active[d]]
      /\ open' = open \ fds
      /\ future' = [t \in Transfers |-> IF t \in F THEN how ELSE future[t]]
      /\ due' = due \ F
  BY DEF Finish
<1>2. ServiceTypes'
  BY <1>1 DEF ServiceTypes
<1>3. \A t \in Transfers : t \in Live => pipe[t].fd \in Descriptors /\ active[pipe[t].fd] = t
  BY DEF Live, ServiceTypes, Pipes
<1>4. Live' = Live \ S
  <2>1. ASSUME NEW t \in Transfers PROVE t \in Live' <=> t \in Live /\ t \notin S
    <3>1. CASE pipe[t] = None
      BY <3>1 DEF Live
    <3>2. CASE pipe[t] # None
      <4>1. pipe[t].fd \in Descriptors
        BY <3>2 DEF ServiceTypes, Pipes
      <4>2. t \in Live' <=> active'[pipe[t].fd] = t
        BY <3>2 DEF Live
      <4>3. t \in Live <=> active[pipe[t].fd] = t
        BY <3>2 DEF Live
      <4>4. pipe[t].fd \in fds => active[pipe[t].fd] \in F
        BY <1>3 DEF Live
      <4>5. None # t
        BY NoneAssumption
      <4> QED
        BY <1>1, <4>1, <4>2, <4>3, <4>4, <4>5
    <3> QED
      BY <3>1, <3>2
  <2> QED
    BY <2>1 DEF Live
<1>5. DescriptorsOwned'
  <2>1. open' = {d \in Descriptors : active'[d] # None}
    BY <1>1 DEF DescriptorsOwned
  <2>2. \A d \in open' : pipe'[active'[d]] # None /\ pipe'[active'[d]].fd = d
    BY <1>1, <2>1 DEF DescriptorsOwned
  <2>3. \A t \in Transfers : future'[t] = "pending" <=> t \in Live'
    BY <1>1, <1>4 DEF DescriptorsOwned
  <2> QED
    BY <2>1, <2>2, <2>3 DEF DescriptorsOwned
<1> QED
  BY <1>1, <1>2, <1>4, <1>5

(* What a step that starts a transfer changes. *)
LEMMA RegisterEffect ==
    ASSUME ServiceTypes, DescriptorsOwned, device \in Devices,
           NEW t \in Transfers, NEW d \in Descriptors, NEW read \in Reads \cup {None},
           NEW size \in 0..MaxSize, Register(t, d, read, size)
    PROVE  /\ ServiceTypes' /\ DescriptorsOwned'
           /\ t \notin Live /\ Live' = Live \cup {t}
           /\ pipe'[t].read = read /\ pipe'[t].owner = device /\ pipe'[t] # None
           /\ \A u \in Transfers \ {t} : pipe'[u] = pipe[u] /\ future'[u] = future[u]
           /\ future'[t] = "pending"
           /\ t \in Unused
<1>1. /\ t \in Unused /\ d \notin open
      /\ active' = [active EXCEPT ![d] = t]
      /\ open' = open \cup {d}
      /\ pipe' = [pipe EXCEPT ![t] = [fd |-> d, owner |-> device, read |-> read,
                                      left |-> size, moved |-> 0]]
      /\ future' = [future EXCEPT ![t] = "pending"]
      /\ due' = due
  BY DEF Register
<1>2. t \notin Live
  BY <1>1 DEF Unused
<1>p. [fd |-> d, owner |-> device, read |-> read, left |-> size, moved |-> 0] \in Pipes
  BY SizesAssumption DEF Pipes
<1>3. ServiceTypes'
  BY <1>1, <1>p DEF ServiceTypes
<1>4. /\ pipe'[t] = [fd |-> d, owner |-> device, read |-> read, left |-> size, moved |-> 0]
      /\ \A u \in Transfers \ {t} : pipe'[u] = pipe[u] /\ future'[u] = future[u]
      /\ future'[t] = "pending"
  BY <1>1 DEF ServiceTypes
<1>5. pipe'[t] # None
  BY <1>4, <1>p, NoneAssumption
<1>6. active[d] = None
  BY <1>1 DEF DescriptorsOwned
<1>7. Live' = Live \cup {t}
  <2>1. t \in Live'
    BY <1>1, <1>4, <1>5 DEF Live, ServiceTypes
  <2>2. ASSUME NEW u \in Transfers, u # t PROVE u \in Live' <=> u \in Live
    <3>1. u # None
      BY NoneAssumption
    <3>2. pipe'[u] = pipe[u]
      BY <1>4, <2>2
    <3>3. pipe[u] # None => pipe[u].fd \in Descriptors
      BY DEF ServiceTypes, Pipes
    <3> QED
      BY <1>1, <1>6, <2>2, <3>1, <3>2, <3>3 DEF Live, ServiceTypes
  <2> QED
    BY <2>1, <2>2 DEF Live
<1>8. DescriptorsOwned'
  <2>0. t # None
    BY NoneAssumption
  <2>1. open' = {e \in Descriptors : active'[e] # None}
    BY <1>1, <2>0 DEF DescriptorsOwned, ServiceTypes
  <2>2. \A e \in open' : pipe'[active'[e]] # None /\ pipe'[active'[e]].fd = e
    <3> SUFFICES ASSUME NEW e \in open' PROVE pipe'[active'[e]] # None /\ pipe'[active'[e]].fd = e
      OBVIOUS
    <3>1. CASE e = d
      BY <3>1, <1>1, <1>4, <1>5 DEF ServiceTypes
    <3>2. CASE e # d
      <4>1. e \in open /\ active'[e] = active[e] /\ active[e] # None
        BY <3>2, <1>1 DEF ServiceTypes, DescriptorsOwned
      <4>2. active[e] \in Live
        BY <4>1 DEF Live, DescriptorsOwned, ServiceTypes
      <4> QED
        BY <4>1, <4>2, <1>2, <1>4 DEF DescriptorsOwned, Live
    <3> QED
      BY <3>1, <3>2
  <2>3. \A u \in Transfers : future'[u] = "pending" <=> u \in Live'
    BY <1>4, <1>7 DEF DescriptorsOwned
  <2> QED
    BY <2>1, <2>2, <2>3 DEF DescriptorsOwned
<1> QED
  BY <1>1, <1>2, <1>3, <1>4, <1>5, <1>7, <1>8

(* The first state satisfies the invariant. *)
LEMMA IInvInit == Init => IInv
<1> SUFFICES ASSUME Init PROVE IInv
  OBVIOUS
<1> USE DEF Init
<1>1. TypeOK
  <2>1. MaxBytes \in -1..MaxBytes
    BY SizesAssumption
  <2> QED
    BY <2>1 DEF TypeOK, LoopTypes, ServiceTypes, ReaderTypes
<1>2. Live = {}
  BY DEF Live
<1>3. DescriptorsOwned /\ TransfersBelongToDevice
  BY <1>2 DEF DescriptorsOwned, TransfersBelongToDevice
<1>4. \A r \in Reads : PartsInv(r) /\ BudgetInv(r)
  BY <1>2, SizesAssumption DEF PartsInv, BudgetInv, Parts
<1> QED
  BY <1>1, <1>3, <1>4 DEF IInv

(* Finishing transfers, for a read that does nothing or raises: a future that was
   answered stays so; a part that was not may complete, with no bytes left unless
   the budget is overdrawn; it may fail, and may overdraw its budget then. *)
LEMMA FinishKeeps ==
    ASSUME IInv, NEW S, NEW how \in {"result", "error"}, Finish(S, how), pipe' = pipe,
           NEW r \in Reads, parts'[r] = parts[r],
           \/ reader'[r] = reader[r] /\ pending'[r] = pending[r]
           \/ reader[r] # "idle" /\ reader'[r] = "raised" /\ pending'[r] = {},
           UNCHANGED <<phase, device>> \/ reader[r] # "starting",
           \A t \in S \cap Live :
               how = "result" /\ pipe[t].read = r /\ pipe[t].left # 0 => remaining[r] < 0,
           \/ remaining'[r] = remaining[r]
           \/ /\ remaining'[r] < 0 /\ how = "error"
              /\ \E t \in S \cap Live : pipe[t].read = r
    PROVE  PartsInv(r)' /\ BudgetInv(r)'
<1>1. /\ Live' = Live \ S
      /\ future' = [t \in Transfers |-> IF t \in S \cap Live THEN how ELSE future[t]]
  BY FinishEffect DEF IInv, TypeOK
<1>2. \A t \in Transfers : t \in Live <=> future[t] = "pending"
  BY DEF IInv, DescriptorsOwned
<1>3. Parts(r)' = Parts(r) /\ Parts(r) \subseteq Transfers
  <2>1. parts[r] \in Seq(Transfers)
    BY DEF IInv, TypeOK, ReaderTypes
  <2> QED
    BY <2>1 DEF Parts
<1>4. PartsInv(r) /\ BudgetInv(r)
  BY DEF IInv
<1>5. PartsInv(r)'
  <2>1. \A t \in Parts(r) : future'[t] # "none"
    BY <1>1, <1>3, <1>4 DEF PartsInv
  <2>2. reader[r] = "returned" => \A t \in Parts(r) : future'[t] = "result"
    BY <1>1, <1>2, <1>3, <1>4 DEF PartsInv
  <2> QED
    BY <1>1, <1>3, <1>4, <2>1, <2>2 DEF PartsInv
<1>6. BudgetInv(r)'
  <2>1. \A t \in Parts(r) : future[t] = "error" => future'[t] = "error"
    BY <1>1, <1>2, <1>3
  <2>2. ASSUME NEW t \in Parts(r), future'[t] = "result", pipe[t].left # 0
        PROVE  remaining[r] < 0
    BY <1>1, <1>3, <1>4, <2>2 DEF PartsInv, BudgetInv
  <2>3. ASSUME remaining'[r] # remaining[r]
        PROVE  remaining'[r] < 0 /\ \E t \in Parts(r) : future'[t] = "error"
    BY <1>1, <1>3, <1>4, <2>3 DEF PartsInv
  <2>4. pipe' = pipe /\ (reader'[r] # "idle" => reader[r] # "idle")
    OBVIOUS
  <2>5. CASE remaining'[r] = remaining[r]
    BY <1>3, <1>4, <2>1, <2>2, <2>4, <2>5 DEF BudgetInv
  <2>6. CASE remaining'[r] # remaining[r]
    BY <1>3, <2>3, <2>4, <2>6 DEF BudgetInv
  <2> QED
    BY <2>5, <2>6
<1> QED
  BY <1>5, <1>6

(* Starting a transfer for a read, or, with None, for nobody. *)
LEMMA RegisterKeeps ==
    ASSUME IInv, device \in Devices, NEW t \in Transfers, NEW d \in Descriptors,
           NEW read \in Reads \cup {None}, NEW size \in 0..MaxSize,
           Register(t, d, read, size), phase' = phase, device' = device,
           reader' = reader, remaining' = remaining, pending' = pending,
           NEW r \in Reads,
           IF r = read THEN reader[r] = "starting" /\ Parts(r)' = Parts(r) \cup {t}
                       ELSE parts'[r] = parts[r]
    PROVE  PartsInv(r)' /\ BudgetInv(r)'
<1>1. /\ t \notin Live /\ Live' = Live \cup {t} /\ t \in Unused
      /\ pipe'[t].read = read /\ pipe'[t] # None
      /\ \A u \in Transfers \ {t} : pipe'[u] = pipe[u] /\ future'[u] = future[u]
      /\ future'[t] = "pending"
  BY RegisterEffect DEF IInv, TypeOK
<1>2. PartsInv(r) /\ BudgetInv(r)
  BY DEF IInv
<1>3. Parts(r) \subseteq Transfers \ {t}
  <2>1. parts[r] \in Seq(Transfers)
    BY DEF IInv, TypeOK, ReaderTypes
  <2> QED
    BY <1>1, <2>1 DEF Parts, Unused
<1>4. Live \subseteq Transfers \ {t}
  BY <1>1 DEF Live
<1>5. CASE r = read
  <2>1. reader[r] = "starting" /\ Parts(r)' = Parts(r) \cup {t}
    BY <1>5
  <2>2. PartsInv(r)'
    BY <1>1, <1>2, <1>3, <1>4, <1>5, <2>1 DEF PartsInv
  <2>3. BudgetInv(r)'
    BY <1>1, <1>2, <1>3, <1>5, <2>1 DEF BudgetInv
  <2> QED
    BY <2>2, <2>3
<1>6. CASE r # read
  <2>1. Parts(r)' = Parts(r) /\ parts'[r] = parts[r]
    BY <1>6 DEF Parts
  <2>2. PartsInv(r)'
    BY <1>1, <1>2, <1>3, <1>4, <1>6, <2>1 DEF PartsInv
  <2>3. BudgetInv(r)'
    BY <1>1, <1>2, <1>3, <2>1 DEF BudgetInv
  <2> QED
    BY <2>2, <2>3
<1> QED
  BY <1>5, <1>6

(* Moving bytes through a live pipe of a read whose budget they do not exceed. *)
LEMMA MovesKeeps ==
    ASSUME IInv, NEW t \in Transfers, NEW n \in Nat, t \in Live, n \in 1..pipe[t].left,
           Moves(t, n),
           phase' = phase, device' = device,
           reader' = reader, parts' = parts, pending' = pending,
           remaining' \in [Reads -> -1..MaxBytes],
           \A r \in Reads : \/ remaining'[r] = remaining[r]
                            \/ remaining'[r] >= 0 /\ remaining[r] >= 0
    PROVE  /\ ServiceTypes' /\ DescriptorsOwned' /\ TransfersBelongToDevice'
           /\ \A r \in Reads : PartsInv(r)' /\ BudgetInv(r)'
<1>1. /\ t \in Transfers /\ pipe[t] \in Pipes
      /\ pipe[t].left \in 0..MaxSize /\ pipe[t].moved \in 0..MaxSize
      /\ pipe[t].left + pipe[t].moved <= MaxSize
      /\ pipe[t] # None
  BY DEF Live, IInv, TypeOK, ServiceTypes, Pipes
<1>2. /\ pipe' = [pipe EXCEPT ![t].left = @ - n, ![t].moved = @ + n]
      /\ active' = active /\ open' = open /\ future' = future /\ due' = due
  BY DEF Moves
<1>3. /\ pipe'[t] \in Pipes
      /\ pipe'[t].fd = pipe[t].fd /\ pipe'[t].read = pipe[t].read
      /\ pipe'[t].owner = pipe[t].owner
      /\ \A u \in Transfers \ {t} : pipe'[u] = pipe[u]
  <2>1. pipe[t].left - n \in 0..MaxSize /\ pipe[t].moved + n \in 0..MaxSize
        /\ (pipe[t].left - n) + (pipe[t].moved + n) <= MaxSize
    BY <1>1, SizesAssumption
  <2>2. pipe \in [Transfers -> Pipes \cup {None}]
    BY DEF IInv, TypeOK, ServiceTypes
  <2>3. pipe'[t] = [pipe[t] EXCEPT !.left = @ - n, !.moved = @ + n]
    BY <1>1, <1>2, <2>2
  <2> QED
    BY <1>1, <1>2, <2>1, <2>2, <2>3 DEF Pipes
<1>4. pipe'[t] # None
  BY <1>3, NoneAssumption
<1>5. ServiceTypes'
  <2>1. pipe' \in [Transfers -> Pipes \cup {None}]
    BY <1>2, <1>3 DEF IInv, TypeOK, ServiceTypes
  <2> QED
    BY <1>2, <2>1 DEF IInv, TypeOK, ServiceTypes
<1>6. Live' = Live
  BY <1>1, <1>2, <1>3, <1>4 DEF Live
<1>7. Live \subseteq Transfers
  BY DEF Live
<1>8. DescriptorsOwned'
  <2>1. \A d \in open : active[d] \in Live /\ pipe[active[d]].fd = d
    BY DEF IInv, TypeOK, ServiceTypes, DescriptorsOwned, Live
  <2>2. DescriptorsOwned
    BY DEF IInv
  <2>3. open' = {d \in Descriptors : active'[d] # None}
    BY <1>2, <2>2 DEF DescriptorsOwned
  <2>4. \A u \in Live : pipe'[u].fd = pipe[u].fd /\ (pipe[u] # None => pipe'[u] # None)
    BY <1>3, <1>4, <1>7
  <2>5. \A d \in open' : pipe'[active'[d]] # None /\ pipe'[active'[d]].fd = d
    BY <1>2, <2>1, <2>2, <2>4 DEF DescriptorsOwned
  <2>6. \A u \in Transfers : future'[u] = "pending" <=> u \in Live'
    BY <1>2, <1>6, <2>2 DEF DescriptorsOwned
  <2> QED
    BY <2>3, <2>5, <2>6 DEF DescriptorsOwned
<1>9. TransfersBelongToDevice'
  BY <1>3, <1>6, <1>7 DEF IInv, TransfersBelongToDevice
<1>10. ASSUME NEW r \in Reads PROVE PartsInv(r)' /\ BudgetInv(r)'
  <2>1. PartsInv(r) /\ BudgetInv(r)
    BY DEF IInv
  <2>2. Parts(r)' = Parts(r) /\ Parts(r) \subseteq Transfers
    <3>1. parts[r] \in Seq(Transfers)
      BY DEF IInv, TypeOK, ReaderTypes
    <3> QED
      BY <3>1 DEF Parts
  <2>3. future[t] = "pending"
    BY <1>1 DEF IInv, DescriptorsOwned
  <2>4. PartsInv(r)'
    BY <1>2, <1>3, <1>4, <1>6, <1>7, <2>1, <2>2 DEF PartsInv
  <2>5. \A u \in Parts(r) : future[u] = "result" => pipe'[u] = pipe[u]
    BY <1>3, <2>2, <2>3
  <2>6. remaining[r] \in Int /\ remaining'[r] \in Int
    BY SizesAssumption DEF IInv, TypeOK, ReaderTypes
  <2>7. BudgetInv(r)'
    <3>1. CASE remaining'[r] = remaining[r]
      BY <1>2, <2>1, <2>2, <2>5, <3>1 DEF BudgetInv
    <3>2. CASE remaining'[r] >= 0 /\ remaining[r] >= 0 /\ remaining'[r] # remaining[r]
      <4>1. ~(remaining[r] < 0) /\ ~(remaining'[r] < 0)
        BY <2>6, <3>2
      <4>2. \A u \in Parts(r) : ~(future[u] = "result" /\ pipe[u].left # 0)
        BY <2>1, <4>1 DEF BudgetInv
      <4>3. \A u \in Parts(r)' : ~(future'[u] = "result" /\ pipe'[u].left # 0)
        BY <1>2, <2>2, <2>5, <4>2
      <4> QED
        BY <4>1, <4>3 DEF BudgetInv
    <3> QED
      BY <3>1, <3>2
  <2> QED
    BY <2>4, <2>7
<1> QED
  BY <1>5, <1>8, <1>9, <1>10

(* Every step of service(). *)
LEMMA ServeStep ==
    ASSUME IInv, NEW t \in Transfers, Serve(t)
    PROVE  IInv'
<1> USE DEF loop, service, readers
<1>1. LoopTypes' /\ phase' = phase /\ device' = device
      /\ reader' = reader /\ parts' = parts /\ pending' = pending /\ t \in selected
  BY DEF Serve, ServeNothing, ServeFails, ServeRead, ServeWrite, Serving, IInv,
         TypeOK, LoopTypes
<1>2. ReaderTypes /\ LoopTypes /\ ServiceTypes /\ DescriptorsOwned /\ TransfersBelongToDevice
  BY DEF IInv, TypeOK
<1>3. CASE ServeNothing(t)
  <2>1. UNCHANGED <<service, remaining>>
    BY <1>3 DEF ServeNothing
  <2>2. Live' = Live /\ \A r \in Reads : Parts(r)' = Parts(r)
    BY <1>1, <2>1 DEF Live, Parts
  <2>3. ServiceTypes' /\ ReaderTypes' /\ DescriptorsOwned' /\ TransfersBelongToDevice'
    BY <1>1, <1>2, <2>1, <2>2 DEF ServiceTypes, ReaderTypes, DescriptorsOwned,
       TransfersBelongToDevice
  <2>4. \A r \in Reads : PartsInv(r)' /\ BudgetInv(r)'
    BY <1>1, <2>1, <2>2 DEF IInv, PartsInv, BudgetInv
  <2> QED
    BY <1>1, <2>3, <2>4 DEF IInv, TypeOK
<1>4. ASSUME NEW how \in {"result", "error"}, Finish({t}, how), pipe' = pipe, ReaderTypes',
             t \in Live,
             \A r \in Reads :
               how = "result" /\ pipe[t].read = r /\ pipe[t].left # 0 => remaining[r] < 0,
             \A r \in Reads : \/ remaining'[r] = remaining[r]
                              \/ /\ remaining'[r] < 0 /\ how = "error" /\ pipe[t].read = r
      PROVE  IInv'
  <2>1. ServiceTypes' /\ DescriptorsOwned' /\ Live' = Live \ {t}
    BY <1>2, <1>4, FinishEffect
  <2>2. TransfersBelongToDevice'
    BY <1>1, <1>2, <1>4, <2>1 DEF TransfersBelongToDevice
  <2>3. \A r \in Reads : PartsInv(r)' /\ BudgetInv(r)'
    BY <1>1, <1>4, FinishKeeps
  <2> QED
    BY <1>1, <1>4, <2>1, <2>2, <2>3 DEF IInv, TypeOK
<1>5. ReaderTypes' \/ remaining' # remaining
  BY <1>1, <1>2 DEF ReaderTypes
<1>6. CASE ServeFails(t)
  BY <1>4, <1>5, <1>6 DEF ServeFails
<1>7. CASE ServeWrite(t)
  <2>1. t \in Live /\ pipe[t].read = None /\ remaining' = remaining
    BY <1>7 DEF ServeWrite, Writes
  <2>2. \A r \in Reads : pipe[t].read # r
    BY <2>1, NoneAssumption
  <2>3. CASE Completes(t) /\ pipe' = pipe
    BY <1>4, <1>5, <2>1, <2>2, <2>3 DEF Completes
  <2>4. ASSUME NEW n \in 1..Smaller(Chunk, pipe[t].left - 1), Moves(t, n) PROVE IInv'
    <3>1. pipe[t].left \in Nat
      BY <2>1, NoneAssumption DEF Live, ServiceTypes, IInv, TypeOK, Pipes
    <3>2. n \in Nat /\ n \in 1..pipe[t].left
      BY <2>4, <3>1, SizesAssumption DEF Smaller
    <3>3. ReaderTypes'
      BY <1>5, <2>1
    <3>5. remaining' \in [Reads -> -1..MaxBytes]
      BY <3>3 DEF ReaderTypes
    <3>4. /\ ServiceTypes' /\ DescriptorsOwned' /\ TransfersBelongToDevice'
          /\ \A r \in Reads : PartsInv(r)' /\ BudgetInv(r)'
      <4>1. \A r \in Reads : \/ remaining'[r] = remaining[r]
                             \/ remaining'[r] >= 0 /\ remaining[r] >= 0
        BY <2>1
      <4>2. phase' = phase /\ device' = device /\ reader' = reader /\ parts' = parts
            /\ pending' = pending
        BY <1>1
      <4> QED
        BY <2>1, <2>4, <3>2, <3>5, <4>1, <4>2, MovesKeeps, Zenon
    <3> QED
      BY <1>1, <3>3, <3>4 DEF IInv, TypeOK
  <2> QED
    BY <1>7, <2>3, <2>4 DEF ServeWrite
<1>8. CASE ServeRead(t)
  <2> DEFINE r == pipe[t].read
             ask == Smaller(Chunk, remaining[r] + 1)
  <2>1. t \in Live /\ r \in Reads /\ pipe[t].left \in Nat /\ remaining[r] \in -1..MaxBytes
    BY <1>2, <1>8 DEF ServeRead, Writes, Live, ServiceTypes, Pipes, ReaderTypes
  <2>2. CASE (pipe[t].left = 0 \/ ask = 0) /\ Completes(t) /\ UNCHANGED <<pipe, remaining>>
    <3>1. pipe[t].left # 0 => remaining[r] < 0
      BY <2>1, <2>2, SizesAssumption DEF Smaller
    <3>2. ReaderTypes'
      BY <1>5, <2>2
    <3> QED
      BY <1>4, <2>1, <2>2, <3>1, <3>2 DEF Completes
  <2>3. ASSUME NEW n \in 1..Smaller(ask, pipe[t].left),
               remaining' = [remaining EXCEPT ![r] = @ - n]
        PROVE  /\ n \in Nat /\ n \in 1..pipe[t].left /\ ReaderTypes'
               /\ remaining'[r] = remaining[r] - n
               /\ \A q \in Reads \ {r} : remaining'[q] = remaining[q]
    <3>1. n \in Nat /\ n \in 1..pipe[t].left /\ n <= remaining[r] + 1
      BY <2>1, <2>3, SizesAssumption DEF Smaller
    <3>2. remaining[r] - n \in -1..MaxBytes
      BY <2>1, <3>1, SizesAssumption
    <3>3. remaining' \in [Reads -> -1..MaxBytes]
      BY <1>2, <2>1, <2>3, <3>2 DEF ReaderTypes
    <3>4. ReaderTypes'
      BY <1>1, <1>2, <3>3 DEF ReaderTypes
    <3> QED
      BY <1>2, <2>1, <2>3, <3>1, <3>4 DEF ReaderTypes
  <2>4. ASSUME NEW n \in 1..Smaller(ask, pipe[t].left),
               remaining' = [remaining EXCEPT ![r] = @ - n],
               remaining[r] < n, Finish({t}, "error"), pipe' = pipe
        PROVE  IInv'
    <3>0. /\ n \in Nat /\ n \in 1..pipe[t].left /\ ReaderTypes'
          /\ remaining'[r] = remaining[r] - n
          /\ \A q \in Reads \ {r} : remaining'[q] = remaining[q]
      BY <2>3, <2>4, Zenon
    <3>1. ReaderTypes' /\ remaining'[r] < 0
          /\ \A q \in Reads \ {r} : remaining'[q] = remaining[q]
      BY <2>1, <2>4, <3>0
    <3> QED
      BY <1>4, <2>1, <2>4, <3>1
  <2>5. ASSUME NEW n \in 1..Smaller(ask, pipe[t].left),
               remaining' = [remaining EXCEPT ![r] = @ - n],
               ~(remaining[r] < n), Moves(t, n)
        PROVE  IInv'
    <3>0. /\ n \in Nat /\ n \in 1..pipe[t].left /\ ReaderTypes'
          /\ remaining'[r] = remaining[r] - n
          /\ \A q \in Reads \ {r} : remaining'[q] = remaining[q]
      BY <2>3, <2>5, Zenon
    <3>1. remaining'[r] >= 0 /\ remaining[r] >= 0
      BY <2>1, <2>5, <3>0
    <3>3. remaining' \in [Reads -> -1..MaxBytes]
      BY <3>0 DEF ReaderTypes
    <3>4. \A q \in Reads : \/ remaining'[q] = remaining[q]
                           \/ remaining'[q] >= 0 /\ remaining[q] >= 0
      BY <3>0, <3>1
    <3>2. /\ ServiceTypes' /\ DescriptorsOwned' /\ TransfersBelongToDevice'
          /\ \A q \in Reads : PartsInv(q)' /\ BudgetInv(q)'
      BY <1>1, <2>1, <2>5, <3>0, <3>3, <3>4, MovesKeeps
    <3> QED
      BY <1>1, <3>0, <3>2 DEF IInv, TypeOK
  <2>6. \/ (pipe[t].left = 0 \/ ask = 0) /\ Completes(t) /\ UNCHANGED <<pipe, remaining>>
        \/ \E n \in 1..Smaller(ask, pipe[t].left) :
             /\ remaining' = [remaining EXCEPT ![r] = @ - n]
             /\ IF remaining[r] < n THEN Finish({t}, "error") /\ UNCHANGED pipe
                                    ELSE Moves(t, n)
    BY <1>8 DEF ServeRead
  <2> QED
    BY <2>2, <2>4, <2>5, <2>6
<1> QED
  BY <1>3, <1>6, <1>7, <1>8 DEF Serve

(* A step that leaves transfers and readers alone, but for deadlines. *)
LEMMA Quiet ==
    ASSUME IInv, LoopTypes', UNCHANGED <<active, open, pipe, future, readers>>,
           due' \in SUBSET Transfers, device' = device \/ Live = {},
           UNCHANGED <<phase, device>> \/ \A r \in Reads : reader[r] # "starting"
    PROVE  IInv'
<1> USE DEF readers
<1>1. Live' = Live /\ \A r \in Reads : Parts(r)' = Parts(r)
  BY DEF Live, Parts
<1>2. TypeOK'
  BY DEF IInv, TypeOK, ServiceTypes, ReaderTypes
<1>3. DescriptorsOwned' /\ TransfersBelongToDevice'
  BY <1>1 DEF IInv, DescriptorsOwned, TransfersBelongToDevice
<1>4. ASSUME NEW r \in Reads PROVE PartsInv(r)' /\ BudgetInv(r)'
  BY <1>1 DEF IInv, PartsInv, BudgetInv
<1> QED
  BY <1>2, <1>3, <1>4 DEF IInv

(* A step of the loop or an event that fails transfers. *)
LEMMA Failing ==
    ASSUME IInv, LoopTypes', NEW S, Finish(S, "error"), pipe' = pipe, readers' = readers,
           device' = device \/ Live \subseteq S,
           UNCHANGED <<phase, device>> \/ \A r \in Reads : reader[r] # "starting"
    PROVE  IInv'
<1> USE DEF readers
<1>1. ServiceTypes' /\ DescriptorsOwned' /\ Live' = Live \ S
  BY FinishEffect DEF IInv, TypeOK
<1>2. ReaderTypes'
  BY DEF IInv, TypeOK, ReaderTypes
<1>3. TransfersBelongToDevice'
  BY <1>1 DEF IInv, TransfersBelongToDevice
<1>4. ASSUME NEW r \in Reads PROVE PartsInv(r)' /\ BudgetInv(r)'
  BY FinishKeeps
<1> QED
  BY <1>1, <1>2, <1>3, <1>4 DEF IInv, TypeOK

(* Every other step of the loop, deadlines and compositor events. *)
LEMMA LoopStep ==
    ASSUME IInv,
           \/ Prepare \/ Select \/ Dispatched \/ Served \/ Close \/ Reopen
           \/ Compositor \/ \E t \in Transfers : Tick(t)
    PROVE  IInv'
<1> USE DEF loop, service, readers
<1>t. LoopTypes /\ ServiceTypes /\ ReaderTypes /\ TransfersBelongToDevice
      /\ \A r \in Reads : reader[r] = "starting" => phase = "commands"
  BY DEF IInv, TypeOK, PartsInv
<1>d. due \in SUBSET Transfers /\ Live \subseteq Transfers
  BY <1>t DEF ServiceTypes, Live
<1>1. CASE Prepare
  BY <1>1, <1>t, Failing DEF Prepare, Expire, Between, LoopTypes
<1>2. CASE Select
  BY <1>2, <1>t, <1>d, Quiet DEF Select, LoopTypes
<1>3. CASE Dispatched
  BY <1>3, <1>t, Failing DEF Dispatched, Expire, LoopTypes
<1>4. CASE Served
  BY <1>4, <1>t, <1>d, Quiet DEF Served, LoopTypes
<1>5. CASE Close
  BY <1>5, <1>t, <1>d, Failing DEF Close, Between, LoopTypes
<1>6. CASE Reopen
  BY <1>6, <1>t, <1>d, Quiet DEF Reopen, LoopTypes
<1>7. CASE \E t \in Transfers : Tick(t)
  BY <1>7, <1>t, <1>d, Quiet DEF Tick, LoopTypes
<1>8. ASSUME NEW d \in Devices, AddDevice(d) PROVE IInv'
  <2>1. Live = {}
    <3>1. \A t \in Live : pipe[t].owner \in Devices /\ pipe[t].owner = None
      BY <1>8, <1>t DEF AddDevice, TransfersBelongToDevice, Live, ServiceTypes, Pipes
    <3> QED
      BY <3>1, NoneAssumption
  <2> QED
    BY <1>8, <1>t, <1>d, <2>1, Quiet DEF AddDevice, Dispatching, LoopTypes
<1>9. CASE RetireDevice
  <2>1. {t \in Live : pipe[t].owner = device} = Live
    BY <1>t DEF TransfersBelongToDevice
  <2>2. Finish(Live, "error")
    BY <1>9, <2>1 DEF RetireDevice
  <2> QED
    BY <1>9, <1>t, <2>2, Failing DEF RetireDevice, Dispatching, LoopTypes
<1>10. ASSUME NEW t \in Transfers, NEW d \in Descriptors, SendData(t, d) PROVE IInv'
  <2>1. PICK size \in 0..Smaller(MaxSize, MaxBytes) : Register(t, d, None, size)
    BY <1>10 DEF SendData
  <2>2. size \in 0..MaxSize /\ device \in Devices /\ UNCHANGED <<loop, readers>>
    BY <1>10, <1>t, SizesAssumption DEF SendData, Smaller, LoopTypes
  <2>3. /\ ServiceTypes' /\ DescriptorsOwned' /\ Live' = Live \cup {t} /\ t \notin Live
        /\ pipe'[t].owner = device /\ \A u \in Transfers \ {t} : pipe'[u] = pipe[u]
    BY <2>1, <2>2, RegisterEffect DEF IInv, TypeOK
  <2>4. TransfersBelongToDevice'
    BY <1>t, <1>d, <2>2, <2>3 DEF TransfersBelongToDevice
  <2>5. ASSUME NEW r \in Reads PROVE PartsInv(r)' /\ BudgetInv(r)'
    <3>1. r # None
      BY NoneAssumption
    <3> QED
      BY <2>1, <2>2, <3>1, RegisterKeeps
  <2>6. LoopTypes' /\ ReaderTypes'
    BY <1>t, <2>2 DEF LoopTypes, ReaderTypes
  <2> QED
    BY <2>3, <2>4, <2>5, <2>6 DEF IInv, TypeOK
<1> QED
  BY <1>1, <1>2, <1>3, <1>4, <1>5, <1>6, <1>7, <1>8, <1>9, <1>10 DEF Compositor

(* A step of one read that leaves transfers alone. *)
LEMMA Reading ==
    ASSUME IInv, NEW r \in Reads, UNCHANGED <<loop, service>>, ReaderTypes',
           \A q \in Reads \ {r} : /\ reader'[q] = reader[q] /\ parts'[q] = parts[q]
                                  /\ pending'[q] = pending[q]
                                  /\ remaining'[q] = remaining[q],
           PartsInv(r)' /\ BudgetInv(r)'
    PROVE  IInv'
<1> USE DEF loop, service
<1>1. Live' = Live /\ \A q \in Reads \ {r} : Parts(q)' = Parts(q)
  BY DEF Live, Parts
<1>2. TypeOK'
  BY DEF IInv, TypeOK, ServiceTypes, LoopTypes
<1>3. DescriptorsOwned' /\ TransfersBelongToDevice'
  BY <1>1 DEF IInv, DescriptorsOwned, TransfersBelongToDevice
<1>4. ASSUME NEW q \in Reads \ {r} PROVE PartsInv(q)' /\ BudgetInv(q)'
  BY <1>1 DEF IInv, PartsInv, BudgetInv
<1> QED
  BY <1>2, <1>3, <1>4 DEF IInv

(* A step of one read that fails some of its pipes and raises. *)
LEMMA Raising ==
    ASSUME IInv, NEW r \in Reads, NEW S, Finish(S, "error"), pipe' = pipe,
           UNCHANGED <<loop, remaining, parts>>, reader[r] # "idle",
           reader' = [reader EXCEPT ![r] = "raised"],
           pending' = [pending EXCEPT ![r] = {}]
    PROVE  IInv'
<1> USE DEF loop
<1>1. ServiceTypes' /\ DescriptorsOwned' /\ Live' = Live \ S
  BY FinishEffect DEF IInv, TypeOK
<1>2. LoopTypes' /\ ReaderTypes' /\ TransfersBelongToDevice'
  BY <1>1 DEF IInv, TypeOK, LoopTypes, ReaderTypes, TransfersBelongToDevice
<1>3. ASSUME NEW q \in Reads PROVE PartsInv(q)' /\ BudgetInv(q)'
  <2>1. \/ reader'[q] = reader[q] /\ pending'[q] = pending[q]
        \/ reader[q] # "idle" /\ reader'[q] = "raised" /\ pending'[q] = {}
    BY DEF IInv, TypeOK, ReaderTypes
  <2> QED
    BY <2>1, FinishKeeps
<1> QED
  BY <1>1, <1>2, <1>3 DEF IInv, TypeOK

(* Every step of a read. *)
LEMMA ReadStep ==
    ASSUME IInv, NEW r \in Reads, Begin(r) \/ Wait(r)
    PROVE  IInv'
<1>t. LoopTypes /\ ServiceTypes /\ ReaderTypes /\ PartsInv(r) /\ BudgetInv(r)
  BY DEF IInv, TypeOK
<1>l. Live' = Live \/ service' # service
  BY DEF Live, service
<1>p. Parts(r) \subseteq Transfers
  <2>1. parts[r] \in Seq(Transfers)
    BY <1>t DEF ReaderTypes
  <2> QED
    BY <2>1 DEF Parts
<1>1. CASE BeginRead(r)
  <2>1. MaxBytes \in -1..MaxBytes /\ ~(MaxBytes < 0)
    BY SizesAssumption
  <2>2. ReaderTypes' /\ UNCHANGED <<loop, service>>
    BY <1>1, <1>t, <2>1 DEF BeginRead, ReaderTypes
  <2>3. /\ parts' = parts /\ parts[r] = <<>> /\ remaining'[r] = MaxBytes
        /\ reader'[r] = "starting" /\ phase = "commands" /\ pending' = pending
        /\ pending[r] = {} /\ device # None
    BY <1>1, <1>t DEF BeginRead, ReaderTypes, PartsInv
  <2>4. Parts(r)' = {} /\ Parts(r) = {}
    BY <2>3 DEF Parts
  <2>5. PartsInv(r)' /\ BudgetInv(r)'
    BY <1>t, <1>l, <2>1, <2>2, <2>3, <2>4 DEF PartsInv, BudgetInv, loop, service
  <2> QED
    BY <1>1, <2>2, <2>5, Reading DEF BeginRead, ReaderTypes
<1>2. ASSUME NEW t \in Transfers, NEW d \in Descriptors, StartPart(r, t, d)
      PROVE  IInv'
  <2>1. PICK size \in 0..MaxSize : Register(t, d, r, size)
    BY <1>2 DEF StartPart
  <2>2. /\ parts' = [parts EXCEPT ![r] = Append(@, t)] /\ reader[r] = "starting"
        /\ UNCHANGED <<loop, remaining, reader, pending>>
    BY <1>2 DEF StartPart
  <2>3. parts'[r] = Append(parts[r], t) /\ parts' \in [Reads -> Seq(Transfers)]
        /\ \A q \in Reads \ {r} : parts'[q] = parts[q]
    BY <1>t, <2>2, AppendProperties DEF ReaderTypes
  <2>4. Parts(r)' = Parts(r) \cup {t}
    <3>1. parts[r] \in Seq(Transfers)
      BY <1>t DEF ReaderTypes
    <3>2. /\ DOMAIN Append(parts[r], t) = 1..(Len(parts[r]) + 1)
          /\ DOMAIN parts[r] = 1..Len(parts[r]) /\ Len(parts[r]) \in Nat
          /\ Append(parts[r], t)[Len(parts[r]) + 1] = t
          /\ \A i \in 1..Len(parts[r]) : Append(parts[r], t)[i] = parts[r][i]
      BY <3>1, AppendProperties, LenProperties
    <3> QED
      BY <2>3, <3>2 DEF Parts
  <2>5. device \in Devices
    BY <1>t, <2>2 DEF PartsInv, LoopTypes
  <2>6. /\ ServiceTypes' /\ DescriptorsOwned' /\ Live' = Live \cup {t} /\ t \notin Live
        /\ pipe'[t].owner = device /\ \A u \in Transfers \ {t} : pipe'[u] = pipe[u]
    BY <1>t, <2>1, <2>5, RegisterEffect DEF IInv
  <2>7. TransfersBelongToDevice'
    BY <2>2, <2>6 DEF IInv, TransfersBelongToDevice, Live, loop
  <2>8. ASSUME NEW q \in Reads PROVE PartsInv(q)' /\ BudgetInv(q)'
    BY <2>1, <2>2, <2>3, <2>4, <2>5, RegisterKeeps DEF loop
  <2>9. LoopTypes' /\ ReaderTypes'
    BY <1>t, <2>2, <2>3 DEF LoopTypes, ReaderTypes, loop
  <2> QED
    BY <2>6, <2>7, <2>8, <2>9 DEF IInv, TypeOK
<1>3. CASE BeginReadFails(r)
  <2>1. /\ Finish(Parts(r), "error") /\ pipe' = pipe /\ reader[r] # "idle"
        /\ UNCHANGED <<loop, remaining, parts>>
        /\ reader' = [reader EXCEPT ![r] = "raised"]
    BY <1>3 DEF BeginReadFails
  <2>2. pending' = [pending EXCEPT ![r] = {}]
    BY <1>3, <1>t DEF BeginReadFails, PartsInv, ReaderTypes
  <2> QED
    BY <2>1, <2>2, Raising
<1>4. CASE Begun(r)
  <2>1. ReaderTypes' /\ UNCHANGED <<loop, service>> /\ Parts(r)' = Parts(r)
    BY <1>4, <1>t DEF Begun, ReaderTypes, Parts
  <2>2. PartsInv(r)' /\ BudgetInv(r)'
    BY <1>4, <1>t, <1>l, <2>1 DEF Begun, ReaderTypes, PartsInv, BudgetInv, service, loop
  <2> QED
    BY <1>4, <1>t, <2>1, <2>2, Reading DEF Begun, ReaderTypes
<1>5. CASE ReadReturns(r)
  <2>1. ReaderTypes' /\ UNCHANGED <<loop, service>> /\ Parts(r)' = Parts(r)
    BY <1>5, <1>t DEF ReadReturns, ReaderTypes, Parts
  <2>2. PartsInv(r)' /\ BudgetInv(r)'
    BY <1>5, <1>t, <1>l, <2>1 DEF ReadReturns, ReaderTypes, PartsInv, BudgetInv, service, loop
  <2> QED
    BY <1>5, <1>t, <2>1, <2>2, Reading DEF ReadReturns, ReaderTypes
<1>6. CASE ReadRaises(r)
  <2>0. pending'[r] = {t \in Parts(r) : future[t] = "pending"}
        /\ pending' \in [Reads -> SUBSET Transfers]
        /\ \A q \in Reads \ {r} : pending'[q] = pending[q]
    BY <1>6, <1>t, <1>p DEF ReadRaises, ReaderTypes
  <2>1. ReaderTypes' /\ UNCHANGED <<loop, service>> /\ Parts(r)' = Parts(r)
    BY <1>6, <1>t, <2>0 DEF ReadRaises, ReaderTypes, Parts
  <2>2. /\ reader'[r] = IF pending'[r] = {} THEN "raised" ELSE "cancelling"
        /\ reader[r] = "waiting" /\ parts' = parts /\ remaining' = remaining
    BY <1>6, <1>t DEF ReadRaises, ReaderTypes
  <2>3. PartsInv(r)' /\ BudgetInv(r)'
    BY <1>t, <1>l, <2>0, <2>1, <2>2 DEF PartsInv, BudgetInv, service, loop
  <2> QED
    BY <1>6, <1>t, <2>0, <2>1, <2>3, Reading DEF ReadRaises, ReaderTypes
<1>7. CASE CancelPending(r)
  <2>1. /\ Finish(pending[r], "error") /\ pipe' = pipe /\ reader[r] # "idle"
        /\ UNCHANGED <<loop, remaining, parts>>
        /\ reader' = [reader EXCEPT ![r] = "raised"]
        /\ pending' = [pending EXCEPT ![r] = {}]
    BY <1>7 DEF CancelPending
  <2> QED
    BY <2>1, Raising
<1>8. CASE CancelFails(r)
  <2>1. ReaderTypes' /\ UNCHANGED <<loop, service>> /\ Parts(r)' = Parts(r)
    BY <1>8, <1>t DEF CancelFails, ReaderTypes, Parts
  <2>2. PartsInv(r)' /\ BudgetInv(r)'
    BY <1>8, <1>t, <1>l, <2>1 DEF CancelFails, ReaderTypes, PartsInv, BudgetInv, service, loop
  <2> QED
    BY <1>8, <1>t, <2>1, <2>2, Reading DEF CancelFails, ReaderTypes
<1>9. CASE Forget(r)
  <2>0. /\ parts'[r] = <<>> /\ reader'[r] = "idle" /\ pending' = pending
        /\ remaining' = remaining /\ pending[r] = {}
        /\ \A t \in Live : pipe[t].read # r
    BY <1>9, <1>t DEF Forget, ReaderTypes, PartsInv
  <2>1. ReaderTypes' /\ UNCHANGED <<loop, service>> /\ Parts(r)' = {}
    BY <1>9, <1>t, <2>0 DEF Forget, ReaderTypes, Parts
  <2>2. PartsInv(r)' /\ BudgetInv(r)'
    BY <1>t, <1>l, <2>0, <2>1 DEF PartsInv, BudgetInv, service, loop
  <2> QED
    BY <1>9, <1>t, <2>1, <2>2, Reading DEF Forget, ReaderTypes
<1> QED
  BY <1>1, <1>2, <1>3, <1>4, <1>5, <1>6, <1>7, <1>8, <1>9 DEF Begin, Wait

(* Every step keeps the invariant. *)
LEMMA IInvStep == IInv /\ [Next]_vars => IInv'
<1> SUFFICES ASSUME IInv, [Next]_vars PROVE IInv'
  OBVIOUS
<1>1. CASE UNCHANGED vars
  <2>1. LoopTypes' /\ due' \in SUBSET Transfers
    BY <1>1 DEF IInv, TypeOK, LoopTypes, ServiceTypes, vars, loop, service
  <2> QED
    BY <1>1, <2>1, Quiet DEF vars, loop, service, readers
<1>2. ASSUME NEW t \in Transfers, Serve(t) PROVE IInv'
  BY <1>2, ServeStep
<1>3. CASE \/ Prepare \/ Select \/ Dispatched \/ Served \/ Close \/ Reopen
           \/ Compositor \/ \E t \in Transfers : Tick(t)
  BY <1>3, LoopStep
<1>4. ASSUME NEW r \in Reads, Begin(r) \/ Wait(r) PROVE IInv'
  BY <1>4, ReadStep
<1> QED
  BY <1>1, <1>2, <1>3, <1>4 DEF Next, Turn

(* Every reachable state satisfies the invariant. *)
LEMMA IInvHolds == Spec => []IInv
BY IInvInit, IInvStep, PTL DEF Spec

(* Every variable keeps its type, and a read overdraws its budget by one unit at
   most. *)
THEOREM TransfersTypeCorrect == Spec => []TypeOK
<1>1. IInv => TypeOK
  BY DEF IInv
<1> QED
  BY <1>1, IInvHolds, PTL

(* _finish() and start() keep exactly one owner for every open descriptor, and
   answer every future, however late the identity test of service() comes. *)
THEOREM DescriptorsCorrect == Spec => []DescriptorsOwned
<1>1. IInv => DescriptorsOwned
  BY DEF IInv
<1> QED
  BY <1>1, IInvHolds, PTL

(* Clipboard.read() is all or nothing. *)
THEOREM ReadsAreWhole == Spec => []SnapshotsAreWhole
<1>1. IInv => SnapshotsAreWhole
  <2> SUFFICES ASSUME IInv, NEW r \in Reads, reader[r] = "returned", NEW t \in Parts(r)
               PROVE  pipe[t].left = 0
    BY DEF SnapshotsAreWhole
  <2>1. \A u \in Parts(r) : future[u] = "result"
    BY DEF IInv, PartsInv
  <2>2. ~(remaining[r] < 0)
    BY <2>1 DEF IInv, BudgetInv
  <2> QED
    BY <2>1, <2>2 DEF IInv, BudgetInv
<1> QED
  BY <1>1, IInvHolds, PTL

(* _retire_device() leaves none of the device's transfers. *)
THEOREM RetirementComplete == Spec => []TransfersBelongToDevice
<1>1. IInv => TransfersBelongToDevice
  BY DEF IInv
<1> QED
  BY <1>1, IInvHolds, PTL

(* cancel_pending() ends no pipe but those of its own read. *)
THEOREM CancellationIsOwn == Spec => CancelsOwn
<1>1. IInv /\ [Next]_vars =>
          \A r \in Reads : reader[r] = "cancelling" /\ reader'[r] = "raised"
             => Live \ Live' \subseteq Parts(r)
  <2> SUFFICES ASSUME IInv, [Next]_vars, NEW r \in Reads,
                      reader[r] = "cancelling", reader'[r] = "raised"
               PROVE  Live \ Live' \subseteq Parts(r)
    OBVIOUS
  <2>1. reader' # reader
    OBVIOUS
  <2>2. reader \in [Reads -> {"idle", "starting", "waiting", "cancelling",
                              "returned", "raised"}]
    BY DEF IInv, TypeOK, ReaderTypes
  <2>3. CancelPending(r) \/ CancelFails(r)
    <3>1. PICK q \in Reads : Begin(q) \/ Wait(q)
      BY <2>1 DEF Next, vars, readers, Turn, Prepare, Select, Dispatched, Served, Close,
         Reopen, Compositor, AddDevice, RetireDevice, SendData, Tick, Serve,
         ServeNothing, ServeFails, ServeRead, ServeWrite, Serving
    <3>2. q = r
      BY <2>2, <3>1 DEF Begin, BeginRead, StartPart, BeginReadFails, Begun, Wait,
         ReadReturns, ReadRaises, CancelPending, CancelFails, Forget
    <3> QED
      BY <2>2, <3>1, <3>2 DEF Begin, BeginRead, StartPart, BeginReadFails, Begun, Wait,
         ReadReturns, ReadRaises, Forget
  <2>4. CASE CancelPending(r)
    <3>1. Live' = Live \ pending[r]
      BY <2>4, FinishEffect DEF CancelPending, IInv, TypeOK
    <3> QED
      BY <3>1 DEF IInv, PartsInv
  <2>5. CASE CancelFails(r)
    BY <2>5 DEF CancelFails, service, Live
  <2> QED
    BY <2>3, <2>4, <2>5
<1> QED
  BY <1>1, IInvHolds, PTL DEF Spec, CancelsOwn
=============================================================================
