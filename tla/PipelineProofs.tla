---------------------------- MODULE PipelineProofs ----------------------------
(***************************************************************************)
(* Proofs about CollectPipeline, for any number of players, nodes, slots,  *)
(* commands, faults and crashes: what the coordinator tracks, whose        *)
(* inventory an acknowledgement changes, and what a player can hold.  The  *)
(* invariants of the persistence service and of gathering come from        *)
(* PersistenceProofs and GatheringProofs.                                  *)
(***************************************************************************)
EXTENDS CollectPipeline, PersistenceProofs, GatheringProofs

-----------------------------------------------------------------------------
(* Removing answered operations from the list. *)

Distinct(ops) == \A i, j \in 1..Len(ops) : ops[i].id = ops[j].id => i = j

IdsOf(ops) == {ops[i].id : i \in 1..Len(ops)}

\* The i-th entry replaced.
LEMMA Replaced ==
  ASSUME NEW S, NEW seq \in Seq(S), NEW c, NEW new \in S
  PROVE  /\ [seq EXCEPT ![c] = new] \in Seq(S)
         /\ Len([seq EXCEPT ![c] = new]) = Len(seq)
         /\ \A i \in 1..Len(seq) : [seq EXCEPT ![c] = new][i] = IF i = c THEN new ELSE seq[i]
<1>1. PICK n \in Nat : n = Len(seq)
  OBVIOUS
<1>2. seq \in [1..n -> S] /\ DOMAIN seq = 1..n
  BY <1>1
<1>3. PICK r : r = [seq EXCEPT ![c] = new]
  OBVIOUS
<1>4. r \in [1..n -> S] /\ \A i \in 1..n : r[i] = IF i = c THEN new ELSE seq[i]
  BY <1>2, <1>3
<1>5. r \in Seq(S) /\ Len(r) = n
  BY <1>4
<1> QED
  BY <1>1, <1>3, <1>4, <1>5

\* Vec::swap_remove of an index there is.
LEMMA SwapRemoved ==
  ASSUME NEW S, NEW ops \in Seq(S), NEW c \in 1..Len(ops)
  PROVE  /\ SwapRemove(ops, c) \in Seq(S)
         /\ Len(SwapRemove(ops, c)) = Len(ops) - 1
         /\ \A i \in 1..(Len(ops) - 1) :
              SwapRemove(ops, c)[i] = IF i = c THEN ops[Len(ops)] ELSE ops[i]
<1> DEFINE moved == [ops EXCEPT ![c] = ops[Len(ops)]]
<1>1. Len(ops) \in Nat /\ Len(ops) \in 1..Len(ops) /\ ops[Len(ops)] \in S
  OBVIOUS
<1>2. /\ moved \in Seq(S) /\ Len(moved) = Len(ops)
      /\ \A i \in 1..Len(ops) : moved[i] = IF i = c THEN ops[Len(ops)] ELSE ops[i]
  BY <1>1, Replaced
<1>3. SwapRemove(ops, c) = SubSeq(moved, 1, Len(ops) - 1)
  BY DEF SwapRemove
<1> HIDE DEF moved
<1>4. /\ SubSeq(moved, 1, Len(ops) - 1) \in Seq(S)
      /\ Len(SubSeq(moved, 1, Len(ops) - 1)) = Len(ops) - 1
      /\ \A i \in 1..(Len(ops) - 1) : SubSeq(moved, 1, Len(ops) - 1)[i] = moved[i]
  BY <1>1, <1>2
<1>5. \A i \in 1..(Len(ops) - 1) : i \in 1..Len(ops)
  BY <1>1
<1> QED
  BY <1>2, <1>3, <1>4, <1>5

\* Of whatever index it leaves a list.
LEMMA SwapRemoveKeepsSeq ==
  ASSUME NEW S, NEW ops \in Seq(S), NEW c
  PROVE  SwapRemove(ops, c) \in Seq(S)
<1> DEFINE moved == [ops EXCEPT ![c] = ops[Len(ops)]]
<1>0. SwapRemove(ops, c) = SubSeq(moved, 1, Len(ops) - 1) /\ Len(ops) \in Nat
  BY DEF SwapRemove
<1>1. CASE Len(ops) = 0
  <2>1. SubSeq(moved, 1, Len(ops) - 1) = <<>>
    <3> HIDE DEF moved
    <3> QED
      BY <1>1
  <2> QED
    BY <1>0, <2>1
<1>2. CASE Len(ops) # 0
  <2>1. ops[Len(ops)] \in S
    BY <1>0, <1>2
  <2>2. moved \in Seq(S) /\ Len(moved) = Len(ops)
    BY <2>1, Replaced
  <2> HIDE DEF moved
  <2> QED
    BY <1>0, <1>2, <2>2
<1> QED
  BY <1>1, <1>2

\* It takes away the one id, and moves no other out of the list.
LEMMA SwapRemovedIds ==
  ASSUME NEW S, NEW ops \in Seq(S), NEW c \in 1..Len(ops), Distinct(ops)
  PROVE  /\ Distinct(SwapRemove(ops, c))
         /\ IdsOf(SwapRemove(ops, c)) = IdsOf(ops) \ {ops[c].id}
         /\ \A i \in 1..(Len(ops) - 1) : \E j \in 1..Len(ops) : SwapRemove(ops, c)[i] = ops[j]
<1>1. PICK rest : rest = SwapRemove(ops, c)
  OBVIOUS
<1>2. PICK n \in Nat : n = Len(ops)
  OBVIOUS
<1>3. /\ rest \in Seq(S) /\ Len(rest) = n - 1
      /\ \A i \in 1..(n - 1) : rest[i] = IF i = c THEN ops[n] ELSE ops[i]
  BY <1>1, <1>2, SwapRemoved
<1> DEFINE from(i) == IF i = c THEN n ELSE i
<1>4. \A i \in 1..(n - 1) : from(i) \in 1..n /\ from(i) # c /\ rest[i] = ops[from(i)]
  BY <1>2, <1>3
<1>5. \A i, j \in 1..(n - 1) : from(i) = from(j) => i = j
  BY <1>2
<1>6. ASSUME NEW j \in 1..n, j # c PROVE \E i \in 1..(n - 1) : from(i) = j
  <2>1. CASE j = n
    <3>1. c \in 1..(n - 1) /\ from(c) = j
      BY <1>2, <1>6, <2>1
    <3> QED
      BY <3>1
  <2>2. CASE j # n
    <3>1. j \in 1..(n - 1) /\ from(j) = j
      BY <1>2, <1>6, <2>2
    <3> QED
      BY <3>1
  <2> QED
    BY <2>1, <2>2
<1> HIDE DEF from
<1>7. Distinct(rest)
  BY <1>2, <1>3, <1>4, <1>5 DEF Distinct
<1>8. IdsOf(rest) = IdsOf(ops) \ {ops[c].id}
  <2>1. IdsOf(rest) = {rest[i].id : i \in 1..(n - 1)} /\ IdsOf(ops) = {ops[i].id : i \in 1..n}
    BY <1>2, <1>3 DEF IdsOf
  <2>2. \A i \in 1..(n - 1) : rest[i].id \in IdsOf(ops) /\ rest[i].id # ops[c].id
    BY <1>2, <1>4, <2>1 DEF Distinct
  <2>3. ASSUME NEW j \in 1..n, ops[j].id # ops[c].id PROVE ops[j].id \in IdsOf(rest)
    <3>1. PICK i \in 1..(n - 1) : from(i) = j
      BY <1>6, <2>3
    <3>2. rest[i] = ops[j]
      BY <1>4, <3>1
    <3> QED
      BY <2>1, <3>1, <3>2
  <2> QED
    BY <2>1, <2>2, <2>3
<1> QED
  BY <1>1, <1>2, <1>4, <1>7, <1>8

\* Indices in increasing order, each of an operation there is.
Answerable(indices, ops) ==
  /\ indices \in Seq(Nat)
  /\ \A t \in 1..Len(indices) : indices[t] \in 1..Len(ops)
  /\ \A t, u \in 1..Len(indices) : t < u => indices[t] < indices[u]

\* What is left when the operations at indices from k on are removed.
Remaining(seq, ops, indices, k) ==
  /\ Len(seq) = Len(ops) - (Len(indices) + 1 - k)
  /\ Distinct(seq)
  /\ IdsOf(seq) = IdsOf(ops) \ {ops[indices[t]].id : t \in k..Len(indices)}
  /\ \A i \in 1..Len(seq) : \E l \in 1..Len(ops) : seq[i] = ops[l]
  /\ \A i \in 1..Len(ops) : (\A t \in k..Len(indices) : i < indices[t]) =>
       i <= Len(seq) /\ seq[i] = ops[i]

\* Removed from the last index down, swap_remove moves no operation whose index is
\* still to come.
LEMMA RemovedOne ==
  ASSUME NEW S, NEW ops \in Seq(S), NEW indices, Answerable(indices, ops),
         NEW seq \in Seq(S), NEW k \in 1..Len(indices), Remaining(seq, ops, indices, k + 1)
  PROVE  Remaining(SwapRemove(seq, indices[k]), ops, indices, k)
<1>1. PICK n \in Nat, m \in Nat : n = Len(ops) /\ m = Len(indices)
  BY DEF Answerable
<1>2. PICK c \in 1..n : c = indices[k]
  BY <1>1 DEF Answerable
<1>3. PICK rest : rest = SwapRemove(seq, c)
  OBVIOUS
<1>4. PICK size \in Nat : size = Len(seq) /\ size = n - (m - k)
  <2>1. Len(seq) = Len(ops) - (Len(indices) + 1 - (k + 1))
    BY DEF Remaining
  <2>2. Len(seq) \in Nat
    OBVIOUS
  <2>3. PICK size \in Nat : size = Len(seq) /\ size = n - (m + 1 - (k + 1))
    BY <1>1, <2>1, <2>2
  <2>4. k \in Nat /\ n - (m + 1 - (k + 1)) = n - (m - k)
    BY <1>1
  <2> QED
    BY <2>3, <2>4
<1>5. k \in 1..m
  BY <1>1
<1>6. ASSUME NEW t \in (k + 1)..m PROVE c < indices[t]
  <2>1. t \in 1..m /\ k < t
    BY <1>1, <1>5
  <2> QED
    BY <1>1, <1>2, <1>5, <2>1 DEF Answerable
<1>7. c \in 1..size /\ seq[c] = ops[c]
  BY <1>1, <1>2, <1>4, <1>6 DEF Remaining
<1>8. /\ Len(rest) = size - 1
      /\ \A i \in 1..(size - 1) : rest[i] = IF i = c THEN seq[size] ELSE seq[i]
  <2>1. c \in 1..Len(seq)
    BY <1>4, <1>7
  <2>2. /\ Len(SwapRemove(seq, c)) = Len(seq) - 1
        /\ \A i \in 1..(Len(seq) - 1) :
             SwapRemove(seq, c)[i] = IF i = c THEN seq[Len(seq)] ELSE seq[i]
    BY <2>1, SwapRemoved
  <2> QED
    BY <1>3, <1>4, <2>2
<1>9. Distinct(seq)
  BY DEF Remaining
<1>10. /\ Distinct(rest)
       /\ IdsOf(rest) = IdsOf(seq) \ {ops[c].id}
       /\ \A i \in 1..(size - 1) : \E l \in 1..size : rest[i] = seq[l]
  <2>1. c \in 1..Len(seq)
    BY <1>4, <1>7
  <2>2. /\ Distinct(SwapRemove(seq, c))
        /\ IdsOf(SwapRemove(seq, c)) = IdsOf(seq) \ {seq[c].id}
        /\ \A i \in 1..(Len(seq) - 1) : \E l \in 1..Len(seq) : SwapRemove(seq, c)[i] = seq[l]
    BY <1>9, <2>1, SwapRemovedIds
  <2> QED
    BY <1>3, <1>4, <1>7, <2>2
<1>11. IdsOf(rest) = IdsOf(ops) \ {ops[indices[t]].id : t \in k..m}
  <2>1. k..m = {k} \cup (k + 1)..m
    BY <1>1
  <2>2. {ops[indices[t]].id : t \in k..m} = {ops[c].id} \cup {ops[indices[t]].id : t \in (k + 1)..m}
    BY <1>2, <2>1
  <2>3. IdsOf(seq) = IdsOf(ops) \ {ops[indices[t]].id : t \in (k + 1)..m}
    BY <1>1 DEF Remaining
  <2> QED
    BY <1>10, <2>2, <2>3
<1>12. \A i \in 1..(size - 1) : \E l \in 1..n : rest[i] = ops[l]
  BY <1>1, <1>4, <1>10 DEF Remaining
<1>13. ASSUME NEW i \in 1..n, \A t \in k..m : i < indices[t]
       PROVE  i <= size - 1 /\ rest[i] = ops[i]
  <2>1. k \in k..m /\ \A t \in (k + 1)..m : t \in k..m
    BY <1>5, <1>1
  <2>2. i < c /\ \A t \in (k + 1)..m : i < indices[t]
    BY <1>2, <1>13, <2>1
  <2>3. i <= size /\ seq[i] = ops[i]
    BY <1>1, <1>4, <2>2 DEF Remaining
  <2>4. i # c /\ i \in 1..(size - 1)
    BY <1>4, <1>7, <2>2
  <2> QED
    BY <1>8, <2>3, <2>4
<1>14. Len(rest) = n - (m + 1 - k)
  BY <1>1, <1>4, <1>8
<1> QED
  <2>1. Len(rest) = Len(ops) - (Len(indices) + 1 - k)
    BY <1>1, <1>14
  <2>2. \A i \in 1..Len(rest) : \E l \in 1..Len(ops) : rest[i] = ops[l]
    BY <1>1, <1>8, <1>12
  <2>3. \A i \in 1..Len(ops) : (\A t \in k..Len(indices) : i < indices[t]) =>
          i <= Len(rest) /\ rest[i] = ops[i]
    BY <1>1, <1>8, <1>13
  <2>4. IdsOf(rest) = IdsOf(ops) \ {ops[indices[t]].id : t \in k..Len(indices)}
    BY <1>1, <1>11
  <2>5. Remaining(rest, ops, indices, k)
    BY <1>10, <2>1, <2>2, <2>3, <2>4 DEF Remaining
  <2> QED
    BY <1>2, <1>3, <2>5

\* So exactly the operations at the indices go.
LEMMA RemovedAll ==
  ASSUME NEW S, NEW ops \in Seq(S), Distinct(ops), NEW indices, Answerable(indices, ops)
  PROVE  /\ RemoveAll(ops, indices) \in Seq(S)
         /\ Remaining(RemoveAll(ops, indices), ops, indices, 1)
<1>1. PICK m \in Nat : m = Len(indices)
  BY DEF Answerable
<1> DEFINE lefts(left) == left = [k \in 1..(m + 1) |-> IF k > m THEN ops
                                                      ELSE SwapRemove(left[k + 1], indices[k])]
           f == [j \in 1..m |-> [seq \in Seq(S) |-> SwapRemove(seq, indices[m + 1 - j])]]
<1>2. f \in [1..m -> [Seq(S) -> Seq(S)]]
  BY SwapRemoveKeepsSeq
<1>3. \A j \in 1..m, seq \in Seq(S) : f[j][seq] = SwapRemove(seq, indices[m + 1 - j])
  OBVIOUS
<1> HIDE DEF f
<1>4. PICK g \in [0..m -> Seq(S)] : Iterates(g, ops, m, f)
  BY <1>1, <1>2, PrimitiveRecursion, Zenon
<1> DEFINE h == [k \in 1..(m + 1) |-> g[m + 1 - k]]
<1>6. lefts(h)
  <2>1. ASSUME NEW k \in 1..(m + 1)
        PROVE  g[m + 1 - k] = IF k > m THEN ops ELSE SwapRemove(h[k + 1], indices[k])
    <3>1. CASE k > m
      <4>1. m + 1 - k = 0
        BY <1>1, <3>1
      <4> QED
        BY <1>4, <3>1, <4>1 DEF Iterates
    <3>2. CASE ~ (k > m)
      <4>1. PICK j \in 1..m : j = m + 1 - k /\ m + 1 - (k + 1) = j - 1 /\ m + 1 - j = k
        BY <1>1, <3>2
      <4>2. h[k + 1] = g[j - 1] /\ g[j - 1] \in Seq(S)
        <5>1. k + 1 \in 1..(m + 1) /\ j - 1 \in 0..m
          BY <1>1, <3>2, <4>1
        <5>2. h[k + 1] = g[m + 1 - (k + 1)]
          BY <5>1
        <5>3. g[j - 1] \in Seq(S)
          BY <1>4, <5>1
        <5> QED
          BY <4>1, <5>2, <5>3
      <4>3. g[j] = f[j][g[j - 1]]
        BY <1>4, <4>1 DEF Iterates
      <4>4. g[j] = SwapRemove(g[j - 1], indices[k])
        BY <1>3, <4>1, <4>2, <4>3
      <4> HIDE DEF h
      <4> QED
        BY <3>2, <4>1, <4>2, <4>4
    <3> QED
      BY <3>1, <3>2
  <2> QED
    BY <2>1
<1>7. PICK left : lefts(left) /\ left = CHOOSE c : lefts(c)
  BY <1>6
<1>8. RemoveAll(ops, indices) = left[1]
  BY <1>1, <1>7, ZenonT(40) DEF RemoveAll
<1>9. left[m + 1] = ops /\ \A k \in 1..m : left[k] = SwapRemove(left[k + 1], indices[k])
  <2>1. left = [k \in 1..(m + 1) |-> IF k > m THEN ops
                                     ELSE SwapRemove(left[k + 1], indices[k])]
    BY <1>7
  <2>2. \A k \in 1..(m + 1) : left[k] = IF k > m THEN ops ELSE SwapRemove(left[k + 1], indices[k])
    BY <2>1, Zenon
  <2>3. m + 1 \in 1..(m + 1) /\ m + 1 > m /\ \A k \in 1..m : k \in 1..(m + 1) /\ ~ (k > m)
    BY <1>1
  <2> QED
    BY <2>2, <2>3
<1> HIDE DEF lefts
<1> DEFINE R(k) == left[k] \in Seq(S) /\ Remaining(left[k], ops, indices, k)
           T == {j \in 0..m : R(m + 1 - j)}
<1>10. 0 \in T
  <2>1. m + 1 - 0 = m + 1 /\ (m + 1)..m = {} /\ Len(ops) \in Nat
    BY <1>1
  <2>2. Remaining(ops, ops, indices, m + 1)
    BY <1>1, <2>1 DEF Remaining
  <2> QED
    BY <1>1, <1>9, <2>1, <2>2
<1>11. ASSUME NEW j \in 1..m, j - 1 \in T PROVE j \in T
  <2>1. PICK k \in 1..m : k = m + 1 - j /\ k + 1 = m + 1 - (j - 1)
    <3>1. m + 1 - j \in 1..m /\ (m + 1 - j) + 1 = m + 1 - (j - 1)
      BY <1>1
    <3> QED
      BY <3>1
  <2>2. R(k + 1)
    BY <1>11, <2>1
  <2>3. R(k)
    <3>1. left[k] = SwapRemove(left[k + 1], indices[k]) /\ k \in 1..Len(indices)
      BY <1>1, <1>9, <2>1
    <3>2. left[k + 1] \in Seq(S) /\ Remaining(left[k + 1], ops, indices, k + 1)
      BY <2>2
    <3> QED
      BY <3>1, <3>2, RemovedOne, SwapRemoveKeepsSeq
  <2> HIDE DEF R
  <2> QED
    BY <2>1, <2>3
<1>12. R(1)
  <2>1. m \in T
    <3> HIDE DEF T
    <3>1. \A j \in 0..m : j \in T
      BY <1>1, <1>10, <1>11, CountingUp, Zenon
    <3> QED
      BY <1>1, <3>1
  <2>2. m + 1 - m = 1
    BY <1>1
  <2> HIDE DEF R
  <2> QED
    BY <2>1, <2>2
<1> QED
  BY <1>8, <1>12

-----------------------------------------------------------------------------
(* Commands and answers in the pipeline.                                   *)

\* A step of the persistence service other than a restart.
ServiceStep ==
  \/ \E p \in PlayerIds, rows \in Seq(Row) : SaveAsync(p, rows)
  \/ \E p \in PlayerIds : LoadInventory(p)
  \/ \E t \in Token : ResolveIdentity(t)
  \/ DispatchReturn
  \/ WorkerStep
  \/ StatementFails
  \/ WorkerExit

\* Commands stay and answers stay.
Grows ==
  /\ Len(log) \in Nat /\ Len(log') \in Nat /\ Len(log) <= Len(log')
  /\ \A i \in 1..Len(log) : /\ i \in 1..Len(log')
                            /\ log'[i] = log[i]
                            /\ reply[i] # Waiting => reply'[i] = reply[i]

\* Only a restart counts a crash.
LEMMA ServiceKeepsCrashes == ServiceStep \/ UNCHANGED persistenceVars => crashes' = crashes
<1>1. ServiceStep => crashes' = crashes
  BY DEF ServiceStep, SaveAsync, LoadInventory, ResolveIdentity, DispatchReturn, WorkerStep,
         WorkerReceive, DeleteRows, InsertRow, InsertConflict, SaveDone, ServeLoad,
         InsertIdentity, ServeResolve, StatementFails, WorkerExit, Respond
<1> QED
  BY <1>1 DEF persistenceVars

\* In any other step commands are only added, and an answer is never changed.
LEMMA ServiceGrows ==
  ASSUME StoreInv, ServiceStep \/ UNCHANGED persistenceVars
  PROVE  Grows
<1>0. Len(log) \in Nat /\ ChannelInv /\ StoreTypes /\ IdentityInv
  BY ChannelFacts DEF StoreInv
<1>1. crashes' = crashes /\ crashes \in Nat
  BY <1>0, ServiceKeepsCrashes, PersistenceAssumption DEF StoreTypes
<1>2. PersistenceStep \/ UNCHANGED persistenceVars
  BY DEF ServiceStep, PersistenceStep
<1>3. CASE Sent
  <2>1. PICK c : Sends(c)
    BY <1>3 DEF Sent
  <2> QED
    BY <1>0, <2>1, AfterSend DEF Grows
<1>4. CASE log' = log /\ reply' = reply
  BY <1>0, <1>4 DEF Grows
<1>5. ASSUME NEW a, Replies(a) PROVE Grows
  <2>1. /\ log' = log
        /\ \A i \in 1..Len(log) : i # current => reply'[i] = reply[i]
        /\ current \in 1..Len(log) /\ reply[current] = Waiting
    BY <1>0, <1>5, AfterReply
  <2> QED
    BY <1>0, <2>1 DEF Grows
<1>6. CASE Exited
  BY <1>0, <1>6, AfterExit DEF Grows
<1>7. ~ Emptied
  BY <1>1 DEF Emptied
<1>8. CASE DeleteRows \/ InsertRow \/ InsertIdentity
  BY <1>0, <1>4, <1>8, DuringSave, DuringResolve
<1> QED
  BY <1>0, <1>2, <1>3, <1>4, <1>5, <1>6, <1>7, <1>8, StepShapes DEF Waits, SameCalls, Refused

\* A load that was answered with anything but an error returned rows.
LoadAnswers ==
  \A i \in 1..Len(log) :
    log[i].op = "load" /\ reply[i] \notin {Waiting, Closed, Failed} =>
      \E rows \in Seq(Row) : reply[i] = Loaded(rows)

\* Each operation of the coordinator waits for the save it sent, and belongs to an
\* entity the player had: if it is the one it has now, the save was sent after that
\* entity's inventory was loaded.
Operations ==
  \A k \in 1..Len(pending) :
    LET op == pending[k]
    IN  /\ op.id \in 1..Len(log)
        /\ IsSave(op.id, op.player) /\ log[op.id].rows = op.rows
        /\ op.entity <= entity[op.player]
        /\ op.entity = entity[op.player] => op.id > loadOf[op.player]

\* The loop has found answered only operations it has been at, in order.
Polling ==
  /\ poll \in 0..(Len(pending) + 1)
  /\ Answerable(completed, pending)
  /\ \A t \in 1..Len(completed) : completed[t] < poll

Coordinator == pending \in Seq(PendingOp) /\ Distinct(pending) /\ Operations /\ Polling

Entities ==
  /\ entity \in [Player -> 0..MaxJoins]
  /\ loadOf \in [Player -> Nat]
  /\ \A p \in Player : loadOf[p] <= Len(log)

\* While a join waits its call is the last one, and it ends with what that returned.
Joining ==
  /\ joining \in [stage: {"idle", "resolve", "load", "flush"}, player: Player \cup {0},
                  load: Nat, rows: Seq(Row)]
  /\ joining.stage # "idle" => \A p \in Player : entity[p] < MaxJoins
  /\ joining.stage \in {"resolve", "load"} =>
       /\ Len(log) # 0 /\ log[Len(log)].op = joining.stage
       /\ blocked = 0 => reply[Len(log)] # Waiting
  /\ joining.stage = "resolve" => joining.load = 0 /\ joining.rows = <<>>
  /\ joining.stage = "load" =>
       joining.load = Len(log) /\ log[Len(log)].player = joining.player
  /\ joining.stage \in {"load", "flush"} =>
       joining.player \in Player /\ joining.load <= Len(log)
  /\ joining.stage = "flush" =>
       joining.rows = <<>> \/ joining.rows \in GivenRows(joining.player)

\* Only a load is answered with an inventory, and a load with nothing else.
LEMMA LoadAnswersStep ==
  ASSUME StoreInv, LoadAnswers, PersistenceStep \/ UNCHANGED persistenceVars
  PROVE  LoadAnswers'
<1>0. Len(log) \in Nat /\ ChannelInv /\ StoreTypes /\ IdentityInv /\ TableOK
  BY ChannelFacts DEF StoreInv, StoreTypes
<1>1. CASE Sent
  <2>1. PICK c : Sends(c)
    BY <1>1 DEF Sent
  <2> QED
    BY <1>0, <2>1, AfterSend DEF LoadAnswers
<1>2. CASE log' = log /\ reply' = reply
  BY <1>2 DEF LoadAnswers
<1>3. ASSUME NEW a, Replies(a),
             log[current].op = "load" => a = Failed \/ \E rows \in Seq(Row) : a = Loaded(rows)
      PROVE  LoadAnswers'
  <2>1. /\ log' = log /\ reply'[current] = a
        /\ \A i \in 1..Len(log) : i # current => reply'[i] = reply[i]
    BY <1>0, <1>3, AfterReply
  <2> QED
    BY <1>3, <2>1 DEF LoadAnswers
<1>4. CASE Exited
  BY <1>0, <1>4, AfterExit DEF LoadAnswers
<1>5. CASE Emptied
  BY <1>5 DEF Emptied, LoadAnswers
<1>6. CASE DeleteRows \/ InsertRow \/ InsertIdentity
  BY <1>0, <1>2, <1>6, DuringSave, DuringResolve
<1>7. CASE SaveDone /\ Replies(Saved)
  BY <1>3, <1>7 DEF SaveDone, Serving
<1>8. CASE ServeLoad /\ Replies(Loaded(StoredRows(log[current].player)))
  <2>1. log[current].player \in PlayerIds
    <3>1. current \in 1..Len(log) /\ log[current].op = "load"
      BY <1>0, <1>8, ChannelFacts DEF ServeLoad, Serving
    <3> QED
      BY <1>0, <3>1, ChannelFacts, Calls
  <2>2. StoredRows(log[current].player) \in Seq(Row)
    BY <1>0, <2>1, StoredAreHeld
  <2> QED
    BY <1>3, <1>8, <2>2
<1>9. CASE ServeResolve /\ \E p \in PlayerIds : Replies(Identity(p))
  BY <1>3, <1>9 DEF ServeResolve, Serving
<1>10. CASE Refused
  BY <1>3, <1>10 DEF Refused
<1> QED
  BY <1>0, <1>1, <1>2, <1>4, <1>5, <1>6, <1>7, <1>8, <1>9, <1>10, StepShapes DEF Waits, SameCalls

\* Rows once given stay given.
LEMMA GivenStays ==
  ASSUME Grows, NEW p, NEW rows \in GivenRows(p)
  PROVE  rows \in GivenRows(p)'
<1>1. \A i \in 1..Len(log) : i \in 1..Len(log') /\ log'[i] = log[i]
                             /\ (reply[i] # Waiting => reply'[i] = reply[i])
  BY DEF Grows
<1>2. Saved # Waiting
  BY AnswersDiffer
<1>3. CASE \E i \in 1..Len(log) : /\ log[i].op = "save" /\ log[i].player = p /\ reply[i] = Saved
                                  /\ rows = log[i].rows
  BY <1>1, <1>2, <1>3 DEF GivenRows, Channel!Ids
<1>4. CASE \E i \in 1..Len(log) : /\ log[i].op = "load" /\ log[i].player = p
                                  /\ reply[i] \notin {Waiting, Closed, Failed}
                                  /\ rows = reply[i].rows
  BY <1>1, <1>4 DEF GivenRows, Channel!Ids
<1> QED
  BY <1>3, <1>4 DEF GivenRows, Channel!Ids

\* They are rows.
LEMMA GivenAreRows ==
  ASSUME StoreInv, LoadAnswers, NEW p, NEW rows \in GivenRows(p)
  PROVE  rows \in Seq(Row)
<1>0. ChannelInv
  BY DEF StoreInv
<1>1. ASSUME NEW i \in 1..Len(log), log[i].op = "save" PROVE log[i].rows \in Seq(Row)
  BY <1>0, <1>1, ChannelFacts, Calls
<1>2. ASSUME NEW i \in 1..Len(log), log[i].op = "load", reply[i] \notin {Waiting, Closed, Failed}
      PROVE  reply[i].rows \in Seq(Row)
  BY <1>2, AnswersDiffer DEF LoadAnswers
<1> QED
  BY <1>1, <1>2 DEF GivenRows, Channel!Ids

-----------------------------------------------------------------------------
(* The invariant, and the steps by what they leave alone.                  *)

PipelineInv ==
  /\ StoreInv /\ LoadAnswers
  /\ GatheringTypeOK
  /\ Coordinator /\ Entities /\ Joining
  /\ NothingUnsaved

USE DEF coordinatorVars, joinVars

\* The stages of a join that wait for an answer or use one.
LEMMA LastAnswer ==
  ASSUME PipelineInv, joining.stage \in {"resolve", "load"}, blocked = 0,
         LastReply \notin {Failed, Closed}
  PROVE  /\ Len(log) \in 1..Len(log) /\ LastReply = reply[Len(log)]
         /\ log[Len(log)].op = joining.stage /\ reply[Len(log)] \notin {Waiting, Closed, Failed}
         /\ joining.stage = "resolve" => LastReply.player \in PlayerIds
<1>1. Len(reply) = Len(log) /\ Len(log) \in Nat
  BY ChannelFacts DEF PipelineInv, StoreInv
<1>2. /\ Len(log) \in 1..Len(log) /\ log[Len(log)].op = joining.stage
      /\ reply[Len(log)] # Waiting /\ LastReply = reply[Len(log)]
  BY <1>1 DEF PipelineInv, Joining, LastReply
<1>3. ASSUME joining.stage = "resolve" PROVE LastReply.player \in PlayerIds
  <2>1. PICK i \in 1..Len(log) : i = Len(log)
    BY <1>2
  <2>2. log[i] \in Commands /\ log[i].op = "resolve"
    BY <1>2, <1>3, <2>1, ChannelFacts DEF PipelineInv, StoreInv
  <2>3. log[i].token \in Token
    BY <2>2, Calls
  <2>4. /\ identities[log[i].token] # 0
        /\ LastReply = Identity(identities[log[i].token])
    BY <1>2, <2>1, <2>2 DEF PipelineInv, StoreInv, AnswerInv
  <2>5. identities[log[i].token] \in PlayerIds
    <3>1. PICK m \in 0..Cardinality(Token) : Numbered(m)
      BY DEF PipelineInv, StoreInv, IdentityInv
    <3> QED
      BY <2>3, <2>4, <3>1, TokensAreFinite DEF Numbered, PlayerIds
  <2> QED
    BY <2>4, <2>5, AnswersDiffer
<1> QED
  BY <1>2, <1>3

\* What a collect sends and appends.
LEMMA CollectSends ==
  ASSUME PipelineInv, NEW p \in Player, NEW n \in Node, NEW s \in 1..MaxSequence,
         Collect(p, n, s)
  PROVE  \E rows \in Seq(Row), op \in PendingOp :
           /\ op = [id |-> Len(log) + 1, player |-> p, entity |-> entity[p], node |-> n,
                    rows |-> rows, sequence |-> s]
           /\ SaveAsync(p, rows)
           /\ pending' = Append(pending, op)
           /\ UNCHANGED <<gatheringVars, joinVars, poll, completed>>
           /\ poll = 0
<1>1. PICK rows : /\ rows = InventoryToRows(Add(inv[p], NodeKind[n], Yield[n]))
                  /\ SaveAsync(p, rows)
                  /\ pending' = Append(pending,
                       [id |-> Len(log) + 1, player |-> p, entity |-> entity[p], node |-> n,
                        rows |-> rows, sequence |-> s])
  BY DEF Collect
<1>2. inv[p] \in Inventories /\ NodeKind[n] \in Kinds /\ Yield[n] \in Nat
  BY GatheringAssumption, InventoryAssumption DEF PipelineInv, GatheringTypeOK
<1>3. rows \in Seq(Row)
  BY <1>1, <1>2, AddKeepsInventory, RowsOfInventory
<1>4. /\ Len(log) + 1 \in Nat /\ entity[p] \in Nat /\ s \in Nat
  BY ChannelFacts, PipelineAssumption, GatheringAssumption DEF PipelineInv, StoreInv, Entities
<1>5. [id |-> Len(log) + 1, player |-> p, entity |-> entity[p], node |-> n,
       rows |-> rows, sequence |-> s] \in PendingOp
  BY <1>3, <1>4 DEF PendingOp
<1> QED
  BY <1>1, <1>3, <1>5 DEF Collect, BetweenSystems

\* Every step is one of the persistence service, or a restart.
LEMMA PipelinePersists ==
  ASSUME PipelineInv, [PipelineNext]_pipelineVars
  PROVE  Restart \/ ServiceStep \/ UNCHANGED persistenceVars
<1>1. Player = PlayerIds
  BY PipelineAssumption
<1>2. ASSUME NEW t \in Token, Hello(t) PROVE ServiceStep
  BY <1>2 DEF Hello, ServiceStep
<1>3. CASE JoinStep
  <2>1. CASE IdentityResolved
    <3>1. LastReply.player \in PlayerIds
      BY <2>1, LastAnswer DEF IdentityResolved, Answered
    <3> QED
      BY <2>1, <3>1 DEF IdentityResolved, ServiceStep
  <2> QED
    BY <1>3, <2>1 DEF JoinStep, IdentityRefused, InventoryLoaded, LoadRefused, ApplyJoin
<1>4. ASSUME NEW p \in Player, NEW n \in Node, NEW s \in 1..MaxSequence, Collect(p, n, s)
      PROVE  ServiceStep
  BY <1>1, <1>4, CollectSends DEF ServiceStep
<1>5. CASE PollStep
  BY <1>5 DEF PollStep, StartPolling, PollOp, FinishPolling
<1>6. CASE UNCHANGED pipelineVars
  BY <1>6 DEF pipelineVars
<1> QED
  BY <1>2, <1>3, <1>4, <1>5, <1>6 DEF PipelineNext, World, Database, ServiceStep, WorkerStep

\* The steps that leave the coordinator and the entities alone.
Aside == UNCHANGED <<pending, poll, completed, entity, loadOf>>

\* All do, but a join, a collect, the polling loop and a restart.
LEMMA StepKinds ==
  ASSUME PipelineInv, [PipelineNext]_pipelineVars
  PROVE  \/ Aside
         \/ ApplyJoin
         \/ \E p \in Player, n \in Node, s \in 1..MaxSequence : Collect(p, n, s)
         \/ PollStep
         \/ Restart
<1>1. JoinStep => Aside \/ ApplyJoin
  BY DEF JoinStep, IdentityRefused, IdentityResolved, InventoryLoaded, LoadRefused, Aside
<1>2. \A t \in Token : Hello(t) => Aside
  BY DEF Hello, Aside
<1>3. UNCHANGED pipelineVars => Aside
  BY DEF pipelineVars, Aside
<1> QED
  BY <1>1, <1>2, <1>3 DEF PipelineNext, World, Database, Aside

\* In a step that is not a restart commands and answers stay.
LEMMA PipelineGrows ==
  ASSUME PipelineInv, [PipelineNext]_pipelineVars, ~ Restart
  PROVE  Grows
BY PipelinePersists, ServiceGrows DEF PipelineInv

\* The operations of the list stay what they are when commands and answers are
\* added and their players get a new entity, or none.
LEMMA OperationsStay ==
  ASSUME PipelineInv, Grows,
         entity' \in [Player -> Nat],
         \A p \in Player : /\ entity[p] <= entity'[p]
                           /\ entity'[p] = entity[p] => loadOf'[p] = loadOf[p],
         NEW k \in 1..Len(pending)
  PROVE  /\ pending[k].id \in 1..Len(log')
         /\ log'[pending[k].id].op = "save" /\ log'[pending[k].id].player = pending[k].player
         /\ log'[pending[k].id].rows = pending[k].rows
         /\ pending[k].entity <= entity'[pending[k].player]
         /\ pending[k].entity = entity'[pending[k].player] =>
              pending[k].id > loadOf'[pending[k].player]
<1>1. PICK op \in PendingOp : op = pending[k]
  BY DEF PipelineInv, Coordinator
<1>2. op.player \in Player /\ op.entity \in Nat /\ op.id \in Nat
  BY <1>1 DEF PendingOp
<1>3. /\ op.id \in 1..Len(log)
      /\ log[op.id].op = "save" /\ log[op.id].player = op.player /\ log[op.id].rows = op.rows
      /\ op.entity <= entity[op.player]
      /\ op.entity = entity[op.player] => op.id > loadOf[op.player]
  BY <1>1 DEF PipelineInv, Coordinator, Operations, IsSave
<1>4. log'[op.id] = log[op.id] /\ op.id \in 1..Len(log')
  BY <1>3 DEF Grows
<1>5. entity[op.player] \in Nat /\ entity'[op.player] \in Nat
  BY <1>2, PipelineAssumption DEF PipelineInv, Entities
<1>6. op.entity <= entity'[op.player]
  BY <1>2, <1>3, <1>5
<1>7. op.entity = entity'[op.player] => op.id > loadOf'[op.player]
  BY <1>2, <1>3, <1>5
<1> QED
  BY <1>1, <1>3, <1>4, <1>6, <1>7

\* So the list, when it is the same one, is still in order.
LEMMA SameOperations ==
  ASSUME PipelineInv, Grows,
         entity' \in [Player -> Nat],
         \A p \in Player : /\ entity[p] <= entity'[p]
                           /\ entity'[p] = entity[p] => loadOf'[p] = loadOf[p],
         pending' = pending
  PROVE  Operations'
BY OperationsStay DEF Operations, IsSave

\* PersistenceCoordinator: a collect adds an operation behind the others, the
\* polling loop walks over them once, and a join leaves them to an older entity.
LEMMA CoordinatorStep ==
  ASSUME PipelineInv, [PipelineNext]_pipelineVars
  PROVE  Coordinator'
<1>0. /\ pending \in Seq(PendingOp) /\ Distinct(pending) /\ Operations /\ Polling
      /\ Len(pending) \in Nat /\ Len(log) \in Nat
  BY ChannelFacts DEF PipelineInv, Coordinator, StoreInv
<1>1. CASE Restart
  <2>1. pending' = <<>> /\ poll' = 0 /\ completed' = <<>>
    BY <1>1 DEF Restart
  <2> QED
    BY <2>1 DEF Coordinator, Distinct, Operations, Polling, Answerable
<1>2. ASSUME ~ Restart PROVE Grows
  BY <1>2, PipelineGrows
<1>3. /\ entity \in [Player -> Nat] /\ \A p \in Player : entity[p] <= entity[p]
  BY PipelineAssumption DEF PipelineInv, Entities
<1>4. CASE ~ Restart /\ Aside
  <2>1. UNCHANGED <<pending, poll, completed, entity, loadOf>>
    BY <1>4 DEF Aside
  <2>2. Operations'
    BY <1>2, <1>3, <1>4, <2>1, SameOperations
  <2> QED
    BY <1>0, <2>1, <2>2 DEF Coordinator, Distinct, Polling
<1>5. CASE ~ Restart /\ ApplyJoin
  <2>1. /\ UNCHANGED <<pending, poll, completed>>
        /\ entity' = [entity EXCEPT ![joining.player] = entity[joining.player] + 1]
        /\ loadOf' = [loadOf EXCEPT ![joining.player] = joining.load]
    BY <1>5 DEF ApplyJoin
  <2>2. entity' \in [Player -> Nat]
    <3>1. joining.player \in Player
      BY <1>5 DEF ApplyJoin, PipelineInv, Joining
    <3> QED
      BY <1>3, <2>1, <3>1
  <2>3. \A p \in Player : /\ entity[p] <= entity'[p]
                          /\ entity'[p] = entity[p] => loadOf'[p] = loadOf[p]
    BY <1>3, <2>1 DEF PipelineInv, Entities
  <2>4. Operations'
    BY <1>2, <1>5, <2>1, <2>2, <2>3, SameOperations
  <2> QED
    BY <1>0, <2>1, <2>4 DEF Coordinator, Distinct, Polling
<1>6. ASSUME ~ Restart, NEW p \in Player, NEW n \in Node, NEW s \in 1..MaxSequence,
             Collect(p, n, s)
      PROVE  Coordinator'
  <2>1. PICK rows \in Seq(Row), op \in PendingOp :
          /\ op = [id |-> Len(log) + 1, player |-> p, entity |-> entity[p], node |-> n,
                   rows |-> rows, sequence |-> s]
          /\ SaveAsync(p, rows)
          /\ pending' = Append(pending, op)
          /\ UNCHANGED <<gatheringVars, joinVars, poll, completed>>
          /\ poll = 0
    BY <1>6, CollectSends
  <2>2. /\ Len(log') = Len(log) + 1
        /\ log'[Len(log) + 1] = [op |-> "save", player |-> p, rows |-> rows]
    BY <1>0, <2>1 DEF SaveAsync, Channel!SendAsync, Channel!TrySend
  <2>3. /\ op.id = Len(log) + 1 /\ op.player = p /\ op.entity = entity[p] /\ op.rows = rows
    BY <2>1
  <2>4. /\ pending' \in Seq(PendingOp) /\ Len(pending') = Len(pending) + 1
        /\ pending'[Len(pending) + 1] = op
        /\ \A k \in 1..Len(pending) : pending'[k] = pending[k]
    BY <1>0, <2>1
  <2>5. \A k \in 1..Len(pending') : k \in 1..Len(pending) \/ k = Len(pending) + 1
    BY <1>0, <2>4
  <2>6. \A k \in 1..Len(pending) : pending[k].id \in 1..Len(log)
    BY <1>0 DEF Operations
  <2>7. Distinct(pending')
    BY <1>0, <2>3, <2>4, <2>5, <2>6 DEF Distinct
  <2>8. UNCHANGED <<entity, loadOf>>
    BY <2>1
  <2>9. Operations'
    <3> SUFFICES ASSUME NEW k \in 1..Len(pending')
                 PROVE  /\ pending'[k].id \in 1..Len(log')
                        /\ log'[pending'[k].id].op = "save"
                        /\ log'[pending'[k].id].player = pending'[k].player
                        /\ log'[pending'[k].id].rows = pending'[k].rows
                        /\ pending'[k].entity <= entity'[pending'[k].player]
                        /\ pending'[k].entity = entity'[pending'[k].player] =>
                             pending'[k].id > loadOf'[pending'[k].player]
      BY DEF Operations, IsSave
    <3>1. CASE k \in 1..Len(pending)
      BY <1>2, <1>3, <1>6, <2>4, <2>8, <3>1, OperationsStay
    <3>2. CASE k = Len(pending) + 1
      <4>1. loadOf[p] \in Nat /\ loadOf[p] <= Len(log) /\ entity[p] \in Nat
        BY <1>3 DEF PipelineInv, Entities
      <4>2. op.id \in 1..Len(log') /\ op.id > loadOf[p] /\ op.entity <= entity[p]
        BY <1>0, <2>2, <2>3, <4>1
      <4> QED
        BY <2>2, <2>3, <2>4, <2>8, <3>2, <4>2
    <3> QED
      BY <2>5, <3>1, <3>2
  <2>10. poll' = 0 /\ completed' = completed /\ Polling'
    <3>1. \A t \in 1..Len(completed) : completed[t] \in 1..Len(pending')
      BY <1>0, <2>4 DEF Polling, Answerable
    <3> QED
      BY <1>0, <2>1, <2>4, <3>1 DEF Polling, Answerable
  <2> QED
    BY <2>4, <2>7, <2>9, <2>10 DEF Coordinator
<1>7. CASE ~ Restart /\ StartPolling
  <2>1. /\ UNCHANGED <<pending, completed, entity, loadOf>> /\ poll = 0 /\ poll' = 1
        /\ pending # <<>>
    BY <1>7 DEF StartPolling, BetweenSystems
  <2>2. Operations'
    BY <1>2, <1>3, <1>7, <2>1, SameOperations
  <2>3. Polling'
    BY <1>0, <2>1 DEF Polling, Answerable
  <2> QED
    BY <1>0, <2>1, <2>2, <2>3 DEF Coordinator, Distinct
<1>8. CASE ~ Restart /\ PollOp
  <2>1. /\ UNCHANGED <<pending, entity, loadOf>> /\ poll \in 1..Len(pending) /\ poll' = poll + 1
        /\ completed' = completed \/ completed' = Append(completed, poll)
    BY <1>8 DEF PollOp
  <2>2. Operations'
    BY <1>2, <1>3, <1>8, <2>1, SameOperations
  <2>3. /\ poll' \in 0..(Len(pending) + 1)
        /\ Answerable(completed', pending)
        /\ \A t \in 1..Len(completed') : completed'[t] < poll'
    <3>1. /\ completed \in Seq(Nat) /\ Len(completed) \in Nat
          /\ \A t \in 1..Len(completed) : completed[t] \in 1..Len(pending) /\ completed[t] < poll
          /\ \A t, u \in 1..Len(completed) : t < u => completed[t] < completed[u]
      BY <1>0 DEF Polling, Answerable
    <3>2. CASE completed' = completed
      BY <1>0, <2>1, <3>1, <3>2 DEF Answerable
    <3>3. CASE completed' = Append(completed, poll)
      <4>1. /\ completed' \in Seq(Nat) /\ Len(completed') = Len(completed) + 1
            /\ completed'[Len(completed) + 1] = poll
            /\ \A t \in 1..Len(completed) : completed'[t] = completed[t]
        BY <2>1, <3>1, <3>3
      <4>2. \A t \in 1..Len(completed') : t \in 1..Len(completed) \/ t = Len(completed) + 1
        BY <3>1, <4>1
      <4>3. ASSUME NEW t \in 1..Len(completed')
            PROVE  completed'[t] \in 1..Len(pending) /\ completed'[t] < poll'
        <5>1. poll \in Nat /\ poll < poll'
          BY <1>0, <2>1
        <5>2. CASE t \in 1..Len(completed)
          <6>1. completed'[t] \in 1..Len(pending) /\ completed'[t] < poll
            BY <3>1, <4>1, <5>2
          <6> QED
            BY <1>0, <2>1, <5>1, <6>1
        <5>3. CASE t = Len(completed) + 1
          BY <2>1, <4>1, <5>1, <5>3
        <5> QED
          BY <4>2, <5>2, <5>3
      <4>4. ASSUME NEW t \in 1..Len(completed'), NEW u \in 1..Len(completed'), t < u
            PROVE  completed'[t] < completed'[u]
        <5>1. t \in 1..Len(completed)
          BY <3>1, <4>1, <4>2, <4>4
        <5>2. completed'[t] = completed[t] /\ completed[t] < poll
          BY <3>1, <4>1, <5>1
        <5>3. CASE u \in 1..Len(completed)
          BY <3>1, <4>1, <4>4, <5>1, <5>2, <5>3
        <5>4. CASE u = Len(completed) + 1
          BY <4>1, <5>2, <5>4
        <5> QED
          BY <4>2, <5>3, <5>4
      <4> QED
        BY <1>0, <2>1, <4>1, <4>3, <4>4 DEF Answerable
    <3> QED
      BY <2>1, <3>2, <3>3
  <2> QED
    BY <1>0, <2>1, <2>2, <2>3 DEF Coordinator, Distinct, Polling
<1>9. CASE ~ Restart /\ FinishPolling
  <2>1. PICK rest \in Seq(PendingOp) :
          rest = RemoveAll(pending, completed) /\ Remaining(rest, pending, completed, 1)
    BY <1>0, RemovedAll DEF Polling
  <2>2. /\ pending' = rest /\ poll' = 0 /\ completed' = <<>>
        /\ UNCHANGED <<log, entity, loadOf>>
    BY <1>9, <2>1 DEF FinishPolling, persistenceVars
  <2>3. Distinct(rest) /\ \A k \in 1..Len(rest) : \E l \in 1..Len(pending) : rest[k] = pending[l]
    BY <2>1 DEF Remaining
  <2>4. Operations'
    BY <1>0, <2>2, <2>3 DEF Operations, IsSave
  <2>5. Polling'
    BY <2>2 DEF Polling, Answerable
  <2> QED
    BY <2>2, <2>3, <2>4, <2>5 DEF Coordinator
<1> QED
  BY <1>1, <1>4, <1>5, <1>6, <1>7, <1>8, <1>9, StepKinds DEF PollStep

\* Entities are numbered up to the bound, and none was loaded by a command still to come.
LEMMA EntitiesStep ==
  ASSUME PipelineInv, [PipelineNext]_pipelineVars
  PROVE  Entities'
<1>0. /\ entity \in [Player -> 0..MaxJoins] /\ loadOf \in [Player -> Nat] /\ MaxJoins \in Nat
      /\ \A p \in Player : loadOf[p] <= Len(log)
  BY PipelineAssumption DEF PipelineInv, Entities
<1>1. CASE Restart
  <2>1. entity' = [p \in Player |-> 0] /\ loadOf' = [p \in Player |-> 0] /\ Len(log') \in Nat
    BY <1>1 DEF Restart, Crash, ResetChannel
  <2> QED
    BY <1>0, <2>1 DEF Entities
<1>2. CASE ~ Restart /\ UNCHANGED <<entity, loadOf>>
  <2>1. Len(log) \in Nat /\ Len(log') \in Nat /\ Len(log) <= Len(log')
    BY <1>2, PipelineGrows DEF Grows
  <2>2. \A p \in Player : loadOf[p] <= Len(log')
    BY <1>0, <2>1
  <2> QED
    BY <1>0, <1>2, <2>2 DEF Entities
<1>3. CASE ApplyJoin
  <2>1. /\ entity' = [entity EXCEPT ![joining.player] = entity[joining.player] + 1]
        /\ loadOf' = [loadOf EXCEPT ![joining.player] = joining.load]
        /\ log' = log
    BY <1>3 DEF ApplyJoin, persistenceVars
  <2>2. /\ joining.player \in Player /\ joining.load \in Nat /\ joining.load <= Len(log)
        /\ entity[joining.player] < MaxJoins
    BY <1>3 DEF ApplyJoin, PipelineInv, Joining
  <2>3. entity[joining.player] + 1 \in 0..MaxJoins
    BY <1>0, <2>2
  <2> QED
    BY <1>0, <2>1, <2>2, <2>3 DEF Entities
<1>4. \A p \in Player, n \in Node, s \in 1..MaxSequence :
        Collect(p, n, s) => UNCHANGED <<entity, loadOf>>
  BY DEF Collect
<1>5. PollStep => UNCHANGED <<entity, loadOf>>
  BY DEF PollStep, StartPolling, PollOp, FinishPolling
<1> QED
  BY <1>1, <1>2, <1>3, <1>4, <1>5, StepKinds DEF Aside

\* While no join goes on a step leaves the entities alone, and it leaves the join
\* alone when it only adds commands or answers.
LEMMA JoiningStays ==
  ASSUME PipelineInv, Grows, UNCHANGED <<joining, entity>>,
         joining.stage \in {"resolve", "load"} =>
           log' = log /\ (blocked' = 0 => reply'[Len(log)] # Waiting)
  PROVE  Joining'
<1>1. Joining
  BY DEF PipelineInv
<1>2. Len(log) \in Nat /\ Len(log') \in Nat /\ Len(log) <= Len(log')
  BY DEF Grows
<1>3. ASSUME joining.stage = "flush", joining.rows # <<>>
      PROVE  joining.rows \in GivenRows(joining.player)'
  <2>1. joining.rows \in GivenRows(joining.player)
    BY <1>1, <1>3 DEF Joining
  <2>2. PICK p, rows : p = joining.player /\ rows = joining.rows
    OBVIOUS
  <2>3. rows \in GivenRows(p)'
    BY <2>1, <2>2, GivenStays
  <2> QED
    BY <2>2, <2>3
<1>4. joining.stage \in {"load", "flush"} =>
        joining.player \in Player /\ joining.load \in Nat /\ joining.load <= Len(log)
  BY <1>1 DEF Joining
<1>5. joining.stage \in {"load", "flush"} => joining.load <= Len(log')
  BY <1>2, <1>4
<1> QED
  BY <1>1, <1>3, <1>5 DEF Joining

\* A blocking call is answered before a join goes on.
LEMMA WhileBlocked ==
  ASSUME PipelineInv, joining.stage \in {"resolve", "load"}, blocked # 0
  PROVE  blocked = Len(log)
BY DEF PipelineInv, StoreInv, ChannelInv, Chan!ChannelInv, Chan!BlockedIsLast

\* A dispatch leaves its command last in the log, and the game thread blocked.
LEMMA AfterDispatch ==
  ASSUME PipelineInv, NEW c, Channel!Dispatch(c)
  PROVE  /\ Len(log) \in Nat /\ Len(log') = Len(log) + 1 /\ log'[Len(log')] = c /\ blocked' # 0
<1>1. log \in Seq(Commands) /\ Len(log) \in Nat
  BY ChannelFacts DEF PipelineInv, StoreInv
<1>2. log' = Append(log, c) /\ blocked' = Len(log) + 1
  BY DEF Channel!Dispatch, Channel!TrySend
<1> QED
  BY <1>1, <1>2

\* handle_identity_hello: its two calls one after the other, and the commands it
\* leaves; what it spawns its client with is what the database returned.
LEMMA JoiningStep ==
  ASSUME PipelineInv, [PipelineNext]_pipelineVars
  PROVE  Joining'
<1>0. /\ Joining /\ Len(log) \in Nat /\ Player = PlayerIds
      /\ joining \in [stage: {"idle", "resolve", "load", "flush"}, player: Player \cup {0},
                      load: Nat, rows: Seq(Row)]
  BY ChannelFacts, PipelineAssumption DEF PipelineInv, StoreInv, Joining
<1>1. CASE Restart \/ IdentityRefused \/ ApplyJoin
  <2>1. joining' = NotJoining
    BY <1>1 DEF Restart, IdentityRefused, ApplyJoin
  <2> QED
    BY <2>1 DEF Joining, NotJoining
<1>2. ASSUME NEW t \in Token, Hello(t) PROVE Joining'
  <2>1. /\ joining = NotJoining /\ joining' = [joining EXCEPT !.stage = "resolve"]
        /\ \A p \in Player : entity[p] < MaxJoins
        /\ entity' = entity
        /\ Channel!Dispatch([op |-> "resolve", token |-> t])
    BY <1>2 DEF Hello, ResolveIdentity
  <2>2. /\ joining'.stage = "resolve" /\ joining'.player = 0 /\ joining'.load = 0
        /\ joining'.rows = <<>>
        /\ joining' \in [stage: {"idle", "resolve", "load", "flush"}, player: Player \cup {0},
                         load: Nat, rows: Seq(Row)]
    BY <1>0, <2>1 DEF NotJoining
  <2>3. Len(log') # 0 /\ log'[Len(log')].op = "resolve" /\ blocked' # 0
    BY <2>1, AfterDispatch
  <2> QED
    BY <2>1, <2>2, <2>3 DEF Joining
<1>3. CASE IdentityResolved
  <2>1. PICK p : /\ p = LastReply.player
                 /\ joining' = [joining EXCEPT !.stage = "load", !.player = p,
                                               !.load = Len(log) + 1]
                 /\ Channel!Dispatch([op |-> "load", player |-> p])
    BY <1>3 DEF IdentityResolved, LoadInventory
  <2>2. p \in Player /\ joining.stage = "resolve" /\ entity' = entity
    BY <1>0, <1>3, <2>1, LastAnswer DEF IdentityResolved, Answered
  <2>3. /\ joining'.stage = "load" /\ joining'.player = p /\ joining'.load = Len(log) + 1
        /\ joining' \in [stage: {"idle", "resolve", "load", "flush"}, player: Player \cup {0},
                         load: Nat, rows: Seq(Row)]
    <3>1. joining' = [stage |-> "load", player |-> p, load |-> Len(log) + 1,
                      rows |-> joining.rows]
      BY <1>0, <2>1
    <3>2. Len(log) + 1 \in Nat /\ joining.rows \in Seq(Row)
      BY <1>0
    <3> QED
      BY <2>2, <3>1, <3>2
  <2>4. /\ Len(log') = Len(log) + 1 /\ log'[Len(log')] = [op |-> "load", player |-> p]
        /\ blocked' # 0
    BY <2>1, AfterDispatch
  <2>5. \A q \in Player : entity'[q] < MaxJoins
    BY <1>0, <2>2 DEF Joining
  <2>6. Len(log') # 0 /\ log'[Len(log')].op = "load" /\ log'[Len(log')].player = p
        /\ joining'.load = Len(log') /\ joining'.load <= Len(log')
    BY <1>0, <2>3, <2>4
  <2> QED
    BY <2>2, <2>3, <2>4, <2>5, <2>6 DEF Joining
<1>4. CASE InventoryLoaded
  <2>1. PICK rows : /\ rows = IF LastReply \in {Failed, Closed} THEN <<>> ELSE LastReply.rows
                    /\ joining' = [joining EXCEPT !.stage = "flush", !.rows = rows]
    BY <1>4 DEF InventoryLoaded
  <2>2. /\ joining.stage = "load" /\ blocked = 0
        /\ UNCHANGED <<entity, log, reply>>
    BY <1>4 DEF InventoryLoaded, Answered, persistenceVars
  <2>3. ASSUME rows # <<>> PROVE rows \in GivenRows(joining.player)
    <3>1. LastReply \notin {Failed, Closed} /\ rows = LastReply.rows
      BY <2>1, <2>3
    <3>2. /\ Len(log) \in 1..Len(log) /\ LastReply = reply[Len(log)]
          /\ log[Len(log)].op = "load" /\ reply[Len(log)] \notin {Waiting, Closed, Failed}
      BY <2>2, <3>1, LastAnswer
    <3>3. log[Len(log)].player = joining.player
      BY <1>0, <2>2 DEF Joining
    <3> QED
      BY <3>1, <3>2, <3>3 DEF GivenRows, Channel!Ids
  <2>4. rows \in Seq(Row)
    <3>1. rows = <<>> => rows \in Seq(Row)
      OBVIOUS
    <3>2. rows # <<>> => rows \in Seq(Row)
      BY <2>3, GivenAreRows DEF PipelineInv
    <3> QED
      BY <3>1, <3>2
  <2>5. /\ joining'.stage = "flush" /\ joining'.player = joining.player
        /\ joining'.load = joining.load /\ joining'.rows = rows
        /\ joining' \in [stage: {"idle", "resolve", "load", "flush"}, player: Player \cup {0},
                         load: Nat, rows: Seq(Row)]
    BY <1>0, <2>1, <2>4
  <2>6. ASSUME rows # <<>> PROVE rows \in GivenRows(joining.player)'
    <3>1. PICK p : p = joining.player
      OBVIOUS
    <3>2. rows \in GivenRows(p)
      BY <2>3, <2>6, <3>1
    <3>3. rows \in GivenRows(p)'
      BY <2>2, <3>2 DEF GivenRows, Channel!Ids
    <3> QED
      BY <2>5, <3>1, <3>3
  <2>7. joining.player \in Player /\ joining.load <= Len(log)
    BY <1>0, <2>2 DEF Joining
  <2>8. \A q \in Player : entity'[q] < MaxJoins
    BY <1>0, <2>2 DEF Joining
  <2> QED
    BY <2>2, <2>5, <2>6, <2>7, <2>8 DEF Joining
<1>5. CASE LoadRefused
  <2>1. PICK p : /\ p = LastReply.player
                 /\ joining' = [joining EXCEPT !.stage = "flush", !.player = p]
    BY <1>5 DEF LoadRefused
  <2>2. p \in Player /\ joining.stage = "resolve" /\ entity' = entity
    BY <1>0, <1>5, <2>1, LastAnswer DEF LoadRefused, Answered
  <2>3. joining.load = 0 /\ joining.rows = <<>>
    BY <1>0, <2>2 DEF Joining
  <2>4. /\ joining'.stage = "flush" /\ joining'.player = p /\ joining'.load = 0
        /\ joining'.rows = <<>>
        /\ joining' \in [stage: {"idle", "resolve", "load", "flush"}, player: Player \cup {0},
                         load: Nat, rows: Seq(Row)]
    BY <1>0, <2>1, <2>2, <2>3
  <2>5. \A q \in Player : entity'[q] < MaxJoins
    BY <1>0, <2>2 DEF Joining
  <2>6. Len(log') \in Nat
    BY <1>0, <1>5 DEF LoadRefused, persistenceVars
  <2> QED
    BY <2>2, <2>4, <2>5, <2>6 DEF Joining
<1>6. ASSUME Grows, UNCHANGED <<joining, entity, log, reply, blocked>> PROVE Joining'
  <2>1. joining.stage \in {"resolve", "load"} =>
          log' = log /\ (blocked' = 0 => reply'[Len(log)] # Waiting)
    BY <1>0, <1>6 DEF Joining
  <2> QED
    BY <1>6, <2>1, JoiningStays
<1>7. ASSUME ~ Restart,
             \/ \E p \in Player : World(Leave(p))
             \/ PollStep
             \/ \E p \in Player, c \in Creature : World(Feed(p, c))
             \/ World(Ticks)
             \/ UNCHANGED pipelineVars
      PROVE  Joining'
  <2>1. UNCHANGED <<joining, entity, log, reply, blocked>>
    BY <1>7 DEF World, PollStep, StartPolling, PollOp, FinishPolling, pipelineVars,
                persistenceVars
  <2> QED
    BY <1>6, <1>7, <2>1, PipelineGrows
<1>8. ASSUME ~ Restart, NEW p \in Player, NEW n \in Node, NEW s \in 1..MaxSequence,
             Collect(p, n, s)
      PROVE  Joining'
  <2>1. UNCHANGED <<joining, entity>> /\ joining.stage \in {"idle", "flush"}
    BY <1>8 DEF Collect, BetweenSystems
  <2> QED
    BY <1>8, <2>1, PipelineGrows, JoiningStays
<1>9. ASSUME ~ Restart, Database(DispatchReturn) \/ Database(WorkerStep) \/
                        Database(StatementFails) \/ Database(WorkerExit)
      PROVE  Joining'
  <2>1. Grows /\ UNCHANGED <<joining, entity>>
    BY <1>9, PipelineGrows DEF Database
  <2>2. log' = log
    BY <1>9 DEF Database, DispatchReturn, Channel!DispatchReturn, WorkerStep, WorkerReceive,
                Channel!WorkerReceive, DeleteRows, InsertRow, InsertConflict, SaveDone, ServeLoad,
                InsertIdentity, ServeResolve, Respond, Channel!WorkerReply, StatementFails,
                WorkerExit, Channel!WorkerExit
  <2>3. blocked' = blocked \/ DispatchReturn
    BY <1>9 DEF Database, WorkerStep, WorkerReceive,
                Channel!WorkerReceive, DeleteRows, InsertRow, InsertConflict, SaveDone, ServeLoad,
                InsertIdentity, ServeResolve, Respond, Channel!WorkerReply, StatementFails,
                WorkerExit, Channel!WorkerExit
  <2>4. ASSUME joining.stage \in {"resolve", "load"}, blocked' = 0
        PROVE  reply'[Len(log)] # Waiting
    <3>1. Len(log) \in 1..Len(log)
      BY <1>0, <2>4 DEF Joining
    <3>2. reply[Len(log)] # Waiting
      <4>1. CASE blocked = 0
        BY <1>0, <2>4, <4>1 DEF Joining
      <4>2. CASE blocked # 0
        <5>1. blocked = Len(log) /\ DispatchReturn
          BY <2>3, <2>4, <4>2, WhileBlocked
        <5> QED
          BY <5>1 DEF DispatchReturn, Channel!DispatchReturn
      <4> QED
        BY <4>1, <4>2
    <3> QED
      BY <2>1, <3>1, <3>2 DEF Grows
  <2> QED
    BY <2>1, <2>2, <2>4, JoiningStays
<1> QED
  BY <1>1, <1>2, <1>3, <1>4, <1>5, <1>7, <1>8, <1>9 DEF PipelineNext, JoinStep

\* What an acknowledged operation gives its player is the inventory of its rows.
LEMMA PolledOp ==
  ASSUME PipelineInv, PollOp
  PROVE  \E op \in PendingOp :
           /\ op = pending[poll] /\ op.player \in Player /\ op.rows \in Seq(Row)
           /\ op.sequence \in Nat
           /\ op.id \in 1..Len(log) /\ IsSave(op.id, op.player) /\ log[op.id].rows = op.rows
           /\ op.entity = entity[op.player] => op.id > loadOf[op.player]
           /\ \/ UNCHANGED gatheringVars
              \/ reply[op.id] = Saved /\ ApplySaved(op)
<1>1. poll \in 1..Len(pending)
  BY DEF PollOp
<1>2. PICK op \in PendingOp : op = pending[poll]
  BY <1>1 DEF PipelineInv, Coordinator
<1>3. op.player \in Player /\ op.rows \in Seq(Row) /\ op.sequence \in Nat
  BY <1>2 DEF PendingOp
<1>4. /\ op.id \in 1..Len(log) /\ IsSave(op.id, op.player) /\ log[op.id].rows = op.rows
      /\ op.entity = entity[op.player] => op.id > loadOf[op.player]
  BY <1>1, <1>2 DEF PipelineInv, Coordinator, Operations
<1>5. UNCHANGED gatheringVars \/ (reply[op.id] = Saved /\ ApplySaved(op))
  BY <1>2 DEF PollOp
<1> QED
  BY <1>2, <1>3, <1>4, <1>5

\* What a step does to the world is a step of Gathering, or a join, an
\* acknowledgement or a restart.
LEMMA WorldSteps ==
  ASSUME PipelineInv, [PipelineNext]_pipelineVars
  PROVE  \/ UNCHANGED gatheringVars
         \/ \E p \in Player : Leave(p)
         \/ \E p \in Player, c \in Creature : Feed(p, c)
         \/ Ticks
         \/ ApplyJoin \/ Restart
         \/ PollOp /\ \E op \in PendingOp :
              reply[op.id] = Saved /\ op = pending[poll] /\ ApplySaved(op)
<1>1. \A t \in Token : Hello(t) => UNCHANGED gatheringVars
  BY DEF Hello
<1>2. JoinStep => UNCHANGED gatheringVars \/ ApplyJoin
  BY DEF JoinStep, IdentityRefused, IdentityResolved, InventoryLoaded, LoadRefused
<1>3. \A p \in Player, n \in Node, s \in 1..MaxSequence :
        Collect(p, n, s) => UNCHANGED gatheringVars
  BY DEF Collect
<1>4. StartPolling \/ FinishPolling => UNCHANGED gatheringVars
  BY DEF StartPolling, FinishPolling
<1>5. PollOp => \/ UNCHANGED gatheringVars
                \/ \E op \in PendingOp :
                     reply[op.id] = Saved /\ op = pending[poll] /\ ApplySaved(op)
  BY PolledOp
<1>6. UNCHANGED pipelineVars => UNCHANGED gatheringVars
  BY DEF pipelineVars
<1> QED
  BY <1>1, <1>2, <1>3, <1>4, <1>5, <1>6 DEF PipelineNext, World, Database, PollStep

\* The world keeps its types: rows make an inventory, whoever returns them.
LEMMA WorldTypes ==
  ASSUME PipelineInv, [PipelineNext]_pipelineVars
  PROVE  GatheringTypeOK'
<1>0. /\ GatheringTypeOK /\ CooldownTicks \in Nat /\ FeedTicks \in Nat /\ RespawnTicks \in Nat
  BY GatheringAssumption DEF PipelineInv
<1>1. ASSUME UNCHANGED gatheringVars \/ (\E p \in Player : Leave(p)) \/ Ticks
                \/ \E p \in Player, c \in Creature : Feed(p, c)
      PROVE  GatheringTypeOK'
  <2>1. [GatheringNext]_gatheringVars
    BY <1>1 DEF GatheringNext
  <2> QED
    BY <1>0, <2>1, GatheringTypesStep
<1>2. CASE ApplyJoin
  <2>1. PICK p, new : /\ p = joining.player /\ new = RowsToInventory(joining.rows)
                      /\ SpawnBody(p, new) /\ UNCHANGED <<nodeVars, feedWait>>
    BY <1>2 DEF ApplyJoin
  <2>2. p \in Player /\ new \in Inventories
    BY <1>2, <2>1, InventoryOfRows DEF ApplyJoin, PipelineInv, Joining
  <2>3. body' \in [Player -> Bodies] /\ inv' \in [Player -> Inventories]
    BY <1>0, <2>1, <2>2 DEF SpawnBody, GatheringTypeOK, Bodies
  <2>4. wait' \in [Player -> 0..CooldownTicks] /\ lastSeq' \in [Player -> Nat]
    BY <1>0, <2>1, <2>2 DEF SpawnBody, GatheringTypeOK
  <2> QED
    BY <1>0, <2>1, <2>3, <2>4 DEF GatheringTypeOK, nodeVars
<1>3. CASE Restart
  BY <1>0, <1>3, EmptyIsInventory DEF Restart, GatheringTypeOK, Bodies
<1>4. ASSUME NEW op \in PendingOp, ApplySaved(op) PROVE GatheringTypeOK'
  <2>1. op.player \in Player /\ op.rows \in Seq(Row) /\ op.sequence \in Nat /\ op.node \in Node
    BY DEF PendingOp
  <2>2. inv' \in [Player -> Inventories]
    <3>1. PICK new \in Inventories : new = RowsToInventory(op.rows)
      BY <2>1, InventoryOfRows
    <3>2. inv' = [inv EXCEPT ![op.player] = new] \/ inv' = inv
      BY <1>4, <3>1 DEF ApplySaved
    <3> QED
      BY <1>0, <3>2 DEF GatheringTypeOK
  <2>3. wait' \in [Player -> 0..CooldownTicks]
    BY <1>0, <1>4 DEF ApplySaved, StartCooldown, GatheringTypeOK
  <2>4. lastSeq' \in [Player -> Nat]
    BY <1>0, <1>4, <2>1 DEF ApplySaved, RecordSequence, GatheringTypeOK
  <2>5. depleted' \in [Node -> BOOLEAN] /\ UNCHANGED <<body, timer, feedWait>>
    BY <1>0, <1>4 DEF ApplySaved, Deplete, GatheringTypeOK
  <2> QED
    BY <1>0, <2>2, <2>3, <2>4, <2>5 DEF GatheringTypeOK
<1> QED
  BY <1>1, <1>2, <1>3, <1>4, WorldSteps

-----------------------------------------------------------------------------
(* Nothing is held that was not saved. *)

\* What NothingUnsaved says of one player's inventory.
Within(new, rows) ==
  \A k \in Kinds : CountKind(new, k) <= CountKind(RowsToInventory(rows), k)

Covered(p) == inv[p] = EmptyInventory \/ \E rows \in GivenRows(p) : Within(inv[p], rows)

\* NothingUnsaved says it of all.
LEMMA AllCovered == NothingUnsaved <=> \A p \in Player : Covered(p)
BY DEF NothingUnsaved, Covered, Within

\* An inventory that stays, or goes, stays covered while commands and answers stay.
LEMMA CoveredStays ==
  ASSUME Grows, NEW p \in Player, Covered(p), inv'[p] = inv[p] \/ inv'[p] = EmptyInventory
  PROVE  Covered(p)'
<1>1. CASE inv'[p] = EmptyInventory
  BY <1>1 DEF Covered
<1>2. CASE inv'[p] = inv[p] /\ inv[p] # EmptyInventory
  <2>1. PICK rows \in GivenRows(p) : Within(inv[p], rows)
    BY <1>2 DEF Covered
  <2>2. rows \in GivenRows(p)'
    BY <2>1, GivenStays
  <2>3. Within(inv'[p], rows)
    BY <1>2, <2>1
  <2> QED
    BY <2>2, <2>3 DEF Covered
<1> QED
  BY <1>1, <1>2

\* So does an inventory that feeding took one item out of.
LEMMA CoveredAfterFeed ==
  ASSUME PipelineInv, Grows, NEW p \in Player, NEW c \in Creature, Feed(p, c)
  PROVE  Covered(p)'
<1>1. PICK slot \in 1..Slots :
        /\ inv[p][slot].kind \in Kinds
        /\ inv' = [inv EXCEPT ![p] = TakeFrom(inv[p], slot, 1)]
        /\ TakeFrom(inv[p], slot, 1) \in Inventories
  BY FeedTakes DEF PipelineInv
<1>2. inv \in [Player -> Inventories] /\ inv[p] \in Inventories
  BY DEF PipelineInv, GatheringTypeOK
<1>3. PICK new \in Inventories : new = TakeFrom(inv[p], slot, 1) /\ inv'[p] = new
  BY <1>1, <1>2
<1>4. inv[p] # EmptyInventory
  <2>1. inv[p] = EmptyInventory => inv[p][slot].kind = NoKind
    BY DEF EmptyInventory, Empty
  <2> QED
    BY <1>1, <2>1, InventoryAssumption DEF Kinds
<1>5. PICK rows \in GivenRows(p) : Within(inv[p], rows)
  BY <1>4, AllCovered DEF PipelineInv, Covered
<1>6. rows \in GivenRows(p)'
  BY <1>5, GivenStays
<1>7. RowsToInventory(rows) \in Inventories
  BY <1>5, GivenAreRows, InventoryOfRows DEF PipelineInv
<1>8. ASSUME NEW k \in Kinds
      PROVE  CountKind(new, k) <= CountKind(RowsToInventory(rows), k)
  <2>1. CountKind(TakeFrom(inv[p], slot, 1), k) <= CountKind(inv[p], k)
    BY <1>1, <1>2, TakingCounts
  <2>2. CountKind(inv[p], k) <= CountKind(RowsToInventory(rows), k)
    BY <1>5 DEF Within
  <2>3. /\ CountKind(new, k) \in Nat /\ CountKind(inv[p], k) \in Nat
        /\ CountKind(RowsToInventory(rows), k) \in Nat
    BY <1>2, <1>7, CountIsNumber
  <2> QED
    BY <1>3, <2>1, <2>2, <2>3
<1> QED
  BY <1>3, <1>6, <1>8 DEF Covered, Within

\* An inventory made from rows that are given is covered by them.
LEMMA CoveredByRows ==
  ASSUME NEW p \in Player, NEW rows \in Seq(Row),
         rows = <<>> \/ rows \in GivenRows(p)', inv'[p] = RowsToInventory(rows)
  PROVE  Covered(p)'
<1>1. CASE rows = <<>>
  BY <1>1, InventoryOfRows DEF Covered
<1>2. CASE rows \in GivenRows(p)'
  <2>1. \A k \in Kinds : CountKind(RowsToInventory(rows), k) \in Nat
    BY InventoryOfRows, CountIsNumber
  <2>2. Within(inv'[p], rows)
    BY <2>1 DEF Within
  <2> QED
    BY <1>2, <2>2 DEF Covered
<1> QED
  BY <1>1, <1>2

\* In every step of a pipeline a player holds no more than rows the database gave:
\* process_pending_transactions and the join set an inventory to such rows, and
\* nothing else adds to one.
LEMMA CoveredStep ==
  ASSUME PipelineInv, [PipelineNext]_pipelineVars
  PROVE  NothingUnsaved'
<1> SUFFICES ASSUME NEW q \in Player PROVE Covered(q)'
  BY DEF NothingUnsaved, Covered, Within
<1>0. Covered(q) /\ inv \in [Player -> Inventories]
  BY AllCovered DEF PipelineInv, GatheringTypeOK
<1>1. CASE Restart
  BY <1>1 DEF Restart, Covered
<1>2. ASSUME ~ Restart PROVE Grows
  BY <1>2, PipelineGrows
<1>3. CASE ~ Restart /\ (inv'[q] = inv[q] \/ inv'[q] = EmptyInventory)
  BY <1>0, <1>2, <1>3, CoveredStays
<1>4. CASE ~ Restart /\ (UNCHANGED gatheringVars \/ Ticks)
  <2>1. inv' = inv
    BY <1>4 DEF gatheringVars, Ticks, InitializePlayerComponents, TickPlayerCooldowns,
                TickResourceRespawn, TickFeedCooldowns, playerVars
  <2> QED
    BY <1>3, <1>4, <2>1
<1>5. ASSUME ~ Restart, NEW p \in Player, Leave(p) PROVE Covered(q)'
  BY <1>0, <1>3, <1>5 DEF Leave, DespawnBody
<1>6. ASSUME ~ Restart, NEW p \in Player, NEW c \in Creature, Feed(p, c) PROVE Covered(q)'
  <2>1. CASE p = q
    BY <1>2, <1>6, <2>1, CoveredAfterFeed
  <2>2. CASE p # q
    BY <1>0, <1>3, <1>6, <2>2 DEF Feed
  <2> QED
    BY <2>1, <2>2
<1>7. CASE ~ Restart /\ ApplyJoin
  <2>1. PICK p, rows : /\ p = joining.player /\ rows = joining.rows
                       /\ inv' = [inv EXCEPT ![p] = RowsToInventory(rows)]
    BY <1>7 DEF ApplyJoin, SpawnBody
  <2>2. p \in Player /\ rows \in Seq(Row) /\ (rows = <<>> \/ rows \in GivenRows(p))
    BY <1>7, <2>1 DEF ApplyJoin, PipelineInv, Joining
  <2>3. CASE p = q
    <3>1. rows \in GivenRows(p) => rows \in GivenRows(p)'
      BY <1>2, <1>7, GivenStays
    <3> QED
      BY <1>0, <2>1, <2>2, <2>3, <3>1, CoveredByRows
  <2>4. CASE p # q
    BY <1>0, <1>3, <1>7, <2>1, <2>4
  <2> QED
    BY <2>3, <2>4
<1>8. ASSUME ~ Restart, PollOp, NEW op \in PendingOp, reply[op.id] = Saved, op = pending[poll],
             ApplySaved(op)
      PROVE  Covered(q)'
  <2>1. PICK p, rows : p = op.player /\ rows = op.rows
    OBVIOUS
  <2>2. p \in Player /\ rows \in Seq(Row)
    BY <2>1 DEF PendingOp
  <2>3. inv' = inv \/ inv' = [inv EXCEPT ![p] = RowsToInventory(rows)]
    BY <1>8, <2>1 DEF ApplySaved
  <2>4. CASE inv' = [inv EXCEPT ![p] = RowsToInventory(rows)] /\ p = q
    <3>1. op.id \in 1..Len(log) /\ IsSave(op.id, op.player) /\ log[op.id].rows = op.rows
      BY <1>8, PolledOp
    <3>2. rows \in GivenRows(p)
      BY <1>8, <2>1, <3>1 DEF GivenRows, Channel!Ids, IsSave
    <3>3. rows \in GivenRows(p)'
      BY <1>2, <1>8, <3>2, GivenStays
    <3> QED
      BY <1>0, <2>2, <2>4, <3>3, CoveredByRows
  <2>5. CASE inv' = inv \/ p # q
    BY <1>0, <1>3, <1>8, <2>3, <2>5
  <2> QED
    BY <2>3, <2>4, <2>5
<1> QED
  BY <1>1, <1>3, <1>4, <1>5, <1>6, <1>7, <1>8, WorldSteps

-----------------------------------------------------------------------------
(* The invariant. *)

\* Every step keeps it.
LEMMA PipelineStep ==
  ASSUME PipelineInv, [PipelineNext]_pipelineVars
  PROVE  PipelineInv'
<1>1. PersistenceStep \/ UNCHANGED persistenceVars
  BY PipelinePersists DEF Restart, ServiceStep, PersistenceStep
<1>2. StoreInv' /\ LoadAnswers'
  BY <1>1, StoreStep, LoadAnswersStep DEF PipelineInv
<1> QED
  BY <1>2, WorldTypes, CoordinatorStep, EntitiesStep, JoiningStep, CoveredStep DEF PipelineInv

\* Before the first player there is nothing to track and nothing held.
LEMMA PipelineStarts == PipelineInit => PipelineInv
<1> SUFFICES ASSUME PipelineInit PROVE PipelineInv
  OBVIOUS
<1>1. StoreInv /\ GatheringTypeOK
  BY StoreStarts, GatheringTypesStart DEF PipelineInit
<1>2. /\ log = <<>> /\ inv = [p \in Player |-> EmptyInventory]
      /\ entity = [p \in Player |-> 0] /\ loadOf = [p \in Player |-> 0]
      /\ pending = <<>> /\ poll = 0 /\ completed = <<>> /\ joining = NotJoining
  BY DEF PipelineInit, PersistenceInit, Channel!Init, GatheringInit, ServerInit
<1>3. LoadAnswers
  BY <1>2 DEF LoadAnswers
<1>4. Coordinator
  BY <1>2 DEF Coordinator, Distinct, Operations, Polling, Answerable
<1>5. Entities
  BY <1>2, PipelineAssumption DEF Entities
<1>6. Joining
  BY <1>2 DEF Joining, NotJoining
<1>7. NothingUnsaved
  BY <1>2 DEF NothingUnsaved
<1> QED
  BY <1>1, <1>3, <1>4, <1>5, <1>6, <1>7 DEF PipelineInv

\* The inductive invariant of the transactional path.
THEOREM PipelineInvariant == PipelineSafety => []PipelineInv
<1>1. PipelineInv /\ [PipelineNext]_pipelineVars => PipelineInv'
  BY PipelineStep
<1> QED
  BY <1>1, PipelineStarts, PTL DEF PipelineSafety

\* "Collect actions only apply ECS mutations after persistence acknowledges": nobody
\* ever holds more of anything than some rows the database acknowledged or returned
\* for it to this process, however collects, joins, feeding, faults and crashes mix.
THEOREM NothingHeldUnsaved == PipelineSafety => []NothingUnsaved
<1>1. PipelineInv => NothingUnsaved
  BY DEF PipelineInv
<1> QED
  BY <1>1, PipelineInvariant, PTL

\* Type correctness of the coordinator, the join and all they use.
THEOREM PipelineTypes == PipelineSafety => []PipelineTypeOK
<1>1. PipelineInv => PipelineTypeOK
  <2> SUFFICES ASSUME PipelineInv PROVE PipelineTypeOK
    OBVIOUS
  <2>1. PersistenceTypeOK
    BY StoreHasTypes DEF PipelineInv
  <2>2. completed \in Seq(1..Len(pending))
    <3>1. completed \in Seq(Nat) /\ \A t \in 1..Len(completed) : completed[t] \in 1..Len(pending)
      BY DEF PipelineInv, Coordinator, Polling, Answerable
    <3> QED
      BY <3>1
  <2>3. GatheringTypeOK /\ pending \in Seq(PendingOp) /\ poll \in 0..(Len(pending) + 1)
    BY DEF PipelineInv, Coordinator, Polling
  <2>4. entity \in [Player -> 0..MaxJoins] /\ loadOf \in [Player -> Nat]
    BY DEF PipelineInv, Entities
  <2>5. joining \in [stage: {"idle", "resolve", "load", "flush"}, player: Player \cup {0},
                     load: Nat, rows: Seq(Row)]
    BY DEF PipelineInv, Joining
  <2> QED
    BY <2>1, <2>2, <2>3, <2>4, <2>5 DEF PipelineTypeOK
<1> QED
  BY <1>1, PipelineInvariant, PTL

\* process_pending_transactions removes exactly the operations it found answered,
\* for a list of any length: from the last index down, swap_remove only ever moves
\* operations it has already passed.
THEOREM PendingAreTracked == PipelineSafety => PendingTracked
<1>1. ASSUME PipelineInv, [PipelineNext]_pipelineVars,
             poll > 0, poll' = 0, crashes' = crashes
      PROVE  PendingIds' = PendingIds \ {pending[i].id : i \in Range(completed)}
  <2>1. poll \in Nat /\ crashes \in Nat
    <3>1. poll \in 0..(Len(pending) + 1) /\ crashes \in 0..MaxCrashes
      BY <1>1 DEF PipelineInv, Coordinator, Polling, StoreInv, StoreTypes
    <3> QED
      BY <3>1, PersistenceAssumption
  <2>2. FinishPolling
    <3>1. ~ Restart
      BY <1>1, <2>1 DEF Restart, Crash
    <3>2. ~ Aside
      BY <1>1, <2>1 DEF Aside
    <3>3. ~ ApplyJoin /\ \A p \in Player, n \in Node, s \in 1..MaxSequence : ~ Collect(p, n, s)
      BY <1>1, <2>1 DEF ApplyJoin, Collect
    <3>4. ~ StartPolling /\ ~ PollOp
      BY <1>1, <2>1 DEF StartPolling, PollOp
    <3> QED
      BY <1>1, <3>1, <3>2, <3>3, <3>4, StepKinds DEF PollStep
  <2>3. /\ pending \in Seq(PendingOp) /\ Distinct(pending) /\ Answerable(completed, pending)
    BY <1>1 DEF PipelineInv, Coordinator, Polling
  <2>4. PICK rest : rest = RemoveAll(pending, completed) /\ Remaining(rest, pending, completed, 1)
    BY <2>3, RemovedAll
  <2>5. pending' = rest
    BY <2>2, <2>4 DEF FinishPolling
  <2>6. IdsOf(rest) = IdsOf(pending) \ {pending[completed[t]].id : t \in 1..Len(completed)}
    BY <2>4 DEF Remaining
  <2>7. Range(completed) = {completed[t] : t \in 1..Len(completed)}
    BY <2>3 DEF Answerable, Range
  <2>8. {pending[completed[t]].id : t \in 1..Len(completed)} =
          {pending[i].id : i \in Range(completed)}
    BY <2>7
  <2>9. PendingIds' = IdsOf(rest) /\ PendingIds = IdsOf(pending)
    BY <2>5 DEF PendingIds, IdsOf
  <2> QED
    BY <2>6, <2>8, <2>9
<1>2. PipelineInv /\ [PipelineNext]_pipelineVars =>
        [poll > 0 /\ poll' = 0 /\ crashes' = crashes =>
           PendingIds' = PendingIds \ {pending[i].id : i \in Range(completed)}]_pipelineVars
  BY <1>1
<1> QED
  BY <1>2, PipelineInvariant, PTL DEF PipelineSafety, PendingTracked

\* An acknowledgement changes the inventory of a player only if the save was sent
\* after that inventory was loaded: one sent for an earlier entity of the player
\* finds another entity in its place.
THEOREM AcknowledgementsAreOwn == PipelineSafety => NoForeignAck
<1>1. ASSUME PipelineInv, [PipelineNext]_pipelineVars,
             NEW p \in Player, inv'[p] # inv[p], Polled
      PROVE  pending[poll].id > loadOf[p]
  <2>1. poll \in Nat
    BY <1>1 DEF PipelineInv, Coordinator, Polling
  <2>2. poll # 0 /\ poll' = poll + 1
    BY <1>1 DEF Polled
  <2>3. PollOp
    <3>1. ~ Restart /\ ~ Aside /\ ~ ApplyJoin
      BY <2>1, <2>2 DEF Restart, Aside, ApplyJoin
    <3>2. \A q \in Player, n \in Node, s \in 1..MaxSequence : ~ Collect(q, n, s)
      BY <2>1, <2>2 DEF Collect
    <3>3. ~ StartPolling /\ ~ FinishPolling
      BY <2>1, <2>2 DEF StartPolling, FinishPolling, BetweenSystems
    <3> QED
      BY <1>1, <3>1, <3>2, <3>3, StepKinds DEF PollStep
  <2>4. PICK op \in PendingOp :
          /\ op = pending[poll] /\ op.player \in Player
          /\ op.entity = entity[op.player] => op.id > loadOf[op.player]
          /\ UNCHANGED gatheringVars \/ (reply[op.id] = Saved /\ ApplySaved(op))
    BY <1>1, <2>3, PolledOp
  <2>5. ApplySaved(op) /\ EntityLives(op)
    BY <1>1, <2>4 DEF gatheringVars, ApplySaved
  <2>6. inv' = inv \/ inv' = [inv EXCEPT ![op.player] = RowsToInventory(op.rows)]
    BY <2>5 DEF ApplySaved
  <2>7. p = op.player
    BY <1>1, <2>6 DEF PipelineInv, GatheringTypeOK
  <2> QED
    BY <2>4, <2>5, <2>7 DEF EntityLives
<1>2. PipelineInv /\ [PipelineNext]_pipelineVars =>
        [\A p \in Player :
           (inv'[p] # inv[p] /\ Polled) => pending[poll].id > loadOf[p]]_pipelineVars
  BY <1>1
<1> QED
  BY <1>2, PipelineInvariant, PTL DEF PipelineSafety, NoForeignAck

\* What the coordinator waits for has an answer, or a worker that has its command.
OperationsAreServed ==
  \A i \in 1..Len(pending) :
    \/ reply[pending[i].id] # Waiting
    \/ alive /\ (\/ current = pending[i].id
                 \/ \E k \in 1..Len(queue) : queue[k] = pending[i].id)

\* What PendingDrains rests on besides the scheduling: no operation the coordinator tracks is
\* one that nobody will answer, whatever fault, death of the worker or restart there was.
THEOREM OperationsKeepTheirWorker == PipelineSafety => []OperationsAreServed
<1>1. ASSUME PipelineInv, NEW i \in 1..Len(pending), reply[pending[i].id] = Waiting
      PROVE  alive /\ (\/ current = pending[i].id
                       \/ \E k \in 1..Len(queue) : queue[k] = pending[i].id)
  <2>1. ChannelInv /\ pending[i].id \in 1..Len(log)
    BY <1>1 DEF PipelineInv, StoreInv, Coordinator, Operations
  <2>2. PICK id : id = pending[i].id
    OBVIOUS
  <2>3. /\ Len(queue) \in Nat /\ Len(log) \in Nat /\ current \in 0..Len(log)
    BY <2>1 DEF ChannelInv, Chan!ChannelInv, Chan!TypeOK
  <2>4. /\ id > Len(log) - (Len(queue) + (IF current = 0 THEN 0 ELSE 1))
        /\ \A k \in 1..Len(queue) : queue[k] = Len(log) - Len(queue) + k
        /\ current # 0 => current = Len(log) - Len(queue)
    BY <1>1, <2>1, <2>2
    DEF ChannelInv, Chan!ChannelInv, Chan!InOrder, Chan!Ids, Chan!Unanswered
  <2>5. alive
    <3>1. ~ alive => Len(queue) = 0 /\ current = 0
      BY <2>1 DEF ChannelInv, Chan!ChannelInv, Chan!DeadWorkerHoldsNothing
    <3> QED
      BY <2>1, <2>2, <2>3, <2>4, <3>1
  <2>6. CASE id > Len(log) - Len(queue)
    <3>1. PICK k \in 1..Len(queue) : k = id - (Len(log) - Len(queue))
      <4>1. id - (Len(log) - Len(queue)) \in 1..Len(queue)
        BY <2>1, <2>2, <2>3, <2>6
      <4> QED
        BY <4>1
    <3>2. queue[k] = id
      BY <2>1, <2>2, <2>3, <2>4, <3>1
    <3> QED
      BY <2>2, <2>5, <3>2
  <2>7. CASE ~ (id > Len(log) - Len(queue))
    BY <2>1, <2>2, <2>3, <2>4, <2>5, <2>7
  <2> QED
    BY <2>6, <2>7
<1>2. PipelineInv => OperationsAreServed
  BY <1>1 DEF OperationsAreServed
<1> QED
  BY <1>2, PipelineInvariant, PTL

\* The server is a client of the persistence service: each of its steps is one the
\* service allows, a restart of the process included, or leaves the service alone.
THEOREM PipelineUsesService ==
  PipelineSafety => PersistenceInit /\ [][PersistenceStep]_persistenceVars
<1>1. PipelineInv /\ [PipelineNext]_pipelineVars => [PersistenceStep]_persistenceVars
  BY PipelinePersists DEF Restart, ServiceStep, PersistenceStep
<1> QED
  BY <1>1, PipelineInvariant, PTL DEF PipelineSafety, PipelineInit

\* What the persistence service promises holds of the server that uses it: loads
\* return the last save sent before them, acknowledged saves stay, no two saves mix,
\* no two tokens share an id and none ever changes its own.
THEOREM ServicePromisesKept ==
  PipelineSafety =>
    /\ [](LoadReturnsLastSave /\ AcknowledgedStays /\ NeverMixed /\ IdentitiesUnique)
    /\ IdentityStable
<1>1. PipelineInv => LoadReturnsLastSave /\ AcknowledgedStays /\ NeverMixed /\ IdentitiesUnique
  BY StoreLoads, StoreStays, StoreUnmixed, StoreUnique DEF PipelineInv
<1>2. PipelineInv /\ [PersistenceStep]_persistenceVars =>
        [\A t \in Token : identities[t] # 0 => identities'[t] = identities[t]]_persistenceVars
  BY IdentityStep DEF PipelineInv, StoreInv
<1> QED
  BY <1>1, <1>2, PipelineInvariant, PipelineUsesService, PTL DEF IdentityStable
=============================================================================
