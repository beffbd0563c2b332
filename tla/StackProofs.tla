---------------------------- MODULE StackProofs ----------------------------
(***************************************************************************)
(* What the migration runner keeps true, for any processes, checkouts and  *)
(* number of calls, on its own and inside the stack; and that a service of *)
(* the stack never runs on less than its image needs.                      *)
(***************************************************************************)
EXTENDS Stack, TLAPS, SequenceTheorems

Calls == {Off} \cup Opened \cup Applying \cup Ended

DataTypeOK ==
  /\ table \in BOOLEAN
  /\ recorded \subseteq Versions
  /\ schema \in Seq([version : Versions, by : Checkouts])
  /\ run \in [Migrators -> Calls]

\* A call that is at its files: it read versions that stay recorded, and what
\* it has executed is new, once each, after every earlier file it has.
OpenCall(m) ==
  /\ run[m].done \subseteq recorded
  /\ Executed(run[m].mine) \subseteq run[m].files
  /\ Executed(run[m].mine) \cap recorded = {}
  /\ \A i, j \in DOMAIN run[m].mine : run[m].mine[i] = run[m].mine[j] => i = j
  /\ \A j \in DOMAIN run[m].mine : \A u \in run[m].files :
       u < run[m].mine[j] => u \in run[m].done \/ \E i \in 1..(j - 1) : run[m].mine[i] = u

OpenCalls ==
  /\ \A m \in Migrators : Is(m, "apply") => OpenCall(m)
  /\ \A m, n \in Migrators : m # n /\ Is(m, "apply") /\ Is(n, "apply")
       => Executed(run[m].mine) \cap Executed(run[n].mine) = {}

MInv == DataTypeOK /\ AppliedOnce /\ OnEarlierFiles /\ OpenCalls

data == <<table, recorded, schema, run>>

-----------------------------------------------------------------------------
(* The invariant of the runner. *)

LEMMA CallShape ==
  ASSUME DataTypeOK, NEW m \in Migrators
  PROVE  /\ Is(m, "apply") => run[m] \in Applying
         /\ InTransaction(m) => run[m].files \in Checkouts
         /\ Is(m, "ended") => run[m] \in Ended
         /\ Is(m, "read") => run[m].made \in BOOLEAN
<1>1. run[m] \in Calls
  BY DEF DataTypeOK
<1> QED
  BY <1>1 DEF Calls, Off, Opened, Applying, Ended, Is, InTransaction

\* The statements that leave recorded and schema alone, and no call at its files.
LEMMA OtherStatement ==
  ASSUME MInv, NEW m \in Migrators, NEW call \in Calls,
         call.pc # "apply",
         run' = [run EXCEPT ![m] = call], UNCHANGED <<table, recorded, schema>>
  PROVE  MInv'
<1>1. DataTypeOK'
  BY DEF MInv, DataTypeOK
<1>2. \A n \in Migrators : Is(n, "apply")' => n # m /\ Is(n, "apply") /\ run'[n] = run[n]
  BY DEF MInv, DataTypeOK, Is
<1>3. OpenCalls'
  <2>1. ASSUME NEW n \in Migrators, Is(n, "apply")' PROVE OpenCall(n)'
    BY <1>2, <2>1 DEF MInv, OpenCalls, OpenCall, Executed
  <2>2. ASSUME NEW n \in Migrators, NEW o \in Migrators, n # o, Is(n, "apply")', Is(o, "apply")'
        PROVE  (Executed(run[n].mine) \cap Executed(run[o].mine) = {})'
    BY <1>2, <2>2 DEF MInv, OpenCalls, Executed
  <2> QED BY <2>1, <2>2 DEF OpenCalls
<1>4. AppliedOnce' /\ OnEarlierFiles'
  BY DEF MInv, AppliedOnce, OnEarlierFiles
<1> QED
  BY <1>1, <1>3, <1>4 DEF MInv

LEMMA ReadKeeps ==
  ASSUME MInv, NEW m \in Migrators, ReadVersions(m)
  PROVE  MInv'
<1>1. run[m].files \in Checkouts /\ run[m].made \in BOOLEAN
  BY CallShape DEF MInv, ReadVersions, Is, InTransaction
<1> DEFINE call == [pc |-> "apply", files |-> run[m].files, made |-> run[m].made,
                    done |-> recorded, mine |-> <<>>]
<1>2. call \in Applying
  BY <1>1 DEF Applying, MInv, DataTypeOK
<1>3. run' = [run EXCEPT ![m] = call] /\ UNCHANGED <<table, recorded, schema>>
  BY DEF ReadVersions
<1>4. DataTypeOK'
  BY <1>2, <1>3 DEF MInv, DataTypeOK, Calls
<1>5. run'[m] = call /\ \A n \in Migrators \ {m} : run'[n] = run[n]
  BY <1>3 DEF MInv, DataTypeOK
<1>6. Executed(run'[m].mine) = {}
  BY <1>5 DEF Executed
<1>7. OpenCalls'
  <2>1. OpenCall(m)'
    BY <1>3, <1>5, <1>6 DEF OpenCall, Executed
  <2>2. ASSUME NEW n \in Migrators \ {m}, Is(n, "apply")' PROVE OpenCall(n)'
    BY <1>3, <1>5, <2>2 DEF MInv, OpenCalls, OpenCall, Executed, Is
  <2>3. ASSUME NEW n \in Migrators, NEW o \in Migrators, n # o, Is(n, "apply")', Is(o, "apply")'
        PROVE  (Executed(run[n].mine) \cap Executed(run[o].mine) = {})'
    <3>1. CASE n = m \/ o = m
      BY <1>6, <3>1 DEF Executed
    <3>2. CASE n # m /\ o # m
      <4>1. run'[n] = run[n] /\ run'[o] = run[o] /\ Is(n, "apply") /\ Is(o, "apply")
        BY <1>5, <2>3, <3>2 DEF Is
      <4>2. Executed(run[n].mine) \cap Executed(run[o].mine) = {}
        BY <2>3, <4>1 DEF MInv, OpenCalls
      <4> QED BY <4>1, <4>2 DEF Executed
    <3> QED BY <3>1, <3>2
  <2> QED BY <2>1, <2>2, <2>3 DEF OpenCalls
<1>8. AppliedOnce' /\ OnEarlierFiles'
  BY <1>3 DEF MInv, AppliedOnce, OnEarlierFiles
<1> QED
  BY <1>4, <1>7, <1>8 DEF MInv

LEMMA ApplyKeeps ==
  ASSUME MInv, NEW m \in Migrators, NEW v \in Versions, Apply(m, v)
  PROVE  MInv'
<1>1. run[m] \in Applying /\ OpenCall(m)
  BY CallShape DEF MInv, Apply, OpenCalls
<1> DEFINE mine == run[m].mine
           call == [run[m] EXCEPT !.mine = Append(mine, v)]
<1>0. mine \in Seq(Versions) /\ Append(mine, v) \in Seq(Versions)
  BY <1>1 DEF Applying
<1>2. call \in Applying /\ call.pc = "apply" /\ call.mine = Append(mine, v)
      /\ call.files = run[m].files /\ call.done = run[m].done
  BY <1>0, <1>1 DEF Applying
<1>3. run' = [run EXCEPT ![m] = call] /\ UNCHANGED <<table, recorded, schema>>
  BY DEF Apply
<1>4. run'[m] = call /\ \A n \in Migrators \ {m} : run'[n] = run[n]
  BY <1>3 DEF MInv, DataTypeOK
<1>5. DataTypeOK'
  BY <1>2, <1>3 DEF MInv, DataTypeOK, Calls
<1>6. /\ DOMAIN Append(mine, v) = 1..(Len(mine) + 1) /\ Len(mine) \in Nat
      /\ DOMAIN mine = 1..Len(mine)
      /\ \A i \in 1..Len(mine) : Append(mine, v)[i] = mine[i]
      /\ Append(mine, v)[Len(mine) + 1] = v
  BY <1>0
<1>7. Executed(Append(mine, v)) = Executed(mine) \cup {v}
  <2> DEFINE longer == Append(mine, v)
  <2>1. /\ DOMAIN longer = 1..(Len(mine) + 1) /\ Len(mine) \in Nat
        /\ DOMAIN mine = 1..Len(mine)
        /\ \A i \in 1..Len(mine) : longer[i] = mine[i]
        /\ longer[Len(mine) + 1] = v
    BY <1>6
  <2> HIDE DEF mine, longer
  <2>2. Executed(longer) \subseteq Executed(mine) \cup {v}
    BY ONLY <2>1 DEF Executed
  <2>3. Executed(mine) \subseteq Executed(longer) /\ v \in Executed(longer)
    BY ONLY <2>1 DEF Executed
  <2> QED
    BY <2>2, <2>3 DEF longer
<1>8. /\ v \in run[m].files /\ v \notin run[m].done /\ v \notin Executed(mine)
      /\ v \notin recorded
      /\ \A n \in Migrators \ {m} : Is(n, "apply") => v \notin Executed(run[n].mine)
  BY DEF Apply, NextFile, Pending, Executing
<1>9. \A u \in run[m].files : u < v => u \in run[m].done \/ u \in Executed(mine)
  <2>1. run[m].files \subseteq Nat
    BY <1>1, CheckoutsAssumption DEF Applying
  <2> QED BY <2>1, <1>8 DEF Apply, NextFile, Pending
<1>10. OpenCall(m)'
  <2>1. \A i, j \in 1..(Len(mine) + 1) : Append(mine, v)[i] = Append(mine, v)[j] => i = j
    <3>1. ASSUME NEW i \in 1..(Len(mine) + 1), NEW j \in 1..(Len(mine) + 1),
                 Append(mine, v)[i] = Append(mine, v)[j], i # j
          PROVE  FALSE
      <4>1. CASE i \in 1..Len(mine) /\ j \in 1..Len(mine)
        BY <1>1, <1>6, <3>1, <4>1 DEF OpenCall
      <4>2. \A k \in 1..Len(mine) : Append(mine, v)[k] # v
        BY <1>6, <1>8 DEF Executed
      <4> HIDE DEF mine
      <4>3. CASE i = Len(mine) + 1 /\ j \in 1..Len(mine)
        BY <1>6, <3>1, <4>2, <4>3
      <4>4. CASE j = Len(mine) + 1 /\ i \in 1..Len(mine)
        BY <1>6, <3>1, <4>2, <4>4
      <4> QED BY <1>6, <3>1, <4>1, <4>3, <4>4
    <3> QED BY <3>1
  <2>2. ASSUME NEW j \in 1..(Len(mine) + 1), NEW u \in run[m].files, u < Append(mine, v)[j]
        PROVE  u \in run[m].done \/ \E i \in 1..(j - 1) : Append(mine, v)[i] = u
    <3>1. CASE j \in 1..Len(mine)
      <4>1. u \in run[m].done \/ \E i \in 1..(j - 1) : mine[i] = u
        BY <1>1, <1>6, <2>2, <3>1 DEF OpenCall
      <4> QED BY <4>1, <1>6, <3>1
    <3>2. CASE j = Len(mine) + 1
      BY <1>6, <1>9, <2>2, <3>2 DEF Executed
    <3> QED BY <3>1, <3>2, <1>6
  <2> QED
    BY <1>1, <1>2, <1>3, <1>4, <1>6, <1>7, <1>8, <2>1, <2>2 DEF OpenCall
<1>11. OpenCalls'
  <2>1. ASSUME NEW n \in Migrators \ {m}, Is(n, "apply")' PROVE OpenCall(n)'
    BY <1>3, <1>4, <2>1 DEF MInv, OpenCalls, OpenCall, Executed, Is
  <2>2. ASSUME NEW n \in Migrators, NEW o \in Migrators, n # o, Is(n, "apply")', Is(o, "apply")'
        PROVE  (Executed(run[n].mine) \cap Executed(run[o].mine) = {})'
    <3>1. Is(n, "apply") /\ Is(o, "apply")
      BY <1>4, <2>2 DEF Is, Apply
    <3>2. Executed(run[n].mine) \cap Executed(run[o].mine) = {}
      BY <2>2, <3>1 DEF MInv, OpenCalls
    <3>3. (n # m => Executed(run[n].mine)' = Executed(run[n].mine))
          /\ (o # m => Executed(run[o].mine)' = Executed(run[o].mine))
          /\ Executed(run[m].mine)' = Executed(mine) \cup {v}
      BY <1>2, <1>4, <1>7 DEF Executed
    <3> QED BY <1>8, <2>2, <3>1, <3>2, <3>3
  <2> QED BY <1>10, <2>1, <2>2 DEF OpenCalls
<1>12. AppliedOnce' /\ OnEarlierFiles'
  BY <1>3 DEF MInv, AppliedOnce, OnEarlierFiles
<1> QED
  BY <1>5, <1>11, <1>12 DEF MInv

LEMMA CommitKeeps ==
  ASSUME MInv, NEW m \in Migrators, Commit(m)
  PROVE  MInv'
<1> DEFINE S == [version : Versions, by : Checkouts]
           mine == run[m].mine
           L == Len(schema)
           K == Len(mine)
           call == [pc |-> "ended", files |-> run[m].files, ok |-> TRUE]
<1>1. run[m] \in Applying /\ OpenCall(m)
  BY CallShape DEF MInv, Commit, OpenCalls
<1>2. /\ mine \in Seq(Versions) /\ run[m].files \in Checkouts /\ K \in Nat /\ DOMAIN mine = 1..K
      /\ \A i \in 1..K : mine[i] \in Versions
  BY <1>1 DEF Applying
<1>3. /\ schema \in Seq(S) /\ L \in Nat /\ DOMAIN schema = 1..L
      /\ \A i \in 1..L : schema[i] \in S
  <2>1. schema \in Seq(S)
    BY DEF MInv, DataTypeOK
  <2> HIDE DEF S
  <2> QED BY <2>1
<1>4. Batch(m) = [i \in 1..K |-> [version |-> mine[i], by |-> run[m].files]]
  BY <1>2 DEF Batch
<1>5. Batch(m) \in Seq(S) /\ Len(Batch(m)) = K
  <2>1. \A i \in 1..K : [version |-> mine[i], by |-> run[m].files] \in S
    BY <1>2
  <2> HIDE DEF S, mine, K
  <2> QED BY <1>2, <1>4, <2>1
<1>6. /\ schema' \in Seq(S) /\ Len(schema') = L + K /\ DOMAIN schema' = 1..(L + K)
      /\ \A i \in 1..L : schema'[i] = schema[i]
      /\ \A i \in 1..K : schema'[L + i].version = mine[i] /\ schema'[L + i].by = run[m].files
  <2> HIDE DEF S, mine
  <2>1. schema' = schema \o Batch(m)
    BY DEF Commit
  <2>2. /\ schema' \in Seq(S) /\ Len(schema') = L + K
        /\ \A i \in 1..(L + K) : schema'[i] = IF i <= L THEN schema[i] ELSE Batch(m)[i - L]
    <3>1. /\ schema \o Batch(m) \in Seq(S)
          /\ Len(schema \o Batch(m)) = Len(schema) + Len(Batch(m))
          /\ \A i \in 1..(Len(schema) + Len(Batch(m))) :
               (schema \o Batch(m))[i] = IF i <= Len(schema) THEN schema[i]
                                         ELSE Batch(m)[i - Len(schema)]
      BY <1>3, <1>5, ConcatProperties, Zenon
    <3> QED BY <1>5, <2>1, <3>1
  <2>3. \A i \in 1..K : schema'[L + i] = Batch(m)[i]
    BY <1>2, <1>3, <2>2
  <2> QED BY <1>2, <1>3, <1>4, <2>2, <2>3
<1>7. /\ table' = TRUE /\ recorded' = recorded \cup Executed(mine)
      /\ run' = [run EXCEPT ![m] = call]
  BY DEF Commit
<1>8. DataTypeOK'
  <2>1. call \in Calls
    BY <1>2 DEF Calls, Ended
  <2>2. Executed(mine) \subseteq Versions
    BY <1>2 DEF Executed
  <2> QED BY <1>6, <1>7, <2>1, <2>2 DEF MInv, DataTypeOK
<1>9. AppliedOnce'
  <2>1. recorded = {schema[i].version : i \in 1..L} /\ Executed(mine) = {mine[i] : i \in 1..K}
    BY <1>2, <1>3 DEF MInv, AppliedOnce, Executed
  <2> HIDE DEF mine, L, K
  <2>2. \A i \in 1..(L + K) : i \in 1..L \/ \E k \in 1..K : i = L + k
    <3>1. ASSUME NEW i \in 1..(L + K), i \notin 1..L
          PROVE  i - L \in 1..K /\ i = L + (i - L)
      BY <1>2, <1>3, <3>1
    <3> QED BY <3>1
  <2>3. {schema'[i].version : i \in 1..(L + K)}
          = {schema[i].version : i \in 1..L} \cup {mine[i] : i \in 1..K}
    <3>1. \A i \in 1..L : i \in 1..(L + K)
      BY <1>2, <1>3
    <3>2. \A k \in 1..K : L + k \in 1..(L + K)
      BY <1>2, <1>3
    <3> QED BY <1>6, <2>2, <3>1, <3>2
  <2>4. ASSUME NEW i \in 1..(L + K), NEW j \in 1..(L + K), schema'[i].version = schema'[j].version
        PROVE  i = j
    <3>1. CASE i \in 1..L /\ j \in 1..L
      BY <1>3, <1>6, <2>4, <3>1 DEF MInv, AppliedOnce
    <3>2. ASSUME NEW a \in 1..L, NEW k \in 1..K, schema[a].version = mine[k]
          PROVE  FALSE
      BY <1>1, <2>1, <3>2 DEF OpenCall, mine
    <3>3. ASSUME NEW k \in 1..K, NEW l \in 1..K, i = L + k, j = L + l
          PROVE  i = j
      <4>1. mine[k] = mine[l]
        BY <1>6, <2>4, <3>3
      <4>2. k = l
        BY <1>1, <1>2, <4>1 DEF OpenCall, mine
      <4> QED BY <3>3, <4>2
    <3> QED BY <1>6, <2>2, <2>4, <3>1, <3>2, <3>3
  <2> QED BY <1>6, <1>7, <2>1, <2>3, <2>4 DEF AppliedOnce
<1>10. OnEarlierFiles'
  <2> HIDE DEF mine, L, K, S
  <2> SUFFICES ASSUME NEW j \in 1..(L + K), NEW u \in schema'[j].by, u < schema'[j].version
               PROVE  \E i \in 1..(j - 1) : schema'[i].version = u
    BY <1>6 DEF OnEarlierFiles
  <2>1. CASE j \in 1..L
    <3>1. PICK i \in 1..(j - 1) : schema[i].version = u
      BY <1>3, <1>6, <2>1 DEF MInv, OnEarlierFiles
    <3>2. i \in 1..L
      BY <1>3, <2>1
    <3> QED BY <1>6, <3>1, <3>2
  <2>2. ASSUME NEW k \in 1..K, j = L + k
        PROVE  \E i \in 1..(j - 1) : schema'[i].version = u
    <3>1. u \in run[m].files /\ u < mine[k]
      BY <1>6, <2>2
    <3>2. u \in run[m].done \/ \E i \in 1..(k - 1) : mine[i] = u
      BY <1>1, <1>2, <3>1 DEF OpenCall, mine
    <3>3. CASE u \in run[m].done
      <4>1. u \in recorded
        BY <1>1, <3>3 DEF OpenCall
      <4>2. PICK i \in 1..L : schema[i].version = u
        BY <1>3, <4>1 DEF MInv, AppliedOnce
      <4>3. i \in 1..(j - 1)
        BY <1>3, <2>2
      <4> QED BY <1>6, <4>2, <4>3
    <3>4. ASSUME NEW i \in 1..(k - 1), mine[i] = u
          PROVE  \E a \in 1..(j - 1) : schema'[a].version = u
      <4>1. i \in 1..K /\ L + i \in 1..(j - 1)
        BY <1>2, <1>3, <2>2
      <4> QED BY <1>6, <3>4, <4>1
    <3> QED BY <3>2, <3>3, <3>4
  <2>3. j \in 1..L \/ \E k \in 1..K : j = L + k
    <3>1. ASSUME j \notin 1..L
          PROVE  j - L \in 1..K /\ j = L + (j - L)
      BY <1>2, <1>3, <3>1
    <3> QED BY <3>1
  <2> QED BY <2>1, <2>2, <2>3
<1>11. OpenCalls'
  <2>1. ASSUME NEW n \in Migrators, Is(n, "apply")'
        PROVE  n # m /\ run'[n] = run[n] /\ Is(n, "apply")
    BY <1>7, <2>1 DEF MInv, DataTypeOK, Is
  <2>2. ASSUME NEW n \in Migrators, Is(n, "apply")'
        PROVE  OpenCall(n)'
    <3>1. OpenCall(n) /\ Executed(run[n].mine) \cap Executed(mine) = {}
      BY <2>1, <2>2 DEF MInv, OpenCalls, Commit
    <3>2. Executed(run[n].mine)' = Executed(run[n].mine)
      BY <2>1, <2>2 DEF Executed
    <3> QED BY <1>7, <2>1, <2>2, <3>1, <3>2 DEF OpenCall
  <2>3. ASSUME NEW n \in Migrators, NEW o \in Migrators, n # o, Is(n, "apply")', Is(o, "apply")'
        PROVE  (Executed(run[n].mine) \cap Executed(run[o].mine) = {})'
    <3>1. run'[n] = run[n] /\ run'[o] = run[o] /\ Is(n, "apply") /\ Is(o, "apply")
      BY <2>1, <2>3
    <3>2. Executed(run[n].mine) \cap Executed(run[o].mine) = {}
      BY <2>3, <3>1 DEF MInv, OpenCalls
    <3> QED BY <3>1, <3>2 DEF Executed
  <2> QED BY <2>2, <2>3 DEF OpenCalls
<1> QED
  BY <1>8, <1>9, <1>10, <1>11 DEF MInv

LEMMA FailKeeps ==
  ASSUME MInv, NEW m \in Migrators, InTransaction(m),
         run' = [run EXCEPT ![m] = [pc |-> "ended", files |-> @.files, ok |-> FALSE]],
         UNCHANGED <<table, recorded, schema>>
  PROVE  MInv'
<1> DEFINE call == [pc |-> "ended", files |-> run[m].files, ok |-> FALSE]
<1>1. call \in Calls /\ call.pc # "apply"
  BY CallShape DEF MInv, Calls, Ended
<1>2. run' = [run EXCEPT ![m] = call]
  OBVIOUS
<1> HIDE DEF call
<1> QED BY <1>1, <1>2, OtherStatement

LEMMA TableKeeps ==
  ASSUME MInv, NEW m \in Migrators, EnsureTable(m) \/ WaitForTable(m)
  PROVE  MInv'
<1>1. run[m] \in Opened
  BY DEF MInv, DataTypeOK, Calls, Off, Opened, Applying, Ended, Is, EnsureTable, WaitForTable
<1>2. CASE EnsureTable(m)
  <2> DEFINE call == [run[m] EXCEPT !.pc = "read", !.made = ~table]
  <2>1. call \in Calls /\ call.pc # "apply"
    BY <1>1 DEF Calls, Opened
  <2>2. run' = [run EXCEPT ![m] = call] /\ UNCHANGED <<table, recorded, schema>>
    BY <1>2 DEF EnsureTable
  <2> HIDE DEF call
  <2> QED BY <2>1, <2>2, OtherStatement
<1>3. CASE WaitForTable(m)
  <2> DEFINE call == [run[m] EXCEPT !.pc = "blocked"]
  <2>1. call \in Calls /\ call.pc # "apply"
    BY <1>1 DEF Calls, Opened
  <2>2. run' = [run EXCEPT ![m] = call] /\ UNCHANGED <<table, recorded, schema>>
    BY <1>3 DEF WaitForTable
  <2> HIDE DEF call
  <2> QED BY <2>1, <2>2, OtherStatement
<1> QED BY <1>2, <1>3

LEMMA BeginKeeps ==
  ASSUME MInv, NEW m \in Migrators, NEW files \in Checkouts, Begin(m, files)
  PROVE  MInv'
<1> DEFINE call == [pc |-> "table", files |-> files, made |-> FALSE]
<1>1. call \in Calls /\ call.pc # "apply"
  BY DEF Calls, Opened
<1>2. run' = [run EXCEPT ![m] = call] /\ UNCHANGED <<table, recorded, schema>>
  BY DEF Begin
<1> HIDE DEF call
<1> QED BY <1>1, <1>2, OtherStatement

LEMMA StatementKeeps ==
  ASSUME MInv, NEW m \in Migrators, Proceed(m) \/ Die(m)
  PROVE  MInv'
<1>1. CASE EnsureTable(m) \/ WaitForTable(m)
  BY <1>1, TableKeeps
<1>2. CASE ReadVersions(m)
  BY <1>2, ReadKeeps
<1>3. CASE Commit(m)
  BY <1>3, CommitKeeps
<1>4. ASSUME NEW v \in Versions, Apply(m, v) PROVE MInv'
  BY <1>4, ApplyKeeps
<1>5. CASE TableCollides(m) \/ Die(m) \/ \E v \in Versions : VersionCollides(m, v)
  BY <1>5, FailKeeps DEF TableCollides, Die, VersionCollides, Fails, InTransaction, Is
<1> QED
  BY <1>1, <1>2, <1>3, <1>4, <1>5 DEF Proceed

\* Calls of migrate(), and what leaves their data alone.
LEMMA DataStep ==
  ASSUME MInv, [MNext]_data
  PROVE  MInv'
<1>1. CASE MNext
  BY <1>1, BeginKeeps, StatementKeeps DEF MNext
<1>2. CASE UNCHANGED data
  <2>1. DataTypeOK' /\ AppliedOnce' /\ OnEarlierFiles'
    BY <1>2 DEF data, MInv, DataTypeOK, AppliedOnce, OnEarlierFiles
  <2>2. \A m \in Migrators : Is(m, "apply")' = Is(m, "apply")
    BY <1>2 DEF data, Is
  <2>3. \A m \in Migrators : OpenCall(m)' = OpenCall(m)
    BY <1>2 DEF data, OpenCall, Executed
  <2>4. \A m \in Migrators : Executed(run[m].mine)' = Executed(run[m].mine)
    BY <1>2 DEF data, Executed
  <2>5. OpenCalls'
    BY <2>2, <2>3, <2>4 DEF MInv, OpenCalls
  <2> QED BY <2>1, <2>5 DEF MInv
<1> QED BY <1>1, <1>2

LEMMA DataInit == MInit => MInv
<1> SUFFICES ASSUME MInit PROVE MInv
  OBVIOUS
<1>1. DOMAIN schema = {} /\ schema \in Seq([version : Versions, by : Checkouts])
  <2>1. schema = <<>>
    BY DEF MInit
  <2> QED BY <2>1
<1>2. DataTypeOK
  BY <1>1 DEF MInit, DataTypeOK, Calls
<1>3. AppliedOnce /\ OnEarlierFiles
  BY <1>1 DEF MInit, AppliedOnce, OnEarlierFiles
<1>4. OpenCalls
  BY DEF MInit, OpenCalls, Is, Off
<1> QED BY <1>2, <1>3, <1>4 DEF MInv

-----------------------------------------------------------------------------
(* The runner on its own. *)

LEMMA RunnerInv == MSpec => []MInv
<1>1. MInv /\ [MNext]_mvars => MInv'
  BY DataStep DEF mvars, data
<1> QED BY <1>1, DataInit, PTL DEF MSpec

\* Whoever migrates at once and whatever dies, what is recorded is what was
\* executed, once each.
THEOREM RecordedIsExecuted == MSpec => []AppliedOnce
BY RunnerInv, PTL DEF MInv

\* No file is executed on a schema that lacks an earlier one of its checkout.
THEOREM FilesInOrder == MSpec => []OnEarlierFiles
BY RunnerInv, PTL DEF MInv

LEMMA StepUpgrades ==
  ASSUME MInv, [MNext]_data
  PROVE  [Upgrades!Next]_recorded
<1>1. ASSUME NEW m \in Migrators, Commit(m)
      PROVE  \E files \in Checkouts : recorded' = recorded \cup files
  <2>1. run[m] \in Applying /\ OpenCall(m)
    BY <1>1, CallShape DEF MInv, Commit, OpenCalls
  <2>2. run[m].files \subseteq run[m].done \cup Executed(run[m].mine)
    BY <1>1 DEF Commit, Pending
  <2>3. recorded' = recorded \cup run[m].files
    BY <1>1, <2>1, <2>2 DEF Commit, OpenCall
  <2> QED BY <2>1, <2>3 DEF Applying
<1>2. CASE \A m \in Migrators : ~Commit(m)
  BY <1>2 DEF MNext, data, Begin, Proceed, Die, Fails, EnsureTable, WaitForTable, TableCollides,
              ReadVersions, Apply, VersionCollides
<1> QED BY <1>1, <1>2 DEF Upgrades!Next, Upgrades!Upgrade

\* Runs of migrate() that overlap, fail and die are whole runs, one after
\* another.
THEOREM RunnerUpgradesWhole == MSpec => WholeUpgrades
<1>1. MInit => Upgrades!Init
  BY DEF MInit, Upgrades!Init
<1>2. MInv /\ [MNext]_mvars => [Upgrades!Next]_recorded
  BY StepUpgrades DEF mvars, data
<1> QED BY <1>1, <1>2, RunnerInv, PTL DEF MSpec, WholeUpgrades, Upgrades!Spec

-----------------------------------------------------------------------------
(* The stack. *)

\* What the containers know of the database.
ReadyInv ==
  /\ \A m \in Migrators : Is(m, "ended") /\ run[m].ok => run[m].files \subseteq recorded
  /\ init = "migrate" => /\ InTransaction(InitContainer) \/ Is(InitContainer, "ended")
                         /\ run[InitContainer].files = image
  /\ init \in {"tenant", "completed"} => image \subseteq recorded
  /\ \A s \in Services : service[s] \subseteq recorded
  /\ \A s \in alive : workspace \/ s \in widowed

ContainersOK ==
  /\ service \in [Services -> SUBSET Versions] /\ alive \subseteq Services
  /\ image \in Checkouts \cup {NoImage} /\ (image = NoImage => init = "none")
  /\ \A s \in alive : service[s] # NoImage

KInv == MInv /\ ContainersOK /\ ReadyInv

LEMMA StackStep ==
  [KNext]_allvars => [MNext]_data
<1> SUFFICES ASSUME [KNext]_allvars PROVE [MNext]_data
  OBVIOUS
<1>1. ASSUME NEW files \in Checkouts, Up(files) PROVE MNext
  BY <1>1, InitAssumption DEF Up, MNext
<1>2. CASE OtherMigrate
  BY <1>2 DEF OtherMigrate, MNext
<1>3. ASSUME NEW m \in Migrators, Statement(m) \/ Killed(m) PROVE MNext
  BY <1>3 DEF Statement, Killed, MNext
<1>4. CASE Compose \/ InitDies \/ DeleteTenant \/ CreateByHand \/ \E s \in Services : Exit(s)
  BY <1>4 DEF Compose, Migrated, CreateTenant, CreateByHand, Start, Restart, InitDies, DeleteTenant, Exit,
              mvars, data
<1>5. CASE UNCHANGED allvars
  BY <1>5 DEF allvars, mvars, data
<1> QED BY <1>1, <1>2, <1>3, <1>4, <1>5 DEF KNext

\* A statement of a call, whoever makes it, moves that call alone: it keeps
\* its files, returns only when they are all recorded, and nothing recorded
\* is lost.
LEMMA StatementMoves ==
  ASSUME MInv, NEW m \in Migrators, Proceed(m) \/ Die(m)
  PROVE  /\ recorded \subseteq recorded'
         /\ \A n \in Migrators \ {m} : run'[n] = run[n]
         /\ run'[m].files = run[m].files
         /\ InTransaction(m) /\ (InTransaction(m)' \/ Is(m, "ended")')
         /\ Is(m, "ended")' /\ run'[m].ok => run[m].files \subseteq recorded'
<1> USE DEF MInv, DataTypeOK
<1>1. CASE Commit(m)
  <2>1. run[m] \in Applying /\ OpenCall(m)
    BY <1>1, CallShape DEF Commit, OpenCalls
  <2>2. run[m].files \subseteq run[m].done \cup Executed(run[m].mine)
    BY <1>1 DEF Commit, Pending
  <2>3. run[m].files \subseteq recorded'
    BY <1>1, <2>1, <2>2 DEF Commit, OpenCall
  <2> QED BY <1>1, <2>3 DEF Commit, Is, InTransaction
<1>2. CASE EnsureTable(m) \/ WaitForTable(m)
  <2>1. run[m] \in Opened
    BY <1>2 DEF Calls, Off, Opened, Applying, Ended, Is, EnsureTable, WaitForTable
  <2>2. run'[m] = [run[m] EXCEPT !.pc = "read", !.made = ~table] \/ run'[m] = [run[m] EXCEPT !.pc = "blocked"]
    BY <1>2 DEF EnsureTable, WaitForTable
  <2>3. run'[m].pc \in {"read", "blocked"} /\ run'[m].files = run[m].files
    BY <2>1, <2>2 DEF Opened
  <2>4. recorded' = recorded /\ \A n \in Migrators \ {m} : run'[n] = run[n]
    BY <1>2 DEF EnsureTable, WaitForTable
  <2>5. run[m].pc \in {"table", "blocked"}
    BY <1>2 DEF EnsureTable, WaitForTable, Is
  <2> QED BY <2>3, <2>4, <2>5 DEF Is, InTransaction
<1>3. CASE ReadVersions(m)
  BY <1>3 DEF ReadVersions, Is, InTransaction
<1>4. ASSUME NEW v \in Versions, Apply(m, v)
      PROVE  /\ recorded = recorded' /\ \A n \in Migrators \ {m} : run'[n] = run[n]
             /\ run'[m].files = run[m].files /\ run'[m].pc = "apply" /\ run[m].pc = "apply"
  <2>1. run[m] \in Applying
    BY <1>4, CallShape DEF Apply
  <2> QED BY <1>4, <2>1 DEF Apply, Is, Applying
<1>5. CASE TableCollides(m) \/ Die(m) \/ \E v \in Versions : VersionCollides(m, v)
  BY <1>5 DEF TableCollides, Die, VersionCollides, Fails, Is, InTransaction
<1> QED
  BY <1>1, <1>2, <1>3, <1>4, <1>5 DEF Proceed, Is, InTransaction

LEMMA ReadyStep ==
  ASSUME KInv, [KNext]_allvars
  PROVE  ContainersOK' /\ ReadyInv'
<1> USE DEF KInv
<1>0. \A files \in Checkouts : files \subseteq Versions
  BY DEF Versions
<1>1. ASSUME NEW files \in Checkouts, Up(files)
      PROVE  ContainersOK' /\ ReadyInv'
  <2>1. /\ run'[InitContainer] = [pc |-> "table", files |-> files, made |-> FALSE]
        /\ \A m \in Migrators \ {InitContainer} : run'[m] = run[m]
        /\ recorded' = recorded /\ init' = "migrate" /\ image' = files
        /\ workspace' = workspace
        /\ service' = [s \in Services |-> IF service[s] = files THEN files ELSE NoImage]
        /\ alive' = {s \in alive : service[s] = files}
        /\ widowed' = {s \in widowed : service[s] = files}
    BY <1>1, InitAssumption DEF Up, Begin, MInv, DataTypeOK
  <2>2. ContainersOK'
    BY <1>0, <2>1, ImageAssumption DEF ContainersOK, NoImage
  <2>4. \A s \in Services : service'[s] \subseteq recorded'
    BY <2>1 DEF ReadyInv, NoImage
  <2>5. \A s \in alive' : workspace' \/ s \in widowed'
    BY <2>1 DEF ReadyInv
  <2>3. ASSUME NEW m \in Migrators, Is(m, "ended")', run'[m].ok
        PROVE  run'[m].files \subseteq recorded'
    BY <2>1, <2>3 DEF ReadyInv, Is
  <2> QED BY <2>1, <2>2, <2>3, <2>4, <2>5 DEF ReadyInv, Is, InTransaction
<1>2. CASE OtherMigrate
  <2>1. PICK m \in Migrators \ {InitContainer}, files \in Checkouts : Begin(m, files)
    BY <1>2 DEF OtherMigrate
  <2>2. /\ run'[m] = [pc |-> "table", files |-> files, made |-> FALSE]
        /\ \A n \in Migrators \ {m} : run'[n] = run[n]
        /\ recorded' = recorded
    BY <2>1 DEF Begin, MInv, DataTypeOK
  <2>3. UNCHANGED <<image, init, service, alive, workspace, widowed>>
    BY <1>2 DEF OtherMigrate, kvars
  <2> QED BY <2>1, <2>2, <2>3, InitAssumption DEF ContainersOK, ReadyInv, Is, InTransaction
<1>3. ASSUME NEW m \in Migrators, Statement(m) \/ Killed(m)
      PROVE  ContainersOK' /\ ReadyInv'
  <2>1. UNCHANGED <<image, init, service, alive, workspace, widowed>>
    BY <1>3 DEF Statement, Killed, kvars
  <2>2. /\ recorded \subseteq recorded'
        /\ \A n \in Migrators \ {m} : run'[n] = run[n]
        /\ run'[m].files = run[m].files
        /\ InTransaction(m) /\ (InTransaction(m)' \/ Is(m, "ended")')
        /\ Is(m, "ended")' /\ run'[m].ok => run[m].files \subseteq recorded'
    BY <1>3, StatementMoves DEF Statement, Killed
  <2>3. ASSUME NEW n \in Migrators, Is(n, "ended")', run'[n].ok
        PROVE  run'[n].files \subseteq recorded'
    BY <2>2, <2>3 DEF ReadyInv, Is
  <2>4. (init = "migrate" => /\ InTransaction(InitContainer) \/ Is(InitContainer, "ended")
                             /\ run[InitContainer].files = image)'
    BY <2>1, <2>2, InitAssumption DEF ReadyInv, Is, InTransaction
  <2>5. ContainersOK'
    BY <2>1 DEF ContainersOK
  <2> QED BY <2>1, <2>2, <2>3, <2>4, <2>5 DEF ReadyInv
<1>4. CASE Migrated
  <2>1. UNCHANGED <<recorded, run, image, service, alive, workspace, widowed>>
    BY <1>4 DEF Migrated, mvars
  <2>2. init' = "failed" \/ (init' = "tenant" /\ image \subseteq recorded)
    BY <1>4, InitAssumption DEF Migrated, ReadyInv
  <2>3. init = "migrate"
    BY <1>4 DEF Migrated
  <2> QED BY <2>1, <2>2, <2>3 DEF ContainersOK, ReadyInv, Is
<1>5. CASE CreateTenant
  BY <1>5 DEF CreateTenant, mvars, ContainersOK, ReadyInv, Is
<1>6. CASE InitDies
  BY <1>6 DEF InitDies, ContainersOK, ReadyInv, Is
<1>7. ASSUME NEW s \in Services, Start(s)
      PROVE  ContainersOK' /\ ReadyInv'
  <2>1. /\ UNCHANGED <<recorded, run, image, init, workspace, widowed>>
        /\ service' = [service EXCEPT ![s] = image]
        /\ alive' = IF workspace THEN alive \cup {s} ELSE alive
        /\ init = "completed"
    BY <1>7 DEF Start, Started, mvars
  <2>2. image \subseteq recorded /\ image # NoImage /\ image \subseteq Versions
    BY <1>0, <2>1 DEF ReadyInv, ContainersOK
  <2>3. ContainersOK'
    BY <2>1, <2>2 DEF ContainersOK
  <2>4. ReadyInv'
    BY <2>1, <2>2 DEF ReadyInv, ContainersOK, Is, InTransaction
  <2> QED BY <2>3, <2>4
<1>8. ASSUME NEW s \in Services, Restart(s) \/ Exit(s)
      PROVE  ContainersOK' /\ ReadyInv'
  <2>1. /\ UNCHANGED <<recorded, run, image, init, service, workspace>>
        /\ \/ alive' = alive \ {s} /\ widowed' = widowed \ {s}
           \/ alive' = alive \cup {s} /\ widowed' = widowed /\ service[s] # NoImage /\ workspace
    BY <1>8 DEF Restart, Exit, mvars
  <2> QED BY <2>1 DEF ContainersOK, ReadyInv, Is, InTransaction
<1>9. CASE DeleteTenant \/ CreateByHand
  <2>1. /\ UNCHANGED <<recorded, run, image, init, service, alive>>
        /\ workspace' \/ widowed' = alive
    BY <1>9 DEF DeleteTenant, CreateByHand, mvars
  <2> QED BY <2>1 DEF ContainersOK, ReadyInv, Is, InTransaction
<1>10. CASE UNCHANGED allvars
  BY <1>10 DEF allvars, mvars, kvars, ContainersOK, ReadyInv, Is, InTransaction
<1> QED
  BY <1>1, <1>2, <1>3, <1>4, <1>5, <1>6, <1>7, <1>8, <1>9, <1>10 DEF KNext, Compose

LEMMA StackInv == KSpec => []KInv
<1>1. KInit => KInv
  <2> SUFFICES ASSUME KInit PROVE KInv
    OBVIOUS
  <2>1. MInv
    BY DataInit DEF KInit
  <2>2. ContainersOK /\ ReadyInv
    BY DEF KInit, MInit, ContainersOK, ReadyInv, NoImage, Is, Off
  <2> QED BY <2>1, <2>2 DEF KInv
<1>2. KInv /\ [KNext]_allvars => KInv'
  BY StackStep, DataStep, ReadyStep DEF KInv
<1> QED BY <1>1, <1>2, PTL DEF KSpec

\* A running service finds every migration of its image, and a workspace unless
\* that was deleted while it ran.
THEOREM StackIsReady == KSpec => []ReadyWhenUp
<1>1. KInv => ReadyWhenUp
  BY DEF KInv, ContainersOK, ReadyInv, ReadyWhenUp
<1> QED BY <1>1, StackInv, PTL

\* The stack leaves the runner its order, and its runs whole.
THEOREM StackKeepsTheSchema == KSpec => [](AppliedOnce /\ OnEarlierFiles) /\ WholeUpgrades
<1>1. KInit => Upgrades!Init
  BY DEF KInit, MInit, Upgrades!Init
<1>2. KInv /\ [KNext]_allvars => [Upgrades!Next]_recorded
  BY StackStep, StepUpgrades DEF KInv
<1>3. KInv => AppliedOnce /\ OnEarlierFiles
  BY DEF KInv, MInv
<1> QED BY <1>1, <1>2, <1>3, StackInv, PTL DEF KSpec, WholeUpgrades, Upgrades!Spec
=============================================================================
