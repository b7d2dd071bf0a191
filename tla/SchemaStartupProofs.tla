-------------------------- MODULE SchemaStartupProofs -------------------------
(***************************************************************************)
(* Proofs about SchemaStartup for any processes, tables and columns: who   *)
(* serves finds the schema complete, which it becomes in one step, and a   *)
(* start fails on what another process made only when that is so.          *)
(***************************************************************************)
EXTENDS SchemaStartup, TLAPS

Object(p, i) == Stages[stage[p]][i]

(* The stages behind a process are visible to it, and so is what it looked *)
(* at in its present stage and need not make.                              *)
CoveredAt(p) ==
    pc[p] = "starting" =>
        /\ \A s \in 1..(stage[p] - 1) : ObjectsOf(s) \subseteq Visible(p)
        /\ \A i \in DOMAIN Stages[stage[p]] \ unseen[p] : i \in todo[p] \/ Object(p, i) \in Visible(p)

(* What a process found missing it has not made since, and another process *)
(* made it only with all the rest.                                         *)
MissingAt(p) ==
    pc[p] = "starting" =>
        \A i \in todo[p] :
            /\ Object(p, i) \notin own[p]
            /\ Object(p, i) \in schema => Objects \subseteq schema

Starting == \A p \in Processes : CoveredAt(p) /\ MissingAt(p)

IInv == TypeOK /\ Starting /\ ServingIsComplete

-----------------------------------------------------------------------------
(* The lists of objects: tables, then pairs of a table and a column. *)
LEMMA StageList ==
    /\ Len(Stages) \in Nat /\ Len(Stages) >= 1
    /\ DOMAIN Stages = 1..Len(Stages)
    /\ \A s \in 1..Len(Stages) : DOMAIN Stages[s] \subseteq Nat
    /\ \A i \in DOMAIN Stages[1] : \E t \in Names : Stages[1][i] = <<t>>
    /\ \A t \in Names : <<t>> \in ObjectsOf(1)
    /\ \A s \in 2..Len(Stages) : \A i \in DOMAIN Stages[s] : Stages[s][i] \in Names \X STRING
<1> DEFINE first == [i \in DOMAIN Tables |-> <<Tables[i]>>]
<1>1. Additions \in Seq(Seq(Names \X STRING)) /\ Len(Additions) \in Nat
  BY StartupAssumption
<1>2. Len(Stages) = 1 + Len(Additions) /\ DOMAIN Stages = 1..Len(Stages)
  BY <1>1 DEF Stages
<1>3. Stages[1] = first
  BY <1>1 DEF Stages
<1>4. \A s \in 2..Len(Stages) : Stages[s] = Additions[s - 1]
  BY <1>1, <1>2 DEF Stages
<1>5. \A s \in 2..Len(Stages) : Stages[s] \in Seq(Names \X STRING)
  BY <1>1, <1>2, <1>4
<1>6. \A s \in 2..Len(Stages) : \A i \in DOMAIN Stages[s] : Stages[s][i] \in Names \X STRING
  BY <1>5
<1>7. \A i \in DOMAIN Stages[1] : \E t \in Names : Stages[1][i] = <<t>>
  BY <1>3 DEF Names
<1>9. \A s \in 1..Len(Stages) : DOMAIN Stages[s] \subseteq Nat
  <2>1. DOMAIN Stages[1] \subseteq Nat
    BY <1>3, StartupAssumption
  <2>2. \A s \in 2..Len(Stages) : DOMAIN Stages[s] \subseteq Nat
    BY <1>5
  <2> QED
    BY <1>1, <1>2, <2>1, <2>2
<1>8. \A t \in Names : <<t>> \in ObjectsOf(1)
  BY <1>3 DEF Names, ObjectsOf
<1> QED
  BY <1>1, <1>2, <1>6, <1>7, <1>8, <1>9

(* Every object belongs to a table of the list, as do those it refers to. *)
LEMMA ObjectFacts ==
    /\ \A s \in 1..Len(Stages) : ObjectsOf(s) \subseteq Objects
    /\ Objects = UNION {ObjectsOf(s) : s \in 1..Len(Stages)}
    /\ \A o \in Objects : o[1] \in Names /\ <<o[1]>> \in ObjectsOf(1)
    /\ \A o \in Objects : References[o[1]] \subseteq Names
<1>1. Objects = UNION {ObjectsOf(s) : s \in 1..Len(Stages)}
  BY StageList DEF Objects, Columns
<1>2. \A s \in 1..Len(Stages) : \A o \in ObjectsOf(s) : o[1] \in Names
  <2> SUFFICES ASSUME NEW s \in 1..Len(Stages), NEW o \in ObjectsOf(s)
               PROVE  o[1] \in Names
    OBVIOUS
  <2>1. PICK i \in DOMAIN Stages[s] : o = Stages[s][i]
    BY DEF ObjectsOf
  <2>2. CASE s = 1
    BY <2>1, <2>2, StageList
  <2>3. CASE s # 1
    BY <2>1, <2>3, StageList
  <2> QED
    BY <2>2, <2>3
<1> QED
  BY <1>1, <1>2, StageList, StartupAssumption

(* A schema with every object is one that a release may have left. *)
LEMMA CompleteIsLegacy == Objects \in Legacy
BY ObjectFacts, StageList DEF Legacy

-----------------------------------------------------------------------------
LEMMA InitIInv == Init => IInv
<1> SUFFICES ASSUME Init PROVE IInv
  OBVIOUS
<1>1. TypeOK
  BY StageList, StartupAssumption DEF Init, TypeOK
<1>2. Starting /\ ServingIsComplete
  BY DEF Init, Starting, CoveredAt, MissingAt, ServingIsComplete
<1> QED
  BY <1>1, <1>2 DEF IInv

(* The last stage done, everything is visible and so becomes committed. *)
LEMMA CommitCompletes ==
    ASSUME IInv, NEW p \in Processes, Commit(p)
    PROVE  schema' = Objects
<1>1. ObjectsOf(stage[p]) \subseteq Visible(p)
  BY DEF IInv, Starting, CoveredAt, Commit, ObjectsOf, Object
<1>2. \A s \in 1..Len(Stages) : ObjectsOf(s) \subseteq Visible(p)
  BY <1>1, StageList DEF IInv, Starting, CoveredAt, Commit
<1> QED
  BY <1>2, ObjectFacts DEF Commit, Visible, IInv, TypeOK, Legacy

(* Only a commit changes the schema, and completes it. *)
LEMMA SchemaStep ==
    ASSUME IInv, [Next]_vars
    PROVE  schema' = schema \/ schema' = Objects
<1>1. ASSUME NEW p \in Processes, Commit(p) PROVE schema' = Objects
  BY <1>1, CommitCompletes
<1> QED
  BY <1>1 DEF Next, Proceed, Start, Look, Execute, NextStage, End, Crash, vars

(* The two ends of a statement. *)
Makes(p, i) ==
    /\ Object(p, i) \notin Visible(p)
    /\ todo' = [todo EXCEPT ![p] = @ \ {i}]
    /\ own' = [own EXCEPT ![p] = @ \cup Made(stage[p], Object(p, i))]
    /\ locks' = [locks EXCEPT ![p] = @ \cup LockedBy(stage[p], Object(p, i))]
    /\ UNCHANGED <<pc, stage, unseen, schema, crashes>>

LEMMA ExecuteEnds ==
    ASSUME NEW p \in Processes, Execute(p)
    PROVE  /\ pc[p] = "starting"
           /\ \E i \in todo[p] : \/ Object(p, i) \in Visible(p) /\ Die(p) /\ UNCHANGED <<schema, crashes>>
                                 \/ Makes(p, i)
BY DEF Execute, Makes, Object

LEMMA TypeStep == IInv /\ [Next]_vars => TypeOK'
<1> SUFFICES ASSUME IInv, [Next]_vars
             PROVE  TypeOK'
  OBVIOUS
<1> USE DEF IInv, TypeOK
<1>1. ASSUME NEW p \in Processes, Start(p) PROVE TypeOK'
  <2>1. 1 \in DOMAIN Stages /\ DOMAIN Stages[1] \subseteq Nat
    BY StageList
  <2> QED
    BY <1>1, <2>1 DEF Start, Enter, transaction
<1>2. ASSUME NEW p \in Processes, Look(p) PROVE TypeOK'
  BY <1>2 DEF Look, transaction
<1>3. ASSUME NEW p \in Processes, Execute(p) PROVE TypeOK'
  <2>1. PICK i \in todo[p] : \/ Die(p) /\ UNCHANGED <<schema, crashes>>
                             \/ Makes(p, i)
    BY <1>3, ExecuteEnds
  <2>2. Object(p, i) \in Objects /\ Object(p, i)[1] \in Names /\ References[Object(p, i)[1]] \subseteq Names
    BY ObjectFacts, StageList DEF ObjectsOf, Object
  <2>3. Made(stage[p], Object(p, i)) \subseteq Objects /\ LockedBy(stage[p], Object(p, i)) \subseteq Names
    BY <2>2 DEF Made, LockedBy, Objects
  <2>4. CASE Die(p) /\ UNCHANGED <<schema, crashes>>
    BY <2>4 DEF Die, EndTransaction
  <2>5. CASE Makes(p, i)
    BY <1>3, ExecuteEnds, <2>3, <2>5 DEF Makes
  <2> QED
    BY <2>1, <2>4, <2>5
<1>4. ASSUME NEW p \in Processes, NextStage(p) PROVE TypeOK'
  BY <1>4, StageList DEF NextStage, Enter, transaction
<1>5. ASSUME NEW p \in Processes, Commit(p) PROVE TypeOK'
  BY <1>5, CommitCompletes, CompleteIsLegacy DEF Commit, EndTransaction
<1>6. ASSUME NEW p \in Processes, End(p) PROVE TypeOK'
  BY <1>6 DEF End, transaction
<1>7. ASSUME NEW p \in Processes, Crash(p) PROVE TypeOK'
  BY <1>7, StartupAssumption DEF Crash, Die, EndTransaction
<1>8. ASSUME UNCHANGED vars PROVE TypeOK'
  BY <1>8 DEF vars, transaction
<1> QED
  BY <1>1, <1>2, <1>3, <1>4, <1>5, <1>6, <1>7, <1>8 DEF Next, Proceed

(* Whoever does not move loses nothing of what it sees. *)
LEMMA Unmoved ==
    ASSUME IInv, [Next]_vars, NEW q \in Processes,
           pc'[q] = pc[q], stage'[q] = stage[q], unseen'[q] = unseen[q], todo'[q] = todo[q], own'[q] = own[q]
    PROVE  CoveredAt(q)' /\ MissingAt(q)'
<1>1. CoveredAt(q) /\ MissingAt(q)
  BY DEF IInv, Starting
<1>2. schema \subseteq schema' /\ (schema' = schema \/ Objects \subseteq schema')
  BY SchemaStep DEF IInv, TypeOK, Legacy
<1>3. Visible(q) \subseteq Visible(q)'
  BY <1>2 DEF Visible
<1>4. CoveredAt(q)'
  BY <1>1, <1>3 DEF CoveredAt, Object
<1>5. MissingAt(q)'
  BY <1>1, <1>2 DEF MissingAt, Object
<1> QED
  BY <1>4, <1>5

(* Where a process stands that is no longer starting nothing is claimed. *)
LEMMA Started == ASSUME NEW p \in Processes, pc'[p] # "starting" PROVE CoveredAt(p)' /\ MissingAt(p)'
BY DEF CoveredAt, MissingAt

(* A process that enters a stage has it all before it. *)
LEMMA StartMoves == ASSUME IInv, NEW p \in Processes, Start(p) PROVE CoveredAt(p)' /\ MissingAt(p)'
BY StageList DEF IInv, TypeOK, Start, Enter, CoveredAt, MissingAt

LEMMA NextStageMoves == ASSUME IInv, NEW p \in Processes, NextStage(p) PROVE CoveredAt(p)' /\ MissingAt(p)'
<1>1. /\ stage[p] \in Nat /\ stage'[p] = stage[p] + 1 /\ pc[p] = "starting"
      /\ unseen'[p] = DOMAIN Stages[stage'[p]] /\ todo'[p] = {} /\ Visible(p)' = Visible(p)
  BY StageList DEF IInv, TypeOK, NextStage, Enter, transaction, Visible
<1>2. ObjectsOf(stage[p]) \subseteq Visible(p)
  BY DEF IInv, Starting, CoveredAt, NextStage, ObjectsOf, Object
<1>3. \A s \in 1..(stage'[p] - 1) : ObjectsOf(s) \subseteq Visible(p)
  BY <1>1, <1>2 DEF IInv, Starting, CoveredAt
<1> QED
  BY <1>1, <1>3 DEF CoveredAt, MissingAt

(* What is looked at is there or is remembered; a column's table is there. *)
LEMMA LookMoves == ASSUME IInv, NEW p \in Processes, Look(p) PROVE CoveredAt(p)' /\ MissingAt(p)'
<1>1. PICK batch \in SUBSET unseen[p] :
        /\ unseen' = [unseen EXCEPT ![p] = @ \ batch]
        /\ todo' = [todo EXCEPT ![p] = @ \cup {i \in batch :
              /\ Object(p, i) \notin Visible(p)
              /\ stage[p] # 1 => <<Object(p, i)[1]>> \in Visible(p)}]
  BY DEF Look, Object
<1>2. pc[p] = "starting" /\ UNCHANGED <<schema, pc, stage, own>>
  BY DEF Look, transaction
<1>3. Visible(p)' = Visible(p) /\ \A i : Object(p, i)' = Object(p, i)
  BY <1>2 DEF Visible, Object
<1>4. stage[p] # 1 => ObjectsOf(1) \subseteq Visible(p)
  <2>1. stage[p] \in Nat /\ stage[p] >= 1
    BY StageList DEF IInv, TypeOK
  <2>2. stage[p] # 1 => 1 \in 1..(stage[p] - 1)
    BY <2>1
  <2> QED
    BY <1>2, <2>2 DEF IInv, Starting, CoveredAt
<1>5. \A i \in batch : <<Object(p, i)[1]>> \in ObjectsOf(1)
  <2> SUFFICES ASSUME NEW i \in batch
               PROVE  <<Object(p, i)[1]>> \in ObjectsOf(1)
    OBVIOUS
  <2>1. stage[p] \in 1..Len(Stages) /\ i \in DOMAIN Stages[stage[p]]
    BY StageList DEF IInv, TypeOK
  <2>2. Object(p, i) \in Objects
    BY <2>1, ObjectFacts DEF ObjectsOf, Object
  <2> QED
    BY <2>2, ObjectFacts
<1>6. todo'[p] = todo[p] \cup {i \in batch : Object(p, i) \notin Visible(p)}
  BY <1>1, <1>4, <1>5 DEF IInv, TypeOK
<1>7. unseen'[p] = unseen[p] \ batch
  BY <1>1 DEF IInv, TypeOK
<1>8. CoveredAt(p)'
  BY <1>2, <1>3, <1>6, <1>7 DEF IInv, Starting, CoveredAt
<1>9. MissingAt(p)'
  BY <1>2, <1>3, <1>6 DEF IInv, Starting, MissingAt, Visible
<1> QED
  BY <1>8, <1>9

(* A statement makes its own object and nothing else that is to be made.   *)
LEMMA ExecuteMoves == ASSUME IInv, NEW p \in Processes, Execute(p) PROVE CoveredAt(p)' /\ MissingAt(p)'
<1>1. PICK i \in todo[p] : Die(p) \/ Makes(p, i)
  BY ExecuteEnds
<1>2. CASE Die(p)
  BY <1>2, Started DEF Die, IInv, TypeOK
<1>3. CASE Makes(p, i)
  <2>1. /\ pc[p] = "starting" /\ UNCHANGED <<schema, pc, stage, unseen>>
        /\ todo'[p] = todo[p] \ {i}
        /\ own'[p] = own[p] \cup Made(stage[p], Object(p, i))
    BY <1>3, ExecuteEnds DEF Makes, IInv, TypeOK
  <2>2. \A j : Object(p, j)' = Object(p, j)
    BY <2>1 DEF Object
  <2>3. Visible(p) \cup {Object(p, i)} \subseteq Visible(p)'
    BY <2>1 DEF Visible, Made
  <2>4. CoveredAt(p)'
    BY <2>1, <2>2, <2>3 DEF IInv, Starting, CoveredAt
  <2>5. ASSUME NEW j \in todo'[p] PROVE Object(p, j) \notin Made(stage[p], Object(p, i))
    <3>1. Object(p, j) # Object(p, i)
      BY <2>1, StartupAssumption, StageList DEF IInv, TypeOK, Object
    <3>2. CASE stage[p] = 1
      <4>1. PICK t \in Names : Object(p, j) = <<t>>
        BY <3>2, <2>1, StageList DEF IInv, TypeOK, Object
      <4>2. Columns \subseteq Names \X STRING
        BY StageList DEF Columns, ObjectsOf
      <4>3. <<t>> \notin Names \X STRING
        OBVIOUS
      <4> QED
        BY <3>1, <4>1, <4>2, <4>3 DEF Made
    <3>3. CASE stage[p] # 1
      BY <3>1, <3>3 DEF Made
    <3> QED
      BY <3>2, <3>3
  <2>6. MissingAt(p)'
    BY <2>1, <2>2, <2>5 DEF IInv, Starting, MissingAt
  <2> QED
    BY <2>4, <2>6
<1> QED
  BY <1>1, <1>2, <1>3

LEMMA StartingStep == IInv /\ [Next]_vars => Starting'
<1> SUFFICES ASSUME IInv, [Next]_vars, NEW q \in Processes
             PROVE  CoveredAt(q)' /\ MissingAt(q)'
  BY DEF Starting
<1>1. ASSUME NEW p \in Processes, p # q, Start(p) \/ Proceed(p) \/ Crash(p)
      PROVE  CoveredAt(q)' /\ MissingAt(q)'
  <2>1. pc'[q] = pc[q] /\ stage'[q] = stage[q] /\ unseen'[q] = unseen[q] /\ todo'[q] = todo[q] /\ own'[q] = own[q]
    BY <1>1 DEF IInv, TypeOK, Proceed, Start, Look, Execute, NextStage, Commit, End, Crash,
                Enter, Die, EndTransaction, transaction
  <2> QED
    BY <2>1, Unmoved
<1>2. ASSUME Commit(q) \/ End(q) \/ Crash(q) PROVE CoveredAt(q)' /\ MissingAt(q)'
  BY <1>2, Started DEF IInv, TypeOK, Commit, End, Crash, Die
<1>3. ASSUME UNCHANGED vars PROVE CoveredAt(q)' /\ MissingAt(q)'
  BY <1>3, Unmoved DEF vars, transaction
<1> QED
  BY <1>1, <1>2, <1>3, StartMoves, LookMoves, ExecuteMoves, NextStageMoves DEF Next, Proceed

LEMMA ServingStep == IInv /\ [Next]_vars => ServingIsComplete'
<1> SUFFICES ASSUME IInv, [Next]_vars, NEW q \in Processes, pc'[q] = "serving"
             PROVE  Objects \subseteq schema'
  BY DEF ServingIsComplete
<1>1. CASE pc[q] = "serving"
  BY <1>1, SchemaStep DEF IInv, ServingIsComplete
<1>2. CASE pc[q] # "serving"
  <2>1. Commit(q)
    BY <1>2 DEF IInv, TypeOK, Next, Proceed, Start, Look, Execute, NextStage, Commit, End, Crash, Die, vars
  <2> QED
    BY <2>1, CommitCompletes
<1> QED
  BY <1>1, <1>2

THEOREM Inductive == Spec => []IInv
<1>1. IInv /\ [Next]_vars => IInv'
  BY TypeStep, StartingStep, ServingStep DEF IInv
<1> QED
  BY <1>1, InitIInv, PTL DEF Spec

(* The variables have their types, and who is not in create_tables holds   *)
(* no transaction.                                                         *)
THEOREM TypeCorrect == Spec => []TypeOK
<1>1. IInv => TypeOK
  BY DEF IInv
<1> QED
  BY <1>1, Inductive, PTL

(* Whoever goes on past create_tables finds the schema complete. *)
THEOREM ServersFindTheSchema == Spec => []ServingIsComplete
<1>1. IInv => ServingIsComplete
  BY DEF IInv
<1> QED
  BY <1>1, Inductive, PTL

(* The schema becomes complete in one step. *)
THEOREM SchemaIsUpgradedAtOnce == Spec => AllOrNothing
<1>1. IInv /\ [Next]_vars => (schema' # schema => Objects \subseteq schema')
  BY SchemaStep
<1> QED
  BY <1>1, Inductive, PTL DEF Spec, AllOrNothing

(* A start fails on another's object only when nothing is left to do. *)
THEOREM FailuresAreHarmless == Spec => FailsOnlyWhenDone
<1> DEFINE Harmless == \A p \in Processes :
               pc[p] = "starting" /\ pc'[p] = "down" /\ crashes' = crashes => Objects \subseteq schema
<1>1. IInv /\ [Next]_vars => Harmless
  <2> SUFFICES ASSUME IInv, [Next]_vars, NEW p \in Processes,
                      pc[p] = "starting", pc'[p] = "down", crashes' = crashes
               PROVE  Objects \subseteq schema
    OBVIOUS
  <2>1. Execute(p)
    BY DEF IInv, TypeOK, Next, Proceed, Start, Look, Execute, NextStage, Commit, End, Crash, Die, vars
  <2>2. PICK i \in todo[p] : Object(p, i) \in Visible(p)
    BY <2>1, ExecuteEnds DEF Makes
  <2> QED
    BY <2>2 DEF IInv, Starting, MissingAt, Visible
<1> QED
  BY <1>1, Inductive, PTL DEF Spec, FailsOnlyWhenDone
===============================================================================
