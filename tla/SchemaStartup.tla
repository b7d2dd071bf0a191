----------------------------- MODULE SchemaStartup ----------------------------
(***************************************************************************)
(* Processes that start on one PostgreSQL database, servers and the        *)
(* super-admin command: each brings the schema up to date before it goes   *)
(* on (core/database.py, create_tables), in one READ COMMITTED transaction *)
(* and with statements that fail where their object exists.  The objects   *)
(* of the schema are tables and the columns that later releases added.     *)
(***************************************************************************)
EXTENDS Integers, Sequences

CONSTANTS
    Servers,     \* restarted by Docker whenever they end
    Commands,    \* runs of the super-admin command: each ends by itself
    Tables,      \* in the order in which create_all visits them
    References,  \* the tables that the foreign keys of a table name
    Additions,   \* the <<table, column>> pairs of each function that ensures columns, in order
    MaxCrashes   \* TLC only: crashes that a behaviour has

Processes == Servers \cup Commands
Names == {Tables[i] : i \in DOMAIN Tables}

(* create_all, then one function after the other.  An object is <<table>>  *)
(* or <<table, column>>.                                                   *)
Stages == <<[i \in DOMAIN Tables |-> <<Tables[i]>>]>> \o Additions
ObjectsOf(s) == {Stages[s][i] : i \in DOMAIN Stages[s]}
Columns == UNION {ObjectsOf(s) : s \in 2..Len(Stages)}
Objects == ObjectsOf(1) \cup Columns

ASSUME StartupAssumption ==
    /\ Tables \in Seq(STRING)
    /\ References \in [Names -> SUBSET Names]
    /\ Additions \in Seq(Seq(Names \X STRING))
    /\ MaxCrashes \in Nat
    /\ \A s \in DOMAIN Stages : \A i, j \in DOMAIN Stages[s] : Stages[s][i] = Stages[s][j] => i = j

(* A new table has every column that its class maps. *)
Made(s, o) == {o} \cup {c \in Columns : s = 1 /\ c[1] = o[1]}

(* The tables that a statement locks until its transaction ends. *)
LockedBy(s, o) == {o[1]} \cup {t \in References[o[1]] : s = 1}

(* Any schema that earlier releases may have left. *)
Legacy == {s \in SUBSET Objects :
    \A o \in s : <<o[1]>> \in s /\ \A t \in References[o[1]] : <<t>> \in s}

VARIABLES
    schema,        \* what is committed
    pc,
    stage,         \* the stage that a process is in
    unseen, todo,  \* the positions in it that are not looked at, and those found missing
    own, locks,    \* what its transaction has made and holds
    crashes
vars == <<schema, pc, stage, unseen, todo, own, locks, crashes>>
transaction == <<own, locks>>

(* The variables have their types, and a process outside create_tables     *)
(* holds no transaction (core/database.py, create_tables).                 *)
TypeOK ==
    /\ schema \in Legacy
    /\ pc \in [Processes -> {"down", "starting", "serving"}]
    /\ stage \in [Processes -> DOMAIN Stages]
    /\ unseen \in [Processes -> SUBSET Nat] /\ todo \in [Processes -> SUBSET Nat]
    /\ \A p \in Processes : unseen[p] \cup todo[p] \subseteq DOMAIN Stages[stage[p]]
    /\ own \in [Processes -> SUBSET Objects]
    /\ locks \in [Processes -> SUBSET Names]
    /\ crashes \in 0..MaxCrashes
    /\ \A p \in Processes : pc[p] # "starting" => own[p] = {} /\ locks[p] = {}

Init ==
    /\ schema \in Legacy
    /\ pc = [p \in Processes |-> "down"]
    /\ stage = [p \in Processes |-> 1]
    /\ unseen = [p \in Processes |-> {}]
    /\ todo = [p \in Processes |-> {}]
    /\ own = [p \in Processes |-> {}]
    /\ locks = [p \in Processes |-> {}]
    /\ crashes = 0

(* What p's statements see: what is committed and what it made itself. *)
Visible(p) == schema \cup own[p]

First(S, i) == i \in S /\ \A j \in S : i <= j

Enter(p, s) ==
    /\ stage' = [stage EXCEPT ![p] = s]
    /\ unseen' = [unseen EXCEPT ![p] = DOMAIN Stages[s]]
    /\ todo' = [todo EXCEPT ![p] = {}]

EndTransaction(p) ==
    /\ own' = [own EXCEPT ![p] = {}]
    /\ locks' = [locks EXCEPT ![p] = {}]

(* Slip: the connection is kept and its transaction stays open. *)
DieWithOpenTransaction(p) ==
    /\ pc' = [pc EXCEPT ![p] = "down"]
    /\ UNCHANGED <<stage, unseen, todo, transaction>>

(* The error leaves create_tables, whose transaction is rolled back, and   *)
(* ends the process.                                                       *)
Die(p) ==
    /\ pc' = [pc EXCEPT ![p] = "down"]
    /\ EndTransaction(p)
    /\ UNCHANGED <<stage, unseen, todo>>

-----------------------------------------------------------------------------
Start(p) ==
    /\ pc[p] = "down"
    /\ pc' = [pc EXCEPT ![p] = "starting"]
    /\ Enter(p, 1)
    /\ UNCHANGED <<schema, transaction, crashes>>

(* create_all asks for one table after the other; the columns of a table   *)
(* are read at once, and passed over where there is no such table.  Tables *)
(* are asked for in the order in which they are made.                      *)
Look(p) ==
    /\ pc[p] = "starting" /\ unseen[p] # {}
    /\ \E batch \in SUBSET unseen[p] :
        LET Object(i) == Stages[stage[p]][i] IN
        /\ IF stage[p] = 1 THEN \E i \in batch : First(unseen[p], i) /\ batch = {i} ELSE batch = unseen[p]
        /\ unseen' = [unseen EXCEPT ![p] = @ \ batch]
        /\ todo' = [todo EXCEPT ![p] = @ \cup {i \in batch :
              /\ Object(i) \notin Visible(p)
              /\ stage[p] # 1 => <<Object(i)[1]>> \in Visible(p)}]
    /\ UNCHANGED <<schema, pc, stage, transaction, crashes>>

(* Slip: a connection in autocommit mode. *)
ExecuteAndCommit(p) ==
    \E i \in todo[p] :
        LET o == Stages[stage[p]][i] IN
        /\ pc[p] = "starting" /\ unseen[p] = {} /\ First(todo[p], i)
        /\ IF o \in schema
           THEN Die(p) /\ UNCHANGED schema
           ELSE /\ todo' = [todo EXCEPT ![p] = @ \ {i}]
                /\ schema' = schema \cup Made(stage[p], o)
                /\ UNCHANGED <<pc, stage, unseen, transaction>>
        /\ UNCHANGED crashes

(* Slip: a statement that failed is tried again in the same transaction. *)
ExecuteAgain(p) ==
    \E i \in todo[p] :
        LET o == Stages[stage[p]][i] IN
        /\ pc[p] = "starting" /\ unseen[p] = {} /\ First(todo[p], i)
        /\ \A q \in Processes \ {p} : LockedBy(stage[p], o) \cap locks[q] = {}
        /\ IF o \in Visible(p)
           THEN UNCHANGED <<todo, own, locks>>
           ELSE /\ todo' = [todo EXCEPT ![p] = @ \ {i}]
                /\ own' = [own EXCEPT ![p] = @ \cup Made(stage[p], o)]
                /\ locks' = [locks EXCEPT ![p] = @ \cup LockedBy(stage[p], o)]
        /\ UNCHANGED <<schema, pc, stage, unseen, crashes>>

(* CREATE TABLE or ADD COLUMN waits for the locks of other transactions.   *)
(* An object that is there by then makes it fail.                          *)
Execute(p) ==
    \E i \in todo[p] :
        LET o == Stages[stage[p]][i] IN
        /\ pc[p] = "starting" /\ unseen[p] = {} /\ First(todo[p], i)
        /\ \A q \in Processes \ {p} : LockedBy(stage[p], o) \cap locks[q] = {}
        /\ IF o \in Visible(p)
           THEN Die(p)
           ELSE /\ todo' = [todo EXCEPT ![p] = @ \ {i}]
                /\ own' = [own EXCEPT ![p] = @ \cup Made(stage[p], o)]
                /\ locks' = [locks EXCEPT ![p] = @ \cup LockedBy(stage[p], o)]
                /\ UNCHANGED <<pc, stage, unseen>>
        /\ UNCHANGED <<schema, crashes>>

NextStage(p) ==
    /\ pc[p] = "starting" /\ unseen[p] = {} /\ todo[p] = {}
    /\ stage[p] < Len(Stages)
    /\ Enter(p, stage[p] + 1)
    /\ UNCHANGED <<schema, pc, transaction, crashes>>

(* Slip: the function added last is never called. *)
CommitEarly(p) ==
    /\ pc[p] = "starting" /\ unseen[p] = {} /\ todo[p] = {}
    /\ stage[p] = Len(Stages) - 1
    /\ pc' = [pc EXCEPT ![p] = "serving"]
    /\ schema' = schema \cup own[p]
    /\ EndTransaction(p)
    /\ UNCHANGED <<stage, unseen, todo, crashes>>

Commit(p) ==
    /\ pc[p] = "starting" /\ unseen[p] = {} /\ todo[p] = {}
    /\ stage[p] = Len(Stages)
    /\ pc' = [pc EXCEPT ![p] = "serving"]
    /\ schema' = schema \cup own[p]
    /\ EndTransaction(p)
    /\ UNCHANGED <<stage, unseen, todo, crashes>>

(* A command ends when its own work is done. *)
End(p) ==
    /\ p \in Commands /\ pc[p] = "serving"
    /\ pc' = [pc EXCEPT ![p] = "down"]
    /\ UNCHANGED <<schema, stage, unseen, todo, transaction, crashes>>

(* A process is killed, or loses or never reaches the database: its        *)
(* transaction is rolled back.                                             *)
Crash(p) ==
    /\ pc[p] # "down" /\ crashes < MaxCrashes
    /\ crashes' = crashes + 1
    /\ Die(p)
    /\ UNCHANGED schema

-----------------------------------------------------------------------------
Proceed(p) == Look(p) \/ Execute(p) \/ NextStage(p) \/ Commit(p) \/ End(p)
Next == \E p \in Processes : Start(p) \/ Proceed(p) \/ Crash(p)

Spec == Init /\ [][Next]_vars

(* What runs goes on; Docker restarts servers, nobody need run a command.  *)
FairSpec ==
    /\ Spec
    /\ \A p \in Processes : WF_vars(Proceed(p))
    /\ \A p \in Servers : WF_vars(Start(p))

(* Whoever goes on past create_tables finds every table and column there,  *)
(* though it looked at each at another moment (main.py, lifespan).         *)
ServingIsComplete == \A p \in Processes : pc[p] = "serving" => Objects \subseteq schema

(* The schema goes from what an earlier release left to complete in one    *)
(* step, whoever crashes or fails on the way (database.py, create_tables). *)
AllOrNothing == [][schema' # schema => Objects \subseteq schema']_vars

(* A start fails on an object that another process made only when nothing  *)
(* is left to do, so that the restart goes through.                        *)
FailsOnlyWhenDone ==
    [][\A p \in Processes :
        pc[p] = "starting" /\ pc'[p] = "down" /\ crashes' = crashes => Objects \subseteq schema]_vars

(* Servers that start together, fail on each other's statements, wait for  *)
(* each other's locks or crash all come up in the end and stay up.         *)
EveryoneServes == \A p \in Servers : <>[](pc[p] = "serving")
===============================================================================
