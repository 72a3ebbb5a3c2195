----------------------------- MODULE MCLibrary -----------------------------
(***************************************************************************)
(* The parts that share no state with each other, each on an instance of   *)
(* its own: in a behaviour one of them runs, and the others stay in their  *)
(* first initial state.                                                    *)
(***************************************************************************)
EXTENDS Publisher, MCRows, MCMessages, MCDeployment, MCGenerator

VARIABLE part   \* the part that runs

libraryVars ==
  <<part, vars, rowVars, windowVars, messageVars, deployVars, genVars>>

LibraryInit ==
  /\ part \in {"publisher", "rows", "window", "message", "deployment", "generator"}
  /\ Init /\ DeployInit
  /\ RowInit
  /\ part # "rows" => table.rows = (CHOOSE t \in Tables : TRUE).rows /\ ~table.stamped
  /\ WindowInit
  /\ part # "window" => window = NewVector
  /\ MessageInit
  /\ part # "message" => /\ sent.row = CHOOSE r \in Rows : TRUE
                         /\ sent.topic = CHOOSE n \in TopicNames : TRUE
                         /\ received = CHOOSE r \in Leftovers : TRUE
  /\ GenInit
  /\ part # "generator" => [pool |-> pool, parameter |-> parameter] = CHOOSE i \in Invocations : TRUE

PublisherRuns ==
  /\ part = "publisher" /\ Next
  /\ UNCHANGED <<part, rowVars, windowVars, messageVars, deployVars, genVars>>

RowsRuns ==
  /\ part = "rows" /\ RowNext
  /\ UNCHANGED <<part, vars, windowVars, messageVars, deployVars, genVars>>

WindowRuns ==
  /\ part = "window" /\ WindowNext
  /\ UNCHANGED <<part, vars, rowVars, messageVars, deployVars, genVars>>

MessageRuns ==
  /\ part = "message" /\ MessageNext
  /\ UNCHANGED <<part, vars, rowVars, windowVars, deployVars, genVars>>

DeploymentRuns ==
  /\ part = "deployment" /\ DeployNext
  /\ UNCHANGED <<part, vars, rowVars, windowVars, messageVars, genVars>>

GeneratorRuns ==
  /\ part = "generator" /\ GenNext
  /\ UNCHANGED <<part, vars, rowVars, windowVars, messageVars, deployVars>>

LibraryNext ==
  \/ PublisherRuns \/ RowsRuns \/ WindowRuns \/ MessageRuns \/ DeploymentRuns \/ GeneratorRuns

LibrarySpec == LibraryInit /\ [][LibraryNext]_libraryVars
=============================================================================
