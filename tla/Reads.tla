--------------------------------- MODULE Reads ---------------------------------
(***************************************************************************)
(* What is read while other processes commit: a listing of DeploymentPages *)
(* or a graph of GraphTraversal.  They share no state, so a behaviour is   *)
(* about one of them, `what`, and leaves the variables of the other as     *)
(* they are.                                                               *)
(***************************************************************************)
EXTENDS DeploymentPages

CONSTANTS Services, Others, Edges, Commits, GraphQueries, EdgesPerNode, Readers

VARIABLES what,
          db, reader, view, graphQuery, graphPhase, depth, frontier, seen, roots, selected,
          truncated, remaining, versions

G == INSTANCE GraphTraversal
       WITH Queries <- GraphQueries, query <- graphQuery, phase <- graphPhase

ASSUME GraphAssumption == G!GraphAssumption

pageVars == vars
graphVars == <<db, reader, view, graphQuery, graphPhase, depth, frontier, seen, roots,
               selected, truncated, remaining, versions>>
readVars == <<what, pageVars, graphVars>>

\* What is not read begins in one of its initial states.
ReadsInit ==
  \/ /\ what = "pages"
     /\ reader = "store" /\ graphQuery = (CHOOSE q \in GraphQueries : TRUE) /\ G!Init
     /\ Init
  \/ /\ what = "graph"
     /\ deployments = {} /\ observations = {} /\ query = (CHOOSE q \in Queries : TRUE) /\ Init
     /\ G!Init

ReadsNext ==
  \/ what = "pages" /\ Next /\ UNCHANGED <<what, graphVars>>
  \/ what = "graph" /\ G!Next /\ UNCHANGED <<what, pageVars>>

ReadsSpec == ReadsInit /\ [][ReadsNext]_readVars

-----------------------------------------------------------------------------
(* Properties                                                              *)

\* A graph that does not say it was cut is the whole of what its snapshot shows.
SnapshotIsWhole == G!SnapshotIsWhole

\* However it was cut, a graph hangs together and claims no absence that was not.
ResultIsSound == G!ResultIsSound
================================================================================
