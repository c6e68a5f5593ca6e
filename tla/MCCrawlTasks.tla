---------------------------- MODULE MCCrawlTasks ----------------------------
(***************************************************************************)
(* Model-checking instances of CrawlTasks.  The state space of MCSpec has   *)
(* two halves, for the choice of busy: tasks are pushed while the spare     *)
(* proxyqueues.lua is off, or it runs and there are no tasks.               *)
(***************************************************************************)
EXTENDS CrawlTasks, TLC

CONSTANT spare   \* a filler

VARIABLE busy    \* are there tasks, or three fillers?

mcVars == <<vars, busy>>

MCInit == /\ Init
          /\ busy \in BOOLEAN
          /\ filler = [f \in Fillers |-> IF busy /\ f = spare THEN "off" ELSE "llen"]

MCNext == /\ Next
          /\ ~busy => UNCHANGED pushed
          /\ UNCHANGED busy

\* The spare filler is off where there are tasks.
MCSpec == /\ MCInit
          /\ [][MCNext]_mcVars
          /\ ClientFairness
          /\ \A f \in Fillers \ {spare} : FillerFairness(f)
=============================================================================
