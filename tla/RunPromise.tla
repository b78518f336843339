----------------------------- MODULE RunPromise -----------------------------
(***************************************************************************)
(* What the VM promises the page about its runs, whatever the machine, the *)
(* guest and the network do (web/vm/vm_run.js, the comment of class Vm and *)
(* its run(); vm/protocol/README.md 9.3).  Runs are numbered in the order  *)
(* the page asks for them.                                                 *)
(*                                                                         *)
(*   - a new run supersedes the one before it, which ends as `stopped`;    *)
(*     it never waits for it;                                              *)
(*   - so at most one run is live: the last one asked for, or none;        *)
(*   - a run is reported as started at most once, and only while live;     *)
(*   - a run ends once, and nothing is reported of it afterwards.          *)
(***************************************************************************)
EXTENDS Naturals

CONSTANT MaxRuns    \* bound: the runs the page asks for

VARIABLES
  accepted,   \* how many runs the page has asked for
  live,       \* the run that has not ended, or None
  verdict,    \* the reason each run ended with, or "no"
  starts      \* how often each run was reported as started

vars == << accepted, live, verdict, starts >>

None == 0
Runs == 1 .. MaxRuns
Reasons == {"exit", "stopped", "unresponsive", "fetch", "broken"}

Init ==
  /\ accepted = 0
  /\ live = None
  /\ verdict = [r \in Runs |-> "no"]
  /\ starts = [r \in Runs |-> 0]

Superseded == IF live = None THEN verdict ELSE [verdict EXCEPT ![live] = "stopped"]

Accept ==
  /\ accepted < MaxRuns
  /\ accepted' = accepted + 1
  /\ live' = accepted'
  /\ verdict' = Superseded
  /\ UNCHANGED starts

(* A VM that has failed takes no run any more.                             *)
Refuse ==
  /\ accepted < MaxRuns
  /\ live = None
  /\ accepted' = accepted + 1
  /\ verdict' = [verdict EXCEPT ![accepted'] = "broken"]
  /\ UNCHANGED << live, starts >>

Start ==
  /\ live # None /\ starts[live] = 0
  /\ starts' = [starts EXCEPT ![live] = 1]
  /\ UNCHANGED << accepted, live, verdict >>

Finish ==
  /\ live # None
  /\ \E reason \in Reasons : verdict' = [verdict EXCEPT ![live] = reason]
  /\ live' = None
  /\ UNCHANGED << accepted, starts >>

Next == Accept \/ Refuse \/ Start \/ Finish

Spec == Init /\ [][Next]_vars
=============================================================================
